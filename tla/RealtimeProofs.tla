--------------------------- MODULE RealtimeProofs ---------------------------
(***************************************************************************)
(* Proofs about Realtime for every set of users and connections and any    *)
(* number of events, with the service killed and events failing anywhere.  *)
(***************************************************************************)
EXTENDS Realtime, SequenceTheorems, TLAPS

Sorted(s) == \A i, j \in DOMAIN s : i < j => s[i] < s[j]
InOrderAlone(s) ==
  \A i, j \in DOMAIN s : i < j /\ s[i].live = s[j].live => s[i].ev < s[j].ev

\* The two paths of an event to a user: by his queue, in which it is, from which a
\* device took it, or from which one received it; and live.
Queued == [u \in Users |-> {e \in Event :
  \/ e \in In(queue[u])
  \/ \E c \in Conns : /\ conn[c].user = u
                      /\ \/ e \in In(conn[c].batch)
                         \/ \E d \in In(got[c]) : ~d.live /\ d.ev = e}]
SentLive == [u \in Users |-> {e \in Event :
  \E c \in Conns : /\ conn[c].user = u
                   /\ \E d \in In(got[c]) : d.live /\ d.ev = e}]
Known == [u \in Users |-> Queued[u] \cup SentLive[u]]

\* What the steps of a connection, the table of sockets and the listener fit.
ConnFits(c) ==
  LET k == conn[c] IN
  /\ k.pc = "free" <=> k.user = NoUser
  /\ k.pc = "free" => got[c] = <<>> /\ ~k.alive
  /\ k.pc \notin {"delete", "drain"} => k.batch = <<>>
  /\ k.pc \in {"accepted", "online", "delete"} => \A d \in In(got[c]) : d.live
SocketsFit == \A u \in Users : \A c \in sockets[u] : conn[c].user = u
Serving == {"send", "sending", "enqueue"}
ListenerFits ==
  /\ listener.pc = "idle" => listener = Listening
  /\ listener.pc # "idle" => listener.ev \in Event
  /\ listener.pc = "each" => listener.user = NoUser
  /\ listener.pc \in Serving => listener.user \in Users \ listener.todo
  /\ listener.pc = "sending" =>
       \A c \in listener.targets : conn[c].user = listener.user

\* What is on the bus is sorted and newer than everything that has left it.
BusAhead ==
  /\ Sorted(bus)
  /\ \A b \in In(bus) : /\ b <= published
                        /\ listener.ev < b
                        /\ \A u \in Users : \A e \in Known[u] : e < b
Published ==
  /\ listener.ev <= published
  /\ \A u \in Users : \A e \in Known[u] : e <= published

\* The event in hand is newer than all that is known of a user who waits for it,
Awaiting(u) == \/ listener.pc # "idle" /\ u \in listener.todo
               \/ listener.pc \in {"send", "enqueue"} /\ u = listener.user
New == \A u \in Users : Awaiting(u) => \A e \in Known[u] : e < listener.ev
\* and while it is being sent newer than all that came by the queue and than all
\* that the devices have which it was not sent to yet.
Sending ==
  listener.pc = "sending" =>
    /\ \A e \in Queued[listener.user] : e < listener.ev
    /\ \A c \in listener.targets : \A d \in In(got[c]) : d.ev < listener.ev

OnePathEach == \A u \in Users : Queued[u] \cap SentLive[u] = {}

\* Queues are sorted, and a device has yet to receive what is newer.
QueueOrder ==
  /\ \A u \in Users : Sorted(queue[u])
  /\ \A c \in Conns :
       /\ Sorted(conn[c].batch)
       /\ \A e \in In(conn[c].batch) : \A d \in In(got[c]) : ~d.live => d.ev < e

\* While no connection of his has run its finally block, the listener has dropped a
\* user's socket from the table only when its client was gone.
Dead == /\ \A c \in listener.dead : ~conn[c].alive /\ conn[c].pc # "free"
        /\ listener.pc = "sending" /\ ~listener.kept => ~NoneLeft(listener.user)
Found == \A c \in Conns : NoneLeft(conn[c].user) =>
           /\ conn[c].pc \in Shown => conn[c].user \in online
           /\ conn[c].pc \in Shown \cup {"accepted"} /\ conn[c].alive =>
                c \in sockets[conn[c].user]

\* What a connection has read and is about to delete is in the queue still, unless
\* another of the user deleted it and holds or sent it, or a step has said that it
\* dropped it.
Stored == [u \in Users |-> {e \in Event :
  \/ e \in In(queue[u])
  \/ \E c \in Conns : /\ conn[c].user = u
                      /\ \/ conn[c].pc # "delete" /\ e \in In(conn[c].batch)
                         \/ \E d \in In(got[c]) : ~d.live /\ d.ev = e}]
Backed == \A c \in Conns : conn[c].pc = "delete" =>
            \A e \in In(conn[c].batch) :
              e \in Stored[conn[c].user] \/ <<conn[c].user, e>> \in lost

\* When the last send has ended the user was sent the event, or it was lost.
Served ==
  listener.pc = "sending" /\ listener.targets = {} =>
    \/ <<listener.user, listener.ev>> \in lost
    \/ listener.ev \in SentLive[listener.user]

Shape == /\ TypeOK
         /\ \A c \in Conns : ConnFits(c)
         /\ SocketsFit
         /\ ListenerFits
Order == /\ BusAhead /\ Published
         /\ New /\ Sending
         /\ OnePathEach
         /\ QueueOrder /\ InOrder

IInv == Shape /\ Order /\ Served /\ Accounted /\ Backed /\ Dead /\ Found

-----------------------------------------------------------------------------
(***************************************************************************)
(* Sequences                                                               *)
(***************************************************************************)
LEMMA EmptyIn == In(<<>>) = {} /\ Sorted(<<>>) /\ InOrderAlone(<<>>)
  BY DEF In, Sorted, InOrderAlone

LEMMA AppendIn ==
  ASSUME NEW S, NEW s \in Seq(S), NEW x \in S
  PROVE  Append(s, x) \in Seq(S) /\ In(Append(s, x)) = In(s) \cup {x}
<1> DEFINE t == Append(s, x)
<1>1. /\ t \in Seq(S) /\ Len(t) = Len(s) + 1 /\ Len(s) \in Nat
      /\ DOMAIN s = 1..Len(s) /\ DOMAIN t = 1..Len(t)
      /\ \A i \in 1..Len(s) : t[i] = s[i]
      /\ t[Len(s) + 1] = x
  BY AppendProperties, LenProperties
<1> HIDE DEF t
<1>2. DOMAIN t = DOMAIN s \cup {Len(s) + 1}
  BY <1>1
<1>3. In(t) = In(s) \cup {x}
  BY <1>1, <1>2 DEF In
<1>4. QED
  BY <1>1, <1>3 DEF t

LEMMA TailIn ==
  ASSUME NEW S, NEW s \in Seq(S), s # <<>>
  PROVE  /\ Head(s) \in S /\ Tail(s) \in Seq(S)
         /\ In(s) = {Head(s)} \cup In(Tail(s))
<1> DEFINE t == Tail(s)
<1>1. /\ Head(s) \in S /\ t \in Seq(S) /\ Len(t) = Len(s) - 1 /\ Len(s) \in Nat
      /\ DOMAIN s = 1..Len(s) /\ DOMAIN t = 1..Len(t)
      /\ \A i \in 1..Len(t) : t[i] = s[i + 1]
      /\ Head(s) = s[1] /\ Len(s) # 0
  BY HeadTailProperties, LenProperties, EmptySeq
<1> HIDE DEF t
<1>3. In(s) \subseteq {Head(s)} \cup In(t)
  <2>1. ASSUME NEW i \in 1..Len(s), i # 1 PROVE s[i] \in In(t)
    <3>1. i - 1 \in DOMAIN t /\ t[i - 1] = s[i]
      BY <1>1, <2>1
    <3>2. QED
      BY <3>1 DEF In
  <2>2. QED
    BY <1>1, <2>1 DEF In
<1>4. {Head(s)} \cup In(t) \subseteq In(s)
  <2>1. 1 \in DOMAIN s
    BY <1>1
  <2>2. ASSUME NEW k \in 1..Len(t) PROVE t[k] \in In(s)
    <3>1. k + 1 \in DOMAIN s /\ t[k] = s[k + 1]
      BY <1>1
    <3>2. QED
      BY <3>1 DEF In
  <2>3. QED
    BY <1>1, <2>1, <2>2 DEF In
<1>5. QED
  BY <1>1, <1>3, <1>4 DEF t

LEMMA InType ==
  ASSUME NEW S, NEW s \in Seq(S)
  PROVE  In(s) \subseteq S /\ (In(s) = {} => s = <<>>)
<1>1. /\ Len(s) \in Nat /\ s \in [1..Len(s) -> S] /\ DOMAIN s = 1..Len(s)
      /\ s # <<>> => Len(s) # 0
  BY LenProperties, EmptySeq
<1>2. s # <<>> => 1 \in DOMAIN s
  BY <1>1
<1>3. QED
  BY <1>1, <1>2 DEF In

LEMMA AppendSorted ==
  ASSUME NEW s \in Seq(Event), NEW x \in Event, Sorted(s), \A e \in In(s) : e < x
  PROVE  Sorted(Append(s, x))
<1> DEFINE t == Append(s, x)
<1>1. /\ Len(t) = Len(s) + 1 /\ Len(s) \in Nat
      /\ DOMAIN s = 1..Len(s) /\ DOMAIN t = 1..Len(t)
      /\ \A i \in 1..Len(s) : t[i] = s[i]
      /\ t[Len(s) + 1] = x
  BY AppendProperties, LenProperties
<1> HIDE DEF t
<1> SUFFICES ASSUME NEW i \in DOMAIN t, NEW j \in DOMAIN t, i < j PROVE t[i] < t[j]
  BY DEF Sorted, t
<1>2. i \in 1..Len(s)
  BY <1>1
<1>3. CASE j \in 1..Len(s)
  BY <1>1, <1>2, <1>3 DEF Sorted
<1>4. CASE j = Len(s) + 1
  BY <1>1, <1>2, <1>4 DEF In
<1>5. QED
  BY <1>1, <1>3, <1>4

LEMMA TailSorted ==
  ASSUME NEW s \in Seq(Event), s # <<>>, Sorted(s)
  PROVE  Sorted(Tail(s)) /\ \A e \in In(Tail(s)) : Head(s) < e
<1> DEFINE t == Tail(s)
<1>1. /\ Len(t) = Len(s) - 1 /\ Len(s) \in Nat
      /\ DOMAIN s = 1..Len(s) /\ DOMAIN t = 1..Len(t)
      /\ \A i \in 1..Len(t) : t[i] = s[i + 1]
      /\ Head(s) = s[1] /\ Len(s) # 0
  BY HeadTailProperties, LenProperties, EmptySeq
<1> HIDE DEF t
<1>2. ASSUME NEW i \in DOMAIN t PROVE i + 1 \in DOMAIN s /\ t[i] = s[i + 1] /\ 1 < i + 1
  BY <1>1
<1>3. ASSUME NEW i \in DOMAIN t, NEW j \in DOMAIN t, i < j PROVE t[i] < t[j]
  <2>1. i + 1 < j + 1
    BY <1>1, <1>3
  <2>2. QED
    BY <1>2, <2>1 DEF Sorted
<1>4. 1 \in DOMAIN s
  BY <1>1
<1>5. ASSUME NEW i \in DOMAIN t PROVE Head(s) < t[i]
  BY <1>1, <1>2, <1>4 DEF Sorted
<1>6. QED
  BY <1>3, <1>5 DEF Sorted, In, t

LEMMA AppendInOrder ==
  ASSUME NEW s \in Seq(Delivery), NEW x \in Delivery, InOrderAlone(s),
         \A d \in In(s) : d.live = x.live => d.ev < x.ev
  PROVE  InOrderAlone(Append(s, x))
<1> DEFINE t == Append(s, x)
<1>1. /\ Len(t) = Len(s) + 1 /\ Len(s) \in Nat
      /\ DOMAIN s = 1..Len(s) /\ DOMAIN t = 1..Len(t)
      /\ \A i \in 1..Len(s) : t[i] = s[i]
      /\ t[Len(s) + 1] = x
  BY AppendProperties, LenProperties
<1> HIDE DEF t
<1> SUFFICES ASSUME NEW i \in DOMAIN t, NEW j \in DOMAIN t, i < j, t[i].live = t[j].live
             PROVE  t[i].ev < t[j].ev
  BY DEF InOrderAlone, t
<1>2. i \in 1..Len(s)
  BY <1>1
<1>3. CASE j \in 1..Len(s)
  BY <1>1, <1>2, <1>3 DEF InOrderAlone
<1>4. CASE j = Len(s) + 1
  BY <1>1, <1>2, <1>4 DEF In
<1>5. QED
  BY <1>1, <1>3, <1>4

LEMMA EventIsNat == Event \subseteq Nat /\ \A e \in Event : e # 0
  BY MaxEventsAssumption DEF Event

-----------------------------------------------------------------------------
(***************************************************************************)
(* Types, and what fits together                                           *)
(***************************************************************************)
\* A connection changes alone.
OnlyConn(c) == \A d \in Conns \ {c} : conn'[d] = conn[d] /\ got'[d] = got[d]

LEMMA ConnUpdate ==
  ASSUME TypeOK, NEW c \in Conns, NEW k \in Connection,
         conn' = [conn EXCEPT ![c] = k]
  PROVE  /\ conn' \in [Conns -> Connection] /\ conn'[c] = k
         /\ \A d \in Conns \ {c} : conn'[d] = conn[d]
BY DEF TypeOK

LEMMA GotoUpdate ==
  ASSUME TypeOK, NEW c \in Conns, NEW pc, Goto(c, pc),
         pc \in {"online", "drain", "open", "left"}
  PROVE  /\ conn' \in [Conns -> Connection]
         /\ conn'[c] = [conn[c] EXCEPT !.pc = pc]
         /\ conn'[c].pc = pc /\ conn'[c].user = conn[c].user
         /\ conn'[c].alive = conn[c].alive /\ conn'[c].batch = conn[c].batch
         /\ \A d \in Conns \ {c} : conn'[d] = conn[d]
<1>1. conn[c] \in Connection
  BY DEF TypeOK
<1>2. [conn[c] EXCEPT !.pc = pc] \in Connection
  BY <1>1 DEF Connection
<1>3. conn' = [conn EXCEPT ![c] = [conn[c] EXCEPT !.pc = pc]]
  BY DEF Goto
<1>4. QED
  BY <1>1, <1>2, <1>3, ConnUpdate DEF Connection

LEMMA AcceptShape ==
  ASSUME Shape, NEW c \in Conns, NEW u \in Users, Accept(c, u)
  PROVE  Shape'
<1>1. TypeOK /\ ConnFits(c) /\ conn[c] \in Connection /\ got[c] = <<>>
      /\ conn[c].user = NoUser
  BY DEF Shape, TypeOK, Accept, ConnFits, At
<1> DEFINE k == [pc |-> "accepted", user |-> u, alive |-> TRUE, stalled |-> FALSE,
                 batch |-> <<>>]
<1>2. k \in Connection
  BY EmptySeq DEF Connection
<1>3. conn' = [conn EXCEPT ![c] = k]
  BY DEF Accept
<1>4. /\ conn' \in [Conns -> Connection] /\ conn'[c] = k
      /\ \A d \in Conns \ {c} : conn'[d] = conn[d]
  BY <1>1, <1>2, <1>3, ConnUpdate
<1>5. TypeOK'
  BY <1>1, <1>4 DEF Accept, TypeOK
<1>6. \A d \in Conns : ConnFits(d)'
  BY <1>1, <1>4, NoUserAssumption, EmptyIn DEF Shape, ConnFits, Accept
<1>7. SocketsFit'
  BY <1>1, <1>4, NoUserAssumption DEF Shape, SocketsFit, Accept, TypeOK
<1>8. ListenerFits'
  BY <1>1, <1>4, NoUserAssumption DEF Shape, ListenerFits, Serving, Accept
<1>9. QED
  BY <1>5, <1>6, <1>7, <1>8 DEF Shape

LEMMA ListeningType ==
  Listening \in Listener /\ [Listening EXCEPT !.kept = FALSE] = Listening
<1>1. Listening \in Listener /\ Listening.kept = FALSE
  BY MaxEventsAssumption DEF Listening, Listener
<1>2. \A l \in Listener : [l EXCEPT !.kept = l.kept] = l
  BY DEF Listener
<1>3. QED
  BY <1>1, <1>2, Zenon

\* The steps of a connection after the first keep its user.
LEMMA ConnShape ==
  ASSUME Shape, NEW c \in Conns, TypeOK', OnlyConn(c), ConnFits(c)',
         conn'[c].user = conn[c].user,
         \A u \in Users : sockets'[u] \subseteq sockets[u],
         \E b \in BOOLEAN : (b => listener.kept) /\ listener' = [listener EXCEPT !.kept = b]
  PROVE  Shape'
<1>1. listener \in Listener
  BY DEF Shape, TypeOK
<1>2. /\ listener'.pc = listener.pc /\ listener'.ev = listener.ev
      /\ listener'.user = listener.user /\ listener'.todo = listener.todo
      /\ listener'.targets = listener.targets /\ listener'.dead = listener.dead
  BY <1>1 DEF Listener
<1>3. \A d \in Conns : conn'[d].user = conn[d].user
  BY DEF OnlyConn
<1>4. \A d \in Conns : ConnFits(d)'
  BY DEF Shape, ConnFits, OnlyConn
<1>5. SocketsFit'
  BY <1>3 DEF Shape, TypeOK, SocketsFit
<1>6. listener.pc = "idle" => listener' = Listening
  <2>1. PICK b \in BOOLEAN : (b => listener.kept) /\ listener' = [listener EXCEPT !.kept = b]
    OBVIOUS
  <2>2. listener.pc = "idle" => listener = Listening
    BY DEF Shape, ListenerFits
  <2>3. [Listening EXCEPT !.kept = FALSE] = Listening /\ ~Listening.kept
    BY ListeningType DEF Listening
  <2>4. listener.pc = "idle" => b = FALSE
    BY <2>1, <2>2, <2>3
  <2>5. QED
    BY <2>1, <2>2, <2>3, <2>4
<1>7. ListenerFits'
  BY <1>1, <1>2, <1>3, <1>6 DEF Shape, ListenerFits, Serving, Listener
<1>8. QED
  BY <1>4, <1>5, <1>7 DEF Shape

\* The listener as it is.
LEMMA SameListener ==
  ASSUME TypeOK, UNCHANGED listener
  PROVE  \E b \in BOOLEAN : (b => listener.kept) /\ listener' = [listener EXCEPT !.kept = b]
<1>1. listener.kept \in BOOLEAN /\ listener = [listener EXCEPT !.kept = listener.kept]
  BY DEF TypeOK, Listener
<1>2. QED
  BY <1>1

\* What is known of a connection at work.
LEMMA AtWork ==
  ASSUME Shape, NEW c \in Conns, conn[c].pc # "free"
  PROVE  /\ conn[c] \in Connection /\ conn[c].user \in Users
         /\ queue[conn[c].user] \in Seq(Event)
         /\ conn[c].batch \in Seq(Event) /\ got[c] \in Seq(Delivery)
BY DEF Shape, TypeOK, ConnFits, Connection

LEMMA AddOnlineShape ==
  ASSUME Shape, NEW c \in Conns, AddOnline(c)
  PROVE  Shape' /\ OnlyConn(c) /\ conn'[c].user = conn[c].user
         /\ conn'[c].pc = "online" /\ conn'[c].batch = conn[c].batch
         /\ conn'[c].alive = conn[c].alive
<1>1. TypeOK /\ ConnFits(c) /\ At(c, "accepted") /\ Goto(c, "online")
  BY DEF Shape, AddOnline
<1>2. /\ conn' \in [Conns -> Connection]
      /\ conn'[c].pc = "online" /\ conn'[c].user = conn[c].user
      /\ conn'[c].batch = conn[c].batch /\ conn'[c].alive = conn[c].alive
      /\ \A d \in Conns \ {c} : conn'[d] = conn[d]
  BY <1>1, GotoUpdate
<1>3. TypeOK'
  BY <1>1, <1>2, AtWork DEF AddOnline, TypeOK, At
<1>4. ConnFits(c)'
  BY <1>1, <1>2 DEF ConnFits, AddOnline, At
<1>5. QED
  BY <1>1, <1>2, <1>3, <1>4, ConnShape, SameListener DEF AddOnline, OnlyConn

\* A connection goes on with another step and another batch.
LEMMA TurnUpdate ==
  ASSUME TypeOK, NEW c \in Conns, NEW batch \in Seq(Event),
         NEW pc \in {"delete", "drain", "open"},
         conn' = [conn EXCEPT ![c] = [conn[c] EXCEPT !.batch = batch, !.pc = pc]]
  PROVE  /\ conn' \in [Conns -> Connection]
         /\ conn'[c].pc = pc /\ conn'[c].batch = batch
         /\ conn'[c].user = conn[c].user /\ conn'[c].alive = conn[c].alive
         /\ \A d \in Conns \ {c} : conn'[d] = conn[d]
<1> DEFINE k == [conn[c] EXCEPT !.batch = batch, !.pc = pc]
<1>1. conn[c] \in Connection
  BY DEF TypeOK
<1>2. /\ k \in Connection /\ k.pc = pc /\ k.batch = batch
      /\ k.user = conn[c].user /\ k.alive = conn[c].alive
  BY <1>1 DEF Connection
<1> HIDE DEF k
<1>3. conn' = [conn EXCEPT ![c] = k]
  BY DEF k
<1>4. QED
  BY <1>2, <1>3, ConnUpdate

\* A step to another pc is one that keeps the batch.
LEMMA GotoTurn ==
  ASSUME TypeOK, NEW c \in Conns, NEW pc, Goto(c, pc)
  PROVE  conn' = [conn EXCEPT ![c] = [conn[c] EXCEPT !.batch = conn[c].batch, !.pc = pc]]
<1>1. conn[c] \in Connection
  BY DEF TypeOK
<1>2. [conn[c] EXCEPT !.pc = pc] = [conn[c] EXCEPT !.batch = conn[c].batch, !.pc = pc]
  BY <1>1 DEF Connection
<1>3. QED
  BY <1>2 DEF Goto

LEMMA ReadQueueShape ==
  ASSUME Shape, NEW c \in Conns, ReadQueue(c)
  PROVE  Shape' /\ OnlyConn(c) /\ conn'[c].user = conn[c].user
         /\ conn'[c].pc \in {"open", "delete"} /\ conn'[c].alive = conn[c].alive
         /\ conn'[c].batch \in {queue[conn[c].user], <<>>}
<1> DEFINE waiting == queue[conn[c].user]
<1>1. TypeOK /\ ConnFits(c) /\ At(c, "online") /\ conn[c].batch = <<>>
  BY DEF Shape, ReadQueue, ConnFits, At
<1>2. conn[c].user \in Users /\ waiting \in Seq(Event)
  BY <1>1, AtWork DEF At
<1>3. \E batch \in {waiting, <<>>}, pc \in {"open", "delete"} :
         /\ conn' = [conn EXCEPT ![c] = [conn[c] EXCEPT !.batch = batch, !.pc = pc]]
         /\ pc = "open" => batch = <<>>
  <2>1. CASE Goto(c, "open")
    <3>1. conn' = [conn EXCEPT ![c] = [conn[c] EXCEPT !.batch = conn[c].batch,
                                                      !.pc = "open"]]
      BY <1>1, <2>1, GotoTurn
    <3>2. conn' = [conn EXCEPT ![c] = [conn[c] EXCEPT !.batch = <<>>, !.pc = "open"]]
      BY <1>1, <3>1
    <3>3. QED
      BY <3>2
  <2>2. CASE conn' = [conn EXCEPT ![c].batch = waiting,
                                  ![c].pc = IF waiting = <<>> THEN "open" ELSE "delete"]
    <3> DEFINE pc == IF waiting = <<>> THEN "open" ELSE "delete"
    <3>1. conn' = [conn EXCEPT ![c] = [conn[c] EXCEPT !.batch = waiting, !.pc = pc]]
      BY <2>2
    <3>2. pc \in {"open", "delete"} /\ (pc = "open" => waiting = <<>>)
      OBVIOUS
    <3>3. QED
      BY <3>1, <3>2
  <2>3. QED
    BY <2>1, <2>2 DEF ReadQueue
<1>4. PICK batch \in {waiting, <<>>}, pc \in {"open", "delete"} :
         /\ conn' = [conn EXCEPT ![c] = [conn[c] EXCEPT !.batch = batch, !.pc = pc]]
         /\ pc = "open" => batch = <<>>
  BY <1>3
<1>5. batch \in Seq(Event)
  BY <1>2, <1>4, EmptySeq
<1>6. /\ conn' \in [Conns -> Connection]
      /\ conn'[c].pc = pc /\ conn'[c].batch = batch
      /\ conn'[c].user = conn[c].user /\ conn'[c].alive = conn[c].alive
      /\ \A d \in Conns \ {c} : conn'[d] = conn[d]
  BY <1>1, <1>4, <1>5, TurnUpdate
<1>7. TypeOK'
  BY <1>1, <1>6 DEF ReadQueue, TypeOK
<1>8. ConnFits(c)'
  BY <1>1, <1>4, <1>6 DEF ConnFits, ReadQueue, At
<1>9. OnlyConn(c) /\ UNCHANGED <<listener, sockets>>
  BY <1>6 DEF ReadQueue, OnlyConn
<1>10. Shape'
  BY <1>1, <1>6, <1>7, <1>8, <1>9, ConnShape, SameListener
<1>11. QED
  BY <1>4, <1>6, <1>9, <1>10

\* DEL, or an error that drops what was taken from the queue.
Deleted(c) ==
  /\ conn'[c].batch = conn[c].batch
  /\ queue' = [queue EXCEPT ![conn[c].user] = <<>>]
  /\ Lose({conn[c].user}, In(queue[conn[c].user]) \ In(conn[c].batch))
Dropped(c) ==
  /\ conn'[c].batch = <<>>
  /\ \/ /\ queue' = [queue EXCEPT ![conn[c].user] = <<>>]
        /\ Lose({conn[c].user}, In(queue[conn[c].user]) \cup In(conn[c].batch))
     \/ UNCHANGED <<queue, lost>>

LEMMA DeleteQueueShape ==
  ASSUME Shape, NEW c \in Conns, DeleteQueue(c)
  PROVE  Shape' /\ OnlyConn(c) /\ conn'[c].user = conn[c].user
         /\ conn'[c].pc \in {"drain", "open"} /\ conn'[c].alive = conn[c].alive
         /\ (Deleted(c) \/ Dropped(c))
<1> DEFINE dropped == [conn EXCEPT ![c].batch = <<>>, ![c].pc = "open"]
<1>1. TypeOK /\ ConnFits(c) /\ At(c, "delete")
  BY DEF Shape, DeleteQueue
<1>2. /\ conn[c].user \in Users /\ conn[c].batch \in Seq(Event)
      /\ In(queue[conn[c].user]) \subseteq Event /\ In(conn[c].batch) \subseteq Event
  BY <1>1, AtWork, InType DEF At
<1>3. ASSUME Goto(c, "drain"), queue' = [queue EXCEPT ![conn[c].user] = <<>>],
             Lose({conn[c].user}, In(queue[conn[c].user]) \ In(conn[c].batch))
      PROVE  \E batch \in Seq(Event), pc \in {"drain", "open"} :
               /\ conn' = [conn EXCEPT ![c] = [conn[c] EXCEPT !.batch = batch, !.pc = pc]]
               /\ pc = "open" => batch = <<>>
               /\ batch = conn[c].batch
  BY <1>1, <1>2, <1>3, GotoTurn
<1>4. ASSUME conn' = dropped
      PROVE  \E batch \in Seq(Event), pc \in {"drain", "open"} :
               /\ conn' = [conn EXCEPT ![c] = [conn[c] EXCEPT !.batch = batch, !.pc = pc]]
               /\ pc = "open" => batch = <<>>
               /\ batch = <<>>
  BY <1>4, EmptySeq
<1>5. PICK batch \in Seq(Event), pc \in {"drain", "open"} :
         /\ conn' = [conn EXCEPT ![c] = [conn[c] EXCEPT !.batch = batch, !.pc = pc]]
         /\ pc = "open" => batch = <<>>
         /\ \/ /\ batch = conn[c].batch
               /\ queue' = [queue EXCEPT ![conn[c].user] = <<>>]
               /\ Lose({conn[c].user}, In(queue[conn[c].user]) \ In(conn[c].batch))
            \/ /\ batch = <<>>
               /\ \/ /\ queue' = [queue EXCEPT ![conn[c].user] = <<>>]
                     /\ Lose({conn[c].user},
                             In(queue[conn[c].user]) \cup In(conn[c].batch))
                  \/ UNCHANGED <<queue, lost>>
  BY <1>3, <1>4 DEF DeleteQueue
<1>6. /\ conn' \in [Conns -> Connection]
      /\ conn'[c].pc = pc /\ conn'[c].batch = batch
      /\ conn'[c].user = conn[c].user /\ conn'[c].alive = conn[c].alive
      /\ \A d \in Conns \ {c} : conn'[d] = conn[d]
  BY <1>1, <1>5, TurnUpdate
<1>7. lost' \in SUBSET (Users \X Event) /\ queue' \in [Users -> Seq(Event)]
  <2>1. queue' \in [Users -> Seq(Event)]
    BY <1>1, <1>2, <1>5, EmptySeq DEF TypeOK
  <2>2. ASSUME NEW evs, evs \subseteq Event, Lose({conn[c].user}, evs)
        PROVE  lost' \in SUBSET (Users \X Event)
    BY <1>1, <1>2, <2>2 DEF Lose, TypeOK
  <2>3. lost' \in SUBSET (Users \X Event)
    <3>1. CASE UNCHANGED lost
      BY <1>1, <3>1 DEF TypeOK
    <3>2. CASE \/ Lose({conn[c].user}, In(queue[conn[c].user]) \ In(conn[c].batch))
               \/ Lose({conn[c].user}, In(queue[conn[c].user]) \cup In(conn[c].batch))
      <4>1. /\ In(queue[conn[c].user]) \ In(conn[c].batch) \subseteq Event
            /\ In(queue[conn[c].user]) \cup In(conn[c].batch) \subseteq Event
        BY <1>2
      <4>2. QED
        BY <2>2, <3>2, <4>1
    <3>3. QED
      BY <1>5, <3>1, <3>2
  <2>4. QED
    BY <2>1, <2>3
<1>8. TypeOK'
  BY <1>1, <1>6, <1>7 DEF DeleteQueue, TypeOK
<1>9. ConnFits(c)'
  BY <1>1, <1>5, <1>6 DEF ConnFits, DeleteQueue, At
<1>10. OnlyConn(c) /\ UNCHANGED <<listener, sockets>>
  BY <1>6 DEF DeleteQueue, OnlyConn
<1>11. Shape'
  BY <1>1, <1>6, <1>8, <1>9, <1>10, ConnShape, SameListener
<1>12. Deleted(c) \/ Dropped(c)
  BY <1>5, <1>6 DEF Deleted, Dropped
<1>13. QED
  BY <1>5, <1>6, <1>10, <1>11, <1>12

\* The two ways of draining what was taken from the queue.
Drain(c) ==
  LET e == Head(conn[c].batch) IN
  /\ conn[c].batch # <<>> /\ conn[c].alive
  /\ got'[c] = Append(got[c], [ev |-> e, live |-> FALSE])
  /\ conn'[c].batch = Tail(conn[c].batch) /\ conn'[c].pc = "drain"
  /\ UNCHANGED lost
Drop(c) ==
  /\ got' = got
  /\ conn'[c].batch = <<>> /\ conn'[c].pc = "open"
  /\ Lose({conn[c].user}, In(conn[c].batch))

LEMMA SendQueuedShape ==
  ASSUME Shape, NEW c \in Conns, SendQueued(c)
  PROVE  Shape' /\ OnlyConn(c) /\ conn'[c].user = conn[c].user
         /\ conn'[c].alive = conn[c].alive /\ (Drain(c) \/ Drop(c))
<1> DEFINE batch == conn[c].batch
<1>1. TypeOK /\ ConnFits(c) /\ At(c, "drain")
  BY DEF Shape, SendQueued
<1>2. /\ conn[c] \in Connection /\ conn[c].user \in Users /\ batch \in Seq(Event)
      /\ got[c] \in Seq(Delivery)
  BY <1>1, AtWork DEF At
<1>3. CASE batch # <<>> /\ conn[c].alive
  <2> DEFINE k == [conn[c] EXCEPT !.batch = Tail(batch)]
             d == [ev |-> Head(batch), live |-> FALSE]
  <2>1. Head(batch) \in Event /\ Tail(batch) \in Seq(Event)
    BY <1>2, <1>3, TailIn
  <2>2. /\ k \in Connection /\ k.user = conn[c].user /\ k.batch = Tail(batch)
        /\ k.pc = "drain" /\ k.alive = conn[c].alive
    BY <1>1, <1>2, <2>1 DEF Connection, At
  <2>3. conn' = [conn EXCEPT ![c] = k]
    BY <1>3 DEF SendQueued
  <2> HIDE DEF k
  <2>4. /\ conn' \in [Conns -> Connection] /\ conn'[c] = k
        /\ \A b \in Conns \ {c} : conn'[b] = conn[b]
    BY <1>1, <2>2, <2>3, ConnUpdate
  <2>5. d \in Delivery /\ Append(got[c], d) \in Seq(Delivery)
    BY <1>2, <2>1, AppendIn DEF Delivery
  <2>6. got' = [got EXCEPT ![c] = Append(got[c], d)]
    BY <1>3 DEF SendQueued
  <2> HIDE DEF d
  <2>7. /\ got' \in [Conns -> Seq(Delivery)] /\ got'[c] = Append(got[c], d)
        /\ \A b \in Conns \ {c} : got'[b] = got[b]
    BY <1>1, <2>5, <2>6 DEF TypeOK
  <2>8. TypeOK'
    BY <1>1, <1>3, <2>4, <2>7 DEF SendQueued, TypeOK
  <2>9. ConnFits(c)'
    BY <1>1, <2>2, <2>4 DEF ConnFits, At
  <2>10. /\ OnlyConn(c) /\ conn'[c].user = conn[c].user /\ UNCHANGED <<listener, sockets>>
         /\ conn'[c].alive = conn[c].alive
    BY <2>2, <2>4, <2>7 DEF SendQueued, OnlyConn
  <2>11. Shape'
    BY <1>1, <2>8, <2>9, <2>10, ConnShape, SameListener
  <2>12. Drain(c)
    BY <1>3, <2>2, <2>4, <2>7 DEF Drain, SendQueued, d
  <2>13. QED
    BY <2>10, <2>11, <2>12
<1>4. CASE ~(batch # <<>> /\ conn[c].alive)
  <2> DEFINE k == [conn[c] EXCEPT !.batch = <<>>, !.pc = "open"]
  <2>1. /\ k \in Connection /\ k.user = conn[c].user /\ k.batch = <<>>
        /\ k.pc = "open" /\ k.alive = conn[c].alive
    BY <1>2, EmptySeq DEF Connection
  <2>2. conn' = [conn EXCEPT ![c] = k] /\ got' = got /\ Lose({conn[c].user}, In(batch))
    BY <1>4 DEF SendQueued
  <2> HIDE DEF k
  <2>3. /\ conn' \in [Conns -> Connection] /\ conn'[c] = k
        /\ \A b \in Conns \ {c} : conn'[b] = conn[b]
    BY <1>1, <2>1, <2>2, ConnUpdate
  <2>4. lost' \in SUBSET (Users \X Event)
    BY <1>1, <1>2, <2>2, InType DEF Lose, TypeOK
  <2>5. TypeOK'
    BY <1>1, <2>2, <2>3, <2>4 DEF SendQueued, TypeOK
  <2>6. ConnFits(c)'
    BY <1>1, <2>1, <2>2, <2>3 DEF ConnFits, At
  <2>7. /\ OnlyConn(c) /\ conn'[c].user = conn[c].user /\ UNCHANGED <<listener, sockets>>
        /\ conn'[c].alive = conn[c].alive
    BY <2>1, <2>2, <2>3 DEF SendQueued, OnlyConn
  <2>8. Shape'
    BY <1>1, <2>5, <2>6, <2>7, ConnShape, SameListener
  <2>9. QED
    BY <2>1, <2>2, <2>3, <2>7, <2>8 DEF Drop
<1>5. QED
  BY <1>3, <1>4

\* The client or the task of a connection changes, and nothing else does.
Quiet(c) == Client(c) \/ HeartbeatTimeout(c) \/ End(c)

LEMMA QuietShape ==
  ASSUME Shape, NEW c \in Conns, Quiet(c)
  PROVE  Shape' /\ OnlyConn(c) /\ conn'[c].user = conn[c].user
         /\ conn'[c].batch = conn[c].batch /\ conn[c].pc # "free"
         /\ (conn'[c].alive => conn[c].alive)
         /\ (conn'[c].pc = conn[c].pc
             \/ (conn[c].pc = "open" /\ conn'[c].pc \in {"late", "ended"}))
         /\ UNCHANGED <<published, bus, online, queue, sockets, listener, got, lost>>
<1>1. TypeOK /\ ConnFits(c) /\ conn[c] \in Connection
  BY DEF Shape, TypeOK
<1>f. conn[c].pc # "free"
  BY <1>1 DEF Quiet, Client, HangUp, Stall, HeartbeatTimeout, End, At, ConnFits
<1>2. \E k \in Connection :
         /\ conn' = [conn EXCEPT ![c] = k]
         /\ k.user = conn[c].user /\ k.batch = conn[c].batch
         /\ k.alive => conn[c].alive
         /\ k.pc = conn[c].pc \/ (conn[c].pc = "open" /\ k.pc \in {"late", "ended"})
  <2>1. CASE HangUp(c)
    <3> DEFINE k == [conn[c] EXCEPT !.alive = FALSE, !.stalled = FALSE]
    <3>1. /\ k \in Connection /\ k.user = conn[c].user /\ k.batch = conn[c].batch
          /\ k.pc = conn[c].pc /\ ~k.alive
      BY <1>1 DEF Connection
    <3>2. conn' = [conn EXCEPT ![c] = k]
      BY <2>1 DEF HangUp
    <3>3. QED
      BY <3>1, <3>2
  <2>2. CASE Stall(c)
    <3> DEFINE k == [conn[c] EXCEPT !.stalled = ~@]
    <3>1. /\ k \in Connection /\ k.user = conn[c].user /\ k.batch = conn[c].batch
          /\ k.pc = conn[c].pc /\ k.alive = conn[c].alive
      BY <1>1 DEF Connection
    <3>2. conn' = [conn EXCEPT ![c] = k]
      BY <2>2 DEF Stall
    <3>3. QED
      BY <3>1, <3>2
  <2>3. ASSUME NEW pc \in {"late", "ended"}, At(c, "open"),
               conn' = [conn EXCEPT ![c].pc = pc, ![c].alive = FALSE, ![c].stalled = FALSE]
        PROVE  \E k \in Connection :
                 /\ conn' = [conn EXCEPT ![c] = k]
                 /\ k.user = conn[c].user /\ k.batch = conn[c].batch
                 /\ ~k.alive /\ k.pc = pc /\ conn[c].pc = "open"
    <3> DEFINE k == [conn[c] EXCEPT !.pc = pc, !.alive = FALSE, !.stalled = FALSE]
    <3>1. /\ k \in Connection /\ k.user = conn[c].user /\ k.batch = conn[c].batch
          /\ k.pc = pc /\ ~k.alive
      BY <1>1 DEF Connection
    <3>2. conn' = [conn EXCEPT ![c] = k]
      BY <2>3
    <3>3. QED
      BY <2>3, <3>1, <3>2 DEF At
  <2>4. CASE HeartbeatTimeout(c) \/ End(c)
    <3>1. \E pc \in {"late", "ended"} :
            conn' = [conn EXCEPT ![c].pc = pc, ![c].alive = FALSE, ![c].stalled = FALSE]
      BY <2>4 DEF HeartbeatTimeout, End
    <3>2. At(c, "open")
      BY <2>4 DEF HeartbeatTimeout, End
    <3>3. PICK pc \in {"late", "ended"} :
            conn' = [conn EXCEPT ![c].pc = pc, ![c].alive = FALSE, ![c].stalled = FALSE]
      BY <3>1
    <3>4. QED
      BY <2>3, <3>2, <3>3
  <2>5. QED
    BY <2>1, <2>2, <2>4 DEF Quiet, Client
<1>3. PICK k \in Connection :
         /\ conn' = [conn EXCEPT ![c] = k]
         /\ k.user = conn[c].user /\ k.batch = conn[c].batch
         /\ k.alive => conn[c].alive
         /\ k.pc = conn[c].pc \/ (conn[c].pc = "open" /\ k.pc \in {"late", "ended"})
  BY <1>2
<1>4. UNCHANGED <<published, bus, online, queue, sockets, listener, got, lost>>
  BY DEF Quiet, Client, HangUp, Stall, HeartbeatTimeout, End
<1>5. /\ conn' \in [Conns -> Connection] /\ conn'[c] = k
      /\ \A d \in Conns \ {c} : conn'[d] = conn[d]
  BY <1>1, <1>3, ConnUpdate
<1>6. TypeOK'
  BY <1>1, <1>4, <1>5 DEF TypeOK
<1>7. ConnFits(c)'
  BY <1>1, <1>3, <1>4, <1>5 DEF ConnFits
<1>8. OnlyConn(c)
  BY <1>4, <1>5 DEF OnlyConn
<1>9. Shape'
  BY <1>1, <1>3, <1>4, <1>5, <1>6, <1>7, <1>8, ConnShape, SameListener
<1>10. QED
  BY <1>f, <1>3, <1>4, <1>5, <1>8, <1>9

LEMMA DisconnectShape ==
  ASSUME Shape, NEW c \in Conns, Disconnect(c)
  PROVE  Shape' /\ OnlyConn(c) /\ conn'[c].user = conn[c].user
         /\ conn'[c].pc = "left" /\ conn'[c].batch = conn[c].batch
         /\ conn'[c].alive = conn[c].alive
         /\ (\A u \in Users : sockets[u] \ {c} \subseteq sockets'[u])
         /\ \E b \in BOOLEAN :
              /\ listener' = [listener EXCEPT !.kept = b]
              /\ listener.user # conn[c].user => b = listener.kept
<1> DEFINE u == conn[c].user
           b == listener.kept /\ ~(listener.user = u /\ sockets[u] \ {c} = {})
<1>1. TypeOK /\ ConnFits(c) /\ listener \in Listener
      /\ conn[c].pc \in {"accepted", "online", "late"} /\ Goto(c, "left")
  BY DEF Shape, TypeOK, Disconnect
<1>2. u \in Users
  BY <1>1, AtWork
<1>3. sockets' = [sockets EXCEPT ![u] = sockets[u] \ {c}]
  BY DEF Disconnect
<1>l. listener' = [listener EXCEPT !.kept = b] /\ b \in BOOLEAN
  BY DEF Disconnect
<1>m. (b => listener.kept) /\ (listener.user # u => b = listener.kept)
  BY <1>1 DEF Listener
<1>n. listener' \in Listener
  <2> HIDE DEF b
  <2>1. QED
    BY <1>1, <1>l DEF Listener
<1> HIDE DEF b
<1>5. /\ conn' \in [Conns -> Connection] /\ conn'[c].user = u
      /\ conn'[c].pc = "left" /\ conn'[c].batch = conn[c].batch
      /\ conn'[c].alive = conn[c].alive
      /\ \A d \in Conns \ {c} : conn'[d] = conn[d]
  BY <1>1, GotoUpdate
<1>6. /\ sockets' \in [Users -> SUBSET Conns]
      /\ \A v \in Users : /\ sockets'[v] \subseteq sockets[v]
                          /\ sockets[v] \ {c} \subseteq sockets'[v]
  BY <1>1, <1>2, <1>3 DEF TypeOK
<1>7. TypeOK'
  BY <1>1, <1>5, <1>6, <1>n DEF Disconnect, TypeOK
<1>8. ConnFits(c)'
  BY <1>1, <1>5 DEF ConnFits, Disconnect
<1>9. OnlyConn(c)
  BY <1>5 DEF Disconnect, OnlyConn
<1>10. Shape'
  BY <1>1, <1>5, <1>6, <1>7, <1>8, <1>9, <1>l, <1>m, ConnShape
<1>11. QED
  BY <1>5, <1>6, <1>9, <1>10, <1>l, <1>m

LEMMA RemoveOnlineShape ==
  ASSUME Shape, NEW c \in Conns, RemoveOnline(c)
  PROVE  Shape' /\ OnlyConn(c) /\ conn'[c].user = conn[c].user
         /\ conn'[c].pc = "gone" /\ conn'[c].batch = conn[c].batch /\ ~conn'[c].alive
         /\ UNCHANGED <<published, bus, queue, sockets, listener, got, lost>>
         /\ \A u \in Users \ {conn[c].user} : u \in online => u \in online'
<1> DEFINE k == [conn[c] EXCEPT !.pc = "gone", !.alive = FALSE, !.stalled = FALSE]
<1>1. TypeOK /\ ConnFits(c) /\ At(c, "left") /\ conn[c] \in Connection
      /\ UNCHANGED <<published, bus, queue, sockets, listener, got, lost>>
  BY DEF Shape, RemoveOnline, TypeOK
<1>2. /\ k \in Connection /\ k.user = conn[c].user /\ k.batch = conn[c].batch
      /\ k.pc = "gone" /\ ~k.alive
  BY <1>1 DEF Connection
<1> HIDE DEF k
<1>3. conn' = [conn EXCEPT ![c] = k]
  BY DEF RemoveOnline, k
<1>4. /\ conn' \in [Conns -> Connection] /\ conn'[c] = k
      /\ \A d \in Conns \ {c} : conn'[d] = conn[d]
  BY <1>1, <1>2, <1>3, ConnUpdate
<1>5. /\ online' \in SUBSET Users
      /\ \A u \in Users \ {conn[c].user} : u \in online => u \in online'
  BY <1>1 DEF RemoveOnline, TypeOK
<1>6. TypeOK'
  BY <1>1, <1>4, <1>5 DEF TypeOK
<1>7. ConnFits(c)' /\ OnlyConn(c)
  BY <1>1, <1>2, <1>4 DEF ConnFits, OnlyConn, At
<1>8. Shape'
  BY <1>1, <1>2, <1>4, <1>6, <1>7, ConnShape, SameListener
<1>9. QED
  BY <1>1, <1>2, <1>4, <1>5, <1>7, <1>8

-----------------------------------------------------------------------------
(***************************************************************************)
(* The listener                                                            *)
(***************************************************************************)
\* A step of the listener leaves the connections alone, but for what it sends.
LEMMA ListenerShape ==
  ASSUME Shape, TypeOK', UNCHANGED conn, ListenerFits',
         \A u \in Users : sockets'[u] \subseteq sockets[u],
         \A c \in Conns : got'[c] = got[c]
                         \/ /\ conn[c].pc # "free"
                            /\ conn[c].pc \in {"accepted", "online", "delete"} =>
                                 \A d \in In(got'[c]) : d.live
  PROVE  Shape'
<1>1. SocketsFit'
  BY DEF Shape, SocketsFit
<1>2. \A c \in Conns : ConnFits(c)'
  BY DEF Shape, ConnFits
<1>3. QED
  BY <1>1, <1>2 DEF Shape

LEMMA PublishShape ==
  ASSUME Shape, Publish
  PROVE  Shape' /\ published + 1 \in Event
         /\ In(bus') = In(bus) \cup {published + 1}
<1>1. TypeOK
  BY DEF Shape
<1>2. published + 1 \in Event
  BY <1>1, MaxEventsAssumption DEF Publish, TypeOK, Event
<1>3. bus' \in Seq(Event) /\ In(bus') = In(bus) \cup {published + 1}
  BY <1>1, <1>2, AppendIn DEF Publish, TypeOK
<1>4. published' \in 0..MaxEvents
  BY <1>1, MaxEventsAssumption DEF Publish, TypeOK
<1>5. TypeOK'
  BY <1>1, <1>3, <1>4 DEF Publish, TypeOK
<1>6. ListenerFits'
  BY DEF Shape, ListenerFits, Publish
<1>7. UNCHANGED <<conn, got, sockets>>
  BY DEF Publish
<1>8. QED
  BY <1>2, <1>3, <1>5, <1>6, <1>7, ListenerShape

LEMMA TakeEventShape ==
  ASSUME Shape, TakeEvent
  PROVE  /\ Shape' /\ Head(bus) \in Event /\ listener = Listening
         /\ In(bus) = {Head(bus)} \cup In(bus')
         /\ listener'.pc = "each" /\ listener'.ev = Head(bus)
         /\ listener'.todo = Users /\ listener'.user = NoUser
<1>1. TypeOK /\ listener = Listening /\ bus # <<>>
  BY DEF Shape, ListenerFits, TakeEvent
<1>2. /\ Head(bus) \in Event /\ bus' \in Seq(Event)
      /\ In(bus) = {Head(bus)} \cup In(bus')
  BY <1>1, TailIn DEF TakeEvent, TypeOK
<1>3. /\ listener' \in Listener
      /\ listener'.pc = "each" /\ listener'.ev = Head(bus)
      /\ listener'.todo = Users /\ listener'.user = NoUser
  <2>1. Head(bus) \in 0..MaxEvents
    BY <1>2, MaxEventsAssumption DEF Event
  <2>2. listener' = [Listening EXCEPT !.pc = "each", !.ev = Head(bus), !.todo = Users]
    BY DEF TakeEvent
  <2>3. QED
    BY <2>1, <2>2 DEF Listening, Listener
<1>4. TypeOK'
  BY <1>1, <1>2, <1>3 DEF TakeEvent, TypeOK
<1>5. ListenerFits'
  BY <1>2, <1>3 DEF ListenerFits, Serving
<1>6. UNCHANGED <<conn, got, sockets>>
  BY DEF TakeEvent
<1>7. QED
  BY <1>1, <1>2, <1>3, <1>4, <1>5, <1>6, ListenerShape

LEMMA CheckOnlineShape ==
  ASSUME Shape, NEW u \in Users, CheckOnline(u)
  PROVE  /\ Shape' /\ listener.user = NoUser /\ listener.ev \in Event
         /\ listener'.pc \in {"send", "enqueue"} /\ listener'.ev = listener.ev
         /\ listener'.todo = listener.todo \ {u} /\ listener'.user = u
<1>1. TypeOK /\ listener \in Listener /\ listener.user = NoUser /\ listener.ev \in Event
  BY DEF Shape, TypeOK, ListenerFits, CheckOnline
<1>2. /\ listener' \in Listener
      /\ listener'.pc \in {"send", "enqueue"} /\ listener'.ev = listener.ev
      /\ listener'.todo = listener.todo \ {u} /\ listener'.user = u
  BY <1>1 DEF CheckOnline, Listener
<1>3. TypeOK'
  BY <1>1, <1>2 DEF CheckOnline, TypeOK
<1>4. ListenerFits'
  BY <1>1, <1>2 DEF ListenerFits, Serving
<1>5. UNCHANGED <<conn, got, sockets>>
  BY DEF CheckOnline
<1>6. QED
  BY <1>1, <1>2, <1>3, <1>4, <1>5, ListenerShape

\* The listener turns to the next member.
LEMMA NextMemberShape ==
  ASSUME Shape, NextMember, listener.pc \in Serving
  PROVE  /\ listener' \in Listener /\ ListenerFits'
         /\ listener'.pc \in {"idle", "each"}
         /\ listener'.user = NoUser /\ listener'.todo = listener.todo
         /\ listener'.ev = IF listener'.pc = "idle" THEN 0 ELSE listener.ev
         /\ listener.todo # {} => listener'.pc = "each"
<1>1. listener \in Listener /\ listener.ev \in Event
  BY DEF Shape, TypeOK, ListenerFits, Serving
<1>2. CASE listener.todo = {}
  <2>1. listener' = Listening
    BY <1>2 DEF NextMember
  <2>2. QED
    BY <1>2, <2>1, MaxEventsAssumption DEF Listening, Listener, ListenerFits, Serving
<1>3. CASE listener.todo # {}
  <2>1. listener' = [Listening EXCEPT !.pc = "each", !.ev = listener.ev,
                                      !.todo = listener.todo]
    BY <1>3 DEF NextMember
  <2>2. /\ listener' \in Listener /\ listener'.pc = "each" /\ listener'.ev = listener.ev
        /\ listener'.todo = listener.todo /\ listener'.user = NoUser
    BY <1>1, <2>1 DEF Listening, Listener
  <2>3. ListenerFits'
    BY <1>1, <2>2 DEF ListenerFits, Serving
  <2>4. QED
    BY <2>2, <2>3
<1>4. QED
  BY <1>2, <1>3

LEMMA TakeSocketsShape ==
  ASSUME Shape, TakeSockets
  PROVE  /\ Shape' /\ listener.user \in Users \ listener.todo /\ listener.ev \in Event
         /\ \/ /\ sockets[listener.user] = {} /\ NextMember
               /\ Lose({listener.user}, {listener.ev})
            \/ /\ sockets[listener.user] # {} /\ UNCHANGED lost
               /\ listener'.pc = "sending" /\ listener'.ev = listener.ev
               /\ listener'.todo = listener.todo /\ listener'.user = listener.user
               /\ listener'.targets = sockets[listener.user]
<1> DEFINE u == listener.user
<1>1. /\ TypeOK /\ listener \in Listener
      /\ u \in Users \ listener.todo /\ listener.ev \in Event
  BY DEF Shape, TypeOK, ListenerFits, Serving, TakeSockets
<1>2. UNCHANGED <<conn, got, sockets>>
  BY DEF TakeSockets
<1>3. CASE sockets[u] = {}
  <2>1. NextMember /\ Lose({u}, {listener.ev})
    BY <1>3 DEF TakeSockets
  <2>2. listener' \in Listener /\ ListenerFits'
    BY <2>1, NextMemberShape DEF TakeSockets, Serving
  <2>3. lost' \in SUBSET (Users \X Event)
    BY <1>1, <2>1 DEF Lose, TypeOK
  <2>4. TypeOK'
    BY <1>1, <2>2, <2>3 DEF TakeSockets, TypeOK
  <2>5. QED
    BY <1>1, <1>2, <1>3, <2>1, <2>2, <2>4, ListenerShape
<1>4. CASE sockets[u] # {}
  <2>1. /\ listener' = [listener EXCEPT !.pc = "sending", !.kept = TRUE,
                                        !.targets = sockets[u]]
        /\ UNCHANGED lost
    BY <1>4 DEF TakeSockets
  <2>2. sockets[u] \in SUBSET Conns
    BY <1>1 DEF TypeOK
  <2>3. /\ listener' \in Listener
        /\ listener'.pc = "sending" /\ listener'.ev = listener.ev
        /\ listener'.todo = listener.todo /\ listener'.user = u
        /\ listener'.targets = sockets[u]
    BY <1>1, <2>1, <2>2 DEF Listener
  <2>4. TypeOK'
    BY <1>1, <2>1, <2>3 DEF TakeSockets, TypeOK
  <2>5. ListenerFits'
    BY <1>1, <1>2, <2>3 DEF ListenerFits, Serving, Shape, SocketsFit
  <2>6. QED
    BY <1>1, <1>2, <1>4, <2>1, <2>3, <2>4, <2>5, ListenerShape
<1>5. QED
  BY <1>3, <1>4

\* The two outcomes of a send.
Delivered(c) ==
  /\ got'[c] = Append(got[c], [ev |-> listener.ev, live |-> TRUE])
  /\ UNCHANGED lost
Missed == got' = got /\ Lose({listener.user}, {listener.ev})

LEMMA SendToShape ==
  ASSUME Shape, NEW c \in Conns, SendTo(c)
  PROVE  /\ Shape' /\ OnlyConn(c) /\ conn' = conn /\ conn[c].user = listener.user
         /\ listener.user \in Users \ listener.todo /\ listener.ev \in Event
         /\ listener'.pc = "sending" /\ listener'.ev = listener.ev
         /\ listener'.todo = listener.todo /\ listener'.user = listener.user
         /\ listener'.targets = listener.targets \ {c}
         /\ Delivered(c) \/ Missed
<1>1. /\ TypeOK /\ ConnFits(c) /\ listener \in Listener /\ listener.pc = "sending"
      /\ listener.user \in Users \ listener.todo /\ listener.ev \in Event
      /\ c \in listener.targets /\ conn[c].user = listener.user
      /\ \A d \in listener.targets : conn[d].user = listener.user
      /\ UNCHANGED <<conn, sockets>>
  BY DEF Shape, TypeOK, ListenerFits, Serving, SendTo
<1>2. got[c] \in Seq(Delivery) /\ conn[c].pc # "free"
  BY <1>1, NoUserAssumption DEF TypeOK, ConnFits
<1>3. PICK dead \in SUBSET Conns :
        listener' = [listener EXCEPT !.targets = @ \ {c}, !.dead = dead]
  <2>1. listener.dead \in SUBSET Conns
    BY <1>1 DEF Listener
  <2>2. CASE listener' = [listener EXCEPT !.targets = @ \ {c}]
    <3>1. [listener EXCEPT !.targets = @ \ {c}]
            = [listener EXCEPT !.targets = @ \ {c}, !.dead = listener.dead]
      BY <1>1 DEF Listener
    <3>2. QED
      BY <2>1, <2>2, <3>1
  <2>3. ASSUME NEW raised \in SUBSET {c},
               listener' = [listener EXCEPT !.targets = @ \ {c}, !.dead = @ \cup raised]
        PROVE  \E dead \in SUBSET Conns :
                 listener' = [listener EXCEPT !.targets = @ \ {c}, !.dead = dead]
    <3>1. listener.dead \cup raised \in SUBSET Conns
      BY <2>1
    <3>2. listener' = [listener EXCEPT !.targets = @ \ {c}, !.dead = listener.dead \cup raised]
      BY <2>3
    <3>3. QED
      BY <3>1, <3>2
  <2>4. QED
    BY <2>2, <2>3 DEF SendTo
<1>4. /\ listener' \in Listener
      /\ listener'.pc = "sending" /\ listener'.ev = listener.ev
      /\ listener'.todo = listener.todo /\ listener'.user = listener.user
      /\ listener'.targets = listener.targets \ {c}
  BY <1>1, <1>3 DEF Listener
<1>5. ListenerFits'
  BY <1>1, <1>4 DEF ListenerFits, Serving
<1>6. CASE conn[c].alive /\ got' = [got EXCEPT ![c] =
                Append(got[c], [ev |-> listener.ev, live |-> TRUE])] /\ UNCHANGED lost
  <2> DEFINE d == [ev |-> listener.ev, live |-> TRUE]
  <2>1. d \in Delivery /\ d.live
    BY <1>1 DEF Delivery
  <2>2. got' = [got EXCEPT ![c] = Append(got[c], d)]
    BY <1>6
  <2> HIDE DEF d
  <2>3. Append(got[c], d) \in Seq(Delivery) /\ In(Append(got[c], d)) = In(got[c]) \cup {d}
    BY <1>2, <2>1, AppendIn
  <2>4. /\ got' \in [Conns -> Seq(Delivery)] /\ got'[c] = Append(got[c], d)
        /\ \A b \in Conns \ {c} : got'[b] = got[b]
    BY <1>1, <2>2, <2>3 DEF TypeOK
  <2>5. TypeOK'
    BY <1>1, <1>4, <1>6, <2>4 DEF SendTo, TypeOK
  <2>6. conn[c].pc \in {"accepted", "online", "delete"} => \A b \in In(got'[c]) : b.live
    BY <1>1, <2>1, <2>3, <2>4 DEF ConnFits
  <2>7. Shape'
    BY <1>1, <1>2, <1>5, <2>4, <2>5, <2>6, ListenerShape
  <2>8. Delivered(c) /\ OnlyConn(c)
    BY <1>1, <1>6, <2>4 DEF Delivered, OnlyConn, d
  <2>9. QED
    BY <1>1, <1>4, <2>7, <2>8
<1>7. CASE got' = got /\ Lose({listener.user}, {listener.ev})
  <2>1. lost' \in SUBSET (Users \X Event)
    BY <1>1, <1>7 DEF Lose, TypeOK
  <2>2. TypeOK'
    BY <1>1, <1>4, <1>7, <2>1 DEF SendTo, TypeOK
  <2>3. Shape'
    BY <1>1, <1>5, <1>7, <2>2, ListenerShape
  <2>4. Missed /\ OnlyConn(c)
    BY <1>1, <1>7 DEF Missed, OnlyConn
  <2>5. QED
    BY <1>1, <1>4, <2>3, <2>4
<1>8. QED
  BY <1>6, <1>7 DEF SendTo

LEMMA EndSendShape ==
  ASSUME Shape, EndSend
  PROVE  /\ Shape' /\ NextMember /\ listener.pc = "sending" /\ listener.targets = {}
         /\ listener.user \in Users \ listener.todo /\ listener.ev \in Event
<1>1. /\ TypeOK /\ listener \in Listener /\ listener.pc = "sending"
      /\ listener.user \in Users \ listener.todo /\ listener.ev \in Event
      /\ listener.targets = {}
      /\ NextMember /\ UNCHANGED <<conn, got>>
  BY DEF Shape, TypeOK, ListenerFits, Serving, EndSend
<1>2. /\ sockets' \in [Users -> SUBSET Conns]
      /\ \A u \in Users : sockets'[u] \subseteq sockets[u]
  BY <1>1 DEF EndSend, TypeOK
<1>3. listener' \in Listener /\ ListenerFits'
  BY <1>1, NextMemberShape DEF Serving
<1>4. TypeOK'
  BY <1>1, <1>2, <1>3 DEF EndSend, TypeOK
<1>5. QED
  BY <1>1, <1>2, <1>3, <1>4, ListenerShape

\* RPUSH.
Push == /\ listener.pc = "enqueue"
        /\ queue' = [queue EXCEPT ![listener.user] = Append(@, listener.ev)]
        /\ UNCHANGED <<published, bus, online, sockets, conn, got>>

LEMMA PushShape ==
  ASSUME Shape, Push, listener' \in Listener, ListenerFits',
         lost' \in SUBSET (Users \X Event)
  PROVE  /\ Shape'
         /\ listener.user \in Users \ listener.todo /\ listener.ev \in Event
         /\ In(queue'[listener.user]) = In(queue[listener.user]) \cup {listener.ev}
         /\ queue'[listener.user] = Append(queue[listener.user], listener.ev)
         /\ \A u \in Users \ {listener.user} : queue'[u] = queue[u]
<1>1. /\ TypeOK /\ listener \in Listener /\ listener.pc = "enqueue"
      /\ listener.user \in Users \ listener.todo /\ listener.ev \in Event
      /\ UNCHANGED <<published, bus, online, conn, got, sockets>>
  BY DEF Shape, TypeOK, ListenerFits, Serving, Push
<1> DEFINE q == Append(queue[listener.user], listener.ev)
<1>2. /\ q \in Seq(Event) /\ In(q) = In(queue[listener.user]) \cup {listener.ev}
  BY <1>1, AppendIn DEF TypeOK
<1>3. queue' = [queue EXCEPT ![listener.user] = q]
  BY DEF Push
<1>4. /\ queue' \in [Users -> Seq(Event)] /\ queue'[listener.user] = q
      /\ \A u \in Users \ {listener.user} : queue'[u] = queue[u]
  <2> HIDE DEF q
  <2>1. QED
    BY <1>1, <1>2, <1>3 DEF TypeOK
<1>5. TypeOK'
  BY <1>1, <1>4 DEF TypeOK
<1>6. QED
  BY <1>1, <1>2, <1>4, <1>5, ListenerShape

LEMMA EnqueueShape ==
  ASSUME Shape, Enqueue
  PROVE  Shape' /\ Push /\ NextMember
<1>1. NextMember /\ Push /\ lost' = lost /\ lost \in SUBSET (Users \X Event)
  BY DEF Shape, TypeOK, Enqueue, Push
<1>2. listener' \in Listener /\ ListenerFits'
  BY <1>1, NextMemberShape DEF Serving, Push
<1>3. QED
  BY <1>1, <1>2, PushShape

LEMMA FailEventShape ==
  ASSUME Shape, FailEvent
  PROVE  /\ Shape' /\ listener' = Listening /\ UNCHANGED <<bus, published, conn, got>>
         /\ listener.pc \in {"each", "enqueue"}
         /\ \/ /\ UNCHANGED queue
               /\ lost' = lost \cup ((Unserved \ {NoUser}) \X {listener.ev})
            \/ Push /\ lost' = lost \cup (listener.todo \X {listener.ev})
<1>1. /\ TypeOK /\ listener \in Listener /\ listener.ev \in Event
      /\ UNCHANGED <<published, bus, online, sockets, conn, got>>
      /\ listener' = Listening /\ listener.pc \in {"each", "enqueue"}
  BY DEF Shape, TypeOK, ListenerFits, FailEvent
<1>2. Unserved \ {NoUser} \subseteq Users /\ listener.todo \subseteq Users
  BY <1>1 DEF Unserved, Listener
<1>3. lost' \in SUBSET (Users \X Event)
  BY <1>1, <1>2 DEF FailEvent, Lose, TypeOK
<1>4. ListenerFits' /\ listener' \in Listener
  BY <1>1, ListeningType DEF ListenerFits, Serving, Listening
<1>5. CASE /\ UNCHANGED queue
           /\ lost' = lost \cup ((Unserved \ {NoUser}) \X {listener.ev})
  <2>1. TypeOK'
    BY <1>1, <1>3, <1>4, <1>5 DEF TypeOK
  <2>2. QED
    BY <1>1, <1>4, <1>5, <2>1, ListenerShape
<1>6. CASE Push /\ lost' = lost \cup (listener.todo \X {listener.ev})
  BY <1>1, <1>3, <1>4, <1>6, PushShape
<1>7. QED
  BY <1>1, <1>5, <1>6 DEF FailEvent, Lose, Push

LEMMA PubsubFailsShape ==
  ASSUME Shape, PubsubFails
  PROVE  Shape' /\ bus' = <<>> /\ UNCHANGED <<published, queue, conn, listener, got>>
         /\ lost' = lost \cup (Users \X In(bus))
<1>1. /\ TypeOK /\ bus' = <<>> /\ lost' = lost \cup (Users \X In(bus))
      /\ UNCHANGED <<published, online, queue, sockets, conn, listener, got>>
  BY DEF Shape, PubsubFails, Lose
<1>2. In(bus) \subseteq Event /\ bus' \in Seq(Event)
  BY <1>1, InType, EmptySeq DEF TypeOK
<1>3. TypeOK'
  BY <1>1, <1>2 DEF TypeOK
<1>4. ListenerFits'
  BY <1>1 DEF Shape, ListenerFits
<1>5. QED
  BY <1>1, <1>3, <1>4, ListenerShape

\* What a restart leaves of a connection.
Over == {"free", "gone", "ended"}
Killed(k) == IF k.pc \in Over THEN k
             ELSE [k EXCEPT !.pc = "killed", !.alive = FALSE, !.stalled = FALSE,
                            !.batch = <<>>]

LEMMA RestartShape ==
  ASSUME Shape, Restart
  PROVE  /\ Shape' /\ UNCHANGED <<published, queue, got>>
         /\ bus' = <<>> /\ listener' = Listening
         /\ \A c \in Conns :
              /\ conn'[c].user = conn[c].user /\ conn'[c].batch = <<>>
              /\ conn'[c].pc = IF conn[c].pc \in Over THEN conn[c].pc ELSE "killed"
<1>1. /\ TypeOK /\ UNCHANGED <<published, online, queue, got>>
      /\ bus' = <<>> /\ sockets' = [u \in Users |-> {}] /\ listener' = Listening
      /\ conn' = [c \in Conns |-> Killed(conn[c])]
  BY DEF Shape, Restart, Killed, Over
<1>2. ASSUME NEW c \in Conns
      PROVE  /\ Killed(conn[c]) \in Connection
             /\ Killed(conn[c]).user = conn[c].user /\ Killed(conn[c]).batch = <<>>
             /\ Killed(conn[c]).alive => conn[c].alive
             /\ Killed(conn[c]).pc = IF conn[c].pc \in Over THEN conn[c].pc ELSE "killed"
  <2>1. conn[c] \in Connection /\ ConnFits(c)
    BY <1>1 DEF TypeOK, Shape
  <2>2. CASE conn[c].pc \in Over
    BY <2>1, <2>2 DEF Killed, ConnFits, Over
  <2>3. CASE conn[c].pc \notin Over
    BY <2>1, <2>3, EmptySeq DEF Killed, Connection
  <2>4. QED
    BY <2>2, <2>3
<1>3. \A c \in Conns :
        /\ conn'[c] \in Connection
        /\ conn'[c].user = conn[c].user /\ conn'[c].batch = <<>>
        /\ conn'[c].alive => conn[c].alive
        /\ conn'[c].pc = IF conn[c].pc \in Over THEN conn[c].pc ELSE "killed"
  BY <1>1, <1>2
<1>4. lost' \in SUBSET (Users \X Event)
  <2>1. Users \X In(bus) \subseteq Users \X Event
    BY <1>1, InType DEF TypeOK
  <2>2. (Unserved \ {NoUser}) \X {listener.ev} \subseteq Users \X Event
    <3>1. listener \in Listener /\ (listener.pc = "idle" => Unserved = {})
          /\ (listener.pc # "idle" => listener.ev \in Event)
      BY <1>1 DEF Shape, TypeOK, ListenerFits, Unserved
    <3>2. Unserved \ {NoUser} \subseteq Users
      BY <3>1 DEF Unserved, Listener
    <3>3. QED
      BY <3>1, <3>2
  <2>3. ASSUME NEW c \in Conns
        PROVE  {conn[c].user} \X In(conn[c].batch) \subseteq Users \X Event
    <3>1. CASE conn[c].pc = "free"
      BY <3>1, EmptyIn DEF Shape, ConnFits
    <3>2. CASE conn[c].pc # "free"
      BY <3>2, AtWork, InType
    <3>3. QED
      BY <3>1, <3>2
  <2>4. UNION {{conn[c].user} \X In(conn[c].batch) : c \in Conns} \subseteq Users \X Event
    BY <2>3
  <2>5. QED
    BY <1>1, <2>1, <2>2, <2>4 DEF Restart, TypeOK
<1>5. TypeOK'
  BY <1>1, <1>3, <1>4, ListeningType, EmptySeq DEF TypeOK
<1>6. \A c \in Conns : ConnFits(c)'
  <2>1. ASSUME NEW c \in Conns PROVE ConnFits(c)'
    <3>1. ConnFits(c)
      BY DEF Shape
    <3>2. CASE conn[c].pc \in Over
      BY <1>1, <1>3, <3>1, <3>2 DEF ConnFits, Over
    <3>3. CASE conn[c].pc \notin Over
      BY <1>1, <1>3, <3>1, <3>3 DEF ConnFits, Over
    <3>4. QED
      BY <3>2, <3>3
  <2>2. QED
    BY <2>1
<1>7. SocketsFit' /\ ListenerFits'
  BY <1>1 DEF SocketsFit, ListenerFits, Serving, Listening
<1>8. QED
  BY <1>1, <1>3, <1>5, <1>6, <1>7 DEF Shape

-----------------------------------------------------------------------------
(***************************************************************************)
(* What is known of a user: a step adds to it what it queues or sends      *)
(***************************************************************************)
NothingNew == \A u \in Users : /\ Queued'[u] \subseteq Queued[u]
                               /\ SentLive'[u] \subseteq SentLive[u]

LEMMA KnownType == \A u \in Users : Known[u] \subseteq Event
BY DEF Known, Queued, SentLive

LEMMA KnownLess ==
  ASSUME NothingNew
  PROVE  \A u \in Users : Known'[u] \subseteq Known[u]
BY DEF NothingNew, Known

LEMMA SameKnown ==
  ASSUME UNCHANGED <<queue, conn, got>>
  PROVE  NothingNew /\ Queued' = Queued /\ SentLive' = SentLive
<1>1. Queued' = Queued
  BY DEF Queued
<1>2. SentLive' = SentLive
  BY DEF SentLive
<1>3. QED
  BY <1>1, <1>2 DEF NothingNew

LEMMA KnownAlone ==
  ASSUME NEW c \in Conns, OnlyConn(c), conn'[c].user = conn[c].user,
         \A u \in Users : In(queue'[u]) \subseteq In(queue[u]),
         \A e \in In(conn'[c].batch) :
            e \in In(conn[c].batch) \/ e \in In(queue[conn[c].user]),
         \A d \in In(got'[c]) : d \in In(got[c]) \/ (~d.live /\ d.ev \in In(conn[c].batch))
  PROVE  NothingNew
<1> SUFFICES ASSUME NEW u \in Users
             PROVE  Queued'[u] \subseteq Queued[u] /\ SentLive'[u] \subseteq SentLive[u]
  BY DEF NothingNew
<1>1. \A b \in Conns : conn'[b].user = conn[b].user
  BY DEF OnlyConn
<1>2. ASSUME NEW e \in Queued'[u] PROVE e \in Queued[u]
  <2>0. e \in Event
    BY <1>2 DEF Queued
  <2>1. CASE e \in In(queue'[u])
    BY <2>0, <2>1 DEF Queued
  <2>2. ASSUME NEW b \in Conns, conn'[b].user = u,
               e \in In(conn'[b].batch) \/ \E d \in In(got'[b]) : ~d.live /\ d.ev = e
        PROVE  e \in Queued[u]
    <3>1. CASE b # c
      BY <1>1, <2>0, <2>2, <3>1 DEF OnlyConn, Queued
    <3>2. CASE b = c /\ e \in In(conn'[c].batch)
      BY <1>1, <2>0, <2>2, <3>2 DEF Queued
    <3>3. CASE b = c /\ \E d \in In(got'[c]) : ~d.live /\ d.ev = e
      BY <1>1, <2>0, <2>2, <3>3 DEF Queued
    <3>4. QED
      BY <2>2, <3>1, <3>2, <3>3
  <2>3. QED
    BY <1>2, <2>1, <2>2 DEF Queued
<1>3. ASSUME NEW e \in SentLive'[u] PROVE e \in SentLive[u]
  <2>1. /\ e \in Event
        /\ \E b \in Conns : conn'[b].user = u /\ \E d \in In(got'[b]) : d.live /\ d.ev = e
    BY <1>3 DEF SentLive
  <2>2. PICK b \in Conns : conn'[b].user = u /\ \E d \in In(got'[b]) : d.live /\ d.ev = e
    BY <2>1
  <2>3. CASE b # c
    BY <1>1, <2>1, <2>2, <2>3 DEF OnlyConn, SentLive
  <2>4. CASE b = c
    BY <1>1, <2>1, <2>2, <2>4 DEF SentLive
  <2>5. QED
    BY <2>3, <2>4
<1>4. QED
  BY <1>2, <1>3

\* A step of a connection, and what it leaves of the listener's work.
ConnStep(c) == \/ \E u \in Users : Accept(c, u)
               \/ Connect(c) \/ Quiet(c) \/ Disconnect(c) \/ RemoveOnline(c)
SameWork == /\ UNCHANGED <<published, bus>>
            /\ listener'.pc = listener.pc /\ listener'.ev = listener.ev
            /\ listener'.user = listener.user /\ listener'.todo = listener.todo
            /\ listener'.targets = listener.targets
\* What a device receives was sent to it from the queue.
FromQueue == \A c \in Conns : \A d \in In(got'[c]) :
               d \in In(got[c]) \/ (~d.live /\ d.ev \in Queued[conn[c].user])

LEMMA SameWorkKept ==
  ASSUME TypeOK, NEW b \in BOOLEAN, listener' = [listener EXCEPT !.kept = b],
         UNCHANGED <<published, bus>>
  PROVE  SameWork
BY DEF TypeOK, Listener, SameWork

LEMMA ConnStepEffect ==
  ASSUME Shape, NEW c \in Conns, ConnStep(c)
  PROVE  Shape' /\ NothingNew /\ SameWork /\ FromQueue
<1>0. TypeOK
  BY DEF Shape
<1>1. ASSUME NEW u \in Users, Accept(c, u)
      PROVE  Shape' /\ NothingNew /\ SameWork /\ FromQueue
  <2>1. UNCHANGED <<published, bus, queue, listener, got>> /\ got[c] = <<>>
    BY <1>1 DEF Accept, At, Shape, ConnFits
  <2>2. /\ \A d \in Conns \ {c} : conn'[d] = conn[d]
        /\ conn'[c].user = u /\ conn'[c].batch = <<>>
    BY <1>0, <1>1 DEF Accept, TypeOK
  <2>3. NothingNew
    BY <2>1, <2>2, EmptyIn DEF NothingNew, Queued, SentLive
  <2>4. QED
    BY <1>1, <2>1, <2>3, AcceptShape DEF SameWork, FromQueue
<1>2. CASE AddOnline(c)
  <2>1. UNCHANGED <<published, bus, queue, listener, got>>
    BY <1>2 DEF AddOnline
  <2>2. QED
    BY <1>2, <2>1, AddOnlineShape, KnownAlone DEF SameWork, FromQueue
<1>3. CASE ReadQueue(c)
  <2>1. UNCHANGED <<published, bus, queue, listener, got>>
    BY <1>3 DEF ReadQueue
  <2>2. QED
    BY <1>3, <2>1, EmptyIn, ReadQueueShape, KnownAlone DEF SameWork, FromQueue
<1>4. CASE DeleteQueue(c)
  <2>1. UNCHANGED <<published, bus, listener, got>>
    BY <1>4 DEF DeleteQueue
  <2>2. /\ \A u \in Users : In(queue'[u]) \subseteq In(queue[u])
        /\ In(conn'[c].batch) \subseteq In(conn[c].batch)
    BY <1>0, <1>4, EmptyIn, DeleteQueueShape DEF Deleted, Dropped, TypeOK
  <2>3. QED
    BY <1>4, <2>1, <2>2, DeleteQueueShape, KnownAlone DEF SameWork, FromQueue
<1>5. CASE SendQueued(c)
  <2>1. UNCHANGED <<published, bus, queue, listener>>
    BY <1>5 DEF SendQueued
  <2>2. /\ Shape' /\ OnlyConn(c) /\ conn'[c].user = conn[c].user
        /\ Drain(c) \/ Drop(c)
    BY <1>5, SendQueuedShape
  <2>3. /\ conn[c].batch \in Seq(Event) /\ got[c] \in Seq(Delivery)
        /\ conn[c].user \in Users
    BY <1>5, AtWork DEF SendQueued, At
  <2>4. CASE Drain(c)
    <3> DEFINE e == Head(conn[c].batch)
               d == [ev |-> e, live |-> FALSE]
    <3>1. /\ e \in Event /\ e \in In(conn[c].batch)
          /\ In(conn'[c].batch) \subseteq In(conn[c].batch)
      BY <2>3, <2>4, TailIn DEF Drain
    <3>2. d \in Delivery /\ ~d.live /\ d.ev = e
      BY <3>1 DEF Delivery
    <3>3. In(got'[c]) = In(got[c]) \cup {d}
      <4>1. got'[c] = Append(got[c], d)
        BY <2>4 DEF Drain
      <4> HIDE DEF d
      <4>2. QED
        BY <2>3, <3>2, <4>1, AppendIn
    <3>4. NothingNew
      <4> HIDE DEF d, e
      <4>1. QED
        BY <2>1, <2>2, <3>1, <3>2, <3>3, KnownAlone
    <3>5. e \in Queued[conn[c].user]
      BY <2>3, <3>1 DEF Queued
    <3>6. FromQueue
      <4> HIDE DEF d, e
      <4>1. QED
        BY <2>2, <3>2, <3>3, <3>5 DEF FromQueue, OnlyConn
    <3>7. QED
      BY <2>1, <2>2, <3>4, <3>6 DEF SameWork
  <2>5. CASE Drop(c)
    <3>1. got' = got /\ conn'[c].batch = <<>>
      BY <2>5 DEF Drop
    <3>2. QED
      BY <2>1, <2>2, <3>1, EmptyIn, KnownAlone DEF SameWork, FromQueue
  <2>6. QED
    BY <2>2, <2>4, <2>5
<1>6. CASE Quiet(c)
  BY <1>6, QuietShape, KnownAlone DEF SameWork, FromQueue
<1>7. CASE Disconnect(c)
  <2>1. UNCHANGED <<published, bus, queue, got>>
    BY <1>7 DEF Disconnect
  <2>2. SameWork
    <3>1. PICK b \in BOOLEAN : listener' = [listener EXCEPT !.kept = b]
      BY <1>7, DisconnectShape
    <3>2. QED
      BY <1>0, <2>1, <3>1, SameWorkKept
  <2>3. QED
    BY <1>7, <2>1, <2>2, DisconnectShape, KnownAlone DEF FromQueue
<1>8. CASE RemoveOnline(c)
  BY <1>8, RemoveOnlineShape, KnownAlone DEF SameWork, FromQueue
<1>9. QED
  BY <1>1, <1>2, <1>3, <1>4, <1>5, <1>6, <1>7, <1>8 DEF ConnStep, Connect

-----------------------------------------------------------------------------
(***************************************************************************)
(* An event in hand is newer than what is known, and takes one path        *)
(***************************************************************************)
Ahead == BusAhead /\ Published /\ New /\ Sending /\ OnePathEach

LEMMA AheadOfConns ==
  ASSUME Shape, Shape', Ahead, NothingNew, SameWork, FromQueue
  PROVE  Ahead'
<1>1. \A u \in Users : Known'[u] \subseteq Known[u]
  BY KnownLess
<1>2. BusAhead' /\ Published'
  BY <1>1 DEF Ahead, BusAhead, Published, SameWork
<1>3. New'
  BY <1>1 DEF Ahead, New, Awaiting, SameWork
<1>4. Sending'
  <2> SUFFICES ASSUME listener.pc = "sending"
               PROVE  /\ \A e \in Queued'[listener.user] : e < listener.ev
                      /\ \A c \in listener.targets : \A d \in In(got'[c]) :
                           d.ev < listener.ev
    BY DEF Sending, SameWork
  <2>1. /\ listener.user \in Users /\ listener.targets \subseteq Conns
        /\ \A c \in listener.targets : conn[c].user = listener.user
    BY DEF Shape, TypeOK, Listener, ListenerFits, Serving
  <2>2. \A e \in Queued[listener.user] : e < listener.ev
    BY DEF Ahead, Sending
  <2>3. ASSUME NEW c \in listener.targets, NEW d \in In(got'[c]) PROVE d.ev < listener.ev
    <3>1. CASE d \in In(got[c])
      BY <3>1 DEF Ahead, Sending
    <3>2. CASE d \notin In(got[c])
      <4>1. d.ev \in Queued[listener.user]
        BY <2>1, <2>3, <3>2 DEF FromQueue
      <4>2. QED
        BY <2>2, <4>1
    <3>3. QED
      BY <3>1, <3>2
  <2>4. QED
    BY <2>1, <2>2, <2>3 DEF NothingNew
<1>5. OnePathEach'
  BY DEF Ahead, OnePathEach, NothingNew
<1>6. QED
  BY <1>2, <1>3, <1>4, <1>5 DEF Ahead

\* The listener drops the event or goes on with it, and nothing is sent.
LEMMA AheadOfListener ==
  ASSUME Shape, Shape', Ahead, NothingNew, UNCHANGED published,
         bus' = bus \/ bus' = <<>>, listener'.ev \in {0, listener.ev},
         listener'.pc # "sending",
         \A u \in Users : Awaiting(u)' => Awaiting(u) /\ listener'.ev = listener.ev
  PROVE  Ahead'
<1>1. \A u \in Users : Known'[u] \subseteq Known[u]
  BY KnownLess
<1>2. published \in Nat /\ listener.ev \in Nat /\ In(bus) \subseteq Event /\ Event \subseteq Nat
  BY InType, EventIsNat, MaxEventsAssumption DEF Shape, TypeOK, Listener
<1>3. BusAhead'
  <2>1. CASE bus' = bus
    <3>1. ASSUME NEW b \in In(bus) PROVE listener'.ev < b
      <4>1. b \in Nat /\ b # 0 /\ listener.ev < b
        BY <1>2, <3>1, EventIsNat DEF Ahead, BusAhead
      <4>2. QED
        BY <4>1
    <3>2. QED
      BY <1>1, <2>1, <3>1 DEF Ahead, BusAhead
  <2>2. CASE bus' = <<>>
    BY <2>2, EmptyIn DEF BusAhead
  <2>3. QED
    BY <2>1, <2>2
<1>4. Published'
  BY <1>1, <1>2 DEF Ahead, Published
<1>5. New'
  BY <1>1 DEF Ahead, New
<1>6. OnePathEach'
  BY DEF Ahead, OnePathEach, NothingNew
<1>7. QED
  BY <1>3, <1>4, <1>5, <1>6 DEF Ahead, Sending

LEMMA AheadNextMember ==
  ASSUME Shape, Shape', Ahead, NothingNew, UNCHANGED <<published, bus>>,
         NextMember, listener.pc \in Serving
  PROVE  Ahead'
<1>1. /\ listener'.pc \in {"idle", "each"} /\ listener'.todo = listener.todo
      /\ listener'.ev = IF listener'.pc = "idle" THEN 0 ELSE listener.ev
  BY NextMemberShape
<1>2. \A u \in Users : Awaiting(u)' => Awaiting(u) /\ listener'.ev = listener.ev
  BY <1>1 DEF Awaiting, Serving
<1>3. QED
  BY <1>1, <1>2, AheadOfListener

LEMMA AheadPublish ==
  ASSUME Shape, Ahead, Publish
  PROVE  Ahead'
<1>1. /\ published \in Nat /\ listener.ev \in Nat /\ bus \in Seq(Event)
      /\ Event \subseteq Nat /\ In(bus) \subseteq Event
  BY InType, EventIsNat, MaxEventsAssumption DEF Shape, TypeOK, Listener
<1>2. /\ published + 1 \in Event /\ In(bus') = In(bus) \cup {published + 1}
      /\ bus' = Append(bus, published + 1) /\ published' = published + 1
      /\ UNCHANGED <<queue, conn, got, listener>>
  BY PublishShape DEF Publish
<1>3. \A u \in Users : Known'[u] \subseteq Known[u]
  BY <1>2, SameKnown, KnownLess
<1>4. Sorted(bus')
  <2>1. ASSUME NEW b \in In(bus) PROVE b < published + 1
    <3>1. b \in Nat /\ b <= published
      BY <1>1, <2>1 DEF Ahead, BusAhead
    <3>2. QED
      BY <1>1, <3>1
  <2>2. QED
    BY <1>1, <1>2, <2>1, AppendSorted DEF Ahead, BusAhead
<1>5. \A u \in Users : \A e \in Known'[u] : e <= published
  BY <1>3 DEF Ahead, Published
<1>6. \A b \in In(bus') : /\ b <= published' /\ listener.ev < b
                          /\ \A u \in Users : \A e \in Known'[u] : e < b
  <2>1. ASSUME NEW b \in In(bus)
        PROVE  /\ b <= published' /\ listener.ev < b
               /\ \A u \in Users : \A e \in Known'[u] : e < b
    <3>1. b <= published /\ b \in Nat
      BY <1>1, <2>1 DEF Ahead, BusAhead
    <3>2. b <= published'
      BY <1>1, <1>2, <3>1
    <3>3. QED
      BY <1>3, <2>1, <3>2 DEF Ahead, BusAhead
  <2>2. /\ published + 1 <= published' /\ listener.ev < published + 1
        /\ \A u \in Users : \A e \in Known'[u] : e < published + 1
    <3>1. published + 1 <= published' /\ listener.ev < published + 1
      BY <1>1, <1>2 DEF Ahead, Published
    <3>2. ASSUME NEW u \in Users, NEW e \in Known'[u] PROVE e < published + 1
      <4>1. e \in Nat /\ e <= published
        BY <1>1, <1>3, <1>5, KnownType
      <4>2. QED
        BY <1>1, <4>1
    <3>3. QED
      BY <3>1, <3>2
  <2>3. QED
    BY <1>2, <2>1, <2>2
<1>7. BusAhead'
  BY <1>2, <1>4, <1>6 DEF BusAhead
<1>8. Published'
  <2>1. ASSUME NEW u \in Users, NEW e \in Known'[u] PROVE e <= published + 1
    <3>1. e \in Nat /\ e <= published
      BY <1>1, <1>3, <1>5, KnownType
    <3>2. QED
      BY <1>1, <3>1
  <2>2. listener.ev <= published + 1
    BY <1>1 DEF Ahead, Published
  <2>3. QED
    BY <1>2, <2>1, <2>2 DEF Published
<1>9. New' /\ OnePathEach'
  BY <1>2, <1>3, SameKnown DEF Ahead, New, Awaiting, OnePathEach, NothingNew
<1>10. Sending'
  BY <1>2 DEF Ahead, Sending, Queued
<1>11. QED
  BY <1>7, <1>8, <1>9, <1>10 DEF Ahead

LEMMA AheadTakeEvent ==
  ASSUME Shape, Ahead, TakeEvent
  PROVE  Ahead'
<1>1. /\ Head(bus) \in Event /\ In(bus) = {Head(bus)} \cup In(bus')
      /\ listener'.pc = "each" /\ listener'.ev = Head(bus)
      /\ listener'.todo = Users /\ listener'.user = NoUser
      /\ bus' = Tail(bus) /\ bus # <<>>
      /\ UNCHANGED <<queue, conn, got, published>>
  BY TakeEventShape DEF TakeEvent
<1>2. \A u \in Users : Known'[u] \subseteq Known[u]
  BY <1>1, SameKnown, KnownLess
<1>3. Sorted(bus') /\ \A b \in In(bus') : Head(bus) < b
  BY <1>1, TailSorted DEF Shape, TypeOK, Ahead, BusAhead
<1>4. BusAhead'
  BY <1>1, <1>2, <1>3 DEF Ahead, BusAhead
<1>5. Published' /\ New'
  BY <1>1, <1>2 DEF Ahead, BusAhead, Published, New
<1>6. Sending' /\ OnePathEach'
  BY <1>1, SameKnown DEF Ahead, Sending, OnePathEach, NothingNew
<1>7. QED
  BY <1>4, <1>5, <1>6 DEF Ahead

LEMMA AheadTakeSockets ==
  ASSUME Shape, Ahead, TakeSockets
  PROVE  Ahead'
<1>1. /\ Shape' /\ listener.user \in Users \ listener.todo /\ listener.ev \in Event
      /\ UNCHANGED <<queue, conn, got, published, bus>> /\ listener.pc = "send"
  BY TakeSocketsShape DEF TakeSockets
<1>2. NothingNew /\ \A u \in Users : Known'[u] \subseteq Known[u]
  BY <1>1, SameKnown, KnownLess
<1>3. CASE NextMember
  BY <1>1, <1>2, <1>3, AheadNextMember DEF Serving
<1>4. CASE /\ listener'.pc = "sending" /\ listener'.ev = listener.ev
           /\ listener'.todo = listener.todo /\ listener'.user = listener.user
           /\ listener'.targets = sockets[listener.user]
  <2>1. BusAhead' /\ Published' /\ OnePathEach'
    BY <1>1, <1>2, <1>4 DEF Ahead, BusAhead, Published, OnePathEach, NothingNew
  <2>2. New'
    BY <1>1, <1>2, <1>4 DEF Ahead, New, Awaiting
  <2>3. \A e \in Known[listener.user] : e < listener.ev
    BY <1>1 DEF Ahead, New, Awaiting
  <2>4. \A e \in Queued'[listener.user] : e < listener.ev
    BY <1>1, <1>2, <2>3 DEF NothingNew, Known
  <2>5. ASSUME NEW c \in sockets[listener.user], NEW d \in In(got[c])
        PROVE  d.ev < listener.ev
    <3>1. c \in Conns /\ conn[c].user = listener.user /\ got[c] \in Seq(Delivery)
      BY <1>1, <2>5 DEF Shape, TypeOK, SocketsFit
    <3>2. d \in Delivery /\ d.ev \in Event
      <4>1. d \in Delivery
        BY <2>5, <3>1, InType
      <4>2. QED
        BY <4>1 DEF Delivery
    <3>3. d.ev \in Known[listener.user]
      BY <1>1, <2>5, <3>1, <3>2 DEF Known, Queued, SentLive
    <3>4. QED
      BY <2>3, <3>2, <3>3
  <2>6. Sending'
    BY <1>1, <1>4, <2>4, <2>5 DEF Sending
  <2>7. QED
    BY <2>1, <2>2, <2>6 DEF Ahead
<1>5. QED
  BY <1>3, <1>4, TakeSocketsShape

LEMMA AheadSendTo ==
  ASSUME Shape, Ahead, NEW c \in Conns, SendTo(c)
  PROVE  Ahead'
<1> DEFINE u == listener.user
           e == listener.ev
<1>1. /\ Shape' /\ OnlyConn(c) /\ conn' = conn /\ conn[c].user = u
      /\ u \in Users \ listener.todo /\ e \in Event /\ c \in listener.targets
      /\ listener'.pc = "sending" /\ listener'.ev = e
      /\ listener'.todo = listener.todo /\ listener'.user = u
      /\ listener'.targets = listener.targets \ {c}
      /\ listener.pc = "sending"
      /\ UNCHANGED <<queue, published, bus>>
      /\ Delivered(c) \/ Missed
  BY SendToShape DEF SendTo
<1>2. /\ Queued' = Queued
      /\ \A v \in Users : SentLive'[v] \subseteq
            IF v = u THEN SentLive[u] \cup {e} ELSE SentLive[v]
  <2>1. CASE Delivered(c)
    <3> DEFINE d == [ev |-> e, live |-> TRUE]
    <3>1. d \in Delivery /\ d.live /\ d.ev = e /\ got'[c] = Append(got[c], d)
      BY <1>1, <2>1 DEF Delivery, Delivered
    <3> HIDE DEF d
    <3>2. In(got'[c]) = In(got[c]) \cup {d}
      BY <3>1, AppendIn DEF Shape, TypeOK
    <3>3. \A b \in Conns \ {c} : got'[b] = got[b]
      BY <1>1 DEF OnlyConn
    <3>4. Queued' = Queued
      <4>1. \A v \in Users, x \in Event :
              (\E b \in Conns : /\ conn'[b].user = v
                                /\ \/ x \in In(conn'[b].batch)
                                   \/ \E y \in In(got'[b]) : ~y.live /\ y.ev = x)
              <=> (\E b \in Conns : /\ conn[b].user = v
                                    /\ \/ x \in In(conn[b].batch)
                                       \/ \E y \in In(got[b]) : ~y.live /\ y.ev = x)
        <5>1. \A b \in Conns, x \in Event :
                (\E y \in In(got'[b]) : ~y.live /\ y.ev = x)
                  <=> (\E y \in In(got[b]) : ~y.live /\ y.ev = x)
          BY <3>1, <3>2, <3>3
        <5>2. QED
          BY <1>1, <5>1
      <4>2. QED
        BY <1>1, <4>1 DEF Queued
    <3>5. ASSUME NEW v \in Users, NEW x \in SentLive'[v]
          PROVE  x \in IF v = u THEN SentLive[u] \cup {e} ELSE SentLive[v]
      <4>1. /\ x \in Event
            /\ \E b \in Conns : conn[b].user = v /\ \E y \in In(got'[b]) : y.live /\ y.ev = x
        BY <1>1, <3>5 DEF SentLive
      <4>2. PICK b \in Conns : conn[b].user = v /\ \E y \in In(got'[b]) : y.live /\ y.ev = x
        BY <4>1
      <4>3. CASE b # c
        BY <3>3, <4>1, <4>2, <4>3 DEF SentLive
      <4>4. CASE b = c
        BY <1>1, <3>1, <3>2, <4>1, <4>2, <4>4 DEF SentLive
      <4>5. QED
        BY <4>3, <4>4
    <3>6. QED
      BY <3>4, <3>5
  <2>2. CASE Missed
    BY <1>1, <2>2, SameKnown DEF Missed
  <2>3. QED
    BY <1>1, <2>1, <2>2
<1>3. \A v \in Users : \A x \in Known'[v] : x \in Known[v] \/ (v = u /\ x = e)
  BY <1>2 DEF Known
<1>4. \A x \in Queued[u] : x < e
  BY <1>1 DEF Ahead, Sending
<1>5. BusAhead' /\ Published'
  BY <1>1, <1>3 DEF Ahead, BusAhead, Published
<1>6. New'
  BY <1>1, <1>3 DEF Ahead, New, Awaiting
<1>7. Sending'
  BY <1>1, <1>2, <1>4 DEF Ahead, Sending, OnlyConn, Shape, TypeOK, Listener
<1>8. OnePathEach'
  <2>1. e \notin Queued[u]
    <3>1. e \in Nat
      BY <1>1, EventIsNat
    <3>2. ~(e < e)
      BY <3>1
    <3>3. QED
      BY <1>4, <3>2
  <2>2. QED
    BY <1>2, <2>1 DEF Ahead, OnePathEach
<1>9. QED
  BY <1>5, <1>6, <1>7, <1>8 DEF Ahead

LEMMA AheadPush ==
  ASSUME Shape, Shape', Ahead, Push,
         listener'.pc \in {"idle", "each"}, listener'.todo \subseteq listener.todo,
         listener'.ev = IF listener'.pc = "idle" THEN 0 ELSE listener.ev
  PROVE  Ahead'
<1> DEFINE u == listener.user
           e == listener.ev
<1>1. /\ listener.pc = "enqueue"
      /\ u \in Users \ listener.todo /\ e \in Event
      /\ In(queue'[u]) = In(queue[u]) \cup {e}
      /\ \A v \in Users \ {u} : queue'[v] = queue[v]
      /\ UNCHANGED <<conn, got, published, bus>>
  BY PushShape DEF Push, Shape, TypeOK
<1>2. /\ listener'.pc \in {"idle", "each"} /\ listener'.todo \subseteq listener.todo
      /\ listener'.ev = IF listener'.pc = "idle" THEN 0 ELSE e
  OBVIOUS
<1>3. /\ SentLive' = SentLive
      /\ \A v \in Users : Queued'[v] \subseteq
            IF v = u THEN Queued[u] \cup {e} ELSE Queued[v]
  <2>1. SentLive' = SentLive
    BY <1>1 DEF SentLive
  <2>2. QED
    BY <1>1, <2>1 DEF Queued
<1>4. \A v \in Users : \A x \in Known'[v] : x \in Known[v] \/ (v = u /\ x = e)
  BY <1>3 DEF Known
<1>5. /\ \A b \in In(bus) : b \in Nat /\ b # 0
      /\ published \in Nat
  <2>1. bus \in Seq(Event) /\ published \in 0..MaxEvents
    BY DEF Shape, TypeOK
  <2>2. In(bus) \subseteq Event
    BY <2>1, InType
  <2>3. \A b \in In(bus) : b \in Nat /\ b # 0
    BY <2>2, EventIsNat
  <2>4. published \in Nat
    BY <2>1, MaxEventsAssumption
  <2>5. QED
    BY <2>3, <2>4
<1>6. BusAhead'
  <2>1. ASSUME NEW b \in In(bus) PROVE listener'.ev < b
    <3>1. e < b
      BY <2>1 DEF Ahead, BusAhead
    <3>2. QED
      BY <1>2, <1>5, <2>1, <3>1
  <2>2. QED
    BY <1>1, <1>4, <2>1 DEF Ahead, BusAhead
<1>7. Published'
  BY <1>1, <1>2, <1>4, <1>5 DEF Ahead, Published
<1>8. New'
  BY <1>1, <1>2, <1>4 DEF Ahead, New, Awaiting
<1>9. Sending'
  BY <1>2 DEF Sending
<1>10. OnePathEach'
  <2>1. \A x \in Known[u] : x < e
    BY <1>1 DEF Ahead, New, Awaiting
  <2>2. e \notin SentLive[u]
    <3>1. e \in Nat
      BY <1>1, EventIsNat
    <3>2. ~(e < e)
      BY <3>1
    <3>3. QED
      BY <1>1, <2>1, <3>2 DEF Known
  <2>3. QED
    BY <1>3, <2>2 DEF Ahead, OnePathEach
<1>11. QED
  BY <1>6, <1>7, <1>8, <1>9, <1>10 DEF Ahead

LEMMA NextIs ==
  Next <=> \/ \E c \in Conns : ConnStep(c)
           \/ Publish
           \/ TakeEvent \/ TakeSockets \/ EndSend \/ Enqueue
           \/ \E u \in Users : CheckOnline(u)
           \/ \E c \in Conns : SendTo(c)
           \/ PubsubFails \/ FailEvent \/ Restart
BY DEF Next, Listen, Leave, Fail, ConnStep, Quiet

LEMMA AheadStep ==
  ASSUME Shape, Ahead, Next
  PROVE  Shape' /\ Ahead'
<1>0. /\ 0 \in {0, listener.ev} /\ Listening.pc # "sending" /\ Listening.ev = 0
      /\ Listening.pc = "idle"
  BY DEF Listening
<1>1. ASSUME NEW c \in Conns, ConnStep(c) PROVE Shape' /\ Ahead'
  BY <1>1, ConnStepEffect, AheadOfConns
<1>2. CASE Publish
  BY <1>2, PublishShape, AheadPublish
<1>3. CASE TakeEvent
  BY <1>3, TakeEventShape, AheadTakeEvent
<1>4. CASE TakeSockets
  BY <1>4, TakeSocketsShape, AheadTakeSockets
<1>5. CASE EndSend
  <2>1. UNCHANGED <<queue, conn, got, published, bus>>
    BY <1>5 DEF EndSend
  <2>2. QED
    BY <1>5, <2>1, EndSendShape, SameKnown, AheadNextMember DEF Serving
<1>6. CASE Enqueue
  <2>1. Shape' /\ Push /\ NextMember /\ listener.pc \in Serving
    BY <1>6, EnqueueShape DEF Enqueue, Serving
  <2>2. /\ listener'.pc \in {"idle", "each"} /\ listener'.todo \subseteq listener.todo
        /\ listener'.ev = IF listener'.pc = "idle" THEN 0 ELSE listener.ev
    BY <2>1, NextMemberShape
  <2>3. QED
    BY <2>1, <2>2, AheadPush
<1>7. ASSUME NEW u \in Users, CheckOnline(u) PROVE Shape' /\ Ahead'
  <2>1. UNCHANGED <<queue, conn, got, published, bus>> /\ u \in listener.todo
        /\ listener.pc = "each"
    BY <1>7 DEF CheckOnline
  <2>2. /\ Shape'
        /\ listener'.pc \in {"send", "enqueue"} /\ listener'.ev = listener.ev
        /\ listener'.todo = listener.todo \ {u} /\ listener'.user = u
    BY <1>7, CheckOnlineShape
  <2>3. \A v \in Users : Awaiting(v)' => Awaiting(v) /\ listener'.ev = listener.ev
    BY <2>1, <2>2 DEF Awaiting
  <2>4. QED
    BY <2>1, <2>2, <2>3, SameKnown, AheadOfListener
<1>8. ASSUME NEW c \in Conns, SendTo(c) PROVE Shape' /\ Ahead'
  BY <1>8, SendToShape, AheadSendTo
<1>9. CASE FailEvent
  <2>1. Shape' /\ UNCHANGED <<conn, got, bus, published>> /\ listener' = Listening
    BY <1>9, FailEventShape
  <2>2. \A v \in Users : ~Awaiting(v)'
    BY <1>0, <2>1 DEF Awaiting
  <2>3. CASE UNCHANGED queue
    BY <1>0, <2>1, <2>2, <2>3, SameKnown, AheadOfListener
  <2>4. CASE Push
    <3>1. listener'.todo \subseteq listener.todo
      BY <2>1 DEF Listening
    <3>2. QED
      BY <1>0, <2>1, <2>4, <3>1, AheadPush
  <2>5. QED
    BY <1>9, <2>3, <2>4, FailEventShape
<1>10. CASE Restart
  <2>1. /\ Shape' /\ UNCHANGED <<published, queue, got>>
        /\ bus' = <<>> /\ listener' = Listening
        /\ \A c \in Conns : conn'[c].user = conn[c].user /\ conn'[c].batch = <<>>
    BY <1>10, RestartShape
  <2>2. \A v \in Users : ~Awaiting(v)'
    BY <1>0, <2>1 DEF Awaiting
  <2>3. NothingNew
    BY <2>1, EmptyIn DEF NothingNew, Queued, SentLive
  <2>4. QED
    BY <1>0, <2>1, <2>2, <2>3, AheadOfListener
<1>11. CASE PubsubFails
  <2>1. Shape' /\ bus' = <<>> /\ UNCHANGED <<published, queue, conn, listener, got>>
    BY <1>11, PubsubFailsShape
  <2>2. NothingNew /\ listener.pc # "sending"
    BY <1>11, <2>1, SameKnown DEF PubsubFails
  <2>3. \A v \in Users : Awaiting(v)' => Awaiting(v) /\ listener'.ev = listener.ev
    BY <2>1 DEF Awaiting
  <2>4. QED
    BY <2>1, <2>2, <2>3, AheadOfListener
<1>12. QED
  BY <1>1, <1>2, <1>3, <1>4, <1>5, <1>6, <1>7, <1>8, <1>9, <1>10, <1>11, NextIs

-----------------------------------------------------------------------------
(***************************************************************************)
(* The order in which a device receives                                    *)
(***************************************************************************)
DeviceOrder(c) ==
  /\ Sorted(conn[c].batch)
  /\ \A e \in In(conn[c].batch) : \A d \in In(got[c]) : ~d.live => d.ev < e
  /\ InOrderAlone(got[c])
Ordered == (\A u \in Users : Sorted(queue[u])) /\ \A c \in Conns : DeviceOrder(c)

LEMMA OrderedIs == /\ Ordered <=> QueueOrder /\ InOrder
                   /\ Ordered' <=> (QueueOrder /\ InOrder)'
BY DEF Ordered, DeviceOrder, QueueOrder, InOrder, InOrderAlone

LEMMA SameOrder ==
  ASSUME Ordered, UNCHANGED <<queue, conn, got>>
  PROVE  Ordered'
BY DEF Ordered, DeviceOrder

LEMMA OrderAlone ==
  ASSUME Ordered, NEW c \in Conns, OnlyConn(c), DeviceOrder(c)',
         \A u \in Users : queue'[u] = queue[u] \/ Sorted(queue'[u])
  PROVE  Ordered'
<1>1. ASSUME NEW b \in Conns, b # c PROVE DeviceOrder(b)'
  BY <1>1 DEF Ordered, DeviceOrder, OnlyConn
<1>2. \A u \in Users : Sorted(queue'[u])
  BY DEF Ordered
<1>3. QED
  BY <1>1, <1>2 DEF Ordered

LEMMA OrderSameDevice ==
  ASSUME Ordered, NEW c \in Conns, OnlyConn(c), got' = got,
         conn'[c].batch = conn[c].batch \/ conn'[c].batch = <<>>,
         \A u \in Users : queue'[u] = queue[u] \/ Sorted(queue'[u])
  PROVE  Ordered'
<1>1. DeviceOrder(c)'
  BY EmptyIn DEF Ordered, DeviceOrder
<1>2. QED
  BY <1>1, OrderAlone

LEMMA OrderReadQueue ==
  ASSUME Shape, Ordered, NEW c \in Conns, ReadQueue(c)
  PROVE  Ordered'
<1>1. /\ OnlyConn(c) /\ conn'[c].batch \in {queue[conn[c].user], <<>>}
      /\ conn[c].user \in Users /\ got' = got /\ queue' = queue
      /\ \A d \in In(got[c]) : d.live
  BY ReadQueueShape, AtWork DEF ReadQueue, At, Shape, ConnFits
<1>2. DeviceOrder(c)'
  BY <1>1, EmptyIn DEF Ordered, DeviceOrder
<1>3. QED
  BY <1>1, <1>2, OrderAlone

LEMMA OrderSendQueued ==
  ASSUME Shape, Ordered, NEW c \in Conns, SendQueued(c)
  PROVE  Ordered'
<1>1. OnlyConn(c) /\ queue' = queue
  BY SendQueuedShape DEF SendQueued
<1>2. CASE Drain(c)
  <2> DEFINE batch == conn[c].batch
             d == [ev |-> Head(batch), live |-> FALSE]
  <2>1. /\ batch \in Seq(Event) /\ got[c] \in Seq(Delivery) /\ batch # <<>>
        /\ DeviceOrder(c)
    BY <1>2, AtWork DEF SendQueued, At, Drain, Ordered
  <2>2. /\ Head(batch) \in Event /\ Head(batch) \in In(batch)
        /\ In(Tail(batch)) \subseteq In(batch)
    BY <2>1, TailIn
  <2>3. Sorted(Tail(batch)) /\ \A e \in In(Tail(batch)) : Head(batch) < e
    BY <2>1, TailSorted DEF DeviceOrder
  <2>4. /\ d \in Delivery /\ ~d.live /\ d.ev = Head(batch)
        /\ got'[c] = Append(got[c], d) /\ conn'[c].batch = Tail(batch)
    BY <1>2, <2>2 DEF Delivery, Drain
  <2> HIDE DEF d, batch
  <2>5. In(got'[c]) = In(got[c]) \cup {d}
    BY <2>1, <2>4, AppendIn
  <2>6. \A x \in In(got[c]) : x.live = d.live => x.ev < d.ev
    BY <2>1, <2>2, <2>4 DEF DeviceOrder, batch
  <2>7. InOrderAlone(got'[c])
    BY <2>1, <2>4, <2>6, AppendInOrder DEF DeviceOrder
  <2>8. DeviceOrder(c)'
    BY <2>1, <2>2, <2>3, <2>4, <2>5, <2>7 DEF DeviceOrder, batch
  <2>9. QED
    BY <1>1, <2>8, OrderAlone
<1>3. CASE Drop(c)
  BY <1>1, <1>3, OrderSameDevice DEF Drop
<1>4. QED
  BY <1>2, <1>3, SendQueuedShape

LEMMA OrderConn ==
  ASSUME Shape, Ordered, NEW c \in Conns, ConnStep(c)
  PROVE  Ordered'
<1>0. TypeOK
  BY DEF Shape
<1>1. ASSUME NEW u \in Users, Accept(c, u) PROVE Ordered'
  <2>1. UNCHANGED <<queue, got>>
    BY <1>1 DEF Accept
  <2>2. conn'[c].batch = <<>> /\ \A d \in Conns \ {c} : conn'[d] = conn[d]
    BY <1>0, <1>1 DEF Accept, TypeOK
  <2>3. QED
    BY <2>1, <2>2, OrderSameDevice DEF OnlyConn
<1>2. CASE AddOnline(c)
  <2>1. UNCHANGED <<queue, got>>
    BY <1>2 DEF AddOnline
  <2>2. QED
    BY <1>2, <2>1, AddOnlineShape, OrderSameDevice
<1>3. CASE ReadQueue(c)
  BY <1>3, OrderReadQueue
<1>4. CASE DeleteQueue(c)
  <2>1. got' = got /\ \A u \in Users : queue'[u] = queue[u] \/ Sorted(queue'[u])
    BY <1>0, <1>4, EmptyIn DEF DeleteQueue, TypeOK
  <2>2. QED
    BY <1>4, <2>1, DeleteQueueShape, OrderSameDevice DEF Deleted, Dropped
<1>5. CASE SendQueued(c)
  BY <1>5, OrderSendQueued
<1>6. CASE Quiet(c)
  BY <1>6, QuietShape, OrderSameDevice
<1>7. CASE Disconnect(c)
  <2>1. UNCHANGED <<queue, got>>
    BY <1>7 DEF Disconnect
  <2>2. QED
    BY <1>7, <2>1, DisconnectShape, OrderSameDevice
<1>8. CASE RemoveOnline(c)
  <2>1. UNCHANGED <<queue, got>>
    BY <1>8 DEF RemoveOnline
  <2>2. QED
    BY <1>8, <2>1, RemoveOnlineShape, OrderSameDevice
<1>9. QED
  BY <1>1, <1>2, <1>3, <1>4, <1>5, <1>6, <1>7, <1>8 DEF ConnStep, Connect

LEMMA OrderSendTo ==
  ASSUME Shape, Ahead, Ordered, NEW c \in Conns, SendTo(c)
  PROVE  Ordered'
<1>1. /\ OnlyConn(c) /\ conn' = conn /\ queue' = queue /\ listener.ev \in Event
      /\ listener.pc = "sending" /\ c \in listener.targets
      /\ DeviceOrder(c) /\ got[c] \in Seq(Delivery)
  BY SendToShape DEF SendTo, Shape, TypeOK, Ordered
<1>2. CASE Delivered(c)
  <2> DEFINE d == [ev |-> listener.ev, live |-> TRUE]
  <2>1. d \in Delivery /\ d.live /\ d.ev = listener.ev /\ got'[c] = Append(got[c], d)
    BY <1>1, <1>2 DEF Delivery, Delivered
  <2> HIDE DEF d
  <2>2. In(got'[c]) = In(got[c]) \cup {d}
    BY <1>1, <2>1, AppendIn
  <2>3. \A x \in In(got[c]) : x.ev < d.ev
    BY <1>1, <2>1 DEF Ahead, Sending
  <2>4. InOrderAlone(got'[c])
    BY <1>1, <2>1, <2>3, AppendInOrder DEF DeviceOrder
  <2>5. DeviceOrder(c)'
    BY <1>1, <2>1, <2>2, <2>4 DEF DeviceOrder
  <2>6. QED
    BY <1>1, <2>5, OrderAlone
<1>3. CASE Missed
  BY <1>1, <1>3, SameOrder DEF Missed
<1>4. QED
  BY <1>2, <1>3, SendToShape

LEMMA OrderPush ==
  ASSUME Shape, Shape', Ahead, Ordered, Push
  PROVE  Ordered'
<1> DEFINE u == listener.user
<1>1. /\ u \in Users /\ listener.ev \in Event /\ listener.pc = "enqueue"
      /\ queue'[u] = Append(queue[u], listener.ev)
      /\ \A v \in Users \ {u} : queue'[v] = queue[v]
      /\ UNCHANGED <<conn, got>> /\ queue[u] \in Seq(Event)
  BY PushShape DEF Push, Shape, TypeOK
<1>2. \A e \in In(queue[u]) : e < listener.ev
  <2>1. In(queue[u]) \subseteq Event
    BY <1>1, InType
  <2>2. In(queue[u]) \subseteq Known[u]
    BY <1>1, <2>1 DEF Known, Queued
  <2>3. QED
    BY <1>1, <2>2 DEF Ahead, New, Awaiting
<1>3. Sorted(queue'[u])
  BY <1>1, <1>2, AppendSorted DEF Ordered
<1>4. QED
  BY <1>1, <1>3 DEF Ordered, DeviceOrder

LEMMA OrderStep ==
  ASSUME Shape, Ahead, Ordered, Next
  PROVE  Ordered'
<1>1. ASSUME NEW c \in Conns, ConnStep(c) PROVE Ordered'
  BY <1>1, OrderConn
<1>2. CASE Publish \/ TakeEvent \/ TakeSockets \/ EndSend \/ PubsubFails
           \/ \E u \in Users : CheckOnline(u)
  <2>1. UNCHANGED <<queue, conn, got>>
    BY <1>2 DEF Publish, TakeEvent, TakeSockets, EndSend, PubsubFails, CheckOnline
  <2>2. QED
    BY <2>1, SameOrder
<1>3. CASE Enqueue
  BY <1>3, EnqueueShape, OrderPush
<1>f. CASE FailEvent
  BY <1>f, FailEventShape, OrderPush, SameOrder
<1>4. ASSUME NEW c \in Conns, SendTo(c) PROVE Ordered'
  BY <1>4, OrderSendTo
<1>5. CASE Restart
  <2>1. UNCHANGED <<queue, got>> /\ \A c \in Conns : conn'[c].batch = <<>>
    BY <1>5, RestartShape
  <2>2. QED
    BY <2>1, EmptyIn DEF Ordered, DeviceOrder
<1>6. QED
  BY <1>1, <1>2, <1>3, <1>f, <1>4, <1>5, NextIs

-----------------------------------------------------------------------------
(***************************************************************************)
(* Nothing is lost but by the steps that say so                            *)
(***************************************************************************)
NothingForgotten ==
  /\ lost \subseteq lost'
  /\ \A u \in Users :
       /\ SentLive[u] \subseteq SentLive'[u]
       /\ \A e \in Known[u] : e \in Known'[u] \/ <<u, e>> \in lost'

LEMMA KeptAlone ==
  ASSUME NEW c \in Conns, OnlyConn(c), conn'[c].user = conn[c].user,
         lost \subseteq lost', In(got[c]) \subseteq In(got'[c]),
         \A u \in Users : \A e \in In(queue[u]) :
            \/ e \in In(queue'[u]) \/ <<u, e>> \in lost'
            \/ u = conn[c].user /\ e \in In(conn'[c].batch),
         \A e \in In(conn[c].batch) :
            \/ e \in In(conn'[c].batch) \/ <<conn[c].user, e>> \in lost'
            \/ \E d \in In(got'[c]) : ~d.live /\ d.ev = e
  PROVE  NothingForgotten
<1>1. \A b \in Conns : /\ conn'[b].user = conn[b].user
                       /\ In(got[b]) \subseteq In(got'[b])
                       /\ b # c => conn'[b].batch = conn[b].batch
  BY DEF OnlyConn
<1> SUFFICES ASSUME NEW u \in Users
             PROVE  /\ SentLive[u] \subseteq SentLive'[u]
                    /\ \A e \in Queued[u] : e \in Queued'[u] \/ <<u, e>> \in lost'
  BY DEF NothingForgotten, Known
<1>2. ASSUME NEW e \in SentLive[u] PROVE e \in SentLive'[u]
  <2>1. /\ e \in Event
        /\ \E b \in Conns : conn[b].user = u /\ \E d \in In(got[b]) : d.live /\ d.ev = e
    BY <1>2 DEF SentLive
  <2>2. PICK b \in Conns : conn[b].user = u /\ \E d \in In(got[b]) : d.live /\ d.ev = e
    BY <2>1
  <2>x. conn'[b].user = u /\ In(got[b]) \subseteq In(got'[b])
    BY <1>1, <2>2
  <2>3. conn'[b].user = u /\ \E d \in In(got'[b]) : d.live /\ d.ev = e
    BY <2>x, <2>2
  <2>4. QED
    BY <2>1, <2>3 DEF SentLive
<1>3. ASSUME NEW e \in Queued[u] PROVE e \in Queued'[u] \/ <<u, e>> \in lost'
  <2>1. /\ e \in Event
        /\ \/ e \in In(queue[u])
           \/ \E b \in Conns : /\ conn[b].user = u
                               /\ \/ e \in In(conn[b].batch)
                                  \/ \E d \in In(got[b]) : ~d.live /\ d.ev = e
    BY <1>3 DEF Queued
  <2>2. CASE e \in In(queue[u])
    BY <1>1, <2>1, <2>2 DEF Queued
  <2>3. ASSUME NEW b \in Conns, conn[b].user = u, e \in In(conn[b].batch)
        PROVE  e \in Queued'[u] \/ <<u, e>> \in lost'
    <3>1. CASE b = c
      BY <1>1, <2>1, <2>3, <3>1 DEF Queued
    <3>2. CASE b # c
      <4>1. conn'[b].user = u /\ e \in In(conn'[b].batch)
        BY <1>1, <2>3, <3>2
      <4>2. QED
        BY <2>1, <4>1 DEF Queued
    <3>3. QED
      BY <3>1, <3>2
  <2>4. ASSUME NEW b \in Conns, conn[b].user = u,
               \E d \in In(got[b]) : ~d.live /\ d.ev = e
        PROVE  e \in Queued'[u]
    <3>1. conn'[b].user = u /\ \E d \in In(got'[b]) : ~d.live /\ d.ev = e
      BY <1>1, <2>4
    <3>2. QED
      BY <2>1, <3>1 DEF Queued
  <2>5. QED
    BY <2>1, <2>2, <2>3, <2>4
<1>4. QED
  BY <1>2, <1>3

\* What is stored is forgotten by no step either.
StoredKept == /\ lost \subseteq lost'
              /\ \A u \in Users : \A e \in Stored[u] :
                   e \in Stored'[u] \/ <<u, e>> \in lost'

LEMMA StoredAlone ==
  ASSUME NEW c \in Conns, OnlyConn(c), conn'[c].user = conn[c].user,
         lost \subseteq lost', In(got[c]) \subseteq In(got'[c]),
         \A u \in Users : \A e \in In(queue[u]) :
            \/ e \in In(queue'[u]) \/ <<u, e>> \in lost'
            \/ u = conn[c].user /\ conn'[c].pc # "delete" /\ e \in In(conn'[c].batch),
         conn[c].pc # "delete" =>
           \A e \in In(conn[c].batch) :
             \/ conn'[c].pc # "delete" /\ e \in In(conn'[c].batch)
             \/ <<conn[c].user, e>> \in lost'
             \/ \E d \in In(got'[c]) : ~d.live /\ d.ev = e
  PROVE  StoredKept
<1>1. \A b \in Conns : /\ conn'[b].user = conn[b].user
                       /\ In(got[b]) \subseteq In(got'[b])
                       /\ b # c => conn'[b] = conn[b]
  BY DEF OnlyConn
<1> SUFFICES ASSUME NEW u \in Users, NEW e \in Stored[u]
             PROVE  e \in Stored'[u] \/ <<u, e>> \in lost'
  BY DEF StoredKept
<1>2. e \in Event
  BY DEF Stored
<1>3. CASE e \in In(queue[u])
  BY <1>1, <1>2, <1>3 DEF Stored
<1>4. ASSUME NEW b \in Conns, conn[b].user = u, conn[b].pc # "delete",
             e \in In(conn[b].batch)
      PROVE  e \in Stored'[u] \/ <<u, e>> \in lost'
  <2>1. CASE b = c
    BY <1>1, <1>2, <1>4, <2>1 DEF Stored
  <2>2. CASE b # c
    <3>1. conn'[b].user = u /\ conn'[b].pc # "delete" /\ e \in In(conn'[b].batch)
      BY <1>1, <1>4, <2>2
    <3>2. QED
      BY <1>2, <3>1 DEF Stored
  <2>3. QED
    BY <2>1, <2>2
<1>5. ASSUME NEW b \in Conns, conn[b].user = u, \E d \in In(got[b]) : ~d.live /\ d.ev = e
      PROVE  e \in Stored'[u]
  <2>1. conn'[b].user = u /\ \E d \in In(got'[b]) : ~d.live /\ d.ev = e
    BY <1>1, <1>5
  <2>2. QED
    BY <1>2, <2>1 DEF Stored
<1>6. QED
  BY <1>3, <1>4, <1>5 DEF Stored

LEMMA BackedAlone ==
  ASSUME Shape, Shape', Backed, NEW c \in Conns, OnlyConn(c), StoredKept,
         conn'[c].user = conn[c].user,
         conn'[c].pc = "delete" =>
           \/ conn[c].pc = "delete" /\ conn'[c].batch = conn[c].batch
           \/ In(conn'[c].batch) \subseteq Stored'[conn[c].user]
  PROVE  Backed'
<1> SUFFICES ASSUME NEW b \in Conns, conn'[b].pc = "delete", NEW e \in In(conn'[b].batch)
             PROVE  e \in Stored'[conn'[b].user] \/ <<conn'[b].user, e>> \in lost'
  BY DEF Backed
<1>1. conn'[b].user = conn[b].user
  BY DEF OnlyConn
<1>2. CASE conn[b].pc = "delete" /\ conn'[b].batch = conn[b].batch
  <2>1. conn[b].user \in Users
    BY <1>2, AtWork
  <2>2. e \in Stored[conn[b].user] \/ <<conn[b].user, e>> \in lost
    BY <1>2 DEF Backed
  <2>3. QED
    BY <1>1, <2>1, <2>2 DEF StoredKept
<1>3. CASE b = c /\ In(conn'[c].batch) \subseteq Stored'[conn[c].user]
  BY <1>1, <1>3
<1>4. QED
  BY <1>2, <1>3 DEF OnlyConn

LEMMA BackedConn ==
  ASSUME Shape, Backed, NEW c \in Conns, ConnStep(c)
  PROVE  Backed'
<1>0. TypeOK /\ ConnFits(c) /\ Shape'
  BY ConnStepEffect DEF Shape
<1>e. In(<<>>) = {}
  BY EmptyIn
<1>1. ASSUME NEW u \in Users, Accept(c, u) PROVE Backed'
  <2>1. /\ UNCHANGED <<queue, got, lost>> /\ conn[c].user = NoUser
        /\ conn'[c].pc = "accepted"
        /\ \A d \in Conns \ {c} : conn'[d] = conn[d]
    BY <1>0, <1>1 DEF Accept, TypeOK, At, ConnFits
  <2>2. \A v \in Users, b \in Conns : conn[b].user = v => conn'[b] = conn[b]
    BY <2>1, NoUserAssumption
  <2>3. \A v \in Users : Stored[v] \subseteq Stored'[v]
    BY <2>1, <2>2 DEF Stored
  <2>4. ASSUME NEW b \in Conns, conn'[b].pc = "delete"
        PROVE  conn'[b] = conn[b] /\ conn[b].user \in Users
    <3>1. conn'[b] = conn[b] /\ conn[b].pc # "free"
      BY <2>1, <2>4
    <3>2. QED
      BY <3>1, AtWork
  <2>5. QED
    BY <2>1, <2>3, <2>4 DEF Backed
<1>2. CASE AddOnline(c)
  <2>1. UNCHANGED <<queue, got, lost>>
    BY <1>2 DEF AddOnline
  <2>2. StoredKept
    BY <1>2, <2>1, AddOnlineShape, StoredAlone
  <2>3. QED
    BY <1>0, <1>2, <2>2, AddOnlineShape, BackedAlone
<1>3. CASE ReadQueue(c)
  <2>1. UNCHANGED <<queue, got, lost>> /\ conn[c].batch = <<>> /\ conn[c].pc = "online"
    BY <1>0, <1>3 DEF ReadQueue, At, ConnFits
  <2>2. StoredKept
    BY <1>e, <1>3, <2>1, ReadQueueShape, StoredAlone
  <2>3. In(conn'[c].batch) \subseteq Stored'[conn[c].user]
    <3>1. /\ conn[c].user \in Users /\ queue' = queue
          /\ In(queue[conn[c].user]) \subseteq Event
      BY <2>1, AtWork, InType
    <3>2. QED
      BY <1>e, <1>3, <3>1, ReadQueueShape DEF Stored
  <2>4. QED
    BY <1>0, <1>3, <2>2, <2>3, ReadQueueShape, BackedAlone
<1>4. CASE DeleteQueue(c)
  <2> DEFINE u == conn[c].user
  <2>1. /\ got' = got /\ conn[c].pc = "delete" /\ conn'[c].pc # "delete"
        /\ OnlyConn(c) /\ conn'[c].user = u
        /\ Deleted(c) \/ Dropped(c)
    BY <1>4, DeleteQueueShape DEF DeleteQueue, At
  <2>2. /\ lost \subseteq lost'
        /\ \A v \in Users : \A e \in In(queue[v]) :
              \/ e \in In(queue'[v]) \/ <<v, e>> \in lost'
              \/ v = u /\ e \in In(conn'[c].batch)
    BY <1>0, <2>1 DEF Deleted, Dropped, Lose, TypeOK
  <2>3. StoredKept
    BY <2>1, <2>2, StoredAlone
  <2>4. QED
    BY <1>0, <2>1, <2>3, BackedAlone
<1>5. CASE SendQueued(c)
  <2>1. /\ OnlyConn(c) /\ conn'[c].user = conn[c].user /\ queue' = queue
        /\ conn[c].batch \in Seq(Event) /\ got[c] \in Seq(Delivery)
        /\ Drain(c) \/ Drop(c)
    BY <1>5, SendQueuedShape, AtWork DEF SendQueued, At
  <2>2. conn'[c].pc # "delete"
    BY <2>1 DEF Drain, Drop
  <2>3. CASE Drain(c)
    <3> DEFINE e == Head(conn[c].batch)
               d == [ev |-> e, live |-> FALSE]
    <3>1. e \in Event /\ In(conn[c].batch) = {e} \cup In(conn'[c].batch)
      BY <2>1, <2>3, TailIn DEF Drain
    <3>2. d \in Delivery /\ ~d.live /\ d.ev = e /\ got'[c] = Append(got[c], d)
      BY <2>3, <3>1 DEF Delivery, Drain
    <3> HIDE DEF d, e
    <3>3. In(got'[c]) = In(got[c]) \cup {d}
      BY <2>1, <3>2, AppendIn
    <3>4. lost' = lost
      BY <2>3 DEF Drain
    <3>5. StoredKept
      BY <2>1, <2>2, <3>1, <3>2, <3>3, <3>4, StoredAlone
    <3>6. QED
      BY <1>0, <2>1, <2>2, <3>5, BackedAlone
  <2>4. CASE Drop(c)
    <3>1. StoredKept
      BY <2>1, <2>2, <2>4, StoredAlone DEF Drop, Lose
    <3>2. QED
      BY <1>0, <2>1, <2>2, <3>1, BackedAlone
  <2>5. QED
    BY <2>1, <2>3, <2>4
<1>6. CASE Quiet(c)
  <2>1. StoredKept
    BY <1>6, QuietShape, StoredAlone
  <2>2. QED
    BY <1>0, <1>6, <2>1, QuietShape, BackedAlone
<1>7. CASE Disconnect(c)
  <2>1. UNCHANGED <<queue, got, lost>>
    BY <1>7 DEF Disconnect
  <2>2. StoredKept
    BY <1>7, <2>1, DisconnectShape, StoredAlone
  <2>3. QED
    BY <1>0, <1>7, <2>2, DisconnectShape, BackedAlone
<1>8. CASE RemoveOnline(c)
  <2>1. StoredKept
    BY <1>8, RemoveOnlineShape, StoredAlone
  <2>2. QED
    BY <1>0, <1>8, <2>1, RemoveOnlineShape, BackedAlone
<1>9. QED
  BY <1>1, <1>2, <1>3, <1>4, <1>5, <1>6, <1>7, <1>8 DEF ConnStep, Connect

LEMMA BackedListener ==
  ASSUME Shape, Backed, conn' = conn, lost \subseteq lost',
         \A u \in Users : In(queue[u]) \subseteq In(queue'[u]),
         \A c \in Conns : In(got[c]) \subseteq In(got'[c])
  PROVE  Backed'
<1>1. \A u \in Users : Stored[u] \subseteq Stored'[u]
  <2> SUFFICES ASSUME NEW u \in Users, NEW e \in Stored[u] PROVE e \in Stored'[u]
    OBVIOUS
  <2>1. /\ e \in Event
        /\ \/ e \in In(queue[u])
           \/ \E c \in Conns : /\ conn[c].user = u
                               /\ \/ conn[c].pc # "delete" /\ e \in In(conn[c].batch)
                                  \/ \E d \in In(got[c]) : ~d.live /\ d.ev = e
    BY DEF Stored
  <2>2. CASE e \in In(queue[u])
    BY <2>1, <2>2 DEF Stored
  <2>3. ASSUME NEW c \in Conns, conn[c].user = u,
               \/ conn[c].pc # "delete" /\ e \in In(conn[c].batch)
               \/ \E d \in In(got[c]) : ~d.live /\ d.ev = e
        PROVE  e \in Stored'[u]
    <3>1. /\ conn'[c].user = u
          /\ \/ conn'[c].pc # "delete" /\ e \in In(conn'[c].batch)
             \/ \E d \in In(got'[c]) : ~d.live /\ d.ev = e
      BY <2>3
    <3>2. QED
      BY <2>1, <3>1 DEF Stored
  <2>4. QED
    BY <2>1, <2>2, <2>3
<1>2. \A c \in Conns : conn[c].pc = "delete" => conn[c].user \in Users
  BY AtWork
<1>3. QED
  BY <1>1, <1>2 DEF Backed

LEMMA BackedStep ==
  ASSUME Shape, Backed, Next
  PROVE  Backed'
<1>1. ASSUME NEW c \in Conns, ConnStep(c) PROVE Backed'
  BY <1>1, BackedConn
<1>2. CASE Publish \/ TakeEvent \/ TakeSockets \/ EndSend \/ PubsubFails
           \/ \E u \in Users : CheckOnline(u)
  <2>1. UNCHANGED <<queue, conn, got>> /\ lost \subseteq lost'
    BY <1>2 DEF Publish, TakeEvent, TakeSockets, EndSend, PubsubFails, CheckOnline, Lose
  <2>2. QED
    BY <2>1, BackedListener
<1>3. ASSUME NEW c \in Conns, SendTo(c) PROVE Backed'
  <2>1. /\ conn' = conn /\ queue' = queue /\ OnlyConn(c) /\ got[c] \in Seq(Delivery)
        /\ listener.ev \in Event /\ (Delivered(c) \/ Missed)
    BY <1>3, SendToShape DEF SendTo, Shape, TypeOK
  <2>2. lost \subseteq lost'
    BY <2>1 DEF Delivered, Missed, Lose
  <2>3. In(got[c]) \subseteq In(got'[c])
    <3>1. CASE Delivered(c)
      <4> DEFINE d == [ev |-> listener.ev, live |-> TRUE]
      <4>1. d \in Delivery /\ got'[c] = Append(got[c], d)
        BY <2>1, <3>1 DEF Delivery, Delivered
      <4> HIDE DEF d
      <4>2. QED
        BY <2>1, <4>1, AppendIn
    <3>2. CASE Missed
      BY <3>2 DEF Missed
    <3>3. QED
      BY <2>1, <3>1, <3>2
  <2>4. \A b \in Conns : In(got[b]) \subseteq In(got'[b])
    BY <2>1, <2>3 DEF OnlyConn
  <2>5. QED
    BY <2>1, <2>2, <2>4, BackedListener
<1>4. CASE Enqueue \/ FailEvent
  <2>1. conn' = conn /\ got' = got /\ lost \subseteq lost'
    BY <1>4 DEF Enqueue, FailEvent, Lose
  <2>2. CASE queue' = queue
    BY <2>1, <2>2, BackedListener
  <2>3. CASE Push
    <3>1. /\ queue \in [Users -> Seq(Event)] /\ listener.user \in Users
          /\ listener.ev \in Event
      BY <2>3 DEF Push, Shape, TypeOK, ListenerFits, Serving
    <3>2. In(queue'[listener.user]) = In(queue[listener.user]) \cup {listener.ev}
      BY <2>3, <3>1, AppendIn DEF Push
    <3>3. \A u \in Users : In(queue[u]) \subseteq In(queue'[u])
      BY <2>3, <3>1, <3>2 DEF Push
    <3>4. QED
      BY <2>1, <3>3, BackedListener
  <2>4. QED
    BY <1>4, <2>2, <2>3, EnqueueShape, FailEventShape
<1>5. CASE Restart
  <2>1. \A c \in Conns : conn'[c].pc # "delete"
    BY <1>5, RestartShape DEF Over
  <2>2. QED
    BY <2>1 DEF Backed
<1>6. QED
  BY <1>1, <1>2, <1>3, <1>4, <1>5, NextIs

LEMMA ConnForgetsNothing ==
  ASSUME Shape, Backed, NEW c \in Conns, ConnStep(c)
  PROVE  NothingForgotten
<1>0. TypeOK
  BY DEF Shape
<1>1. ASSUME NEW u \in Users, Accept(c, u) PROVE NothingForgotten
  <2>1. /\ UNCHANGED <<queue, got, lost>> /\ conn[c].user = NoUser
        /\ \A d \in Conns \ {c} : conn'[d] = conn[d]
    BY <1>0, <1>1 DEF Accept, TypeOK, At, Shape, ConnFits
  <2>2. \A v \in Users, b \in Conns : conn[b].user = v => conn'[b] = conn[b]
    BY <2>1, NoUserAssumption
  <2>3. ASSUME NEW v \in Users
        PROVE  Queued[v] \subseteq Queued'[v] /\ SentLive[v] \subseteq SentLive'[v]
    BY <2>1, <2>2 DEF Queued, SentLive
  <2>4. QED
    BY <2>1, <2>3 DEF NothingForgotten, Known
<1>2. CASE AddOnline(c)
  <2>1. UNCHANGED <<queue, got, lost>>
    BY <1>2 DEF AddOnline
  <2>2. QED
    BY <1>2, <2>1, AddOnlineShape, KeptAlone
<1>3. CASE ReadQueue(c)
  <2>1. UNCHANGED <<queue, got, lost>> /\ conn[c].batch = <<>>
    BY <1>3 DEF ReadQueue, At, Shape, ConnFits
  <2>2. QED
    BY <1>3, <2>1, EmptyIn, ReadQueueShape, KeptAlone
<1>4. CASE DeleteQueue(c)
  <2> DEFINE u == conn[c].user
  <2>1. /\ OnlyConn(c) /\ conn'[c].user = u /\ got' = got
        /\ Deleted(c) \/ Dropped(c)
        /\ \A d \in In(got[c]) : d.live
    BY <1>4, DeleteQueueShape DEF DeleteQueue, At, Shape, ConnFits
  <2>2. CASE Deleted(c)
    <3>1. /\ \A v \in Users \ {u} : queue'[v] = queue[v]
          /\ lost' = lost \cup ({u} \X (In(queue[u]) \ In(conn[c].batch)))
          /\ conn'[c].batch = conn[c].batch
      BY <1>0, <2>2 DEF Deleted, TypeOK, Lose
    <3>2. \A v \in Users : \A e \in In(queue[v]) :
              \/ e \in In(queue'[v]) \/ <<v, e>> \in lost'
              \/ v = u /\ e \in In(conn'[c].batch)
      BY <3>1
    <3>3. QED
      BY <2>1, <3>1, <3>2, KeptAlone
  <2>3. CASE Dropped(c) /\ ~UNCHANGED <<queue, lost>>
    <3>1. /\ \A v \in Users \ {u} : queue'[v] = queue[v]
          /\ lost' = lost \cup ({u} \X (In(queue[u]) \cup In(conn[c].batch)))
      BY <1>0, <2>3 DEF Dropped, TypeOK, Lose
    <3>2. /\ \A v \in Users : \A e \in In(queue[v]) :
                e \in In(queue'[v]) \/ <<v, e>> \in lost'
          /\ \A e \in In(conn[c].batch) : <<u, e>> \in lost'
          /\ lost \subseteq lost'
      BY <3>1
    <3>3. QED
      BY <2>1, <3>2, KeptAlone
  <2>4. CASE Dropped(c) /\ UNCHANGED <<queue, lost>>
    <3>1. /\ StoredKept
          /\ SentLive' = SentLive
      <4>1. conn'[c].batch = <<>> /\ conn[c].pc = "delete"
        BY <1>4, <2>4 DEF Dropped, DeleteQueue, At
      <4>2. StoredKept
        BY <2>1, <2>4, <4>1, StoredAlone
      <4>3. \A b \in Conns : conn'[b].user = conn[b].user
        BY <2>1 DEF OnlyConn
      <4>4. QED
        BY <2>1, <4>2, <4>3 DEF SentLive
    <3>2. \A v \in Users : Stored'[v] \subseteq Queued'[v]
      BY DEF Stored, Queued
    <3>3. ASSUME NEW v \in Users, NEW e \in Queued[v]
          PROVE  e \in Stored[v] \/ <<v, e>> \in lost
      <4>1. e \in Event
        BY <3>3 DEF Queued
      <4>2. ASSUME NEW b \in Conns, conn[b].user = v, e \in In(conn[b].batch),
                   conn[b].pc = "delete"
            PROVE  e \in Stored[v] \/ <<v, e>> \in lost
        BY <4>2 DEF Backed
      <4>3. QED
        BY <3>3, <4>1, <4>2 DEF Queued, Stored
    <3>4. \A v \in Users : \A e \in Queued[v] : e \in Queued'[v] \/ <<v, e>> \in lost'
      BY <3>1, <3>2, <3>3 DEF StoredKept
    <3>5. QED
      BY <3>1, <3>4 DEF NothingForgotten, Known, StoredKept
  <2>5. QED
    BY <2>1, <2>2, <2>3, <2>4
<1>5. CASE SendQueued(c)
  <2>1. /\ OnlyConn(c) /\ conn'[c].user = conn[c].user /\ queue' = queue
        /\ conn[c].batch \in Seq(Event) /\ got[c] \in Seq(Delivery)
        /\ Drain(c) \/ Drop(c)
    BY <1>5, SendQueuedShape, AtWork DEF SendQueued, At
  <2>2. CASE Drain(c)
    <3> DEFINE e == Head(conn[c].batch)
               d == [ev |-> e, live |-> FALSE]
    <3>1. e \in Event /\ In(conn[c].batch) = {e} \cup In(conn'[c].batch)
      BY <2>1, <2>2, TailIn DEF Drain
    <3>2. d \in Delivery /\ ~d.live /\ d.ev = e /\ got'[c] = Append(got[c], d)
      BY <2>2, <3>1 DEF Delivery, Drain
    <3> HIDE DEF d, e
    <3>3. In(got'[c]) = In(got[c]) \cup {d}
      BY <2>1, <3>2, AppendIn
    <3>4. lost' = lost
      BY <2>2 DEF Drain
    <3>5. QED
      BY <2>1, <3>1, <3>2, <3>3, <3>4, KeptAlone
  <2>3. CASE Drop(c)
    BY <2>1, <2>3, KeptAlone DEF Drop, Lose
  <2>4. QED
    BY <2>1, <2>2, <2>3
<1>6. CASE Quiet(c)
  BY <1>6, QuietShape, KeptAlone
<1>7. CASE Disconnect(c)
  <2>1. UNCHANGED <<queue, got, lost>>
    BY <1>7 DEF Disconnect
  <2>2. QED
    BY <1>7, <2>1, DisconnectShape, KeptAlone
<1>8. CASE RemoveOnline(c)
  <2>1. UNCHANGED <<queue, got, lost>>
    BY <1>8 DEF RemoveOnline
  <2>2. QED
    BY <1>8, <2>1, RemoveOnlineShape, KeptAlone
<1>9. QED
  BY <1>1, <1>2, <1>3, <1>4, <1>5, <1>6, <1>7, <1>8 DEF ConnStep, Connect

\* What a step has to keep for every event to stay accounted for.
LEMMA UnservedIs ==
  ASSUME Shape, Shape'
  PROVE  /\ Unserved = IF listener.pc = "idle" THEN {} ELSE listener.todo \cup {listener.user}
         /\ Unserved' = IF listener'.pc = "idle" THEN {}
                        ELSE listener'.todo \cup {listener'.user}
<1>1. Listening.pc = "idle"
  BY DEF Listening
<1>2. QED
  BY <1>1 DEF Unserved, Shape, ListenerFits

LEMMA HeldIs ==
  ASSUME NEW u \in Users, NEW e \in Event
  PROVE  /\ Held(u, e) <=> \/ e \in In(bus)
                           \/ listener.ev = e /\ u \in Unserved
                           \/ e \in Known[u]
         /\ Held(u, e)' <=> \/ e \in In(bus')
                            \/ listener'.ev = e /\ u \in Unserved'
                            \/ e \in Known'[u]
<1>1. e \in Known[u] <=> \/ e \in In(queue[u])
                         \/ \E c \in Conns : /\ conn[c].user = u
                                             /\ \/ e \in In(conn[c].batch)
                                                \/ \E d \in In(got[c]) : d.ev = e
  BY DEF Known, Queued, SentLive
<1>2. e \in Known'[u] <=> \/ e \in In(queue'[u])
                          \/ \E c \in Conns : /\ conn'[c].user = u
                                              /\ \/ e \in In(conn'[c].batch)
                                                 \/ \E d \in In(got'[c]) : d.ev = e
  BY DEF Known, Queued, SentLive
<1>3. QED
  BY <1>1, <1>2 DEF Held

LEMMA AccountedKept ==
  ASSUME Shape, Shape', Accounted, NothingForgotten, UNCHANGED published,
         \A u \in Users : \A e \in In(bus) :
            \/ e \in In(bus') \/ <<u, e>> \in lost'
            \/ listener'.ev = e /\ u \in Unserved',
         \A u \in Users : u \in Unserved =>
            \/ listener'.ev = listener.ev /\ u \in Unserved'
            \/ <<u, listener.ev>> \in lost' \/ listener.ev \in Known'[u]
  PROVE  Accounted'
<1> SUFFICES ASSUME NEW u \in Users, NEW e \in 1..published
             PROVE  <<u, e>> \in lost' \/ Held(u, e)'
  BY DEF Accounted
<1>1. e \in Event
  BY MaxEventsAssumption DEF Shape, TypeOK, Event
<1>2. <<u, e>> \in lost \/ Held(u, e)
  BY DEF Accounted
<1>3. CASE <<u, e>> \in lost
  BY <1>3 DEF NothingForgotten
<1>4. CASE e \in In(bus)
  BY <1>1, <1>4, HeldIs
<1>5. CASE listener.ev = e /\ u \in Unserved
  BY <1>1, <1>5, HeldIs
<1>6. CASE e \in Known[u]
  BY <1>1, <1>6, HeldIs DEF NothingForgotten
<1>7. QED
  BY <1>1, <1>2, <1>3, <1>4, <1>5, <1>6, HeldIs

LEMMA SameForgetsNothing ==
  ASSUME UNCHANGED <<queue, conn, got>>, lost \subseteq lost'
  PROVE  NothingForgotten
BY SameKnown DEF NothingForgotten, Known

\* The listener has served the member it turns from.
LEMMA AccountedNextMember ==
  ASSUME Shape, Shape', Accounted, NothingForgotten, UNCHANGED <<published, bus>>,
         NextMember, listener.pc \in Serving,
         <<listener.user, listener.ev>> \in lost' \/ listener.ev \in Known'[listener.user]
  PROVE  Accounted'
<1>1. /\ listener'.pc \in {"idle", "each"} /\ listener'.todo = listener.todo
      /\ listener'.ev = IF listener'.pc = "idle" THEN 0 ELSE listener.ev
      /\ listener.todo # {} => listener'.pc = "each"
  BY NextMemberShape
<1>2. /\ Unserved = listener.todo \cup {listener.user}
      /\ listener.todo # {} => listener.todo \subseteq Unserved'
  BY <1>1, UnservedIs DEF Serving
<1>3. \A u \in Users : u \in Unserved =>
            \/ listener'.ev = listener.ev /\ u \in Unserved'
            \/ <<u, listener.ev>> \in lost' \/ listener.ev \in Known'[u]
  BY <1>1, <1>2
<1>4. QED
  BY <1>3, AccountedKept

LEMMA AccountedConn ==
  ASSUME Shape, Backed, Accounted, Served, NEW c \in Conns, ConnStep(c)
  PROVE  Accounted' /\ Served'
<1>1. Shape' /\ SameWork /\ NothingForgotten
  BY ConnStepEffect, ConnForgetsNothing
<1>2. Unserved' = Unserved
  BY <1>1, UnservedIs DEF SameWork
<1>3. Accounted'
  BY <1>1, <1>2, AccountedKept DEF SameWork
<1>4. Served'
  <2>1. listener.pc = "sending" => listener.user \in Users
    BY DEF Shape, ListenerFits, Serving
  <2>2. QED
    BY <1>1, <2>1 DEF Served, SameWork, NothingForgotten
<1>5. QED
  BY <1>3, <1>4

LEMMA AccountedPublish ==
  ASSUME Shape, Accounted, Served, Publish
  PROVE  Accounted' /\ Served'
<1>1. /\ Shape' /\ published + 1 \in Event /\ In(bus') = In(bus) \cup {published + 1}
      /\ published' = published + 1 /\ published \in 0..MaxEvents
      /\ UNCHANGED <<queue, conn, got, listener, lost>>
  BY PublishShape DEF Publish, Shape, TypeOK
<1>2. Served'
  BY <1>1, SameKnown DEF Served
<1>3. ASSUME NEW u \in Users, NEW e \in 1..(published + 1)
      PROVE  <<u, e>> \in lost' \/ Held(u, e)'
  <2>1. CASE e = published + 1
    BY <1>1, <2>1, HeldIs
  <2>2. CASE e \in 1..published
    <3>1. e \in Event
      BY <1>1, <2>2, MaxEventsAssumption DEF Event
    <3>2. Known' = Known /\ Unserved' = Unserved
      BY <1>1, SameKnown DEF Known, Unserved
    <3>3. <<u, e>> \in lost \/ Held(u, e)
      BY <2>2 DEF Accounted
    <3>4. QED
      BY <1>1, <3>1, <3>2, <3>3, HeldIs
  <2>3. QED
    BY <1>1, <1>3, <2>1, <2>2, MaxEventsAssumption
<1>4. QED
  BY <1>1, <1>2, <1>3 DEF Accounted

LEMMA AccountedTakeEvent ==
  ASSUME Shape, Accounted, TakeEvent
  PROVE  Accounted' /\ Served'
<1>1. /\ Shape' /\ listener = Listening
      /\ In(bus) = {Head(bus)} \cup In(bus')
      /\ listener'.pc = "each" /\ listener'.ev = Head(bus) /\ listener'.todo = Users
      /\ UNCHANGED <<queue, conn, got, published, lost>>
  BY TakeEventShape DEF TakeEvent
<1>2. Unserved = {} /\ Users \subseteq Unserved'
  BY <1>1, UnservedIs DEF Unserved
<1>3. Accounted'
  BY <1>1, <1>2, SameForgetsNothing, AccountedKept
<1>4. QED
  BY <1>1, <1>3 DEF Served

LEMMA AccountedCheckOnline ==
  ASSUME Shape, Accounted, NEW u \in Users, CheckOnline(u)
  PROVE  Accounted' /\ Served'
<1>1. /\ Shape' /\ listener.user = NoUser /\ listener.pc = "each"
      /\ listener'.pc \in {"send", "enqueue"} /\ listener'.ev = listener.ev
      /\ listener'.todo = listener.todo \ {u} /\ listener'.user = u
      /\ UNCHANGED <<queue, conn, got, published, bus, lost>>
  BY CheckOnlineShape DEF CheckOnline
<1>2. \A v \in Users : v \in Unserved => v \in Unserved'
  BY <1>1, UnservedIs, NoUserAssumption
<1>3. Accounted'
  BY <1>1, <1>2, SameForgetsNothing, AccountedKept
<1>4. QED
  BY <1>1, <1>3 DEF Served

LEMMA AccountedTakeSockets ==
  ASSUME Shape, Accounted, TakeSockets
  PROVE  Accounted' /\ Served'
<1>1. /\ Shape' /\ listener.pc = "send" /\ listener.user \in Users
      /\ UNCHANGED <<queue, conn, got, published, bus>> /\ lost \subseteq lost'
  BY TakeSocketsShape DEF TakeSockets, Lose
<1>2. NothingForgotten
  BY <1>1, SameForgetsNothing
<1>3. CASE NextMember /\ Lose({listener.user}, {listener.ev})
  <2>1. <<listener.user, listener.ev>> \in lost'
    BY <1>3 DEF Lose
  <2>2. listener'.pc \in {"idle", "each"}
    BY <1>1, <1>3, NextMemberShape DEF Serving
  <2>3. Accounted'
    BY <1>1, <1>2, <1>3, <2>1, AccountedNextMember DEF Serving
  <2>4. QED
    BY <2>2, <2>3 DEF Served
<1>4. CASE /\ sockets[listener.user] # {}
           /\ listener'.pc = "sending" /\ listener'.ev = listener.ev
           /\ listener'.todo = listener.todo /\ listener'.user = listener.user
           /\ listener'.targets = sockets[listener.user]
  <2>1. Unserved' = Unserved
    BY <1>1, <1>4, UnservedIs
  <2>2. Accounted'
    BY <1>1, <1>2, <1>4, <2>1, AccountedKept
  <2>3. QED
    BY <1>4, <2>2 DEF Served
<1>5. QED
  BY <1>3, <1>4, TakeSocketsShape

LEMMA AccountedSendTo ==
  ASSUME Shape, Accounted, NEW c \in Conns, SendTo(c)
  PROVE  Accounted' /\ Served'
<1> DEFINE u == listener.user
           e == listener.ev
<1>1. /\ Shape' /\ OnlyConn(c) /\ conn' = conn /\ conn[c].user = u
      /\ u \in Users /\ e \in Event /\ listener.pc = "sending"
      /\ listener'.pc = "sending" /\ listener'.ev = e
      /\ listener'.todo = listener.todo /\ listener'.user = u
      /\ UNCHANGED <<queue, published, bus>>
      /\ Delivered(c) \/ Missed
  BY SendToShape DEF SendTo
<1>2. NothingForgotten /\ (<<u, e>> \in lost' \/ e \in SentLive'[u])
  <2>1. CASE Delivered(c)
    <3> DEFINE d == [ev |-> e, live |-> TRUE]
    <3>1. d \in Delivery /\ d.live /\ d.ev = e /\ got'[c] = Append(got[c], d)
      BY <1>1, <2>1 DEF Delivery, Delivered
    <3> HIDE DEF d
    <3>2. In(got'[c]) = In(got[c]) \cup {d}
      BY <3>1, AppendIn DEF Shape, TypeOK
    <3>3. e \in SentLive'[u]
      BY <1>1, <3>1, <3>2 DEF SentLive
    <3>4. lost' = lost
      BY <2>1 DEF Delivered
    <3>5. NothingForgotten
      BY <1>1, <3>2, <3>4, KeptAlone
    <3>6. QED
      BY <3>3, <3>5
  <2>2. CASE Missed
    <3>1. /\ UNCHANGED <<queue, conn, got>> /\ lost \subseteq lost'
          /\ <<u, e>> \in lost'
      BY <1>1, <2>2 DEF Missed, Lose
    <3>2. QED
      BY <3>1, SameForgetsNothing
  <2>3. QED
    BY <1>1, <2>1, <2>2
<1>3. Unserved' = Unserved
  BY <1>1, UnservedIs
<1>4. Accounted'
  BY <1>1, <1>2, <1>3, AccountedKept
<1>5. QED
  BY <1>1, <1>2, <1>4 DEF Served

LEMMA AccountedEndSend ==
  ASSUME Shape, Accounted, Served, EndSend
  PROVE  Accounted' /\ Served'
<1>1. /\ Shape' /\ NextMember /\ listener.pc = "sending" /\ listener.targets = {}
      /\ listener.user \in Users
      /\ UNCHANGED <<queue, conn, got, published, bus, lost>>
  BY EndSendShape DEF EndSend
<1>2. /\ NothingForgotten
      /\ \/ <<listener.user, listener.ev>> \in lost'
         \/ listener.ev \in Known'[listener.user]
  BY <1>1, SameForgetsNothing, SameKnown DEF Served, Known
<1>3. Accounted'
  BY <1>1, <1>2, AccountedNextMember DEF Serving
<1>4. listener'.pc \in {"idle", "each"}
  BY <1>1, NextMemberShape DEF Serving
<1>5. QED
  BY <1>3, <1>4 DEF Served

LEMMA PushForgetsNothing ==
  ASSUME Shape, Shape', Push, lost \subseteq lost'
  PROVE  NothingForgotten /\ listener.ev \in Known'[listener.user]
<1> DEFINE u == listener.user
           e == listener.ev
<1>1. /\ u \in Users /\ e \in Event
      /\ In(queue'[u]) = In(queue[u]) \cup {e}
      /\ \A v \in Users \ {u} : queue'[v] = queue[v]
      /\ UNCHANGED <<conn, got>>
  BY PushShape DEF Push, Shape, TypeOK
<1>2. /\ SentLive' = SentLive
      /\ \A v \in Users : Queued[v] \subseteq Queued'[v]
      /\ e \in Queued'[u]
  <2>1. SentLive' = SentLive
    BY <1>1 DEF SentLive
  <2>2. QED
    BY <1>1, <2>1 DEF Queued
<1>3. QED
  BY <1>1, <1>2 DEF NothingForgotten, Known

LEMMA AccountedEnqueue ==
  ASSUME Shape, Accounted, Enqueue
  PROVE  Accounted' /\ Served'
<1>1. /\ Shape' /\ Push /\ NextMember /\ listener.pc = "enqueue"
      /\ UNCHANGED <<published, bus, lost>>
  BY EnqueueShape DEF Enqueue
<1>2. NothingForgotten /\ listener.ev \in Known'[listener.user]
  BY <1>1, PushForgetsNothing
<1>3. Accounted'
  BY <1>1, <1>2, AccountedNextMember DEF Serving
<1>4. listener'.pc \in {"idle", "each"}
  BY <1>1, NextMemberShape DEF Serving
<1>5. QED
  BY <1>3, <1>4 DEF Served

LEMMA AccountedFailEvent ==
  ASSUME Shape, Accounted, FailEvent
  PROVE  Accounted' /\ Served'
<1>1. /\ Shape' /\ UNCHANGED <<conn, got, bus, published>> /\ listener' = Listening
      /\ lost \subseteq lost' /\ listener.pc \in {"each", "enqueue"}
  BY FailEventShape DEF FailEvent, Lose
<1>2. /\ NothingForgotten
      /\ \A u \in Users : u \in Unserved =>
           <<u, listener.ev>> \in lost' \/ listener.ev \in Known'[u]
  <2>1. CASE /\ UNCHANGED queue
             /\ lost' = lost \cup ((Unserved \ {NoUser}) \X {listener.ev})
    BY <1>1, <2>1, SameForgetsNothing, NoUserAssumption
  <2>2. CASE Push /\ lost' = lost \cup (listener.todo \X {listener.ev})
    <3>1. Unserved = listener.todo \cup {listener.user}
      BY <1>1, <2>2, UnservedIs
    <3>2. NothingForgotten /\ listener.ev \in Known'[listener.user]
      BY <1>1, <2>2, PushForgetsNothing
    <3>3. QED
      BY <2>2, <3>1, <3>2
  <2>3. QED
    BY <2>1, <2>2, FailEventShape
<1>3. Accounted'
  BY <1>1, <1>2, AccountedKept
<1>4. QED
  BY <1>1, <1>3 DEF Served, Listening

LEMMA AccountedPubsubFails ==
  ASSUME Shape, Accounted, Served, PubsubFails
  PROVE  Accounted' /\ Served'
<1>1. /\ Shape' /\ bus' = <<>> /\ UNCHANGED <<published, queue, conn, listener, got>>
      /\ lost' = lost \cup (Users \X In(bus)) /\ listener.pc = "idle"
  BY PubsubFailsShape DEF PubsubFails
<1>2. NothingForgotten /\ Unserved' = Unserved
  BY <1>1, SameForgetsNothing DEF Unserved
<1>3. Accounted'
  BY <1>1, <1>2, AccountedKept
<1>4. QED
  BY <1>1, <1>3 DEF Served

LEMMA AccountedRestart ==
  ASSUME Shape, Accounted, Restart
  PROVE  Accounted' /\ Served'
<1>1. /\ Shape' /\ UNCHANGED <<published, queue, got>>
      /\ bus' = <<>> /\ listener' = Listening
      /\ \A c \in Conns : conn'[c].user = conn[c].user
  BY RestartShape
<1>2. /\ lost \subseteq lost'
      /\ Users \X In(bus) \subseteq lost'
      /\ (Unserved \ {NoUser}) \X {listener.ev} \subseteq lost'
      /\ \A c \in Conns : {conn[c].user} \X In(conn[c].batch) \subseteq lost'
  BY DEF Restart
<1>3. NothingForgotten
  <2>1. SentLive' = SentLive
    BY <1>1 DEF SentLive
  <2>2. ASSUME NEW u \in Users, NEW e \in Queued[u]
        PROVE  e \in Queued'[u] \/ <<u, e>> \in lost'
    <3>1. ASSUME NEW c \in Conns, conn[c].user = u, e \in In(conn[c].batch)
          PROVE  <<u, e>> \in lost'
      BY <1>2, <3>1
    <3>2. QED
      BY <1>1, <2>2, <3>1 DEF Queued
  <2>3. QED
    BY <1>2, <2>1, <2>2 DEF NothingForgotten, Known
<1>4. \A u \in Users : u \in Unserved => <<u, listener.ev>> \in lost'
  BY <1>2, NoUserAssumption
<1>5. Accounted'
  BY <1>1, <1>2, <1>3, <1>4, AccountedKept
<1>6. QED
  BY <1>1, <1>5 DEF Served, Listening

LEMMA AccountedStep ==
  ASSUME Shape, Backed, Accounted, Served, Next
  PROVE  Accounted' /\ Served'
<1>1. ASSUME NEW c \in Conns, ConnStep(c) PROVE Accounted' /\ Served'
  BY <1>1, AccountedConn
<1>2. CASE Publish
  BY <1>2, AccountedPublish
<1>3. CASE TakeEvent
  BY <1>3, AccountedTakeEvent
<1>4. CASE TakeSockets
  BY <1>4, AccountedTakeSockets
<1>5. CASE EndSend
  BY <1>5, AccountedEndSend
<1>6. CASE Enqueue
  BY <1>6, AccountedEnqueue
<1>7. ASSUME NEW u \in Users, CheckOnline(u) PROVE Accounted' /\ Served'
  BY <1>7, AccountedCheckOnline
<1>8. ASSUME NEW c \in Conns, SendTo(c) PROVE Accounted' /\ Served'
  BY <1>8, AccountedSendTo
<1>9. CASE FailEvent
  BY <1>9, AccountedFailEvent
<1>10. CASE Restart
  BY <1>10, AccountedRestart
<1>11. CASE PubsubFails
  BY <1>11, AccountedPubsubFails
<1>12. QED
  BY <1>1, <1>2, <1>3, <1>4, <1>5, <1>6, <1>7, <1>8, <1>9, <1>10, <1>11, NextIs

-----------------------------------------------------------------------------
(***************************************************************************)
(* Presence and the table                                                  *)
(***************************************************************************)
Presence == Dead /\ Found
AtEnd == {"left", "gone"}
AtStart == Shown \cup {"accepted"}

\* A connection that keeps its user touches what is known of no other user, and of
\* his other connections unless it runs its finally block.
LEMMA PresenceAlone ==
  ASSUME Shape, Shape', Presence, NEW c \in Conns, OnlyConn(c),
         conn'[c].user = conn[c].user, conn[c].pc # "free", conn'[c].pc # "free",
         conn'[c].alive => conn[c].alive,
         conn[c].pc \in AtEnd => conn'[c].pc \in AtEnd,
         conn'[c].pc \in AtStart => conn[c].pc \in AtStart,
         conn'[c].pc \in Shown => conn[c].pc \in Shown \/ conn[c].user \in online',
         \A u \in Users : u \in online =>
            u \in online' \/ (u = conn[c].user /\ conn'[c].pc \in AtEnd),
         \A u \in Users : sockets[u] \ {c} \subseteq sockets'[u],
         UNCHANGED sockets \/ conn'[c].pc \in AtEnd,
         \E b \in BOOLEAN : /\ listener' = [listener EXCEPT !.kept = b]
                            /\ \/ b = listener.kept
                               \/ listener.user = conn[c].user /\ conn'[c].pc \in AtEnd
  PROVE  Presence'
<1>0. TypeOK /\ listener \in Listener
  BY DEF Shape, TypeOK
<1>1. \A d \in Conns : conn'[d].user = conn[d].user
  BY DEF OnlyConn
<1>2. \A v : NoneLeft(v)' => NoneLeft(v)
  BY <1>1 DEF NoneLeft, OnlyConn, AtEnd
<1>3. conn'[c].pc \in AtEnd => ~NoneLeft(conn[c].user)'
  BY <1>1 DEF NoneLeft, AtEnd
<1>4. PICK b \in BOOLEAN : /\ listener' = [listener EXCEPT !.kept = b]
                           /\ \/ b = listener.kept
                              \/ listener.user = conn[c].user /\ conn'[c].pc \in AtEnd
  OBVIOUS
<1>5. /\ listener'.pc = listener.pc /\ listener'.user = listener.user
      /\ listener'.dead = listener.dead /\ listener'.kept = b
      /\ listener.dead \subseteq Conns
  BY <1>0, <1>4 DEF Listener
<1>6. Dead'
  <2>1. \A d \in listener.dead : ~conn'[d].alive /\ conn'[d].pc # "free"
    BY <1>5 DEF Presence, Dead, OnlyConn
  <2>2. listener.pc = "sending" /\ ~b => ~NoneLeft(listener.user)'
    BY <1>2, <1>3, <1>4 DEF Presence, Dead
  <2>3. QED
    BY <1>5, <2>1, <2>2 DEF Dead
<1>7. ASSUME NEW d \in Conns, NoneLeft(conn[d].user)'
      PROVE  /\ conn'[d].pc \in Shown => conn[d].user \in online'
             /\ conn'[d].pc \in AtStart /\ conn'[d].alive => d \in sockets'[conn[d].user]
  <2>1. CASE d = c
    <3>1. conn[c].user \in Users /\ UNCHANGED sockets
          /\ conn'[c].pc \notin AtEnd
      BY <1>3, <1>7, <2>1, AtWork
    <3>2. NoneLeft(conn[c].user)
      BY <1>2, <1>7, <2>1
    <3>3. QED
      BY <2>1, <3>1, <3>2 DEF Presence, Found, AtStart
  <2>2. CASE d # c /\ conn[d].pc # "free"
    <3>1. conn'[d] = conn[d] /\ conn[d].user \in Users /\ NoneLeft(conn[d].user)
      BY <1>2, <1>7, <2>2, AtWork DEF OnlyConn
    <3>2. conn[d].user \in online => conn[d].user \in online'
      BY <1>3, <1>7, <3>1
    <3>3. QED
      BY <2>2, <3>1, <3>2 DEF Presence, Found, AtStart
  <2>3. CASE d # c /\ conn[d].pc = "free"
    BY <2>3 DEF OnlyConn, Shown, AtStart
  <2>4. QED
    BY <2>1, <2>2, <2>3
<1>8. Found'
  BY <1>1, <1>7 DEF Found, AtStart
<1>9. QED
  BY <1>6, <1>8 DEF Presence

LEMMA KeptListener ==
  ASSUME TypeOK, UNCHANGED listener
  PROVE  \E b \in BOOLEAN : listener' = [listener EXCEPT !.kept = b] /\ b = listener.kept
<1>1. listener.kept \in BOOLEAN /\ listener = [listener EXCEPT !.kept = listener.kept]
  BY DEF TypeOK, Listener
<1>2. QED
  BY <1>1

LEMMA PresenceAccept ==
  ASSUME Shape, Presence, NEW c \in Conns, NEW u \in Users, Accept(c, u)
  PROVE  Presence'
<1>1. /\ TypeOK /\ conn[c].pc = "free" /\ conn[c].user = NoUser
      /\ UNCHANGED <<online, listener>>
      /\ conn'[c].pc = "accepted" /\ conn'[c].user = u
      /\ \A d \in Conns \ {c} : conn'[d] = conn[d]
      /\ \A v \in Users : sockets[v] \subseteq sockets'[v]
      /\ c \in sockets'[u]
  BY DEF Accept, TypeOK, At, Shape, ConnFits
<1>2. \A v \in Users : NoneLeft(v)' <=> NoneLeft(v)
  BY <1>1, NoUserAssumption DEF NoneLeft
<1>3. Dead'
  <2>1. listener.dead \subseteq Conns /\ (listener.pc = "sending" => listener.user \in Users)
    BY <1>1 DEF TypeOK, Listener, Shape, ListenerFits, Serving
  <2>2. c \notin listener.dead
    BY <1>1 DEF Presence, Dead
  <2>3. QED
    BY <1>1, <1>2, <2>1, <2>2 DEF Presence, Dead
<1>4. ASSUME NEW d \in Conns,
             \A b \in Conns : conn'[b].user = conn'[d].user => conn'[b].pc \notin AtEnd
      PROVE  /\ conn'[d].pc \in Shown => conn'[d].user \in online'
             /\ conn'[d].pc \in AtStart /\ conn'[d].alive =>
                  d \in sockets'[conn'[d].user]
  <2>1. CASE d = c
    BY <1>1, <2>1 DEF Shown
  <2>2. CASE d # c /\ conn[d].pc # "free"
    <3>1. conn'[d] = conn[d] /\ conn[d].user \in Users
      BY <1>1, <2>2, AtWork
    <3>2. NoneLeft(conn[d].user)
      BY <1>1, <1>4, <2>2, <3>1, NoUserAssumption DEF NoneLeft, AtEnd
    <3>3. QED
      BY <1>1, <3>1, <3>2 DEF Presence, Found, AtStart
  <2>3. CASE d # c /\ conn[d].pc = "free"
    BY <1>1, <2>3 DEF Shown, AtStart
  <2>4. QED
    BY <2>1, <2>2, <2>3
<1>5. Found'
  BY <1>4 DEF Found, AtStart, AtEnd, NoneLeft
<1>6. QED
  BY <1>3, <1>5 DEF Presence

LEMMA PresenceConn ==
  ASSUME Shape, Presence, NEW c \in Conns, ConnStep(c)
  PROVE  Presence'
<1>0. TypeOK /\ Shape'
  BY ConnStepEffect DEF Shape
<1>1. ASSUME NEW u \in Users, Accept(c, u) PROVE Presence'
  BY <1>1, PresenceAccept
<1>2. CASE AddOnline(c)
  <2>1. /\ conn[c].pc = "accepted" /\ conn'[c].pc = "online"
        /\ online' = online \cup {conn[c].user} /\ UNCHANGED <<sockets, listener>>
    BY <1>2, AddOnlineShape DEF AddOnline, At
  <2>2. QED
    BY <1>0, <1>2, <2>1, AddOnlineShape, PresenceAlone, KeptListener
    DEF Shown, AtStart, AtEnd
<1>3. CASE ReadQueue(c)
  <2>1. conn[c].pc = "online" /\ UNCHANGED <<online, sockets, listener>>
    BY <1>3 DEF ReadQueue, At
  <2>2. QED
    BY <1>0, <1>3, <2>1, ReadQueueShape, PresenceAlone, KeptListener
    DEF Shown, AtStart, AtEnd
<1>4. CASE DeleteQueue(c)
  <2>1. conn[c].pc = "delete" /\ UNCHANGED <<online, sockets, listener>>
    BY <1>4 DEF DeleteQueue, At
  <2>2. QED
    BY <1>0, <1>4, <2>1, DeleteQueueShape, PresenceAlone, KeptListener
    DEF Shown, AtStart, AtEnd
<1>5. CASE SendQueued(c)
  <2>1. conn[c].pc = "drain" /\ UNCHANGED <<online, sockets, listener>>
    BY <1>5 DEF SendQueued, At
  <2>2. conn'[c].pc \in {"drain", "open"}
    BY <1>5, SendQueuedShape DEF Drain, Drop
  <2>3. QED
    BY <1>0, <1>5, <2>1, <2>2, SendQueuedShape, PresenceAlone, KeptListener
    DEF Shown, AtStart, AtEnd
<1>6. CASE Quiet(c)
  <2>1. /\ conn[c].pc # "free" /\ conn'[c].pc # "free"
        /\ UNCHANGED <<online, sockets, listener>>
        /\ OnlyConn(c) /\ conn'[c].user = conn[c].user
        /\ conn'[c].alive => conn[c].alive
    BY <1>6, QuietShape
  <2>2. /\ conn[c].pc \in AtEnd => conn'[c].pc \in AtEnd
        /\ conn'[c].pc \in AtStart => conn[c].pc \in AtStart
        /\ conn'[c].pc \in Shown => conn[c].pc \in Shown
    BY <1>6, QuietShape DEF Shown, AtStart, AtEnd
  <2>3. QED
    BY <1>0, <2>1, <2>2, PresenceAlone, KeptListener
<1>7. CASE Disconnect(c)
  <2>1. /\ conn[c].pc \in {"accepted", "online", "late"} /\ conn'[c].pc = "left"
        /\ online' = online
        /\ \E b \in BOOLEAN :
             /\ listener' = [listener EXCEPT !.kept = b]
             /\ listener.user # conn[c].user => b = listener.kept
    <3>1. conn[c].pc \in {"accepted", "online", "late"} /\ online' = online
      BY <1>7 DEF Disconnect
    <3>2. QED
      BY <1>7, <3>1, DisconnectShape
  <2>2. PICK b \in BOOLEAN :
          /\ listener' = [listener EXCEPT !.kept = b]
          /\ listener.user # conn[c].user => b = listener.kept
    BY <2>1
  <2>3. QED
    BY <1>0, <1>7, <2>1, <2>2, DisconnectShape, PresenceAlone DEF Shown, AtStart, AtEnd
<1>8. CASE RemoveOnline(c)
  <2>1. conn[c].pc = "left" /\ conn'[c].pc = "gone"
    BY <1>8, RemoveOnlineShape DEF RemoveOnline, At
  <2>2. QED
    BY <1>0, <1>8, <2>1, RemoveOnlineShape, PresenceAlone, KeptListener
    DEF Shown, AtStart, AtEnd
<1>9. QED
  BY <1>1, <1>2, <1>3, <1>4, <1>5, <1>6, <1>7, <1>8 DEF ConnStep, Connect

\* A step of the listener that drops no socket.
LEMMA PresenceSame ==
  ASSUME Presence, UNCHANGED <<conn, online, sockets>>,
         listener'.dead \subseteq listener.dead,
         listener'.pc = "sending" =>
           listener'.kept \/ (listener'.user = listener.user
                              /\ listener'.kept = listener.kept
                              /\ listener.pc = "sending")
  PROVE  Presence'
<1>1. \A v : NoneLeft(v)' <=> NoneLeft(v)
  BY DEF NoneLeft
<1>2. Dead'
  BY <1>1 DEF Presence, Dead
<1>3. Found'
  BY <1>1 DEF Presence, Found
<1>4. QED
  BY <1>2, <1>3 DEF Presence

LEMMA NextMemberAlive ==
  ASSUME Shape, NextMember
  PROVE  listener'.dead = {} /\ listener'.pc # "sending"
<1>1. CASE listener.todo = {}
  BY <1>1 DEF NextMember, Listening
<1>2. CASE listener.todo # {}
  BY <1>2 DEF NextMember, Listening
<1>3. QED
  BY <1>1, <1>2

LEMMA PresenceListener ==
  ASSUME Shape, Presence
  PROVE  /\ Publish \/ PubsubFails \/ FailEvent => Presence'
         /\ TakeEvent \/ TakeSockets \/ Enqueue => Presence'
         /\ \A u \in Users : CheckOnline(u) => Presence'
<1>0. listener \in Listener
  BY DEF Shape, TypeOK
<1>1. CASE Publish \/ PubsubFails
  BY <1>1, PresenceSame DEF Publish, PubsubFails
<1>2. CASE FailEvent
  <2>1. listener'.dead = {} /\ listener'.pc = "idle"
    BY <1>2 DEF FailEvent, Listening
  <2>2. QED
    BY <1>2, <2>1, PresenceSame DEF FailEvent
<1>3. CASE TakeEvent
  <2>1. listener'.dead = {} /\ listener'.pc = "each"
    BY <1>3 DEF TakeEvent, Listening
  <2>2. QED
    BY <1>3, <2>1, PresenceSame DEF TakeEvent
<1>4. CASE TakeSockets
  <2>1. CASE NextMember
    BY <1>4, <2>1, NextMemberAlive, PresenceSame DEF TakeSockets
  <2>2. CASE listener' = [listener EXCEPT !.pc = "sending", !.kept = TRUE,
                                          !.targets = sockets[listener.user]]
    <3>1. listener'.dead = listener.dead /\ listener'.kept
      BY <1>0, <2>2 DEF Listener
    <3>2. QED
      BY <1>4, <3>1, PresenceSame DEF TakeSockets
  <2>3. QED
    BY <1>4, <2>1, <2>2 DEF TakeSockets
<1>5. CASE Enqueue
  BY <1>5, NextMemberAlive, PresenceSame DEF Enqueue
<1>6. ASSUME NEW u \in Users, CheckOnline(u) PROVE Presence'
  <2>1. listener'.dead = listener.dead /\ listener'.pc \in {"send", "enqueue"}
    BY <1>0, <1>6 DEF CheckOnline, Listener
  <2>2. QED
    BY <1>6, <2>1, PresenceSame DEF CheckOnline
<1>7. QED
  BY <1>1, <1>2, <1>3, <1>4, <1>5, <1>6

LEMMA PresenceSendTo ==
  ASSUME Shape, Presence, NEW c \in Conns, SendTo(c)
  PROVE  Presence'
<1>1. /\ listener \in Listener /\ listener.pc = "sending" /\ c \in listener.targets
      /\ UNCHANGED <<conn, online, sockets>> /\ conn[c].pc # "free"
  BY NoUserAssumption DEF Shape, TypeOK, SendTo, ListenerFits, Serving, ConnFits
<1>2. CASE conn[c].alive
  <2>1. listener' = [listener EXCEPT !.targets = @ \ {c}]
    BY <1>2 DEF SendTo
  <2>2. /\ listener'.dead = listener.dead /\ listener'.kept = listener.kept
        /\ listener'.user = listener.user
    BY <1>1, <2>1 DEF Listener
  <2>3. QED
    BY <1>1, <2>2, PresenceSame
<1>3. CASE ~conn[c].alive
  <2>1. PICK raised \in SUBSET {c} :
          listener' = [listener EXCEPT !.targets = @ \ {c}, !.dead = @ \cup raised]
    BY <1>3 DEF SendTo
  <2>2. /\ listener'.dead = listener.dead \cup raised /\ listener'.kept = listener.kept
        /\ listener'.user = listener.user /\ listener'.pc = "sending"
    BY <1>1, <2>1 DEF Listener
  <2>3. \A v : NoneLeft(v)' <=> NoneLeft(v)
    BY <1>1 DEF NoneLeft
  <2>4. Dead'
    BY <1>1, <1>3, <2>1, <2>2, <2>3 DEF Presence, Dead
  <2>5. Found'
    BY <1>1, <2>3 DEF Presence, Found
  <2>6. QED
    BY <2>4, <2>5 DEF Presence
<1>4. QED
  BY <1>2, <1>3

LEMMA PresenceEndSend ==
  ASSUME Shape, Presence, EndSend
  PROVE  Presence'
<1>1. /\ TypeOK /\ listener.pc = "sending" /\ listener.user \in Users
      /\ NextMember /\ UNCHANGED <<conn, online>>
      /\ sockets' = [sockets EXCEPT ![listener.user] =
                        IF listener.kept THEN @ \ listener.dead ELSE {}]
  BY DEF Shape, TypeOK, EndSend, ListenerFits, Serving
<1>2. \A v : NoneLeft(v)' <=> NoneLeft(v)
  BY <1>1 DEF NoneLeft
<1>3. Dead'
  BY <1>1, NextMemberAlive DEF Dead
<1>4. ASSUME NEW c \in Conns, NoneLeft(conn[c].user), conn[c].alive,
             c \in sockets[conn[c].user], conn[c].user \in Users
      PROVE  c \in sockets'[conn[c].user]
  <2>1. c \notin listener.dead
    BY <1>4 DEF Presence, Dead
  <2>2. conn[c].user = listener.user => listener.kept
    BY <1>1, <1>4 DEF Presence, Dead
  <2>3. QED
    BY <1>1, <1>4, <2>1, <2>2 DEF TypeOK
<1>5. \A c \in Conns : conn[c].pc \in AtStart => conn[c].user \in Users
  BY AtWork DEF AtStart, Shown
<1>6. Found'
  BY <1>1, <1>2, <1>4, <1>5 DEF Presence, Found, AtStart
<1>7. QED
  BY <1>3, <1>6 DEF Presence

LEMMA PresenceStep ==
  ASSUME Shape, Presence, Next
  PROVE  Presence'
<1>1. ASSUME NEW c \in Conns, ConnStep(c) PROVE Presence'
  BY <1>1, PresenceConn
<1>2. CASE \/ Publish \/ PubsubFails \/ FailEvent \/ TakeEvent \/ TakeSockets \/ Enqueue
           \/ \E u \in Users : CheckOnline(u)
  BY <1>2, PresenceListener
<1>3. ASSUME NEW c \in Conns, SendTo(c) PROVE Presence'
  BY <1>3, PresenceSendTo
<1>4. CASE EndSend
  BY <1>4, PresenceEndSend
<1>5. CASE Restart
  <2>1. /\ listener' = Listening
        /\ \A c \in Conns : conn'[c].pc \notin AtStart
    BY <1>5, RestartShape DEF Over, AtStart, Shown
  <2>2. Dead'
    BY <2>1 DEF Dead, Listening
  <2>3. Found'
    BY <2>1 DEF Found, AtStart
  <2>4. QED
    BY <2>2, <2>3 DEF Presence
<1>6. QED
  BY <1>1, <1>2, <1>3, <1>4, <1>5, NextIs

-----------------------------------------------------------------------------
(***************************************************************************)
(* The theorems                                                            *)
(***************************************************************************)
LEMMA InitIInv == ASSUME Init PROVE IInv
<1>1. /\ published = 0 /\ bus = <<>> /\ online = {} /\ listener = Listening
      /\ queue = [u \in Users |-> <<>>] /\ sockets = [u \in Users |-> {}]
      /\ conn = [c \in Conns |-> NoConnection] /\ got = [c \in Conns |-> <<>>]
      /\ lost = {}
  BY DEF Init
<1>2. NoConnection \in Connection
  BY EmptySeq DEF NoConnection, Connection
<1>3. 0 \in 0..MaxEvents
  BY MaxEventsAssumption
<1>4. TypeOK
  BY <1>1, <1>2, <1>3, ListeningType, EmptySeq DEF TypeOK
<1>5. Shape
  BY <1>1, <1>4, EmptyIn DEF Shape, ConnFits, SocketsFit, ListenerFits, Listening,
                             NoConnection, Serving
<1>6. \A u \in Users : Queued[u] = {} /\ SentLive[u] = {} /\ Known[u] = {}
  BY <1>1, EmptyIn DEF Queued, SentLive, Known, NoConnection
<1>7. Ahead
  BY <1>1, <1>6, EmptyIn DEF Ahead, BusAhead, Published, New, Sending, OnePathEach,
                             Listening
<1>8. Ordered
  BY <1>1, EmptyIn DEF Ordered, DeviceOrder, NoConnection
<1>9. Served
  BY <1>1 DEF Served, Listening
<1>10. Accounted
  BY <1>1 DEF Accounted
<1>11. Backed /\ Dead /\ Found
  BY <1>1 DEF Backed, Dead, Found, NoConnection, Listening, Shown
<1>12. QED
  BY <1>5, <1>7, <1>8, <1>9, <1>10, <1>11, OrderedIs DEF IInv, Order, Ahead

LEMMA StepIInv == ASSUME IInv, [Next]_vars PROVE IInv'
<1>1. Shape /\ Ahead /\ Ordered /\ Served /\ Accounted /\ Backed /\ Presence
  BY OrderedIs DEF IInv, Order, Ahead, Presence
<1>2. CASE Next
  <2>1. Shape' /\ Ahead' /\ Ordered' /\ Served' /\ Accounted' /\ Backed' /\ Presence'
    BY <1>1, <1>2, AheadStep, OrderStep, AccountedStep, BackedStep, PresenceStep
  <2>2. QED
    BY <2>1, OrderedIs DEF IInv, Order, Ahead, Presence
<1>3. CASE UNCHANGED vars
  <2>1. /\ UNCHANGED <<published, bus, online, queue, sockets>>
        /\ UNCHANGED <<conn, listener, got, lost>>
    BY <1>3 DEF vars
  <2>2. Queued' = Queued /\ SentLive' = SentLive /\ Known' = Known
    BY <2>1, SameKnown DEF Known
  <2>3. Shape'
    BY <1>1, <2>1 DEF Shape, TypeOK, ConnFits, SocketsFit, ListenerFits
  <2>4. Ahead'
    BY <1>1, <2>1, <2>2 DEF Ahead, BusAhead, Published, New, Awaiting, Sending, OnePathEach
  <2>5. Ordered' /\ Served'
    BY <1>1, <2>1, <2>2, SameOrder DEF Served
  <2>6. Accounted'
    <3>1. Unserved' = Unserved
      BY <2>1 DEF Unserved
    <3>2. QED
      BY <1>1, <2>1, <2>3, <3>1, SameForgetsNothing, AccountedKept
  <2>7. Backed'
    BY <1>1, <2>1, BackedListener
  <2>8. Presence'
    BY <1>1, <2>1, PresenceSame
  <2>9. QED
    BY <2>3, <2>4, <2>5, <2>6, <2>7, <2>8, OrderedIs DEF IInv, Order, Ahead, Presence
<1>4. QED
  BY <1>2, <1>3

LEMMA Invariance == Spec => []IInv
<1>1. Init => IInv
  BY InitIInv
<1>2. IInv /\ [Next]_vars => IInv'
  BY StepIInv
<1>3. QED
  BY <1>1, <1>2, PTL DEF Spec

\* Every variable keeps its type: connections, the listener, what is queued and what
\* was sent and lost.
THEOREM TypeCorrect == Spec => []TypeOK
<1>1. IInv => TypeOK
  BY DEF IInv, Shape
<1>2. QED
  BY <1>1, Invariance, PTL

\* What a device receives live, and what it receives from the queue, it receives in
\* the order of publication, however the listener's sends, the pushes to the queue
\* and the devices that drain it interleave.
THEOREM InOrderHolds == Spec => []InOrder
<1>1. IInv => InOrder
  BY DEF IInv, Order
<1>2. QED
  BY <1>1, Invariance, PTL

\* An event reaches a user live or from the queue, on all his devices together, and
\* no device twice.
THEOREM OnePathHolds == Spec => []OnePath
<1>1. ASSUME IInv PROVE OnePath
  <2>1. TypeOK /\ Shape /\ OnePathEach /\ InOrder
    BY <1>1 DEF IInv, Shape, Order
  <2>2. SUFFICES ASSUME NEW c \in Conns, NEW i \in DOMAIN got[c],
                        NEW b \in Conns, NEW j \in DOMAIN got[b],
                        conn[c].user = conn[b].user, got[c][i].ev = got[b][j].ev
                 PROVE  /\ got[c][i].live = got[b][j].live
                        /\ c = b => i = j
    <3>1. ASSUME NEW d \in Deliveries, NEW e \in Deliveries,
                 conn[d[1]].user = conn[e[1]].user /\ Received(d).ev = Received(e).ev
          PROVE  Received(d).live = Received(e).live /\ (d[1] = e[1] => d = e)
      <4>1. PICK c \in Conns : \E i \in DOMAIN got[c] : d = <<c, i>>
        BY DEF Deliveries
      <4>2. PICK i \in DOMAIN got[c] : d = <<c, i>>
        BY <4>1
      <4>3. PICK b \in Conns : \E j \in DOMAIN got[b] : e = <<b, j>>
        BY DEF Deliveries
      <4>4. PICK j \in DOMAIN got[b] : e = <<b, j>>
        BY <4>3
      <4>5. conn[c].user = conn[b].user /\ got[c][i].ev = got[b][j].ev
        BY <3>1, <4>2, <4>4 DEF Received
      <4>6. got[c][i].live = got[b][j].live /\ (c = b => i = j)
        BY <2>2, <4>5
      <4>7. QED
        BY <4>2, <4>4, <4>6 DEF Received
    <3>2. QED
      BY <3>1 DEF OnePath
  <2> DEFINE x == got[c][i]
             y == got[b][j]
             u == conn[c].user
  <2>3. /\ got[c] \in Seq(Delivery) /\ got[b] \in Seq(Delivery)
        /\ x \in In(got[c]) /\ y \in In(got[b])
    BY <2>1 DEF TypeOK, In
  <2>4. x \in Delivery /\ y \in Delivery
    BY <2>3, InType
  <2>5. x.ev \in Event /\ x.live \in BOOLEAN /\ y.live \in BOOLEAN
    BY <2>4 DEF Delivery
  <2>6. u \in Users
    <3>1. got[c] # <<>>
      BY <2>3, EmptyIn
    <3>2. QED
      BY <2>1, <3>1, AtWork DEF Shape, ConnFits
  <2>7. x.live = y.live
    <3> HIDE DEF x, y
    <3>1. x.ev \in (IF x.live THEN SentLive ELSE Queued)[u]
      BY <2>3, <2>5, <2>6 DEF SentLive, Queued
    <3>2. x.ev \in (IF y.live THEN SentLive ELSE Queued)[u]
      <4>1. conn[b].user = u /\ y.ev = x.ev
        BY <2>2 DEF x, y
      <4>2. QED
        BY <2>3, <2>5, <2>6, <4>1 DEF SentLive, Queued
    <3>3. x.ev \notin Queued[u] \/ x.ev \notin SentLive[u]
      BY <2>1, <2>6 DEF OnePathEach
    <3>4. QED
      BY <2>5, <3>1, <3>2, <3>3
  <2>8. ASSUME c = b PROVE i = j
    <3>1. i \in Nat /\ j \in Nat
      BY <2>3, LenProperties
    <3>2. ~(x.ev < x.ev) /\ y.ev = x.ev
      <4>1. x.ev \in Nat
        BY <2>5, EventIsNat
      <4>2. QED
        BY <2>2, <4>1
    <3>3. ~(i < j) /\ ~(j < i)
      BY <2>1, <2>7, <2>8, <3>2 DEF InOrder
    <3>4. QED
      BY <3>1, <3>3
  <2>9. QED
    BY <2>7, <2>8
<1>2. QED
  BY <1>1, Invariance, PTL

\* A device that is set up is in presence and, while its client is there, in the
\* table, whatever its user's other devices and the listener do, as long as none of
\* those has run its finally block.
THEOREM ReachableHolds == Spec => []Reachable
<1>1. IInv => Reachable
  BY DEF IInv, Found, Reachable
<1>2. QED
  BY <1>1, Invariance, PTL

\* Every event published is for every user on the bus, in hand, in his queue, in what
\* a device of his took from it or received, or a step has said that it dropped it.
THEOREM AccountedHolds == Spec => []Accounted
<1>1. IInv => Accounted
  BY DEF IInv
<1>2. QED
  BY <1>1, Invariance, PTL
=============================================================================
