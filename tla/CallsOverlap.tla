---------------------------- MODULE CallsOverlap -----------------------------
(***************************************************************************)
(* Calls together with a history of what call.py does not guard against:   *)
(* handlers of one call, or two StartCalls, in flight at the same time,    *)
(* and a handler cancelled between its commit and its event.  The          *)
(* properties below hold of every call that none of this happened to, and  *)
(* so name all there is that can spoil a call.                             *)
(***************************************************************************)
EXTENDS Calls

VARIABLES
  crossed,  \* SUBSET CallIds   calls on which two handlers were at odds
  unsaid,   \* SUBSET CallIds   calls whose last event was cut off
  stayed    \* [CallIds -> SUBSET Users]  members ever since the call's start

hvars == <<vars, crossed, unsaid, stayed>>

\* Handlers that are making a call (its room, then its row).
Making == {"room", "insert"}

\* Two handlers are at odds when both make a call, or when they work on one
\* call to announce different events of it.
AtOdds(w, v) ==
  /\ w # v
  /\ \/ req[w].pc \in Making /\ req[v].pc \in Making
     \/ /\ req[w].call = req[v].call
        /\ req[w].event # req[v].event
        /\ req[w].event # "none" /\ req[v].event # "none"
Crossing == {req[w].call : w \in {x \in Workers : \E v \in Workers : AtOdds(x, v)}}

\* The calls whose event this step publishes, or cuts off.
Published == {req[w].call : w \in {x \in Workers : Notify(x)}}
CutOff == {req[w].call : w \in {x \in Workers : At(x, "notify") /\ Cancel(x)}}

OverlapInit == /\ Init
               /\ crossed = {}
               /\ unsaid = {}
               /\ stayed = [c \in CallIds |-> member]

OverlapNext ==
  /\ Next
  /\ crossed' = crossed \cup Crossing'
  /\ unsaid' = (unsaid \ Published) \cup CutOff
  /\ stayed' = [c \in CallIds |-> IF c \in used THEN stayed[c] \cap member'
                                                ELSE member']

OverlapSpec == OverlapInit /\ [][OverlapNext]_hvars

-----------------------------------------------------------------------------
\* Two calls of the chat are open at once only when the StartCalls of both
\* overlapped (the check at call.py:139 and the insert at call.py:155 are
\* awaits apart), or when an answer overtaken by the end reopened one of them:
\* never by handlers that ran one after the other, cancelled or not.
OneOpenCall ==
  \A c, d \in OpenCalls : c # d => c \in crossed \/ d \in crossed

\* ended_at is set exactly when the call is closed, and the room of an open
\* call exists, whichever handlers of other calls run in between, and wherever
\* a handler is cancelled.
OpenCallIsWhole ==
  \A c \in CallIds \ crossed : /\ calls[c].ended <=> Status(c) \in Closed
                               /\ c \in OpenCalls => c \in rooms

\* Whoever has been a member since a call was started has been shown the status
\* it has, unless an event is about to be published or was cut off; a declined
\* call is the exception that RejectCall makes.
Shows(c) == CASE Status(c) = "pending" -> "incoming"
              [] Status(c) = "active" -> "updated"
              [] Status(c) \in Closed -> "ended"
              [] OTHER -> "none"
Announced(c) == \A w \in Workers : ~(At(w, "notify") /\ req[w].call = c)
MembersSeeOutcome ==
  \A c \in CallIds \ (crossed \cup unsaid) :
    Announced(c) /\ Status(c) # "declined" =>
      \A u \in stayed[c] : shown[c][u] = Shows(c)
=============================================================================
