---------------------------- MODULE MessageBoard ----------------------------
(***************************************************************************)
(* What the message service promises about the messages of a chat, with no *)
(* word of handlers, rows or transactions.  A message is posted, edited    *)
(* and deleted for good; what a reader has acknowledged only grows, and    *)
(* reading includes delivery.  The events that clients apply show for each *)
(* message a text it has had, a deletion that happened and                 *)
(* acknowledgements that were given: perhaps old, never untrue.            *)
(***************************************************************************)
EXTENDS Naturals

CONSTANTS Users, Msgs

VARIABLES
  text,     \* [Msgs -> Nat]    0: not posted; 1: as posted; +1 per edit
  deleted,  \* SUBSET Msgs
  acks,     \* [Msgs -> [Users -> Acks]]
  shown     \* [Msgs -> Shown]  the last event of each kind

bvars == <<text, deleted, acks, shown>>

Acks == {{}, {"delivered"}, {"delivered", "read"}}
Shown == [text: Nat, deleted: BOOLEAN, acks: [Users -> Acks]]
Blank == [text |-> 0, deleted |-> FALSE, acks |-> [u \in Users |-> {}]]

BoardInit == /\ text = [m \in Msgs |-> 0]
             /\ deleted = {}
             /\ acks = [m \in Msgs |-> [u \in Users |-> {}]]
             /\ shown = [m \in Msgs |-> Blank]

Post(m) == /\ text[m] = 0
           /\ text' = [text EXCEPT ![m] = 1]
           /\ UNCHANGED <<deleted, acks, shown>>

Edit(m) == /\ text[m] > 0
           /\ text' = [text EXCEPT ![m] = @ + 1]
           /\ UNCHANGED <<deleted, acks, shown>>

Delete(m) == /\ text[m] > 0
             /\ deleted' = deleted \cup {m}
             /\ UNCHANGED <<text, acks, shown>>

Acknowledge(m, u, a) == /\ text[m] > 0
                        /\ acks[m][u] \subseteq a
                        /\ acks' = [acks EXCEPT ![m][u] = a]
                        /\ UNCHANGED <<text, deleted, shown>>

\* What the events may show of m.
Truth(m) == {s \in [text: 0..text[m], deleted: BOOLEAN, acks: [Users -> Acks]] :
               /\ s.deleted => m \in deleted
               /\ \A u \in Users : s.acks[u] \subseteq acks[m][u]}

Show(m) == /\ \E s \in Truth(m) : shown' = [shown EXCEPT ![m] = s]
           /\ UNCHANGED <<text, deleted, acks>>

BoardNext == \E m \in Msgs :
               \/ Post(m) \/ Edit(m) \/ Delete(m) \/ Show(m)
               \/ \E u \in Users, a \in Acks : Acknowledge(m, u, a)

BoardSpec == BoardInit /\ [][BoardNext]_bvars
=============================================================================
