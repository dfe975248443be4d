CONSTANTS
  Users = {u1, u2}
  Conns = {c1, c2}
  NoUser = NoUser
  MaxEvents = 2
SPECIFICATION FairSpec
INVARIANTS TypeOK OnePath InOrder  Accounted
PROPERTIES EventsAreHandled
CONSTRAINT InTurn
