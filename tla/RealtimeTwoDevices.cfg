CONSTANTS
  Users = {u1}
  Conns = {c1, c2}
  NoUser = NoUser
  MaxEvents = 1
SPECIFICATION Spec
INVARIANTS OpenIsOnline
