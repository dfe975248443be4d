CONSTANTS
  Users = {u1, u2}
  CallIds = {c1, c2}
  Workers = {w1, w2}
  NoUser = NoUser
  NoCall = NoCall
  Cancellable = FALSE
SPECIFICATION Spec
PROPERTIES EndedNotAccepted
