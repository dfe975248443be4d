CONSTANTS
  Users = {u1, u2}
  CallIds = {c1, c2}
  Workers = {w1, w2}
  NoUser = NoUser
  NoCall = NoCall
  Cancellable = TRUE
SYMMETRY Symmetry
SPECIFICATION OverlapSpec
INVARIANTS OneOpenCall
VIEW OpenCallsView
CONSTRAINT NothingCrossed
