CONSTANTS
  Users = {u1, u2}
  Sids = {s1, s2}
  Workers = {w1, w2}
  NoUser = NoUser
  NoSid = NoSid
  MaxTokens = 2
  Cancellable = TRUE
SYMMETRY Symmetry
SPECIFICATION Spec
INVARIANTS TypeOK DeletesOwnOnly StoredForOwner
PROPERTIES ClosedForGood
CHECK_DEADLOCK FALSE
