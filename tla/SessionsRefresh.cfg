CONSTANTS
  Users = {u1}
  Sids = {s1}
  Workers = {w1, w2, w3}
  NoUser = NoUser
  NoSid = NoSid
  MaxTokens = 3
  Cancellable = TRUE
SPECIFICATION CutSpec
INVARIANTS UsableSessionsExpire
PROPERTIES VoidStaysVoid
CHECK_DEADLOCK FALSE
