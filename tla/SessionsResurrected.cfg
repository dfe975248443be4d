CONSTANTS
  Users = {u1}
  Sids = {s1, s2}
  Workers = {w1, w2}
  NoUser = NoUser
  NoSid = NoSid
  MaxTokens = 2
  Cancellable = FALSE
SPECIFICATION Spec
PROPERTIES RevokedStaysRevoked
