CONSTANTS
  Users = {u1, u2}
  MaxSize = 2
  NoUser = NoUser
  Workers = {w1, w2}
SYMMETRY Symmetry
SPECIFICATION OverlapSpec
INVARIANTS HTypeOK
PROPERTIES DeletedForGood Atomic OwnersUntouched OwnershipIsGiven BansHold OthersLeftAlone
CHECK_DEADLOCK FALSE
CONSTRAINT OverlapsUndated
