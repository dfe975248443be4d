CONSTANTS
  Users = {u1, u2}
  CallIds = {c1}
  Workers = {w1, w2}
  NoUser = NoUser
  NoCall = NoCall
  Cancellable = TRUE
SYMMETRY Symmetry
SPECIFICATION OverlapSpec
INVARIANTS TypeOK ParticipantsWereMembers OpenCallIsWhole MembersSeeOutcome
PROPERTIES SettledForGood RoomOutlivesCall
