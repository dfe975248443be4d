CONSTANTS
  Users = {u1, u2}
  Workers = {w1, w2}
  NoUser = NoUser
  NoWorker = NoWorker
SPECIFICATION FairSpec
INVARIANTS TypeOK Mutual
PROPERTIES BlocksEnd HandlersReturn
\* no request has to come
CHECK_DEADLOCK FALSE
