CONSTANTS
  Users = {u1, u2}
  Msgs = {m1, m2}
  Files = {f1}
  Workers = {w1, w2}
  NoUser = NoUser
  NoMsg = NoMsg
  NoFile = NoFile
  MaxText = 3
SPECIFICATION Spec
SYMMETRY Symmetry
CONSTRAINT Bound
INVARIANTS TypeOK ClientsConverge FilesAreStored
PROPERTIES DeletedIsQuiet FilesStay ImplementsBoard
\* no request has to come
CHECK_DEADLOCK FALSE
