CONSTANTS
  Users = {u1}
  Conns = {c1}
  NoUser = NoUser
  MaxEvents = 1
SPECIFICATION Spec
PROPERTIES EndedGetsQueued
