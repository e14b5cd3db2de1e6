SPECIFICATION ObjectsSpec
CONSTANTS
  Users = {u1, u2}
  PermanentUsers = {u1}
  ObjectSlots = {1, 2, 3}
  HandleSlots = {1, 2}
  MaxOpens = 1
  MaxCreates = 1
INVARIANTS
  ChainContinuous
CHECK_DEADLOCK FALSE
