SPECIFICATION MCSpec
CONSTANTS
  Threads = {t1, t2, t3, t4, t5}
  Null = Null
  r1 = r1
  r2 = r2
  s1 = s1
  s2 = s2
  add = add
  Ids = {add}
  Registrars = {r1, r2}
  Signallers = {s1, s2}
  EventOf <- SameEvent
  NumSignals = 2
  None = None
  u1 = u1
  u2 = u2
  u3 = u3
  Users = {u1, u2, u3}
  PermanentUsers = {u1}
  ObjectSlots = {1, 2, 3}
  HandleSlots = {1, 2}
  MaxOpens = 1
  MaxCreates = 1
  d1 = d1
  d2 = d2
  d3 = d3
  Drivers = {d1, d2, d3}
  NumProcessors = 2
  NumVectors = 2
  NoHandler = NoHandler
INVARIANTS
  BothWays
  NoFault
  Meet
  PreviousLinks
  RunningHasRunner
  ExistingDelivered
  ObjectsKept
  HandlesKept
  HandlersKept
  NoNullHandler
PROPERTIES
  ListsPromise
SYMMETRY TablesSymmetry
CHECK_DEADLOCK FALSE
