SPECIFICATION Spec
CONSTANTS
  t1 = t1
  t2 = t2
  t3 = t3
  t4 = t4
  Threads = {t1, t3, t4}
  Ports = {0}
  Slots = {0, 1}
  WordBits = {0, 1, 2}
  StackResidue = {0, 1, 2, 3}
  Processors = {0, 1}
  Home <- MixedHome
  PortOf <- OnePort
  Program <- MixedProgram
  IrqProcessor = 0
  None = None
INVARIANTS
  SlotsExclusive
  NoSlotLost
  DoneBounded
CHECK_DEADLOCK FALSE
