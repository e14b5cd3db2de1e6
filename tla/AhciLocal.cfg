SPECIFICATION FairSpec
CONSTANTS
  t1 = t1
  t2 = t2
  t3 = t3
  t4 = t4
  Threads = {t1, t2, t3}
  Ports = {0, 1}
  Slots = {0, 1}
  WordBits = {0, 1, 2}
  StackResidue = {0, 1, 2, 3}
  Processors = {0}
  Home <- LocalHome
  PortOf <- LocalPort
  Program <- LocalProgram
  IrqProcessor = 0
  None = None
INVARIANTS
  TypeOK
  BusySlotsAllocated
  ReturnCodeStored
  ResumesSuspended
  ReturnsAfterDevice
PROPERTIES
  SyncReturns
CHECK_DEADLOCK FALSE
