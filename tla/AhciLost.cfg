SPECIFICATION FairSpec
CONSTANTS
  t1 = t1
  t2 = t2
  t3 = t3
  t4 = t4
  Threads = {t1, t2}
  Ports = {0}
  Slots = {0, 1}
  WordBits = {0, 1, 2}
  StackResidue = {0, 1, 2, 3}
  Processors = {0}
  Home <- LocalHome
  PortOf <- OnePort
  Program <- TransferProgram
  IrqProcessor = 0
  None = None
PROPERTIES
  AsyncFreed
CHECK_DEADLOCK FALSE
