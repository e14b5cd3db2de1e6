SPECIFICATION FairSpec
CONSTANTS
  t1 = t1
  t2 = t2
  t3 = t3
  t4 = t4
  Threads = {t1, t2, t3}
  NumProcessors = 1
  IrqProcessors = {}
  StaticPriorities = {1, 4}
  BootQueue <- BootAll
  Services <- AllServices
  Uses <- LocalUses
  Idle = Idle
  None = None
INVARIANTS
  AgingBound
PROPERTIES
  EventuallyRuns
