SPECIFICATION Spec
CONSTANTS
  t1 = t1
  t2 = t2
  t3 = t3
  t4 = t4
  Threads = {t1, t2, t3}
  NumProcessors = 2
  IrqProcessors = {}
  StaticPriorities = {2}
  BootQueue <- BootBoth
  Services <- AllServices
  Uses <- PriorityUses
  Idle = Idle
  None = None
INVARIANTS
  NoScBug0
