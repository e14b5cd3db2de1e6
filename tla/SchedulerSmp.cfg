SPECIFICATION Spec
CONSTANTS
  t1 = t1
  t2 = t2
  t3 = t3
  t4 = t4
  Threads = {t1, t2, t3}
  NumProcessors = 2
  IrqProcessors = {0, 1}
  StaticPriorities = {2, 4}
  BootQueue <- BootTwo
  Services <- AllServices
  Uses <- DriverUses
  Idle = Idle
  None = None
INVARIANTS
  TypeOK
  NoScBug0
  OnePlace
  QueueDiscipline
  CurrentIsReady
  OneResumption
  ControlOwner
PROPERTIES
  QueuesImplementLists
