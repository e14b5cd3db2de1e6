SPECIFICATION FairSpec
CONSTANTS
  t1 = t1
  t2 = t2
  t3 = t3
  t4 = t4
  Threads = {t1, t2, t3}
  NumProcessors = 2
  IrqProcessors = {0}
  StaticPriorities = {2}
  BootQueue <- BootSecond
  Services <- AllServices
  Uses <- SleepUses
  Idle = Idle
  None = None
PROPERTIES
  EventuallyResumed
  EventuallyWoken
