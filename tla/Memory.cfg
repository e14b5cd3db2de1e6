SPECIFICATION MCSpec
CONSTANTS
  Word = 6
  IntBits = 3
  PageModulus = 64
  Large = 2
  Huge = 4
  LowLimit = 6
  LevelLength = 2
  VmmPages = 2
  MaxTables = 2
  LastPage = 13
  MaxEntries = 3
  FirmwareMaps <- Maps
  t1 = t1
  t2 = t2
  t3 = t3
  Threads = {t1, t2, t3}
  Entries = 8
  NumFrames = 24
  FirstFree = {1, 18}
  Watched <- AllPages
  Program <- DriverProgram
  VmSearchStart = 190
  VmSearchEnd = 2000
  Nobody = Nobody
INVARIANTS
  TypeOK
  MapKeepsMemory
  HandedOutStaysAllocated
  InsertedOnce
  CountsMatch
  AccessAgrees
PROPERTIES
  MappingPromise
  SharesFreePages
CHECK_DEADLOCK FALSE
