SPECIFICATION FairSpec
CONSTANTS
  Callers = {c1}
  Answerers = {a1}
  Daemons = {d1}
  NOut = 2
  Dirs = {1, 2}
  Methods = 2
  MayCrash = {c1}
  NoPid = NoPid
INVARIANTS
  TypeOK
  SessionExclusive
  ExitLeavesNoLock
  LiveLocksUntouched
PROPERTIES ImplementsMutex CallsReturn
CHECK_DEADLOCK FALSE
