SPECIFICATION Spec
CONSTANTS
  Callers = {c1, c2}
  Answerers = {a1}
  Daemons = {}
  NOut = 1
  Dirs = {1}
  Methods = 1
  MayCrash = {}
  NoPid = NoPid
PROPERTY StaleRemovalTakesDeadLock
CHECK_DEADLOCK FALSE
