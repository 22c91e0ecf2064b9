SPECIFICATION Spec
CONSTANTS
  Callers = {c1}
  Answerers = {a1}
  Daemons = {}
  NOut = 1
  Dirs = {1}
  Methods = 1
  MayCrash = {}
  NoPid = NoPid
INVARIANTS CsyLeftUntouched SessionLocked
CHECK_DEADLOCK FALSE
