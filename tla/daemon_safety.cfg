SPECIFICATION Spec
CONSTANTS
  sysA = sysA  sysB = sysB
  p1 = p1  p2 = p2
  Addr = {sysA, sysB}
  Pids = {p1, p2}
  Ports = {tty}
  NoPort = NoPort
  Lines <- MixedLines
  NodePhone = {sysB}
  MayLock = {sysA}
  Domain = {}
  Posts <- BothCrash
  Max <- OneEach
  MaxTries = 1
  TriesAction = "hold"
  MayVanish = {sysA, sysB}
  Closed <- AnyTime
  Sigs = {}
  Relists = {}
  Quiet <- Anywhere
  SigPoints <- Anywhere
SYMMETRY Alike
CHECK_DEADLOCK FALSE
INVARIANTS TablesAgree
PROPERTIES HeldNotCalled
