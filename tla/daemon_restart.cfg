SPECIFICATION Spec
CONSTANTS
  sysA = sysA  sysB = sysB
  p1 = p1  p2 = p2
  Addr = {sysA, sysB}
  Pids = {p1, p2}
  Ports = {tty}
  NoPort = NoPort
  Lines <- MixedLines
  NodePhone = {sysB}
  MayLock = {}
  Domain = {}
  Posts <- Flavours
  Max <- OneEach
  MaxTries = 1
  TriesAction = "holdall"
  MayVanish = {sysA}
  Closed <- SomeTimes
  Sigs = {"HUP", "TERM", "USR"}
  Relists = {sysA}
  Quiet <- InSleep
  SigPoints <- InSleep
SYMMETRY Alike
CHECK_DEADLOCK FALSE
INVARIANTS TablesAgree
