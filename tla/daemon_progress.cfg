SPECIFICATION FairSpec
CONSTANTS
  sysA = sysA  sysB = sysB
  p1 = p1  p2 = p2
  Addr = {sysA, sysB}
  Pids = {p1}
  Ports = {tty}
  NoPort = NoPort
  Lines <- PhoneLines
  NodePhone = {}
  MayLock = {}
  Domain = {}
  Posts <- BothCrash
  Max <- OneEach
  MaxTries = 1
  TriesAction = "hold"
  MayVanish = {}
  Closed <- AnyTime
  Sigs = {}
  Relists = {}
  Quiet <- InSleep
  SigPoints <- InSleep
CHECK_DEADLOCK FALSE
PROPERTIES ExitProcessed CrashMailCalled
