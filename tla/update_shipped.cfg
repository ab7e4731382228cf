SPECIFICATION FairSpec
CONSTANTS
  agent = agent
  client = client
  Components <- MCComponents
  Versions <- MCVersions
  Manifests <- MCManifests
  Baseline <- MCBaseline
  Defective <- MCDefective
  a1 = a1
  a2 = a2
  Admins = {a1, a2}
  BootService = BootService
  None = None
  Commands = {"update"}
  Faults = {"reboot", "io"}
  MkdirExistOk = FALSE
  RecoveryFirst = TRUE
  MaxPoints = 2
  MaxTx = 2
  MaxFaults = 2
CHECK_DEADLOCK FALSE
INVARIANTS InterruptedIsRecoverable SettledIsReleased PointsAreKnownGood
PROPERTIES LockReleased BootRecovers
