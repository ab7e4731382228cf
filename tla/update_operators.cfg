SPECIFICATION Spec
CONSTANTS
  agent = agent
  client = client
  Components <- MCComponents
  Versions <- MCVersions
  Manifests <- MCManifests
  Baseline <- MCBaseline
  Defective <- MCDefective
  a1 = a1
  a2 = a2
  Admins = {a1, a2}
  BootService = BootService
  None = None
  Commands = {"update", "rollback", "restore"}
  Faults = {"reboot", "interrupt", "io", "rollback"}
  MkdirExistOk = TRUE
  RecoveryFirst = FALSE
  MaxPoints = 1
  MaxTx = 2
  MaxFaults = 1
CHECK_DEADLOCK FALSE
INVARIANTS EvidenceRestorable RolledBackIsBlocked
PROPERTIES BlockedNeverInstalled
