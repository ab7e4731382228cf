SPECIFICATION Spec
CONSTANTS
  agent = agent
  client = client
  Components <- MCComponents
  Versions <- MCVersions
  Manifests <- MCManifests
  Baseline <- MCBaseline
  Defective <- MCDefective
  a1 = a1
  Admins = {a1}
  BootService = BootService
  None = None
  Commands = {"update"}
  Faults = {}
  MkdirExistOk = FALSE
  RecoveryFirst = TRUE
  MaxPoints = 2
  MaxTx = 1
  MaxFaults = 0
CHECK_DEADLOCK FALSE
PROPERTIES HealthyUpdateIsKept
