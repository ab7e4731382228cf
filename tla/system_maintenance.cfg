\* Two administrators and the recovery environment over one dpkg database.
SPECIFICATION FairSpec
CONSTANTS
  Package = {b1, b2, c1, c2}
  Base = {b1, b2}
  Component = {c1, c2}
  None = None
  Admin = {a1, a2}
  Updater = Updater
  Repairer = Repairer
  b1 = b1
  b2 = b2
  Archive <- MCArchive
  MaxFaults = 1
  MaxRelease = 1
  MaxBegun = 3
INVARIANTS TypeOK BrokenBaseIsRecorded OnlyApprovedInstalled MixtureIsRecorded RepairHolds
PROPERTIES BaseLockReleased BootSettles
\* Within the bounds everything may have been done.
CHECK_DEADLOCK FALSE
