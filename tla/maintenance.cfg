SPECIFICATION Spec
CONSTANTS
  a1 = a1
  a2 = a2
  Admins <- MCAdmins
  Retention = 1
  MaxRuns = 2
  MaxClock = 2
  MaxChanges = 1
SYMMETRY AdminsAlike
INVARIANTS TypeOK RecordedIsWhole BundleIsEarned
\* Every command has ended, and the clock and the bounds are used up.
CHECK_DEADLOCK FALSE
