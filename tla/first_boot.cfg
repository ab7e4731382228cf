SPECIFICATION Spec
CONSTANTS
  MaxBoots = 2
  MaxFaults = 1
INVARIANTS FirstBootGivesIdentity
\* The terminal is off and no boot is left.
CHECK_DEADLOCK FALSE
