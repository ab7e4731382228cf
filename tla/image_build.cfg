\* Three invocations of the builder, two faults.
SPECIFICATION Spec
CONSTANTS
  MaxRuns = 3
  MaxFaults = 2
INVARIANTS FullBuildShipsItself NothingMissing NothingRunsBelow
PROPERTIES ConfigureConverges
\* Within the bounds every invocation may have ended.
CHECK_DEADLOCK FALSE
