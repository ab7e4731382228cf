SPECIFICATION FairSpec
CONSTANTS
  Modes = {"disabled", "optional", "required", "invalid"}
  MaxSessions = 2
  MaxSignals = 1
  MaxCrashes = 1
INVARIANTS ChildrenReaped ZeroIsTrue
PROPERTIES SessionEnds
\* The supervisor may have stopped, or have become the degraded screen.
CHECK_DEADLOCK FALSE
