\* The profile of config/session-supervisor.yaml.
SPECIFICATION Spec
CONSTANTS
  MaxRestarts = 5
  Window = 60
  InitialBackoff = 2
  MaxBackoff = 30
  ResetAfter = 300
  InteractiveTimeout = 20
  Voluntary = {0}
  ExitCodes = {0, 1}
  GraphicsWaits = {0, 29}
  SplashWaits = {0}
  SurfaceWaits = {0}
  RunTimes = {0, 20, 45}
  ScreenCrashes = {1}
  ClockSteps = {3600}
  MaxClockSteps = 1
  MaxEvents = 3
INVARIANT RestartsPerWindow
INVARIANT DegradedIsJustified
INVARIANT EventsTellTheStory
PROPERTY StatusFollowsSession
\* The loop ends: stopped, or replaced by the error screen.
CHECK_DEADLOCK FALSE
