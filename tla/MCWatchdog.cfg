SPECIFICATION Spec
CONSTANTS
  Limits <- MCLimits
  IdleTimeout = 3
  NudgeBefore = 1
  GraceMultiplier = 2
  MemInterval = 3
  MinWall = 3
  Lag = 1
  MaxTime = 9
  MaxEvents = 3
INVARIANT TypeOK
INVARIANT QuiescentTreeIsKilled
INVARIANT MemoryLimitHolds
INVARIANT PressureIsNoticed
INVARIANT HardTimeoutHolds
PROPERTY SilenceWasReal
PROPERTY CompactionIsForgiven
PROPERTY NudgedInTime
PROPERTY SupervisionEnds
