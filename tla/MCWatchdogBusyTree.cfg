SPECIFICATION Spec
CONSTANTS
  Limits <- MCLongLimits
  IdleTimeout = 4
  NudgeBefore = 2
  GraceMultiplier = 2
  MemInterval = 4
  MinWall = 3
  Lag = 1
  MaxTime = 12
  MaxEvents = 2
PROPERTY BusyTreeSurvives
