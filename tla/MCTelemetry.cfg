SPECIFICATION Spec
CONSTANTS
  c1 = c1
  c2 = c2
  ActiveChecks <- MCActiveChecks
  NoCheck = NoCheck
  MaxSamples = 2
  MaxInterrupts = 1
  MaxMissing = 1
INVARIANT TypeOK
INVARIANT EndIsMarked
INVARIANT LabelsLagByOne
INVARIANT StartsAreClosed
INVARIANT SamplerStopsBeforeCleanup
PROPERTY ProcessEnds
