SPECIFICATION Spec
CONSTANTS
  c1 = c1
  c2 = c2
  Checks <- MCChecks
  Authors <- MCAuthors
  Artifacts <- MCArtifacts
  Branches <- MCBranches
  Selections <- MCSelections
  CycleCounts = {1, 2}
  DryRuns <- MCBoolean
  Threshold = 2
  MaxSessions = 2
  MaxFaults = 1
INVARIANT TypeOK
INVARIANT ResumePointReached
INVARIANT NothingSkipped
INVARIANT LeavesCompleteCycles
INVARIANT ChangedIsOfThisCycle
INVARIANT WholeCycleConverges
INVARIANT OperatorEditsSnapshotted
INVARIANT DoneReportsEverything
PROPERTY CommitsStayOnScratch
PROPERTY DryRunLeavesRepository
PROPERTY KeepsPromise
CHECK_DEADLOCK FALSE
