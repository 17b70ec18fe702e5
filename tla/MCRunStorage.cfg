SPECIFICATION Spec
CONSTANTS
  p1 = p1
  p2 = p2
  Processes <- MCProcesses
  Launches <- MCLaunches
  Branches <- MCBranches
  FirstTips <- MCFirstTips
  Pushed <- MCPushed
  LastCommit = 2
  HasRemoteUrl = TRUE
  MaxAge = 1
  MaxTime = 4
  MaxEdits = 1
  NoDir = NoDir
  Source = Source
INVARIANT TypeOK
INVARIANT ReviewIsOfUpstream
INVARIANT YoungRunsAreKept
