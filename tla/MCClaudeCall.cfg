SPECIFICATION Spec
CONSTANTS
  CheckFiles <- MCCheckFiles
  PLAN_CONFIGS <- MCPlans
  PlanFiles <- MCPlanFiles
  DefaultModel = "sonnet"
  ValidEfforts <- MCEfforts
  NoValue = NoValue
  Kinds = {"text", "done", "failed", "gated"}
  ResultKinds = {"done", "failed", "gated"}
  GatedKinds = {"gated"}
  MaxBufferSize = 3
  ReadChunkSize = 2
  CommandLines <- MCCommandLines
  FallbackChain <- MCChain
  Scripts <- MCScripts
  LimitReasons = {"memory", "idle"}
INVARIANT TypeOK
INVARIANT EventsSurviveChunks
INVARIANT FallbackFollowsUnavailability
INVARIANT CallsFollowSelection
