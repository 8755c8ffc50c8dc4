CONSTANTS
  a = a
  b = b
  c = c
  Nodes <- QueueNodes
  Entry = "frame_hypothesis"
  Kind <- QueueKind
  Stage <- QueueStage
  Edges <- QueueEdges
  SuccessNodes <- CompleteNode
  FailureNodes = {}
  DefaultStatus = "stuck"
  MaxAttempts <- Attempts
  StopOnItemFailure = FALSE
  MaxIterations = 2
  Writers = {}
  Items = {a, b, c}
  Reopens = {"failed", "discarded", "completed", "running", "blocked"}
  DependsOn <- Waits
  HasPlanner = TRUE
  Replenishes = TRUE
  MaxBatches = 3
  MaxCalls = 2
  MaxFaults = 1
SPECIFICATION Spec
INVARIANTS
  ListsMatchItems
PROPERTIES
  SettledStays
  CallEnds
CHECK_DEADLOCK FALSE
