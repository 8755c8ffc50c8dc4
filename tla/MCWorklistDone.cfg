CONSTANTS
  a = a
  b = b
  c = c
  Nodes <- QueueNodes
  Entry = "frame_hypothesis"
  Kind <- QueueKind
  Stage <- QueueStage
  Edges <- QueueEdges
  SuccessNodes <- CompleteNode
  FailureNodes = {}
  DefaultStatus = "stuck"
  MaxAttempts <- Attempts
  StopOnItemFailure = FALSE
  MaxIterations = 1
  Writers = {}
  Items = {a, b, c}
  Reopens = {}
  DependsOn <- Waits
  HasPlanner = TRUE
  Replenishes = TRUE
  MaxBatches = 3
  MaxCalls = 1
  MaxFaults = 0
SPECIFICATION Spec
INVARIANTS
  DoneItemsCompleted
CHECK_DEADLOCK FALSE
