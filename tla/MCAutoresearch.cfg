CONSTANTS
  a = a
  b = b
  c = c
  Nodes <- ResearchNodes
  Entry = "frame_hypothesis"
  Kind <- ResearchKind
  Stage <- ResearchStage
  Edges <- ResearchEdges
  SuccessNodes <- KeepNode
  FailureNodes <- DiscardNode
  DefaultStatus = "done"
  MaxIterations = 1
  Writers = {}
  Items = {a, b, c}
  Reopens = {}
  DependsOn <- Free
  MaxAttempts <- Attempts
  HasPlanner = FALSE
  Replenishes = FALSE
  MaxBatches = 1
  StopOnItemFailure = TRUE
  MaxCalls = 1
  MaxFaults = 0
SPECIFICATION Spec
INVARIANTS
  EvaluationDecides
CHECK_DEADLOCK FALSE
