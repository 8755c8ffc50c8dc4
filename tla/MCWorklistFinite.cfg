CONSTANTS
  a = a
  b = b
  c = c
  Nodes <- FiniteNodes
  Entry = "plan_tasks"
  Kind <- FiniteKind
  Stage <- FiniteStage
  Edges <- FiniteEdges
  SuccessNodes <- CompleteNode
  FailureNodes = {}
  DefaultStatus = "stuck"
  MaxAttempts <- Attempts
  StopOnItemFailure = TRUE
  MaxIterations = 2
  Writers <- PlanNode
  Items = {a, b, c}
  Reopens = {"failed", "discarded"}
  DependsOn <- Waits
  HasPlanner = FALSE
  Replenishes = FALSE
  MaxBatches = 1
  MaxCalls = 2
  MaxFaults = 1
SPECIFICATION Spec
INVARIANTS
  TypeOK
  StagesBalanced
  DependenciesOnDisk
PROPERTIES
  AtMostOnce
CHECK_DEADLOCK FALSE
