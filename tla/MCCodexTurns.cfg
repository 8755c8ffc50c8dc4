CONSTANTS
  r1 = r1
  r2 = r2
  attempt = attempt
  keep = keep
  loop_next = loop_next
  None = None
  Roles = {r1, r2}
  DispatchIds = {1, 2, 3}
  TaskIds = {t1, t2}
  Nodes = {attempt, keep, loop_next}
  ClaimMode = "claim"
  Edges <- MCEdges
  NodeRole <- MCNodeRole
  Verdicts <- MCVerdicts
  SuccessNodes = {keep}
  FailureNodes = {}
  CompleteNodes = {}
  DoneByDefault = FALSE
  CallerRequests <- MCCallerRequests
  EntryNode = attempt
  MaxWorkflowFollowups = 1
  MaxFaults = 0
SPECIFICATION CodexSpec
INVARIANTS
  TypeOK
  CorrelatedUnlessBehind
  ExecutesActiveNode
PROPERTIES
  CompletedIsFinal
  WorkflowFollowsEdges
SYMMETRY MCSymmetry
CHECK_DEADLOCK FALSE
