CONSTANTS
  None = None
  Roles = {1, 2}
  Nodes = {1, 2, 3, 4}
  DispatchIds = {1, 2}
  MaxSessions = 2
  MaxFaults = 0
  TaskIds <- MCTaskIds
  ClaimMode = "claim"
  Edges <- MCEdges
  NodeRole <- MCNodeRole
  Verdicts <- MCVerdicts
  SuccessNodes = {4}
  FailureNodes = {}
  CompleteNodes = {}
  DoneByDefault = FALSE
  Workspace <- MCWorkspace
  Messages <- MCMessages
  ClaimAnswers <- MCClaimAnswers
  CoordinatorAnswers <- MCCoordinatorAnswers
  TaskRequests <- MCTaskRequests
SPECIFICATION Spec
INVARIANTS
  GatesHold
CHECK_DEADLOCK FALSE
