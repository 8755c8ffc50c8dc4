CONSTANTS
  None = None
  Roles = {1, 2}
  Nodes = {1, 2, 3, 4}
  DispatchIds = {1, 2}
  MaxSessions = 3
  MaxFaults = 1
  TaskIds <- MCTaskIds
  ClaimMode = "direct"
  Edges <- MCEdges
  NodeRole <- MCNodeRole
  Verdicts <- MCVerdicts
  SuccessNodes = {4}
  FailureNodes = {}
  CompleteNodes = {}
  DoneByDefault = FALSE
  Workspace <- MCWorkspace
  Messages <- MCMessages
  ClaimAnswers <- MCClaimAnswers
  CoordinatorAnswers <- MCCoordinatorAnswers
  TaskRequests <- MCTaskRequests
SPECIFICATION Spec
INVARIANTS
  TypeOK
  AnswersReachDispatches
  RunningHasWork
  SessionsOnDisk
PROPERTIES
  MovesAlongEdges
CHECK_DEADLOCK FALSE
