CONSTANTS
  r1 = r1
  r2 = r2
  attempt = attempt
  keep = keep
  loop_next = loop_next
  None = None
  Roles = {r1, r2}
  DispatchIds = {1, 2}
  TaskIds = {t1, t2}
  Nodes = {attempt, keep, loop_next}
  ClaimMode = "direct"
  Edges <- MCEdges
  NodeRole <- MCNodeRole
  Verdicts <- MCVerdicts
  SuccessNodes = {keep}
  FailureNodes = {}
  CompleteNodes = {}
  DoneByDefault = FALSE
  CallerRequests = {}
  EntryNode = attempt
  MaxWorkflowFollowups = 1
  MaxFaults = 2
SPECIFICATION ClaudeSpec
INVARIANTS
  IndexesSurvive
  ThreadsHaveDispatches
  LogNeverAhead
  AckedOnDisk
  ReturnedUnlessBehind
PROPERTIES
  CallReturns
CHECK_DEADLOCK FALSE
