\* Three dispatches over two provider tasks, so that tasks are shared, the queue has an
\* order to get wrong, and a dispatch can be queued behind a queue that was restored.
\* One role and one claim decision: no property tells roles or claims apart.
CONSTANTS
  r1 = r1
  t1 = t1
  t2 = t2
  None = None
  Roles = {r1}
  DispatchIds = {1, 2, 3}
  TaskIds = {t1, t2}
  Nodes = {}
  ClaimMode = "direct"
  ClaimDecisions = {"claimed"}
  CompletionStatuses = {"running", "completed"}
SPECIFICATION Spec
INVARIANTS
  TypeOK
  PendingIsQueued
  TaskIndexFaithful
  StartsInQueueOrder
  LatestStartOwnsTask
PROPERTIES
  BindingIsPermanent
  ImplementsBoard
SYMMETRY MCSymmetry
CHECK_DEADLOCK FALSE
