CONSTANTS
  None = None
  Specs <- MCSpecs
  Requests <- MCRequests
  ClaimAnswers <- MCClaimAnswers
  CoordinatorAnswers <- MCCoordinatorAnswers
SPECIFICATION Spec
INVARIANTS
  TypeOK
  StrongerAnswerKeepsWork
  DeclinersLeftAlone
  NodesFitRoles
  TurnIsWorked
CHECK_DEADLOCK FALSE
