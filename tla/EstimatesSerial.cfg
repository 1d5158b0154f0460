SPECIFICATION RepairSpec
CONSTANTS
  Orders = {w1}
  Requests = {r1}
  Technicians = {}
  Estimates = {e1, e2}
  MaxEvents = 7
  MaxYear = 2
  MaxRevisions = 1
  MaxSends = 2

PROPERTIES ImplementsLifecycle DecisionFinal ApprovalMovesOrder SentContentFrozen
CHECK_DEADLOCK FALSE
