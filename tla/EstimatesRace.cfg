SPECIFICATION RepairSpec
CONSTANTS
  Orders = {w1, w2}
  Requests = {r1, r2}
  Technicians = {}
  Estimates = {e1}
  MaxEvents = 3
  MaxYear = 2
  MaxRevisions = 0
  MaxSends = 2
SYMMETRY Symmetry
INVARIANTS RepairTypeOK RowMatchesTimeline NumbersInStep DecisionNeedsSend DecisionEffectsDecided
CHECK_DEADLOCK FALSE
