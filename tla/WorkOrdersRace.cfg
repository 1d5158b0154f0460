SPECIFICATION Spec
CONSTANTS
  Orders = {w1}
  Requests = {r1, r2}
  Technicians = {t1}
  MaxEvents = 6
  MaxYear = 2
SYMMETRY Symmetry
INVARIANTS TypeOK HistoryLegal RepairWasApproved HandoverWasChecked EffectsTrue
CHECK_DEADLOCK FALSE
