SPECIFICATION Spec
CONSTANTS
  i1 = i1
  half = half
  whole = whole
  back = back
  Invoices = {i1}
  Requests = {r1, r2}
  Totals = {0, 2}
  Transactions = {half, whole, back}
  Pays <- TestPays
  Amount <- TestAmount
  MaxDeliveries = 3
SYMMETRY SlotSymmetry
INVARIANTS StatusEarned PaymentShows DuplicatesOverlap
PROPERTIES KeepsAccount
