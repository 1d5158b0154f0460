SPECIFICATION Spec
CONSTANTS
  i1 = i1
  half = half
  whole = whole
  back = back
  Invoices = {i1}
  Requests = {r1, r2}
  Totals = {2}
  Transactions = {half}
  Pays <- TestPays
  Amount <- TestAmount
  MaxDeliveries = 2
INVARIANTS RecordedOnce
