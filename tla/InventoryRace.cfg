SPECIFICATION FairSpec
CONSTANTS
  Parts = {p1, p2}
  PartNumbers = {n1}
  Requests = {r1, r2}
  Quantities <- TestQuantities
  MaxStock = 3
  MaxLedger = 2
INVARIANTS TypeOK LedgerExplainsStock AuditTrue
PROPERTIES ImplementsStockroom Answered
