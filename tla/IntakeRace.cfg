SPECIFICATION Spec
CONSTANTS
  ann = ann
  bob = bob
  w1 = w1
  c1 = c1
  c2 = c2
  d1 = d1
  d2 = d2
  r1 = r1
  r2 = r2
  Actors = {ann, bob}
  Tenant <- MCTenant
  Role <- MCRole
  Customers = {c1, c2}
  Assets = {s1}
  Reports = {q1}
  Diagnoses = {d1, d2}
  Orders = {w1}
  Emails = {"e1"}
  Requests = {r1, r2}
SYMMETRY Symmetry
INVARIANTS OneTenant AuditTrue
PROPERTIES ConvertedStays
