SPECIFICATION Spec
CONSTANTS
  t1 = t1
  t2 = t2
  ann = ann
  bob = bob
  p1 = p1
  p2 = p2
  p3 = p3
  Tabs = {t1, t2}
  Accounts = {ann, bob}
  Pairs = {p1, p2, p3}
SYMMETRY Symmetry
INVARIANTS ShownIsStored NoRetryLoop
