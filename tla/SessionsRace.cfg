SPECIFICATION Spec
CONSTANTS
  Users = {u1}
  Tokens = {s1, s2, s3}
  Links = {l1, l2}
  Requests = {r1, r2}
  Tenant <- MCTenant
  NewRoles = {"STAFF"}
  MaxVersion = 2
  MaxChanges = 1
SYMMETRY Symmetry
INVARIANTS ResetEndsSessions RotationOverlaps RolesFollow OneResetLink
CHECK_DEADLOCK FALSE
