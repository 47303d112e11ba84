SPECIFICATION Spec
CONSTANTS
  Requests = {r1, r2}
  Tenants = {t1, t2}
  Keys = {k1}
  Workflows = {w1, w2}
  Slugs = {s1, s2}
  MaxTime = 1
  Failures = TRUE
  Earlier = Earlier
  Never = Never
  Absent = Absent
SYMMETRY Symmetry
INVARIANTS
  TypeOK
  SlugsAreOwned
  AdmittedWasInForce
PROPERTY
  WritesFollowTenantHeader
CHECK_DEADLOCK FALSE
