SPECIFICATION Spec
CONSTANTS
  Requests = {r1}
  Tenants = {t1, t2}
  Keys = {k1}
  Workflows = {w1}
  Slugs = {s1, s2}
  MaxTime = 0
  Failures = FALSE
  Earlier = Earlier
  Never = Never
  Absent = Absent
CHECK_DEADLOCK FALSE
INVARIANT
  KeysAdmitOwnTenant
