SPECIFICATION Spec
CONSTANTS
  Requests = {r1, r2}
  Keys = {k1}
  Ttls = {1, 2}
  MaxTime = 2
  Failures = FALSE
  Earlier = Earlier
  Never = Never
  Absent = Absent
SYMMETRY Symmetry
INVARIANT StoredIsRecallable
CHECK_DEADLOCK FALSE
