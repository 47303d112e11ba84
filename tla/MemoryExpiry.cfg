SPECIFICATION Spec
CONSTANTS
  Requests = {r1, r2, r3}
  Keys = {k1, k2}
  Ttls = {1, 2}
  MaxTime = 2
  Failures = TRUE
  Earlier = Earlier
  Never = Never
  Absent = Absent
SYMMETRY Symmetry
INVARIANTS
  TypeOK
  TtlIsKept
  RecallIsFresh
  RecallMissesOnlyWritten
PROPERTY
  PruneSparesRecallable
CHECK_DEADLOCK FALSE
