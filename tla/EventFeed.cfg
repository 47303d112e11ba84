SPECIFICATION Spec
CONSTANTS
  Messages = {m1, m2}
  Deliveries = {d1, d2, d3}
  Types = {t1, t2}
  Readers = {q1}
  Limits = {1, 2}
  MaxTime = 1
  Failures = TRUE
  NoMessage = NoMessage
  NoRow = NoRow
  Every = Every
SYMMETRY Symmetry
INVARIANTS
  TypeOK
  RepeatsAreShifts
  ListingIsOrdered
  PagesAreEarned
PROPERTY
  ListingIsComplete
CHECK_DEADLOCK FALSE
