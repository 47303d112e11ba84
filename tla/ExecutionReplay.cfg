SPECIFICATION Spec
CONSTANTS
  Executions = {e1}
  Tasks = {t1, t2}
  Requests = {r1, r2}
  Steps = {s1, s2}
  Ticks = {1, 2}
  Requested = {"RUNNING"}
  NoExecution = NoExecution
  NoStep = NoStep
  NoStatus = NoStatus
CHECK_DEADLOCK FALSE
SYMMETRY Symmetry
INVARIANTS
  TypeOK
  NoOrphans
  ReplayIsComplete
PROPERTIES
  ReplaySparesEarlierTasks
  DeletedStaysDeleted
