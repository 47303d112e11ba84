SPECIFICATION FairSpec
CONSTANTS
  Executions = {e1}
  Tasks = {t1, t2}
  Requests = {r1, r2}
  Steps = {s1}
  Ticks = {1}
  Requested = {"RUNNING", "CANCELLED"}
  NoExecution = NoExecution
  NoStep = NoStep
  NoStatus = NoStatus
CHECK_DEADLOCK FALSE
INVARIANTS
  EventsAreBacked
  SuccessIsRecorded
  RetriesBounded
  OutputIsEarned
PROPERTIES
  RequestsSettle
  JournalFairSpec
