SPECIFICATION Spec
CONSTANTS
  Executions = {e1}
  Tasks = {}
  Requests = {r1, r2}
  Steps = {}
  Ticks = {}
  Requested = {"RUNNING"}
  NoExecution = NoExecution
  NoStep = NoStep
  NoStatus = NoStatus
CHECK_DEADLOCK FALSE
INVARIANTS
  EveryFailureCounted
