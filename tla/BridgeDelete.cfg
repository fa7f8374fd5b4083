CONSTANTS
  MaxPods = 3
  MaxJobs = 2
  Tasks = {t1}
  Root = t1
  Outcomes = {"COMPLETED"}
  Rpcs = {r1}
  MaxAgentRestarts = 1
  MaxFaults = 3
  Faults = {"labelError", "cancelError", "deletePod"}
  Resyncs = FALSE
  SbjSpecs <- WithoutResult
SPECIFICATION Spec
INVARIANTS TypeOK  WorkerSharesJob
PROPERTIES FinishedIsFinal
CHECK_DEADLOCK FALSE
