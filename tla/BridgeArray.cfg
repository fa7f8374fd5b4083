CONSTANTS
  MaxPods = 2
  MaxJobs = 1
  Tasks = {t1, t2}
  Root = t1
  Outcomes = {"COMPLETED", "FAILED"}
  Rpcs = {r1}
  MaxAgentRestarts = 0
  MaxFaults = 1
  Faults = {"purge"}
  Resyncs = FALSE
  SbjSpecs <- WithoutResult
SPECIFICATION Spec
INVARIANTS PanicNeedsCause SucceededIsTrue
CHECK_DEADLOCK FALSE
