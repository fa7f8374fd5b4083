CONSTANTS
  MaxPods = 2
  MaxJobs = 1
  Tasks = {t1}
  Root = t1
  Outcomes = {"COMPLETED"}
  Rpcs = {r1}
  MaxAgentRestarts = 1
  MaxFaults = 2
  Faults = {"opCrash", "apiError", "labelError", "deleteFetch"}
  Resyncs = TRUE
  SbjSpecs <- WithResult
SPECIFICATION FairSpec
INVARIANTS FetchAfterFinish FetchStatusTrue
PROPERTIES RefinesLifecycle OutcomeReported FetchOutcomeReported Submission
CHECK_DEADLOCK FALSE
