CONSTANTS
  MaxPods = 2
  MaxJobs = 1
  Tasks = {t1}
  Root = t1
  Outcomes = {"COMPLETED"}
  Rpcs = {r1}
  MaxAgentRestarts = 1
  MaxFaults = 1
  Faults = {"deletePod"}
  Resyncs = TRUE
  SbjSpecs <- WithoutResult
SPECIFICATION FairSpec
PROPERTY LostPodFails
CHECK_DEADLOCK FALSE
