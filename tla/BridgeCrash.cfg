CONSTANTS
  MaxPods = 1
  MaxJobs = 2
  Tasks = {t1}
  Root = t1
  Outcomes = {"COMPLETED"}
  Rpcs = {r1, r2}
  MaxAgentRestarts = 1
  MaxFaults = 2
  Faults = {"vkCrash", "agentCrash", "sbatchError", "sbatchUnparsable"}
  Resyncs = FALSE
  SbjSpecs <- WithoutResult
SPECIFICATION Spec
SYMMETRY RpcSymmetry
INVARIANTS DuplicateJobNeedsFault
CHECK_DEADLOCK FALSE
