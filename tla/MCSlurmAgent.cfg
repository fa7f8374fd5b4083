CONSTANTS
  MaxPods = 2
  MaxJobs = 3
  Tasks = {t1}
  Root = t1
  Outcomes = {"COMPLETED"}
  Rpcs = {r1, r2}
  MaxAgentRestarts = 1
SPECIFICATION AgentSpec
INVARIANTS OneJobPerUid RepliesAgree
SYMMETRY RpcSymmetry
CHECK_DEADLOCK FALSE
