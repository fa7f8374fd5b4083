CONSTANTS
  Kubelets = {"k1", "k2"}
  Args <- MCArgs
  Files <- MCFiles
  Pods <- MCPods
  NodeOf <- MCNodeOf
  SizeCarOf <- MCSizeCarOf
  MaxCrashes = 1
  MaxChanges = 1
SPECIFICATION KubeletSpec
INVARIANT BadPairNeedsCause
PROPERTIES StartCancels KubeletStarts
CHECK_DEADLOCK FALSE
