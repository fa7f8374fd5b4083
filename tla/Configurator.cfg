CONSTANTS
  Partition = {1, 2, 3, 4}
  Unnameable = {2}
  MaxChanges = 2
  MaxFailures = 1
SPECIFICATION ConfFairSpec
PROPERTIES DeletesOnlyGone PartitionServed PartitionReleased
