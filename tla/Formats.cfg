CONSTANTS
  Jobs <- MCJobs
  Containers <- MCContainers
  Partitions <- MCPartitions
  JobLists <- MCJobLists
  StepLists <- MCStepLists
  Hosts <- MCHosts
  Names = {"p", "q"}
  Limits <- MCLimits
  Configs <- MCConfigs
  Zone = 3600
SPECIFICATION FormatsSpec
INVARIANTS ScriptReadAsSbatch SpecReachesSbatch ReservationExact PendingNeedsDemand
  PhaseTellsState TimesExact PartitionTold
CHECK_DEADLOCK FALSE
