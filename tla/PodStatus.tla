------------------------------ MODULE PodStatus ------------------------------
(***************************************************************************)
(* How the virtual kubelet turns what Slurm reports about a job into the   *)
(* status of the pod that stands for it (slurm-virtual-kubelet/status.go). *)
(* A JobInfoResponse is a function from record ids to JobStatus: the       *)
(* functions below never depend on the order of the records.               *)
(***************************************************************************)

\* workload.JobStatus
JobStatus ==
  {"COMPLETED", "CANCELLED", "FAILED", "TIMEOUT", "PENDING", "RUNNING", "UNKNOWN"}

\* corev1.PodPhase
PodPhase == {"Pending", "Running", "Succeeded", "Failed", "Unknown"}

\* The phases the operator treats as final.
Terminal(phase) == phase \in {"Succeeded", "Failed"}

Statuses(info) == {info[i] : i \in DOMAIN info}

(* Mutation: an array whose records have not all ended is finished as soon
   as none of them runs any more. *)
isAllSlurmJobEnded_OnlyRunning(info) == "RUNNING" \notin Statuses(info)

isAllSlurmJobEnded(info) ==
  Statuses(info) \cap {"UNKNOWN", "PENDING", "RUNNING"} = {}

EndedPhase(info) ==
  IF Statuses(info) \cap {"FAILED", "CANCELLED", "TIMEOUT"} # {}
  THEN "Failed" ELSE "Succeeded"

ActivePhase(info) ==
  CASE "RUNNING" \in Statuses(info) -> "Running"
    [] "RUNNING" \notin Statuses(info) /\ "PENDING" \in Statuses(info) -> "Pending"
    [] Statuses(info) \cap {"RUNNING", "PENDING"} = {} -> "Unknown"

slurmState2PodPhase(info) ==
  IF isAllSlurmJobEnded(info) THEN EndedPhase(info) ELSE ActivePhase(info)

(* The containers of a worker pod are named after record ids; a container
   whose record is not in the answer makes getRelateSLurmJobInfo return nil,
   which slurmState2ContainerState dereferences. *)
ContainerStatusesPanic(role, containers, info) ==
  role = "worker" /\ ~(containers \subseteq DOMAIN info)
=============================================================================
