-------------------------------- MODULE Slurm --------------------------------
(***************************************************************************)
(* The Slurm cluster behind the agent, as the agent's command lines see it *)
(* (external: sbatch, scancel and "scontrol show jobid").                  *)
(*                                                                         *)
(* A job is a set of array tasks. scontrol shows one record for the tasks  *)
(* that have not started (the record of Root) and one record for each task *)
(* that has; Slurm forgets the record of a task some time after it ended.  *)
(***************************************************************************)
EXTENDS Naturals, PodStatus

CONSTANTS
  MaxPods,   \* bound on the pod UIDs the API server issues
  MaxJobs,   \* bound on the job ids sbatch issues
  Tasks,     \* array tasks of a job
  Root,      \* the task whose record stands for the tasks not split off yet
  Outcomes   \* states in which a running task may end

\* "NODE_FAIL" stands for every state name that workload.JobStatus lacks.
SlurmState ==
  {"PENDING", "RUNNING", "COMPLETED", "CANCELLED", "FAILED", "TIMEOUT", "NODE_FAIL"}

ASSUME SlurmAssumption ==
  /\ MaxPods \in Nat
  /\ MaxJobs \in Nat
  /\ Root \in Tasks
  /\ Outcomes \subseteq SlurmState \ {"PENDING", "RUNNING"}

Uids == 1..MaxPods
NoUid == 0
\* Owner of the jobs of SubmitJobContainer, which carry no pod UID.
ContainerUid == MaxPods + 1
JobIds == 1..MaxJobs
NoJob == 0

VARIABLES
  jobUid,    \* the pod UID each issued job was submitted for
  records    \* records[j][t]: state of task t of job j, "hidden" before the
             \* task has a record of its own and "purged" after Slurm forgot it

slurmVars == <<jobUid, records>>

SlurmTypeOK ==
  /\ jobUid \in [JobIds -> Uids \cup {NoUid, ContainerUid}]
  /\ records \in [JobIds -> [Tasks -> SlurmState \cup {"hidden", "purged"}]]

SlurmInit ==
  /\ jobUid = [j \in JobIds |-> NoUid]
  /\ records = [j \in JobIds |-> [t \in Tasks |-> "hidden"]]

Active == {"PENDING", "RUNNING"}
JobsOf(u) == {j \in JobIds : jobUid[j] = u}
Visible(j) == {t \in Tasks : records[j][t] \notin {"hidden", "purged"}}
LiveJob(j) == \E t \in Tasks : records[j][t] \in Active

\* Job ids are issued in order.
IsNextId(j) == jobUid[j] = NoUid /\ \A k \in JobIds : k < j => jobUid[k] # NoUid

\* sbatch accepts a script for pod UID u and prints job id j.
Accept(j, u) ==
  /\ IsNextId(j)
  /\ jobUid' = [jobUid EXCEPT ![j] = u]
  /\ records' = [records EXCEPT ![j] =
                   [t \in Tasks |-> IF t = Root THEN "PENDING" ELSE "hidden"]]

SetTask(j, t, from, to) ==
  /\ records[j][t] \in from
  /\ records' = [records EXCEPT ![j][t] = to]
  /\ UNCHANGED jobUid

\* A task starts: it is split off from the record of Root, or is the last one.
SlurmStart(j, t) ==
  /\ records[j][Root] = "PENDING"
  /\ t = Root => \A s \in Tasks : records[j][s] # "hidden"
  /\ SetTask(j, t, {"hidden", "PENDING"}, "RUNNING")

SlurmEnd(j, t) == \E o \in Outcomes : SetTask(j, t, {"RUNNING"}, o)

SlurmPurge(j, t) == SetTask(j, t, SlurmState \ Active, "purged")

\* scancel j
SCancel(j) ==
  /\ records' = [records EXCEPT ![j] =
       [t \in Tasks |-> IF records[j][t] \in Active THEN "CANCELLED" ELSE records[j][t]]]
  /\ UNCHANGED jobUid

SlurmProgress == \E j \in JobIds, t \in Tasks : SlurmStart(j, t) \/ SlurmEnd(j, t)

SlurmNext == SlurmProgress \/ \E j \in JobIds, t \in Tasks : SlurmPurge(j, t)
=============================================================================
