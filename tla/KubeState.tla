------------------------------ MODULE KubeState ------------------------------
(***************************************************************************)
(* The objects of one SlurmBridgeJob in the Kubernetes API server          *)
(* (external), which the operator and the virtual kubelet share: the       *)
(* SlurmBridgeJob itself, its "sizecar" and "worker" pods and the batch    *)
(* Job that fetches the result. Object names are derived from the          *)
(* SlurmBridgeJob's name, so two SlurmBridgeJobs share no object and one   *)
(* is modelled.                                                            *)
(*                                                                         *)
(* rv is metadata.resourceVersion of the SlurmBridgeJob. A write that      *)
(* carries an rv succeeds only when the object still has it; a write that  *)
(* changes nothing keeps the rv and raises no event. A pod has no rv here: *)
(* two versions of a pod with the same content cannot be told apart by     *)
(* anything the code does with them.                                       *)
(***************************************************************************)
EXTENDS Slurm

VARIABLES
  sbj,       \* the SlurmBridgeJob: spec fields, metadata and status
  pods,      \* pods[role]
  fetchJob,  \* the batch Job <name>-result-fetcher
  lastUid,   \* UIDs are issued in order
  budget,    \* faults that may still be injected
  seen       \* history: the kinds of faults and lost writes so far

kubeVars == <<sbj, pods, fetchJob, lastUid, budget, seen>>

CONSTANTS
  SbjSpecs,   \* <<is the spec valid, does it ask for the result>> to start from
  MaxFaults,  \* bound on injected faults
  Faults      \* the kinds of faults injected

FaultKinds ==
  {"apiError",      \* an API request of the operator fails
   "labelError",    \* the API request that writes the job id label fails
   "opCrash", "vkCrash", "agentCrash",
   "sbatchError", "sbatchUnparsable", "cancelError",
   "purge",         \* Slurm forgets the record of an ended task
   "podNotFound",   \* the kubelet library gives up on a pod without a job
   "deletePod", "forceDelete", "deleteSbj", "deleteFetch"}

\* Not injected: they follow from interleavings.
LossKinds ==
  {"lostWrite",     \* a reconcile ended without writing the status it computed
   "labelLost",     \* the job id label was not written, or overwritten
   "labelOverwritten",  \* by a poll
   "staleCreate",   \* a sizecar pod was created from an outdated SlurmBridgeJob
   "vkPanic"}

ASSUME KubeAssumption ==
  /\ SbjSpecs \subseteq BOOLEAN \X BOOLEAN
  /\ MaxFaults \in Nat
  /\ Faults \subseteq FaultKinds

Roles == {"sizecar", "worker"}

\* Ids of Slurm job records: a job and one of its array tasks.
RecordIds == JobIds \X Tasks

PartialFns(D, S) == UNION {[E -> S] : E \in SUBSET D}
Empty == [k \in {} |-> k]

(* PodStatus.Message: none, a JobInfoResponse in JSON, or plain text. *)
NoMsg == [kind |-> "none", info |-> Empty]
TextMsg == [kind |-> "text", info |-> Empty]
InfoMsg(info) == [kind |-> "info", info |-> info]
Msg == [kind : {"none", "text", "info"}, info : PartialFns(RecordIds, JobStatus)]

Pod ==
  [uid : Uids \cup {NoUid}, phase : PodPhase,
   job : JobIds \cup {NoJob},       \* the job id label
   msg : Msg,
   containers : SUBSET RecordIds,   \* of the worker: one per Slurm record
   deleting : BOOLEAN]              \* metadata.deletionTimestamp is set

NoPod ==
  [uid |-> NoUid, phase |-> "Unknown", job |-> NoJob, msg |-> NoMsg,
   containers |-> {}, deleting |-> FALSE]

(* An entry of Status.SubjobStatus; stdOut and stdErr say which of the two
   files of the Slurm job the path names. *)
Subjob == [state : JobStatus, stdOut : {"out", "err"}, stdErr : {"out", "err"}]

Sbj ==
  [rv : Nat, valid : BOOLEAN, result : BOOLEAN, deleting : BOOLEAN,
   state : PodPhase \cup {"", "SUBMITTING"},
   subjobs : PartialFns(RecordIds, Subjob),
   endpoint : BOOLEAN,              \* ClusterEndPoint is set
   fetch : BOOLEAN,                 \* FetchResult
   fetchStatus : {"", "Running", "Succeeded", "Failed"}]

SbjWithoutStatus(rv, valid, result) ==
  [rv |-> rv, valid |-> valid, result |-> result, deleting |-> FALSE, state |-> "",
   subjobs |-> Empty, endpoint |-> FALSE, fetch |-> FALSE, fetchStatus |-> ""]

NewSbj(valid, result) == SbjWithoutStatus(1, valid, result)
NoSbj == SbjWithoutStatus(0, FALSE, FALSE)

FetchJob ==
  [status : {"none", "Running", "Succeeded", "Failed"},
   endpoint : BOOLEAN, files : SUBSET {"out", "err"}]
NoFetchJob == [status |-> "none", endpoint |-> FALSE, files |-> {}]

SbjExists(s) == s.rv # 0
PodExists(p) == p.uid # NoUid
JobExists(f) == f.status # "none"

KubeTypeOK ==
  /\ sbj \in Sbj
  /\ pods \in [Roles -> Pod]
  /\ fetchJob \in FetchJob
  /\ lastUid \in 0..MaxPods
  /\ budget \in 0..MaxFaults
  /\ seen \subseteq FaultKinds \cup LossKinds

KubeInit ==
  /\ sbj \in {NewSbj(s[1], s[2]) : s \in SbjSpecs}
  /\ pods = [role \in Roles |-> NoPod]
  /\ fetchJob = NoFetchJob
  /\ lastUid = 0
  /\ budget = MaxFaults
  /\ seen = {}

\* Injects a fault of kind k, each kind at most once.
MayFault(k) == k \in Faults \ seen /\ budget > 0
Fault(k) ==
  /\ MayFault(k)
  /\ budget' = budget - 1
  /\ seen' = seen \cup {k}

\* A fault that loses a write.
FaultWithLoss(k, loss) ==
  /\ MayFault(k)
  /\ budget' = budget - 1
  /\ seen' = seen \cup {k, loss}

NoFault == UNCHANGED <<budget, seen>>

\* Records a loss of kind k, which uses no budget.
Lose(k) == seen' = seen \cup {k} /\ UNCHANGED budget

\* The API server creates a pod: phase Pending, a fresh UID.
CreatedPod(job, containers) ==
  [NoPod EXCEPT !.uid = lastUid + 1, !.phase = "Pending",
                !.job = job, !.containers = containers]

-----------------------------------------------------------------------------
(* What users, the garbage collector and the Job controller do (external). *)

\* A pod is deleted gracefully: the kubelet still has to act.
DeletePodRequest(role) ==
  /\ PodExists(pods[role]) /\ ~pods[role].deleting
  /\ Fault("deletePod")
  /\ pods' = [pods EXCEPT ![role].deleting = TRUE]
  /\ UNCHANGED <<sbj, fetchJob, lastUid>>

\* A pod is removed without the kubelet.
ForceDeletePod(role) ==
  /\ PodExists(pods[role])
  /\ Fault("forceDelete")
  /\ pods' = [pods EXCEPT ![role] = NoPod]
  /\ UNCHANGED <<sbj, fetchJob, lastUid>>

DeleteSbjRequest ==
  /\ SbjExists(sbj) /\ ~sbj.deleting
  /\ Fault("deleteSbj")
  /\ sbj' = [sbj EXCEPT !.deleting = TRUE, !.rv = @ + 1]
  /\ UNCHANGED <<pods, fetchJob, lastUid>>

RemoveSbj ==
  /\ sbj.deleting
  /\ sbj' = NoSbj
  /\ UNCHANGED <<pods, fetchJob, lastUid>> /\ NoFault

\* The garbage collector deletes the pods of a deleted SlurmBridgeJob.
CollectPod(role) ==
  /\ ~SbjExists(sbj) \/ sbj.deleting
  /\ PodExists(pods[role]) /\ ~pods[role].deleting
  /\ pods' = [pods EXCEPT ![role].deleting = TRUE]
  /\ UNCHANGED <<sbj, fetchJob, lastUid>> /\ NoFault

\* The Job is deleted by a user, or collected with its SlurmBridgeJob.
DeleteFetchJob ==
  /\ JobExists(fetchJob)
  /\ IF SbjExists(sbj) /\ ~sbj.deleting THEN Fault("deleteFetch") ELSE NoFault
  /\ fetchJob' = NoFetchJob
  /\ UNCHANGED <<sbj, pods, lastUid>>

\* The result fetcher ends: it cannot start without an endpoint, opens the
\* file through the agent and copies it. backoffLimit 0 makes a failure final.
FinishFetchJob ==
  /\ fetchJob.status = "Running"
  /\ \E s \in {"Failed"} \cup (IF fetchJob.endpoint THEN {"Succeeded"} ELSE {}) :
       fetchJob' = [fetchJob EXCEPT !.status = s]
  /\ UNCHANGED <<sbj, pods, lastUid>> /\ NoFault

KubeNext ==
  \/ \E role \in Roles :
       DeletePodRequest(role) \/ ForceDeletePod(role) \/ CollectPod(role)
  \/ DeleteSbjRequest \/ RemoveSbj
  \/ DeleteFetchJob \/ FinishFetchJob
=============================================================================
