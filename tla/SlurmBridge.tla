----------------------------- MODULE SlurmBridge -----------------------------
(***************************************************************************)
(* The bridge: operator, virtual kubelet, agent, API server and Slurm      *)
(* around one SlurmBridgeJob.                                              *)
(***************************************************************************)
EXTENDS BridgeOperator, VirtualKubelet

vars == <<kubeVars, opVars, vkVars, agentVars, slurmVars>>

Init == KubeInit /\ OperatorInit /\ VkInit /\ AgentInit /\ SlurmInit

Next ==
  \/ KubeNext /\ UNCHANGED <<opVars, vkVars, agentVars, slurmVars>>
  \/ OperatorNext /\ UNCHANGED <<vkVars, agentVars, slurmVars>>
  \/ VkNext /\ UNCHANGED opVars

Spec == Init /\ [][Next]_vars

(* The informers deliver, the controller's workers take what is queued, the
   resync timer fires, CreatePod with the SubmitJob call it makes goes on, and
   the garbage collector and the kubelet act on what is deleted. Nothing is
   assumed of Slurm, of users, of status polls or of faults. *)
Operator(A) == A /\ UNCHANGED <<vkVars, agentVars, slurmVars>>
Kubelet(A) == A /\ UNCHANGED opVars
Kube(A) == A /\ UNCHANGED <<opVars, vkVars, agentVars, slurmVars>>

CreatePodProgress ==
  \/ \E r \in Rpcs : CreatePod(r) \/ SubmitAnswered(r)
  \/ \E r \in Rpcs, j \in JobIds : SBatch(r, j) /\ UNCHANGED <<kubeVars, vkVars>>
  \/ StoreKnownPod \/ addAndUpdateSlurmJobInfo \/ LabelFails

Fairness ==
  /\ WF_vars(Operator(SyncSbj))
  /\ WF_vars(Operator(SyncPods))
  /\ WF_vars(Operator(SyncFetch))
  /\ WF_vars(Operator(Resync))
  /\ WF_vars(Operator(OperatorStep))
  /\ WF_vars(Kubelet(CreatePodProgress))
  /\ \A role \in Roles : WF_vars(Kube(CollectPod(role))) /\ WF_vars(Kubelet(DeletePod(role)))

FairSpec == Spec /\ Fairness

(* The objects hold what their API types allow: states of a SlurmBridgeJob are
   pod phases or SUBMITTING, messages and sub jobs name Slurm records. *)
TypeOK == KubeTypeOK /\ OperatorTypeOK /\ VkTypeOK /\ AgentTypeInv

-----------------------------------------------------------------------------
(* Refinement of JobLifecycle. The operator may record FetchResultStatus
   without FetchResult (when the write that set FetchResult was lost); the
   fetch counts as done only when both are recorded. *)
LifePhase ==
  CASE ~SbjExists(sbj) -> "gone"
    [] SbjExists(sbj) /\ sbj.state = "" -> "new"
    [] SbjExists(sbj) /\ Finished(sbj) -> sbj.state
    [] OTHER -> "active"

LifeFetch ==
  CASE ~SbjExists(sbj) -> "none"
    [] SbjExists(sbj) /\ sbj.fetch /\ isFinishedFetchResult(sbj.fetchStatus) -> "done"
    [] SbjExists(sbj) /\ ~sbj.fetch /\ sbj.fetchStatus = "" -> "none"
    [] OTHER -> "started"

Life == INSTANCE JobLifecycle
  WITH wanted <- sbj.result, phase <- LifePhase, fetch <- LifeFetch

(* Under every interleaving of stale caches, lost writes, crashes and pod
   changes, the status written by Reconcile follows the life cycle. *)
RefinesLifecycle == Life!LifeSpec

(* A finished SlurmBridgeJob is never reopened and its sub job statuses stay
   as they were: a Reconcile that started from an older copy must not win. *)
FinishedIsFinal ==
  [][SbjExists(sbj) /\ Terminal(sbj.state) /\ SbjExists(sbj)'
     => sbj'.state = sbj.state /\ sbj'.subjobs = sbj.subjobs]_vars

\* Task t of job j never started: scancel hit the record it was waiting in.
NeverStarted(j, t) == records[j][t] = "hidden" /\ records[j][Root] = "purged"

(* A SlurmBridgeJob reported Succeeded has a Slurm job none of whose tasks is
   active or ended badly in Slurm; and a sub job recorded as failed is
   overruled only when Slurm has forgotten its record. Tasks that were
   cancelled before they started count as forgotten with that record. *)
SucceededIsTrue ==
  sbj.state = "Succeeded" =>
    \E j \in JobIds :
      /\ \E t \in Tasks : <<j, t>> \in DOMAIN sbj.subjobs
      /\ \A t \in Tasks :
           /\ records[j][t] \in {"COMPLETED", "purged"} \/ NeverStarted(j, t)
           /\ <<j, t>> \in DOMAIN sbj.subjobs
              /\ sbj.subjobs[<<j, t>>].state \in {"FAILED", "CANCELLED", "TIMEOUT"}
              => records[j][t] = "purged"

DuplicateJob == \E u \in Uids : \E j, k \in JobsOf(u) : j # k

(* One pod, one Slurm job: a second job for a pod UID needs a crash of the
   kubelet while SubmitJob runs, a restart of the agent, or an sbatch answer
   that could not be read. Retries of CreatePod alone never cause it. *)
DuplicateJobNeedsFault ==
  DuplicateJob =>
    \/ seen \cap {"agentCrash", "sbatchUnparsable"} # {}
    \/ seen \cap {"vkCrash", "vkPanic"} # {} /\ overlapped # {}

(* The worker pod stands for a job that was submitted for a sizecar pod, and
   for the job of the present sizecar pod unless a status write of the
   operator was lost, the operator worked from an outdated copy, or a poll
   took the label away: a kubelet that restarts then submits the pod again. *)
WorkerSharesJob ==
  PodExists(pods["worker"]) =>
    /\ jobUid[pods["worker"].job] \in Uids
    /\ PodExists(pods["sizecar"]) /\ pods["sizecar"].job # NoJob
       /\ pods["sizecar"].job # pods["worker"].job
       => seen \cap {"lostWrite", "opCrash", "staleCreate", "labelOverwritten"} # {}

(* Nobody is left to stop a running Slurm job: its pod is gone, no pod is
   labelled with it and no CreatePod or SubmitJob for the pod is running. *)
Orphaned(j) ==
  /\ jobUid[j] \in Uids /\ LiveJob(j)
  /\ \A role \in Roles : pods[role].uid # jobUid[j] /\ pods[role].job # j
  /\ vkCall.pod.uid # jobUid[j]
  /\ InFlight(jobUid[j]) = {}

(* Deleting the pods cancels the Slurm job. A lost job id label alone does
   not break this, nor does a failed scancel alone; together they do, because
   DeletePod forgets the pod although it failed. *)
OrphanNeedsFault ==
  (\E j \in JobIds : Orphaned(j)) =>
    \/ seen \cap {"vkCrash", "vkPanic", "agentCrash", "sbatchUnparsable", "forceDelete"} # {}
    \/ {"labelLost", "cancelError"} \subseteq seen

(* The poll of the worker pod panics only when Slurm has forgotten a record,
   or when a kubelet that crashed between SubmitJob and the label got a second
   job for the sizecar pod, whose message tells of the first. Tasks that start
   or end after the worker was created do not upset the containers it was
   created with. *)
PanicNeedsCause ==
  "vkPanic" \in seen => "purge" \in seen \/ ("vkCrash" \in seen /\ DuplicateJob)

(* The result is fetched only for a finished SlurmBridgeJob that asked for
   it, and the fetcher lacks the agent's endpoint only if the job id label and
   endpoint annotation of the sizecar pod could not be written or were
   overwritten by a status poll that had read the pod before, or a status poll
   has overtaken addAndUpdateSlurmJobInfo and is about to defeat it. The
   files it is given are those of the standard error: UpdateSBJStatus stores
   the paths of the two streams the wrong way round. *)
FetchAfterFinish ==
  JobExists(fetchJob) /\ SbjExists(sbj) =>
    /\ Terminal(sbj.state) /\ sbj.result
    /\ fetchJob.files \subseteq {"err"}
    /\ ~fetchJob.endpoint =>
         \/ seen \cap {"labelLost", "vkCrash", "vkPanic"} # {}
         \/ vkCall.pc = "label" /\ ~SamePod

(* A final FetchResultStatus is the outcome of the Job that exists, unless a
   Job was deleted by hand or with its SlurmBridgeJob. *)
FetchStatusTrue ==
  isFinishedFetchResult(sbj.fetchStatus) /\ JobExists(fetchJob) /\ ~sbj.deleting =>
    fetchJob.status = sbj.fetchStatus \/ "deleteFetch" \in seen

-----------------------------------------------------------------------------
\* The operator has nothing to report any more.
Closed == ~SbjExists(sbj) \/ sbj.deleting

(* A final phase of the sizecar pod with a readable message reaches the
   SlurmBridgeJob, although write errors are swallowed without a requeue. *)
OutcomeReported ==
  (Terminal(pods["sizecar"].phase) /\ pods["sizecar"].msg.kind = "info" /\ sbj.valid)
    ~> (Finished(sbj) \/ Closed \/ ~PodExists(pods["sizecar"]))

(* The outcome of the fetch Job reaches FetchResultStatus, although no event
   announces it. *)
FetchOutcomeReported ==
  isFinishedFetchResult(fetchJob.status)
    ~> (isFinishedFetchResult(sbj.fetchStatus) \/ Closed \/ ~JobExists(fetchJob))

(* A valid SlurmBridgeJob is submitted to Slurm. *)
Submission ==
  (SbjExists(sbj) /\ sbj.valid)
    ~> ((\E j \in JobIds : jobUid[j] \in Uids) \/ Closed)

(* Deleting a SlurmBridgeJob stops its Slurm jobs, whatever CreatePod, the
   label write and a Reconcile with an old copy were doing at that moment. *)
StoppedWhenDeleted ==
  ~SbjExists(sbj) ~> (\A j \in JobIds : ~LiveJob(j))

(* ReconcileSizeCarPods announces "SlurmBridgeJob status change to failed,
   because pod not found but sub job status not empty": a SlurmBridgeJob that
   is not finished and has lost its sizecar pod does not stay that way, it
   becomes Failed (or what a Reconcile with an older copy made of it). *)
LostPodFails ==
  (SbjExists(sbj) /\ ~Finished(sbj) /\ DOMAIN sbj.subjobs # {} /\ ~PodExists(pods["sizecar"]))
    ~> (Finished(sbj) \/ Closed \/ PodExists(pods["sizecar"]))
=============================================================================
