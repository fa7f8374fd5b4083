--------------------------- MODULE BridgeOperator ---------------------------
(***************************************************************************)
(* The bridge operator (slurm-bridge-operator/slurmbridgejob_controller.go *)
(* with pod.go and result.go): one controller whose work queue runs at     *)
(* most one Reconcile for a SlurmBridgeJob at a time. Reconcile reads the  *)
(* SlurmBridgeJob, the pods and the batch Job from informer caches that    *)
(* lag behind the API server, and writes to the API server. One action per *)
(* stretch of Reconcile that makes at most one API write.                  *)
(***************************************************************************)
EXTENDS KubeState

CONSTANT Resyncs   \* whether the periodic resync of the informers happens

ASSUME OperatorAssumption == Resyncs \in BOOLEAN

VARIABLES
  cSbj, cPods, cFetch,  \* informer caches
  opQueued,             \* the SlurmBridgeJob's key is in the work queue
  opPc,                 \* where the running Reconcile is
  opOld,                \* the SlurmBridgeJob it read; its status is oldStatus
  opSbj,                \* the copy it modifies
  opPod                 \* sjSizeCarPod

opVars == <<cSbj, cPods, cFetch, opQueued, opPc, opOld, opSbj, opPod>>
opLocals == <<opOld, opSbj, opPod>>
caches == <<cSbj, cPods, cFetch>>

OperatorTypeOK ==
  /\ cSbj \in Sbj
  /\ cPods \in [Roles -> Pod]
  /\ cFetch \in FetchJob
  /\ opQueued \in BOOLEAN
  /\ opPc \in {"idle", "sizecar", "worker", "result", "write"}
  /\ opOld \in Sbj /\ opSbj \in Sbj
  /\ opPod \in Pod

OperatorInit ==
  /\ cSbj = NoSbj
  /\ cPods = [role \in Roles |-> NoPod]
  /\ cFetch = NoFetchJob
  /\ opQueued = FALSE
  /\ opPc = "idle"
  /\ opOld = NoSbj /\ opSbj = NoSbj
  /\ opPod = NoPod

\* Reconcile returns; an error puts the key back into the queue.
Return(requeue) ==
  /\ opPc' = "idle"
  /\ opOld' = NoSbj /\ opSbj' = NoSbj
  /\ opPod' = NoPod
  /\ opQueued' = (opQueued \/ requeue)
  /\ UNCHANGED caches

-----------------------------------------------------------------------------
(* Informers. onOwnerCreateFunc writes SUBMITTING into the cached object when
   the SlurmBridgeJob is first seen without a state. *)
onOwnerCreateFunc(s) == IF s.state = "" THEN [s EXCEPT !.state = "SUBMITTING"] ELSE s

ListedSbj == IF SbjExists(sbj) THEN onOwnerCreateFunc(sbj) ELSE sbj

SyncSbj ==
  /\ cSbj.rv # sbj.rv
  /\ cSbj' = IF SbjExists(cSbj) THEN sbj ELSE ListedSbj
  /\ opQueued' = TRUE
  /\ UNCHANGED <<kubeVars, cPods, cFetch, opPc, opLocals>>

SyncPods ==
  /\ cPods # pods
  /\ cPods' = pods
  /\ opQueued' = TRUE
  /\ UNCHANGED <<kubeVars, cSbj, cFetch, opPc, opLocals>>

\* The controller does not watch batch Jobs: no reconcile follows.
SyncFetch ==
  /\ cFetch # fetchJob
  /\ cFetch' = fetchJob
  /\ UNCHANGED <<kubeVars, cSbj, cPods, opQueued, opPc, opLocals>>

\* The periodic resync of the informers queues every object again.
Resync ==
  /\ Resyncs
  /\ SbjExists(cSbj) /\ ~opQueued
  /\ opQueued' = TRUE
  /\ UNCHANGED <<kubeVars, caches, opPc, opLocals>>

\* The process dies and starts again: fresh lists, everything queued.
Restarted ==
  /\ cSbj' = ListedSbj
  /\ cPods' = pods
  /\ cFetch' = fetchJob
  /\ opQueued' = SbjExists(sbj)
  /\ opPc' = "idle"
  /\ opOld' = NoSbj /\ opSbj' = NoSbj
  /\ opPod' = NoPod

OperatorCrash ==
  /\ Fault("opCrash")
  /\ Restarted
  /\ UNCHANGED <<sbj, pods, fetchJob, lastUid>>

-----------------------------------------------------------------------------
\* Despite the name of the source's isSBJFinished, which returns the negation.
Finished(s) == Terminal(s.state)

isFinishedFetchResult(status) == status \in {"Failed", "Succeeded"}

\* Mutation: a fetch that was started counts as finished.
NothingToDo_FetchStarted(s) ==
  \/ ~SbjExists(s)
  \/ s.deleting
  \/ Finished(s) /\ ~s.result
  \/ Finished(s) /\ s.fetch

NothingToDo(s) ==
  \/ ~SbjExists(s)
  \/ s.deleting
  \/ Finished(s) /\ ~s.result
  \/ Finished(s) /\ s.fetch /\ isFinishedFetchResult(s.fetchStatus)

\* Mutation: the result is fetched as soon as sub jobs are known.
BeginReconcile_EarlyFetch ==
  /\ opPc = "idle" /\ opQueued
  /\ SbjExists(cSbj) => cSbj.valid
  /\ opQueued' = FALSE
  /\ IF NothingToDo(cSbj)
     THEN UNCHANGED <<opPc, opLocals>>
     ELSE /\ opPc' = IF DOMAIN cSbj.subjobs # {} THEN "result" ELSE "sizecar"
          /\ opOld' = cSbj /\ opSbj' = cSbj
          /\ UNCHANGED opPod
  /\ UNCHANGED <<kubeVars, caches>>

(* Reconcile up to its branch. A SlurmBridgeJob that fails validation, or
   whose script cannot be translated into a sizecar pod, stays in the queue
   and is never worked on. *)
BeginReconcile ==
  /\ opPc = "idle" /\ opQueued
  /\ SbjExists(cSbj) => cSbj.valid
  /\ opQueued' = FALSE
  /\ IF NothingToDo(cSbj)
     THEN UNCHANGED <<opPc, opLocals>>
     ELSE /\ opPc' = IF Finished(cSbj) THEN "result" ELSE "sizecar"
          /\ opOld' = cSbj /\ opSbj' = cSbj
          /\ UNCHANGED opPod
  /\ UNCHANGED <<kubeVars, caches>>

\* StdOut is filled from StdErr and StdErr from StdOut, as in the source.
SubjobStatus(status) == [state |-> status, stdOut |-> "err", stdErr |-> "out"]

(* UpdateSBJStatus, which fails on a message that is not JSON. *)
UpdateFails(p) == p.msg.kind = "text"

\* Mutation: the state of the first sub job is taken for the pod's phase.
UpdateSBJStatus_SlurmState(s, p) ==
  [s EXCEPT !.state = IF DOMAIN p.msg.info = {} THEN p.phase
                      ELSE CHOOSE status \in Statuses(p.msg.info) : TRUE]

\* Mutation: only sub jobs that were recorded before are recorded.
UpdateSBJStatus_KnownOnly(s, p) ==
  [s EXCEPT !.state = p.phase, !.endpoint = @ \/ p.job # NoJob]

\* Mutation: the state is set once and not followed.
UpdateSBJStatus_FirstState(s, p) ==
  [s EXCEPT !.state = IF @ \in {"", "SUBMITTING"} THEN p.phase ELSE @]

UpdateSBJStatus(s, p) ==
  [s EXCEPT
     !.state = p.phase,
     !.endpoint = @ \/ p.job # NoJob,
     !.subjobs = [k \in DOMAIN s.subjobs \cup DOMAIN p.msg.info |->
                    IF k \in DOMAIN p.msg.info
                    THEN SubjobStatus(p.msg.info[k]) ELSE s.subjobs[k]]]

\* ReconcileSlurmBridgeJob with a sizecar pod in the cache.
FoundSizeCar ==
  /\ opPc = "sizecar"
  /\ PodExists(cPods["sizecar"])
  /\ IF UpdateFails(cPods["sizecar"])
     THEN Return(TRUE)
     ELSE /\ opPod' = cPods["sizecar"]
          /\ opSbj' = UpdateSBJStatus(opSbj, cPods["sizecar"])
          /\ opPc' = "worker"
          /\ UNCHANGED <<opOld, opQueued, caches>>
  /\ UNCHANGED kubeVars

SizeCarMissing == opPc = "sizecar" /\ ~PodExists(cPods["sizecar"])

(* ReconcileSizeCarPods creates the pod unless sub jobs were recorded, and
   the status follows the created pod. *)
CreateSizeCar ==
  /\ SizeCarMissing /\ DOMAIN opSbj.subjobs = {}
  /\ ~PodExists(pods["sizecar"]) /\ lastUid < MaxPods
  /\ pods' = [pods EXCEPT !["sizecar"] = CreatedPod(NoJob, {})]
  /\ lastUid' = lastUid + 1
  /\ opPod' = CreatedPod(NoJob, {})
  /\ opSbj' = UpdateSBJStatus(opSbj, CreatedPod(NoJob, {}))
  /\ opPc' = "worker"
  /\ IF sbj.rv = opOld.rv THEN NoFault ELSE Lose("staleCreate")
  /\ UNCHANGED <<sbj, fetchJob, opOld, opQueued, caches>>

\* The pod exists already, or the request fails.
CreateSizeCarFails ==
  /\ SizeCarMissing /\ DOMAIN opSbj.subjobs = {}
  /\ \/ PodExists(pods["sizecar"]) /\ NoFault
     \/ Fault("apiError")
  /\ Return(TRUE)
  /\ UNCHANGED <<sbj, pods, fetchJob, lastUid>>

(* ReconcileSizeCarPods returns a nil pod, which UpdateSBJStatus dereferences
   before the Failed state it set is written. *)
SizeCarLostPanic ==
  /\ SizeCarMissing /\ DOMAIN opSbj.subjobs # {}
  /\ Restarted
  /\ UNCHANGED <<sbj, pods, fetchJob, lastUid>> /\ Lose("lostWrite")

-----------------------------------------------------------------------------
(* ReconcileWorkerPods: what it finds in the sizecar pod. *)
WorkerMissing == opPc = "worker" /\ ~PodExists(cPods["worker"])
Submitted == opPod.job # NoJob
MayCreateWorker == WorkerMissing /\ Submitted /\ DOMAIN opPod.msg.info # {}

\* The worker exists, or the sizecar pod has no job or no records yet.
NoWorkerNeeded ==
  /\ opPc = "worker"
  /\ WorkerMissing /\ Submitted => opPod.msg.kind = "info" /\ DOMAIN opPod.msg.info = {}
  /\ opPc' = "write"
  /\ UNCHANGED <<kubeVars, opQueued, opLocals, caches>>

CreateWorker ==
  /\ MayCreateWorker
  /\ ~PodExists(pods["worker"]) /\ lastUid < MaxPods
  /\ pods' = [pods EXCEPT !["worker"] = CreatedPod(opPod.job, DOMAIN opPod.msg.info)]
  /\ lastUid' = lastUid + 1
  /\ opPc' = "write"
  /\ UNCHANGED <<sbj, fetchJob, opQueued, opLocals, caches>> /\ NoFault

\* The empty message is not JSON, the pod exists already, or the request fails.
CreateWorkerFails ==
  /\ WorkerMissing /\ Submitted
  /\ \/ opPod.msg.kind = "none" /\ NoFault
     \/ MayCreateWorker /\ PodExists(pods["worker"]) /\ NoFault
     \/ MayCreateWorker /\ Fault("apiError")
  /\ Return(TRUE)
  /\ UNCHANGED <<sbj, pods, fetchJob, lastUid>>

-----------------------------------------------------------------------------
(* ReconcileSlurmBridgeJobResult *)
NewFetchJob(s) ==
  [status |-> "Running", endpoint |-> s.endpoint,
   files |-> {s.subjobs[k].stdOut : k \in DOMAIN s.subjobs}]

ToWrite(s) ==
  /\ opSbj' = s
  /\ opPc' = "write"
  /\ UNCHANGED <<opOld, opPod, opQueued, caches>>

FetchMissing ==
  opPc = "result" /\ DOMAIN opSbj.subjobs # {} /\ ~JobExists(cFetch)

\* No sub jobs, or the Job was created once and is gone.
SkipResult ==
  /\ opPc = "result"
  /\ DOMAIN opSbj.subjobs = {} \/ (~JobExists(cFetch) /\ opSbj.fetch)
  /\ ToWrite(opSbj)
  /\ UNCHANGED kubeVars

CreateFetchJob ==
  /\ FetchMissing /\ ~opSbj.fetch /\ ~JobExists(fetchJob)
  /\ fetchJob' = NewFetchJob(opSbj)
  /\ ToWrite([opSbj EXCEPT !.fetch = TRUE, !.fetchStatus = "Running"])
  /\ UNCHANGED <<sbj, pods, lastUid>> /\ NoFault

CreateFetchJobFails ==
  /\ FetchMissing /\ ~opSbj.fetch
  /\ \/ JobExists(fetchJob) /\ NoFault
     \/ Fault("apiError")
  /\ Return(TRUE)
  /\ UNCHANGED <<sbj, pods, fetchJob, lastUid>>

\* Mutation: a Job that has not succeeded is reported as failed.
ObserveFetchJob_NotSucceeded ==
  /\ opPc = "result" /\ DOMAIN opSbj.subjobs # {} /\ JobExists(cFetch)
  /\ ToWrite([opSbj EXCEPT !.fetchStatus =
               IF cFetch.status = "Succeeded" THEN "Succeeded" ELSE "Failed"])
  /\ UNCHANGED kubeVars

ObserveFetchJob ==
  /\ opPc = "result" /\ DOMAIN opSbj.subjobs # {} /\ JobExists(cFetch)
  /\ ToWrite([opSbj EXCEPT !.fetchStatus = cFetch.status])
  /\ UNCHANGED kubeVars

-----------------------------------------------------------------------------
SameStatus(s, t) ==
  /\ s.state = t.state /\ s.subjobs = t.subjobs /\ s.endpoint = t.endpoint
  /\ s.fetch = t.fetch /\ s.fetchStatus = t.fetchStatus

\* Mutation: the status is written whatever version the object has.
UpdateStatus_NoConflict ==
  /\ opPc = "write"
  /\ SbjExists(sbj)
  /\ sbj' = IF SameStatus(opSbj, sbj) THEN sbj ELSE [opSbj EXCEPT !.rv = sbj.rv + 1]
  /\ Return(FALSE)
  /\ UNCHANGED <<pods, fetchJob, lastUid>> /\ NoFault

(* Status().Update. The comparison that should skip an unchanged status
   compares a value with a pointer and never does. *)
UpdateStatus ==
  /\ opPc = "write"
  /\ sbj.rv = opSbj.rv
  /\ sbj' = IF SameStatus(opSbj, sbj) THEN sbj ELSE [opSbj EXCEPT !.rv = @ + 1]
  /\ Return(FALSE)
  /\ UNCHANGED <<pods, fetchJob, lastUid>> /\ NoFault

(* The object changed since it was cached, or the request fails: the error is
   logged and the reconcile ends as if it had succeeded. *)
UpdateStatusFails ==
  /\ opPc = "write"
  /\ \/ sbj.rv # opSbj.rv /\ Lose("lostWrite")
     \/ FaultWithLoss("apiError", "lostWrite")
  /\ Return(FALSE)
  /\ UNCHANGED <<sbj, pods, fetchJob, lastUid>>

OperatorStep ==
  \/ BeginReconcile
  \/ FoundSizeCar \/ CreateSizeCar \/ CreateSizeCarFails \/ SizeCarLostPanic
  \/ NoWorkerNeeded \/ CreateWorker \/ CreateWorkerFails
  \/ SkipResult \/ CreateFetchJob \/ CreateFetchJobFails \/ ObserveFetchJob
  \/ UpdateStatus \/ UpdateStatusFails

OperatorNext ==
  \/ SyncSbj \/ SyncPods \/ SyncFetch \/ Resync \/ OperatorCrash
  \/ OperatorStep
=============================================================================
