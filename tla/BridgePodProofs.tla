-------------------------- MODULE BridgePodProofs --------------------------
(***************************************************************************)
(* Proofs about the pods, their job id labels and the Slurm jobs they      *)
(* stand for, for any number of pods, jobs, tasks, calls and faults:       *)
(* WorkerSharesJob and OrphanNeedsFault of SlurmBridge.                    *)
(*                                                                         *)
(* Pods are known by their UID, which is never issued twice. A pod is only *)
(* ever labelled with a job submitted for it, so what is copied from a pod *)
(* (to the cache, into the operator's or the kubelet's local variables,    *)
(* into the worker pod) can be compared with the pod that is there later.  *)
(***************************************************************************)
EXTENDS BridgeProofs

-----------------------------------------------------------------------------
(* What a step can do to the pods. *)

(* The pods keep their UIDs, labels and containers. *)
SamePods ==
  /\ UNCHANGED lastUid
  /\ \A role \in Roles : /\ pods'[role].uid = pods[role].uid
                         /\ pods'[role].job = pods[role].job
                         /\ pods'[role].containers = pods[role].containers

Removed(role) ==
  /\ pods' = [pods EXCEPT ![role] = NoPod]
  /\ UNCHANGED lastUid
  /\ DeletePod(role) \/ ForceDeletePod(role)

LEMMA SameFailed ==
  ASSUME TypeOK, UNCHANGED lastUid,
         pods' = [pods EXCEPT !["sizecar"].phase = "Failed", !["sizecar"].msg = TextMsg]
  PROVE  SamePods
  BY DEF TypeOK, KubeTypeOK, Roles, Pod, SamePods

LEMMA SameCreatePodError == ASSUME TypeOK, CreatePodError PROVE SamePods
<1>1. CASE UNCHANGED pods
  BY <1>1 DEF SamePods, CreatePodError
<1> QED
  BY <1>1, SameFailed DEF CreatePodError

LEMMA PodsSteps ==
  ASSUME TypeOK, [Next]_vars
  PROVE  \/ SamePods
         \/ CreateSizeCar \/ CreateWorker \/ addAndUpdateSlurmJobInfo \/ PollOverwritesLabel
         \/ \E role \in Roles : Removed(role)
<1> USE DEF kubeVars
<1>1. ASSUME UNCHANGED <<pods, lastUid>> PROVE SamePods
  BY <1>1 DEF SamePods
<1>2. ASSUME NEW role \in Roles, DeletePodRequest(role) \/ CollectPod(role) PROVE SamePods
  BY <1>2 DEF DeletePodRequest, CollectPod, SamePods, TypeOK, KubeTypeOK, Pod
<1>3. ASSUME NEW role \in Roles, ForceDeletePod(role) PROVE Removed(role)
  BY <1>3 DEF ForceDeletePod, Removed
<1>4. CASE KubeNext
  BY <1>1, <1>2, <1>3, <1>4 DEF KubeNext, DeleteSbjRequest, RemoveSbj, DeleteFetchJob, FinishFetchJob
<1>5. CASE OperatorNext
  BY <1>1, <1>5 DEF OperatorNext, OperatorStep, SyncSbj, SyncPods, SyncFetch, Resync, OperatorCrash,
       BeginReconcile, FoundSizeCar, CreateSizeCarFails, SizeCarLostPanic,
       NoWorkerNeeded, CreateWorkerFails, SkipResult, CreateFetchJob,
       CreateFetchJobFails, ObserveFetchJob, UpdateStatus, UpdateStatusFails
<1>6. CASE VkNext
  <2>1. ASSUME NEW r \in Rpcs, CreatePod(r) \/ SubmitAnswered(r) PROVE UNCHANGED <<pods, lastUid>>
    BY <2>1 DEF CreatePod, SubmitAnswered
  <2>2. ASSUME NEW r \in Rpcs, SubmitError(r) \/ \E j \in JobIds : SubmitUnparsable(r, j)
        PROVE  SamePods
    BY <1>1, <2>2, SameCreatePodError DEF SubmitError, SubmitUnparsable, NobodyWaits
  <2>3. ASSUME NEW role \in Roles, DeletePod(role) PROVE Removed(role)
    BY <2>3 DEF DeletePod, Removed
  <2>4. ASSUME NEW role \in Roles, PollStatus(role) PROVE SamePods
    BY <2>4 DEF PollStatus, Shown, SamePods, TypeOK, KubeTypeOK, Pod
  <2>5. ASSUME NEW role \in Roles, DeletePodError(role) PROVE UNCHANGED <<pods, lastUid>>
    BY <2>5 DEF DeletePodError
  <2>6. ASSUME AgentCrash PROVE SamePods
    BY <1>1, <2>6, SameCreatePodError DEF AgentCrash
  <2>7. ASSUME StatusNotFound PROVE SamePods
    BY <2>7, SameFailed DEF StatusNotFound
  <2>8. ASSUME \/ StoreKnownPod \/ LabelFails \/ UpdatePod \/ PollStarts \/ VkCrash \/ PollPanic
               \/ \E j \in JobIds, t \in Tasks : Purge(j, t)
        PROVE  UNCHANGED <<pods, lastUid>>
    BY <2>8 DEF StoreKnownPod, LabelFails, UpdatePod, PollStarts, VkCrash, PollPanic, VkRestarted, Purge
  <2> QED
    BY <1>1, <1>6, <2>1, <2>2, <2>3, <2>4, <2>5, <2>6, <2>7, <2>8 DEF VkNext
<1> QED
  BY <1>1, <1>4, <1>5, <1>6 DEF Next, vars

(* What a step can do to the running CreatePod. *)
LEMMA CallSteps ==
  ASSUME [Next]_vars
  PROVE  \/ UNCHANGED vkCall
         \/ vkCall' = NoCall
         \/ \E r \in Rpcs : CreatePod(r) \/ (SubmitAnswered(r) /\ WaitsFor(r))
         \/ StoreKnownPod
<1>1. CASE VkNext
  BY <1>1 DEF VkNext, CreatePod, SubmitAnswered, SubmitError, SubmitUnparsable, CreatePodError,
     NobodyWaits, DeletePod, DeletePodError, PollStatus, PollStarts, PollOverwritesLabel, AgentCrash,
     StatusNotFound, addAndUpdateSlurmJobInfo, LabelFails, UpdatePod, VkCrash, PollPanic, VkRestarted, Purge, vkVars
<1> QED
  BY <1>1 DEF Next, vars, vkVars

(* What a step can do to the pods the kubelet remembers. *)
LEMMA KnownPodsSteps ==
  ASSUME [Next]_vars
  PROVE  \/ UNCHANGED knownPods
         \/ StoreKnownPod \/ UpdatePod
         \/ \E role \in Roles : (DeletePod(role) \/ DeletePodError(role)) /\ Forget(pods[role])
         \/ VkRestarted /\ seen' \cap {"vkCrash", "vkPanic"} # {}
<1>1. CASE VkNext
  <2>1. CASE VkCrash \/ PollPanic
    BY <2>1 DEF VkCrash, PollPanic, Fault, Lose
  <2> QED
    BY <1>1, <2>1 DEF VkNext, CreatePod, SubmitAnswered, SubmitError, SubmitUnparsable, CreatePodError,
     NobodyWaits, DeletePod, DeletePodError, PollStatus, PollStarts, PollOverwritesLabel, AgentCrash,
     StatusNotFound, addAndUpdateSlurmJobInfo, LabelFails, Purge, vkVars
<1> QED
  BY <1>1 DEF Next, vars, vkVars

(* A job id stays with the pod it was issued for. *)
LEMMA JobUidStable ==
  ASSUME BridgeTypes, [Next]_vars
  PROVE  \A j \in JobIds : jobUid[j] # NoUid => jobUid'[j] = jobUid[j]
<1>1. CASE UNCHANGED jobUid
  BY <1>1
<1>2. ASSUME NEW j \in JobIds, NEW u, Accept(j, u)
      PROVE  \A k \in JobIds : jobUid[k] # NoUid => jobUid'[k] = jobUid[k]
  BY <1>2 DEF Accept, IsNextId, BridgeTypes, TypeOK, AgentTypeInv, SlurmTypeOK
<1>3. CASE [AgentNext]_avars
  BY <1>1, <1>2, <1>3 DEF AgentNext, SubmitKnown, SubmitUnknown, SBatchError, SubmitStore, OrphanSBatch,
     SBatch, SBatchUnparsable, SubmitJobContainer, CancelJob, SCancel, AgentRestart, SlurmNext,
     SlurmProgress, SlurmStart, SlurmEnd, SlurmPurge, SetTask, avars, slurmVars
<1>4. CASE VkNext
  BY <1>3, <1>4, VkIsAgentStep DEF BridgeTypes, TypeOK
<1> QED
  BY <1>1, <1>4 DEF Next, vars, slurmVars

(* What a step can do to the operator's copies of the pods. *)
LEMMA PodCopySteps ==
  ASSUME [Next]_vars
  PROVE  /\ UNCHANGED cPods \/ (cPods' = pods /\ UNCHANGED pods)
         /\ opPod' \in {opPod, NoPod} \/ FoundSizeCar \/ CreateSizeCar
         /\ FoundSizeCar => opPod' \in {NoPod, cPods["sizecar"]}
<1>1. CASE OperatorNext
  BY <1>1 DEF OperatorNext, OperatorStep, SyncSbj, SyncPods, SyncFetch, Resync, OperatorCrash,
       BeginReconcile, FoundSizeCar, CreateSizeCar, CreateSizeCarFails, SizeCarLostPanic,
       NoWorkerNeeded, CreateWorker, CreateWorkerFails, SkipResult, CreateFetchJob,
       CreateFetchJobFails, ObserveFetchJob, UpdateStatus, UpdateStatusFails, ToWrite, Return,
       Restarted, kubeVars, caches, opLocals
<1>2. CASE UNCHANGED opVars
  BY <1>2 DEF opVars, FoundSizeCar, Return
<1> QED
  BY <1>1, <1>2 DEF Next, vars

(* The UIDs of calls and of new jobs. *)
LEMMA CallUids ==
  ASSUME BridgeTypes, [Next]_vars
  PROVE  /\ \A r \in Rpcs : submits'[r].uid \in {submits[r].uid, NoUid, pods["sizecar"].uid}
         /\ \A j \in JobIds : \/ jobUid'[j] = jobUid[j]
                             \/ \E r \in Rpcs : submits[r].pc # "free" /\ jobUid'[j] = submits[r].uid
<1> DEFINE Goal == /\ \A r \in Rpcs : submits'[r].uid \in {submits[r].uid, NoUid, pods["sizecar"].uid}
                   /\ \A j \in JobIds :
                        \/ jobUid'[j] = jobUid[j]
                        \/ \E r \in Rpcs : submits[r].pc # "free" /\ jobUid'[j] = submits[r].uid
<1> USE DEF BridgeTypes, TypeOK, AgentTypeInv, AgentTypeOK, SlurmTypeOK, Call
<1>1. ASSUME UNCHANGED <<submits, jobUid>> PROVE Goal
  BY <1>1
<1>2. ASSUME NEW r \in Rpcs, CreatePod(r) PROVE Goal
  BY <1>2 DEF CreatePod, SubmitKnown, SubmitUnknown, slurmVars
<1>3. ASSUME NEW r \in Rpcs, SubmitAnswered(r) \/ SubmitError(r) PROVE Goal
  BY <1>3 DEF SubmitAnswered, SubmitStore, SubmitError, SBatchError, FreeCall, slurmVars
<1>4. ASSUME NEW r \in Rpcs, NEW j \in JobIds, SubmitUnparsable(r, j) \/ SBatch(r, j) PROVE Goal
  <2>1. \A q \in Rpcs : submits'[q].uid \in {submits[q].uid, NoUid}
    <3>1. \/ submits' = [submits EXCEPT ![r] = FreeCall]
          \/ submits' = [submits EXCEPT ![r].pc = "store", ![r].job = j]
      BY <1>4 DEF SubmitUnparsable, SBatchUnparsable, SBatch
    <3> QED
      BY <3>1 DEF FreeCall
  <2>2. submits[r].pc # "free" /\ jobUid' = [jobUid EXCEPT ![j] = submits[r].uid]
    BY <1>4 DEF SubmitUnparsable, SBatchUnparsable, SBatch, Accept
  <2>3. \A k \in JobIds : jobUid'[k] = jobUid[k] \/ jobUid'[k] = submits[r].uid
    BY <2>2
  <2> QED
    BY <2>1, <2>2, <2>3
<1>5. ASSUME NEW r \in Rpcs, OrphanSBatch(r) PROVE Goal
  BY <1>5 DEF OrphanSBatch, Accept, FreeCall, slurmVars
<1>6. ASSUME AgentCrash PROVE Goal
  BY <1>6 DEF AgentCrash, AgentRestart, FreeCall, slurmVars
<1>7. ASSUME NEW role \in Roles, DeletePod(role) \/ DeletePodError(role) \/ PollStatus(role)
      PROVE  UNCHANGED <<submits, jobUid>>
  BY <1>7 DEF DeletePod, DeletePodError, PollStatus, CancelJob, SCancel, agentVars, slurmVars
<1>8. ASSUME \/ StoreKnownPod \/ addAndUpdateSlurmJobInfo \/ LabelFails \/ UpdatePod
             \/ PollStarts \/ PollOverwritesLabel \/ VkCrash \/ PollPanic \/ StatusNotFound
             \/ \E j \in JobIds, t \in Tasks : Purge(j, t)
             \/ SlurmProgress /\ UNCHANGED agentVars
      PROVE  UNCHANGED <<submits, jobUid>>
  BY <1>8 DEF StoreKnownPod, addAndUpdateSlurmJobInfo, LabelFails, UpdatePod, PollStarts,
     PollOverwritesLabel, VkCrash, PollPanic, VkRestarted, StatusNotFound, Purge, SlurmProgress, SlurmStart, SlurmEnd, SlurmPurge, SetTask,
     agentVars, slurmVars
<1>9. ASSUME VkNext PROVE Goal
  BY <1>1, <1>2, <1>3, <1>4, <1>5, <1>6, <1>7, <1>8, <1>9 DEF VkNext
<1> QED
  BY <1>1, <1>9 DEF Next, vars, agentVars, slurmVars

-----------------------------------------------------------------------------
(* When Reconcile moves on, nobody else does. *)
LEMMA OperatorFrame ==
  ASSUME [Next]_vars, opPc' # opPc
  PROVE  OperatorNext /\ UNCHANGED <<vkVars, agentVars, slurmVars>>
  BY DEF Next, vars, opVars

LEMMA CreateWorkerFrame ==
  ASSUME [Next]_vars, CreateWorker, TypeOK
  PROVE  /\ vkCall' = vkCall /\ jobUid' = jobUid /\ records' = records
         /\ pods'["sizecar"] = pods["sizecar"] /\ seen' = seen
<1>1. pods'["sizecar"] = pods["sizecar"] /\ seen' = seen
  BY DEF CreateWorker, NoFault, TypeOK, KubeTypeOK, Roles
<1>2. opPc' # opPc
  BY DEF CreateWorker, MayCreateWorker, WorkerMissing
<1> QED
  BY <1>1, <1>2, OperatorFrame DEF vkVars, slurmVars

(* UIDs in use were issued: a new pod is told from every pod before it. *)
UidsIssued ==
  /\ \A role \in Roles : pods[role].uid <= lastUid /\ cPods[role].uid <= lastUid
  /\ opPod.uid <= lastUid /\ vkCall.pod.uid <= lastUid
  /\ \A r \in Rpcs : submits[r].uid <= lastUid
  /\ \A j \in JobIds : jobUid[j] <= lastUid
  /\ \A u \in Uids : u > lastUid => knownPods[u] = NoJob

LEMMA OverwrittenSizecar ==
  ASSUME TypeOK, PollOverwritesLabel
  PROVE  /\ pods'["sizecar"].uid = pods["sizecar"].uid /\ pods'["sizecar"].job = NoJob
         /\ pods'["worker"] = pods["worker"]
<1> "sizecar" \in Roles /\ "worker" \in Roles /\ "sizecar" # "worker" /\ pods \in [Roles -> Pod]
  BY DEF Roles, TypeOK, KubeTypeOK
<1> QED
  BY DEF PollOverwritesLabel, Shown, Pod

LEMMA LastUidGrows ==
  ASSUME TypeOK, [Next]_vars
  PROVE  lastUid \in Nat /\ lastUid' \in Nat /\ lastUid <= lastUid'
<1>1. lastUid \in Nat
  BY SlurmAssumption DEF TypeOK, KubeTypeOK
<1>2. lastUid' \in {lastUid, lastUid + 1}
  BY PodsSteps DEF SamePods, CreateSizeCar, CreateWorker, addAndUpdateSlurmJobInfo, PollOverwritesLabel,
     Removed
<1> QED
  BY <1>1, <1>2

LEMMA CreatedUid == \A j, C : CreatedPod(j, C).uid = lastUid + 1
  BY DEF CreatedPod, NoPod

LEMMA CreatedFields ==
  ASSUME NEW j, NEW C
  PROVE  /\ CreatedPod(j, C).job = j /\ CreatedPod(j, C).containers = C
         /\ CreatedPod(j, C).msg = NoMsg
  BY DEF CreatedPod, NoPod

LEMMA CreatedPhase ==
  ASSUME NEW j, NEW C
  PROVE  CreatedPod(j, C).phase = "Pending" /\ ~CreatedPod(j, C).deleting
  BY DEF CreatedPod, NoPod

LEMMA NoPodFields == NoPod.uid = NoUid /\ NoPod.job = NoJob /\ NoPod.msg = NoMsg
                     /\ NoPod.containers = {} /\ NoPod.phase = "Unknown" /\ ~PodExists(NoPod)
  BY DEF NoPod, PodExists

(* The UID of a pod stays, goes or is new. *)
LEMMA PodUids ==
  ASSUME TypeOK, [Next]_vars, NEW role \in Roles
  PROVE  pods'[role].uid \in {pods[role].uid, NoUid, lastUid'}
<1>1. CASE SamePods
  BY <1>1 DEF SamePods
<1>2. CASE CreateSizeCar \/ CreateWorker
  <2>1. lastUid' = lastUid + 1
    BY <1>2 DEF CreateSizeCar, CreateWorker
  <2>2. pods'[role].uid \in {pods[role].uid, lastUid + 1}
    <3>1. CASE CreateSizeCar
      <4>1. pods' = [pods EXCEPT !["sizecar"] = CreatedPod(NoJob, {})]
        BY <3>1 DEF CreateSizeCar
      <4> QED
        BY <4>1, CreatedUid DEF TypeOK, KubeTypeOK
    <3>2. CASE CreateWorker
      <4>1. pods' = [pods EXCEPT !["worker"] = CreatedPod(opPod.job, DOMAIN opPod.msg.info)]
        BY <3>2 DEF CreateWorker
      <4> QED
        BY <4>1, CreatedUid DEF TypeOK, KubeTypeOK
    <3> QED
      BY <1>2, <3>1, <3>2
  <2> QED
    BY <2>1, <2>2
<1>3. CASE addAndUpdateSlurmJobInfo
  BY <1>3 DEF addAndUpdateSlurmJobInfo, TypeOK, KubeTypeOK, Pod, Roles
<1>4. ASSUME NEW other \in Roles, Removed(other)
      PROVE  pods'[role].uid \in {pods[role].uid, NoUid, lastUid'}
  BY <1>4, NoPodFields DEF Removed, TypeOK, KubeTypeOK
<1>5. CASE PollOverwritesLabel
  BY <1>5, OverwrittenSizecar DEF Roles
<1> QED
  BY <1>1, <1>2, <1>3, <1>4, <1>5, PodsSteps

LEMMA UidsIssuedInit == Init => UidsIssued
<1> SUFFICES ASSUME Init PROVE UidsIssued
  OBVIOUS
<1>1. lastUid = 0
  BY DEF Init, KubeInit
<1>2. /\ \A role \in Roles : pods[role].uid = 0 /\ cPods[role].uid = 0
      /\ opPod.uid = 0 /\ vkCall.pod.uid = 0
  BY NoPodFields DEF Init, KubeInit, OperatorInit, VkInit, NoCall, NoUid
<1>3. /\ \A r \in Rpcs : submits[r].uid = 0
      /\ \A j \in JobIds : jobUid[j] = 0
  BY DEF Init, AgentInit, SlurmInit, FreeCall, NoUid
<1>4. \A u \in Uids : knownPods[u] = NoJob
  BY DEF Init, VkInit
<1> QED
  BY <1>1, <1>2, <1>3, <1>4 DEF UidsIssued

LEMMA UidsIssuedStep == BridgeTypes /\ UidsIssued /\ [Next]_vars => UidsIssued'
<1> SUFFICES ASSUME BridgeTypes, UidsIssued, [Next]_vars PROVE UidsIssued'
  OBVIOUS
<1>0. TypeOK /\ lastUid \in Nat /\ lastUid' \in Nat /\ lastUid <= lastUid'
  BY LastUidGrows DEF BridgeTypes
<1>t. \A p \in Pod : p.uid \in Nat
  BY SlurmAssumption DEF Pod, Uids, NoUid
<1>a. ASSUME NEW n \in Nat, n <= lastUid PROVE n <= lastUid'
  BY <1>0, <1>a
<1>b. NoUid \in Nat /\ NoUid <= lastUid /\ NoUid <= lastUid'
  BY <1>0 DEF NoUid
<1>1. \A role \in Roles : pods'[role].uid <= lastUid'
  <2> TAKE role \in Roles
  <2>1. pods[role].uid \in Nat /\ pods[role].uid <= lastUid
    BY <1>0, <1>t DEF UidsIssued, TypeOK, KubeTypeOK
  <2>2. pods'[role].uid \in {pods[role].uid, NoUid, lastUid'}
    BY <1>0, PodUids
  <2> QED
    BY <1>0, <1>a, <1>b, <2>1, <2>2
<1>2. \A role \in Roles : cPods'[role].uid <= lastUid'
  <2> TAKE role \in Roles
  <2>1. /\ pods[role].uid \in Nat /\ pods[role].uid <= lastUid
        /\ cPods[role].uid \in Nat /\ cPods[role].uid <= lastUid
    BY <1>0, <1>t DEF UidsIssued, TypeOK, KubeTypeOK, OperatorTypeOK
  <2>2. cPods'[role].uid \in {cPods[role].uid, pods[role].uid}
    BY PodCopySteps
  <2> QED
    BY <1>a, <2>1, <2>2
<1>3. opPod'.uid <= lastUid'
  <2>1. /\ opPod.uid \in Nat /\ opPod.uid <= lastUid
        /\ cPods["sizecar"].uid \in Nat /\ cPods["sizecar"].uid <= lastUid
    BY <1>0, <1>t DEF UidsIssued, TypeOK, OperatorTypeOK, Roles
  <2>2. CASE CreateSizeCar
    <3>1. opPod'.uid = lastUid'
      <4>1. opPod' = CreatedPod(NoJob, {}) /\ lastUid' = lastUid + 1
        BY <2>2 DEF CreateSizeCar
      <4> QED
        BY <4>1, CreatedUid
    <3> QED
      BY <1>0, <3>1
  <2>3. CASE ~CreateSizeCar
    <3>1. opPod'.uid \in {opPod.uid, NoUid, cPods["sizecar"].uid}
      BY <2>3, PodCopySteps, NoPodFields
    <3> QED
      BY <1>a, <1>b, <2>1, <3>1
  <2> QED
    BY <2>2, <2>3
<1>4. vkCall'.pod.uid <= lastUid'
  <2>1. /\ vkCall.pod.uid \in Nat /\ vkCall.pod.uid <= lastUid
        /\ pods["sizecar"].uid \in Nat /\ pods["sizecar"].uid <= lastUid
    BY <1>0, <1>t DEF UidsIssued, TypeOK, KubeTypeOK, VkTypeOK, Roles
  <2>2. vkCall'.pod.uid \in {vkCall.pod.uid, NoUid, pods["sizecar"].uid}
    <3>1. ASSUME vkCall' = NoCall PROVE vkCall'.pod.uid = NoUid
      BY <3>1, NoPodFields DEF NoCall
    <3>2. ASSUME NEW r \in Rpcs, CreatePod(r) PROVE vkCall'.pod = pods["sizecar"]
      BY <3>2 DEF CreatePod
    <3>3. ASSUME NEW r \in Rpcs, SubmitAnswered(r) PROVE vkCall'.pod = vkCall.pod
      BY <1>0, <3>3 DEF SubmitAnswered, TypeOK, VkTypeOK
    <3>4. ASSUME StoreKnownPod PROVE vkCall'.pod = vkCall.pod
      BY <1>0, <3>4 DEF StoreKnownPod, TypeOK, VkTypeOK
    <3> QED
      BY <3>1, <3>2, <3>3, <3>4, CallSteps
  <2> QED
    BY <1>a, <1>b, <2>1, <2>2
<1>5. \A r \in Rpcs : submits'[r].uid <= lastUid'
  <2> TAKE r \in Rpcs
  <2>1. /\ submits[r].uid \in Nat /\ submits[r].uid <= lastUid
        /\ pods["sizecar"].uid \in Nat /\ pods["sizecar"].uid <= lastUid
    BY <1>0, <1>t, SlurmAssumption DEF UidsIssued, TypeOK, KubeTypeOK, AgentTypeInv, AgentTypeOK, Call, Roles,
       Uids, NoUid
  <2>2. submits'[r].uid \in {submits[r].uid, NoUid, pods["sizecar"].uid}
    BY CallUids
  <2> QED
    BY <1>a, <1>b, <2>1, <2>2
<1>6. \A j \in JobIds : jobUid'[j] <= lastUid'
  <2> TAKE j \in JobIds
  <2>1. jobUid[j] \in Nat /\ jobUid[j] <= lastUid
    BY <1>0, SlurmAssumption DEF UidsIssued, TypeOK, AgentTypeInv, SlurmTypeOK, Uids, NoUid, ContainerUid
  <2>2. \A r \in Rpcs : submits[r].uid \in Nat /\ submits[r].uid <= lastUid
    BY <1>0, SlurmAssumption DEF UidsIssued, TypeOK, AgentTypeInv, AgentTypeOK, Call, Uids, NoUid
  <2> QED
    BY <1>a, <2>1, <2>2, CallUids
<1>7. ASSUME NEW u \in Uids, u > lastUid' PROVE knownPods'[u] = NoJob
  <2>1. u \in Nat /\ u > lastUid
    BY <1>0, <1>7, SlurmAssumption DEF Uids
  <2>2. knownPods[u] = NoJob
    BY <2>1 DEF UidsIssued
  <2>3. u # vkCall.pod.uid /\ u # pods["sizecar"].uid
    <3>1. /\ vkCall.pod.uid \in Nat /\ vkCall.pod.uid <= lastUid
          /\ pods["sizecar"].uid \in Nat /\ pods["sizecar"].uid <= lastUid
      BY <1>0, <1>t DEF UidsIssued, TypeOK, KubeTypeOK, VkTypeOK, Roles
    <3> QED
      BY <1>0, <2>1, <3>1
  <2>4. knownPods \in [Uids -> JobIds \cup {NoJob}]
    BY <1>0 DEF TypeOK, VkTypeOK
  <2> QED
    BY <2>2, <2>3, <2>4, KnownPodsSteps DEF StoreKnownPod, UpdatePod, Forget, VkRestarted
<1> QED
  BY <1>1, <1>2, <1>3, <1>4, <1>5, <1>6, <1>7 DEF UidsIssued

(* What a step can do to the identity of the sizecar pod ... *)
LEMMA SizecarSteps ==
  ASSUME TypeOK, [Next]_vars
  PROVE  \/ pods'["sizecar"].uid = pods["sizecar"].uid /\ pods'["sizecar"].job = pods["sizecar"].job
         \/ CreateSizeCar /\ pods'["sizecar"] = CreatedPod(NoJob, {})
         \/ /\ addAndUpdateSlurmJobInfo
            /\ pods'["sizecar"].uid = pods["sizecar"].uid /\ pods'["sizecar"].job = vkCall.job
         \/ /\ PollOverwritesLabel
            /\ pods'["sizecar"].uid = pods["sizecar"].uid /\ pods'["sizecar"].job = NoJob
         \/ Removed("sizecar") /\ pods'["sizecar"] = NoPod
<1> "sizecar" \in Roles /\ "worker" \in Roles /\ "sizecar" # "worker" /\ pods \in [Roles -> Pod]
  BY DEF Roles, TypeOK, KubeTypeOK
<1>1. ASSUME CreateSizeCar PROVE pods'["sizecar"] = CreatedPod(NoJob, {})
  BY <1>1 DEF CreateSizeCar
<1>2. ASSUME CreateWorker PROVE pods'["sizecar"] = pods["sizecar"]
  BY <1>2 DEF CreateWorker
<1>3. ASSUME addAndUpdateSlurmJobInfo
      PROVE  pods'["sizecar"].uid = pods["sizecar"].uid /\ pods'["sizecar"].job = vkCall.job
  BY <1>3 DEF addAndUpdateSlurmJobInfo, Pod
<1>4. ASSUME Removed("worker") PROVE pods'["sizecar"] = pods["sizecar"]
  BY <1>4 DEF Removed
<1>5. ASSUME Removed("sizecar") PROVE pods'["sizecar"] = NoPod
  BY <1>5 DEF Removed
<1> QED
  BY <1>1, <1>2, <1>3, <1>4, <1>5, OverwrittenSizecar, PodsSteps DEF SamePods, Roles

(* ... and of the worker pod. *)
LEMMA WorkerSteps ==
  ASSUME TypeOK, [Next]_vars
  PROVE  \/ /\ pods'["worker"].uid = pods["worker"].uid /\ pods'["worker"].job = pods["worker"].job
            /\ pods'["worker"].containers = pods["worker"].containers
         \/ CreateWorker /\ pods'["worker"] = CreatedPod(opPod.job, DOMAIN opPod.msg.info)
         \/ pods'["worker"] = NoPod
<1> "sizecar" \in Roles /\ "worker" \in Roles /\ "sizecar" # "worker" /\ pods \in [Roles -> Pod]
  BY DEF Roles, TypeOK, KubeTypeOK
<1>1. ASSUME CreateSizeCar PROVE pods'["worker"] = pods["worker"]
  BY <1>1 DEF CreateSizeCar
<1>2. ASSUME CreateWorker PROVE pods'["worker"] = CreatedPod(opPod.job, DOMAIN opPod.msg.info)
  BY <1>2 DEF CreateWorker
<1>3. ASSUME addAndUpdateSlurmJobInfo PROVE pods'["worker"] = pods["worker"]
  BY <1>3 DEF addAndUpdateSlurmJobInfo
<1>4. ASSUME Removed("worker") PROVE pods'["worker"] = NoPod
  BY <1>4 DEF Removed
<1>5. ASSUME Removed("sizecar") PROVE pods'["worker"] = pods["worker"]
  BY <1>5 DEF Removed
<1> QED
  BY <1>1, <1>2, <1>3, <1>4, <1>5, OverwrittenSizecar, PodsSteps DEF SamePods, Roles

(* The pod CreatePod was called with stays the one it started from. *)
LEMMA CallPodSteps ==
  ASSUME TypeOK, [Next]_vars
  PROVE  \/ vkCall'.pod = vkCall.pod
         \/ vkCall' = NoCall
         \/ \E r \in Rpcs : CreatePod(r) /\ vkCall'.pod = pods["sizecar"]
<1>2. ASSUME NEW r \in Rpcs, CreatePod(r) PROVE vkCall'.pod = pods["sizecar"]
  BY <1>2 DEF CreatePod
<1>3. ASSUME NEW r \in Rpcs, SubmitAnswered(r) PROVE vkCall'.pod = vkCall.pod
  BY <1>3 DEF SubmitAnswered, TypeOK, VkTypeOK
<1>4. ASSUME StoreKnownPod PROVE vkCall'.pod = vkCall.pod
  BY <1>4 DEF StoreKnownPod, TypeOK, VkTypeOK
<1> QED
  BY <1>2, <1>3, <1>4, CallSteps

-----------------------------------------------------------------------------
(* Labels. A pod is labelled with a job that was submitted for it, whichever
   copy of the pod is looked at; so is what CreatePod is about to remember and
   to write. The worker carries the label of a sizecar pod. *)
WorkerApart ==
  PodExists(pods["worker"]) =>
    pods["sizecar"].uid # pods["worker"].uid /\ vkCall.pod.uid # pods["worker"].uid

OwnLabel(p) == p.job # NoJob => PodExists(p) /\ jobUid[p.job] = p.uid

LabelsOwn ==
  /\ OwnLabel(pods["sizecar"]) /\ OwnLabel(cPods["sizecar"]) /\ OwnLabel(opPod)
  /\ \A u \in Uids : knownPods[u] # NoJob => jobUid[knownPods[u]] = u
  /\ PodExists(pods["worker"]) =>
       pods["worker"].job \in JobIds /\ jobUid[pods["worker"].job] \in Uids

CallOwn ==
  /\ vkCall.pc # "idle" => PodExists(vkCall.pod) /\ vkCall.pod.job = NoJob
  /\ vkCall.pc = "submit" =>
       \A r \in Rpcs : WaitsFor(r) => /\ submits[r].uid = vkCall.pod.uid
                                      /\ submits[r].pc \in {"sbatch", "store"}
  /\ vkCall.pc \in {"store", "label"} =>
       vkCall.job \in JobIds /\ jobUid[vkCall.job] = vkCall.pod.uid

LabelInv == UidsIssued /\ WorkerApart /\ LabelsOwn /\ CallOwn

LEMMA LabelInit == Init => LabelInv
<1> SUFFICES ASSUME Init PROVE LabelInv
  OBVIOUS
<1>1. /\ pods["worker"] = NoPod /\ pods["sizecar"] = NoPod /\ cPods["sizecar"] = NoPod
      /\ opPod = NoPod /\ vkCall = NoCall /\ \A u \in Uids : knownPods[u] = NoJob
  BY DEF Init, KubeInit, OperatorInit, VkInit, Roles
<1>2. vkCall.pc = "idle"
  BY <1>1 DEF NoCall
<1> QED
  BY <1>1, <1>2, UidsIssuedInit, NoPodFields DEF LabelInv, WorkerApart, LabelsOwn, OwnLabel, CallOwn

LEMMA WorkerApartStep ==
  ASSUME BridgeTypes, LabelInv, [Next]_vars
  PROVE  WorkerApart'
<1> TypeOK /\ UidsIssued /\ WorkerApart
  BY DEF BridgeTypes, LabelInv
<1>0. /\ lastUid \in Nat /\ pods["sizecar"].uid <= lastUid /\ vkCall.pod.uid <= lastUid
      /\ pods["worker"].uid <= lastUid
      /\ pods["sizecar"].uid \in Nat /\ pods["worker"].uid \in Nat /\ vkCall.pod.uid \in Nat
  BY SlurmAssumption DEF UidsIssued, TypeOK, KubeTypeOK, VkTypeOK, Pod, Uids, NoUid, Roles
<1>1. CASE pods'["worker"] = NoPod
  BY <1>1, NoPodFields DEF WorkerApart, PodExists
<1>2. CASE CreateWorker /\ pods'["worker"] = CreatedPod(opPod.job, DOMAIN opPod.msg.info)
  <2>1. pods'["sizecar"] = pods["sizecar"] /\ vkCall' = vkCall
    BY <1>2, CreateWorkerFrame
  <2>2. pods'["worker"].uid = lastUid + 1
    BY <1>2, CreatedUid
  <2> QED
    BY <1>0, <2>1, <2>2 DEF WorkerApart
<1>3. CASE pods'["worker"].uid = pods["worker"].uid
  <2> SUFFICES ASSUME PodExists(pods["worker"])
               PROVE  pods'["sizecar"].uid # pods["worker"].uid /\ vkCall'.pod.uid # pods["worker"].uid
    BY <1>3 DEF WorkerApart, PodExists
  <2>1. pods'["sizecar"].uid # pods["worker"].uid
    <3>1. CASE pods'["sizecar"].uid = pods["sizecar"].uid
      BY <3>1 DEF WorkerApart
    <3>2. CASE pods'["sizecar"] = CreatedPod(NoJob, {})
      BY <1>0, <3>2, CreatedUid
    <3>3. CASE pods'["sizecar"] = NoPod
      BY <3>3, NoPodFields DEF PodExists
    <3> QED
      BY <3>1, <3>2, <3>3, SizecarSteps
  <2>2. vkCall'.pod.uid # pods["worker"].uid
    <3>1. CASE vkCall' = NoCall
      BY <3>1, NoPodFields DEF NoCall, PodExists
    <3> QED
      BY <3>1, CallPodSteps DEF WorkerApart
  <2> QED
    BY <2>1, <2>2
<1> QED
  BY <1>1, <1>2, <1>3, WorkerSteps

(* A label stays right: jobs do not change owner. *)
LEMMA OwnLabelStays ==
  ASSUME BridgeTypes, [Next]_vars, NEW p \in Pod, OwnLabel(p), p.job # NoJob
  PROVE  PodExists(p) /\ jobUid'[p.job] = p.uid
<1>1. p.job \in JobIds
  BY DEF Pod
<1> QED
  BY <1>1, JobUidStable DEF OwnLabel, PodExists

LEMMA LabelsOwnStep ==
  ASSUME BridgeTypes, LabelInv, [Next]_vars
  PROVE  LabelsOwn'
<1> TypeOK /\ LabelsOwn /\ CallOwn
  BY DEF BridgeTypes, LabelInv
<1>p. pods["sizecar"] \in Pod /\ cPods["sizecar"] \in Pod /\ opPod \in Pod
  BY DEF TypeOK, KubeTypeOK, OperatorTypeOK, Roles
<1>1. OwnLabel(pods["sizecar"])'
  <2>1. CASE pods'["sizecar"].uid = pods["sizecar"].uid /\ pods'["sizecar"].job = pods["sizecar"].job
    BY <1>p, <2>1, OwnLabelStays DEF LabelsOwn, OwnLabel, PodExists
  <2>2. CASE pods'["sizecar"] = CreatedPod(NoJob, {})
    BY <2>2, CreatedFields DEF OwnLabel
  <2>3. CASE /\ addAndUpdateSlurmJobInfo
             /\ pods'["sizecar"].uid = pods["sizecar"].uid /\ pods'["sizecar"].job = vkCall.job
    <3>1. /\ vkCall.pod.uid = pods["sizecar"].uid /\ PodExists(vkCall.pod)
          /\ vkCall.job \in JobIds /\ jobUid[vkCall.job] = vkCall.pod.uid
      BY <2>3 DEF addAndUpdateSlurmJobInfo, SamePod, CallOwn
    <3>2. jobUid'[vkCall.job] = jobUid[vkCall.job]
      BY <3>1, JobUidStable DEF PodExists
    <3> QED
      BY <2>3, <3>1, <3>2 DEF OwnLabel, PodExists
  <2>4. CASE pods'["sizecar"] = NoPod \/ pods'["sizecar"].job = NoJob
    BY <2>4, NoPodFields DEF OwnLabel
  <2> QED
    BY <2>1, <2>2, <2>3, <2>4, SizecarSteps
<1>2. OwnLabel(cPods["sizecar"])'
  <2>1. cPods'["sizecar"] \in {cPods["sizecar"], pods["sizecar"]}
    BY PodCopySteps
  <2> QED
    BY <1>p, <2>1, OwnLabelStays DEF LabelsOwn, OwnLabel, PodExists
<1>3. OwnLabel(opPod)'
  <2>1. CASE CreateSizeCar
    <3>1. opPod' = CreatedPod(NoJob, {})
      BY <2>1 DEF CreateSizeCar
    <3> QED
      BY <3>1, CreatedFields DEF OwnLabel
  <2>2. CASE opPod' = NoPod
    BY <2>2, NoPodFields DEF OwnLabel
  <2>3. CASE opPod' \in {opPod, cPods["sizecar"]}
    BY <1>p, <2>3, OwnLabelStays DEF LabelsOwn, OwnLabel, PodExists
  <2> QED
    BY <2>1, <2>2, <2>3, PodCopySteps
<1>4. \A u \in Uids : knownPods'[u] # NoJob => jobUid'[knownPods'[u]] = u
  <2>1. knownPods \in [Uids -> JobIds \cup {NoJob}]
    BY DEF TypeOK, VkTypeOK
  <2>2. ASSUME NEW u \in Uids, knownPods'[u] = knownPods[u], knownPods[u] # NoJob
        PROVE  jobUid'[knownPods'[u]] = u
    BY <2>1, <2>2, JobUidStable DEF LabelsOwn, Uids, NoUid
  <2>3. CASE StoreKnownPod
    <3>1. knownPods' = [knownPods EXCEPT ![vkCall.pod.uid] = vkCall.job]
      BY <2>3 DEF StoreKnownPod
    <3>2. /\ vkCall.job \in JobIds /\ jobUid[vkCall.job] = vkCall.pod.uid /\ vkCall.pod.uid # NoUid
      BY <2>3 DEF StoreKnownPod, CallOwn, PodExists
    <3>3. jobUid'[vkCall.job] = vkCall.pod.uid
      BY <3>2, JobUidStable
    <3> QED
      BY <2>1, <2>2, <3>1, <3>3
  <2>4. CASE UpdatePod
    <3>1. knownPods' = [knownPods EXCEPT ![pods["sizecar"].uid] = pods["sizecar"].job]
      BY <2>4 DEF UpdatePod
    <3>2. jobUid'[pods["sizecar"].job] = pods["sizecar"].uid
      BY <1>p, <2>4, OwnLabelStays DEF UpdatePod, LabelsOwn
    <3> QED
      BY <2>1, <2>2, <3>1, <3>2
  <2>5. CASE \E role \in Roles : Forget(pods[role])
    BY <2>1, <2>2, <2>5 DEF Forget
  <2>6. CASE VkRestarted
    BY <2>6 DEF VkRestarted
  <2> QED
    BY <2>2, <2>3, <2>4, <2>5, <2>6, KnownPodsSteps
<1>5. PodExists(pods["worker"])' =>
        pods'["worker"].job \in JobIds /\ jobUid'[pods'["worker"].job] \in Uids
  <2>1. CASE pods'["worker"].uid = pods["worker"].uid /\ pods'["worker"].job = pods["worker"].job
    BY <2>1, JobUidStable DEF LabelsOwn, PodExists, Uids, NoUid
  <2>2. CASE CreateWorker /\ pods'["worker"] = CreatedPod(opPod.job, DOMAIN opPod.msg.info)
    <3>1. pods'["worker"].job = opPod.job /\ opPod.job # NoJob
      BY <2>2, CreatedFields DEF CreateWorker, MayCreateWorker, Submitted
    <3>2. jobUid'[opPod.job] = opPod.uid /\ PodExists(opPod)
      BY <1>p, <3>1, OwnLabelStays DEF LabelsOwn
    <3> QED
      BY <1>p, <3>1, <3>2 DEF Pod, PodExists
  <2>3. CASE pods'["worker"] = NoPod
    BY <2>3, NoPodFields DEF PodExists
  <2> QED
    BY <2>1, <2>2, <2>3, WorkerSteps
<1> QED
  BY <1>1, <1>2, <1>3, <1>4, <1>5 DEF LabelsOwn

(* While CreatePod waits, the call it waits for keeps its UID. *)
LEMMA WaitedCallStays ==
  ASSUME BridgeTypes, [Next]_vars, UNCHANGED vkCall,
         NEW r \in Rpcs, WaitsFor(r), submits[r].pc \in {"sbatch", "store"}
  PROVE  submits'[r].uid = submits[r].uid /\ submits'[r].pc \in {"sbatch", "store"}
<1> DEFINE Goal == submits'[r].uid = submits[r].uid /\ submits'[r].pc \in {"sbatch", "store"}
<1>w. vkCall.pc = "submit" /\ vkCall'.pc = "submit" /\ vkCall' # NoCall
  BY DEF WaitsFor, NoCall
<1>t. submits \in [Rpcs -> Call]
  BY DEF BridgeTypes, TypeOK, AgentTypeInv, AgentTypeOK
<1>1. ASSUME UNCHANGED submits PROVE Goal
  BY <1>1
<1>2. ASSUME NEW s \in Rpcs, NEW c, s # r, submits' = [submits EXCEPT ![s] = c] PROVE Goal
  BY <1>t, <1>2
<1>3. ASSUME NEW s \in Rpcs, CreatePod(s) PROVE Goal
  BY <1>w, <1>3 DEF CreatePod, Creatable
<1>4. ASSUME NEW s \in Rpcs, SubmitAnswered(s) PROVE Goal
  <2>1. submits' = [submits EXCEPT ![s] = FreeCall] /\ (WaitsFor(s) => vkCall'.pc = "store")
    BY <1>4 DEF SubmitAnswered, SubmitStore, BridgeTypes, TypeOK, VkTypeOK
  <2> QED
    BY <1>w, <1>2, <2>1
<1>5. ASSUME NEW s \in Rpcs, SubmitError(s) \/ \E j \in JobIds : SubmitUnparsable(s, j) PROVE Goal
  <2>1. submits' = [submits EXCEPT ![s] = FreeCall] /\ (WaitsFor(s) => vkCall' = NoCall)
    BY <1>5 DEF SubmitError, SubmitUnparsable, SBatchError, SBatchUnparsable, CreatePodError, NobodyWaits
  <2> QED
    BY <1>w, <1>2, <2>1
<1>6. ASSUME NEW s \in Rpcs, NEW j \in JobIds, SBatch(s, j) PROVE Goal
  <2>1. submits' = [submits EXCEPT ![s].pc = "store", ![s].job = j]
    BY <1>6 DEF SBatch
  <2> QED
    BY <1>t, <2>1 DEF Call
<1>7. ASSUME NEW s \in Rpcs, OrphanSBatch(s) PROVE Goal
  <2>1. submits' = [submits EXCEPT ![s] = FreeCall] /\ s # r
    BY <1>7 DEF OrphanSBatch
  <2> QED
    BY <1>2, <2>1
<1>8. ASSUME AgentCrash PROVE Goal
  BY <1>w, <1>8 DEF AgentCrash, CreatePodError
<1>9. ASSUME NEW role \in Roles, DeletePod(role) \/ DeletePodError(role) \/ PollStatus(role)
      PROVE  UNCHANGED submits
  BY <1>9 DEF DeletePod, DeletePodError, PollStatus, CancelJob, agentVars
<1>10. ASSUME \/ StoreKnownPod \/ addAndUpdateSlurmJobInfo \/ LabelFails \/ UpdatePod
              \/ PollStarts \/ PollOverwritesLabel \/ VkCrash \/ PollPanic \/ StatusNotFound
              \/ \E j \in JobIds, t \in Tasks : Purge(j, t)
       PROVE  UNCHANGED submits
  BY <1>10 DEF StoreKnownPod, addAndUpdateSlurmJobInfo, LabelFails, UpdatePod, PollStarts,
     PollOverwritesLabel, VkCrash, PollPanic, VkRestarted, StatusNotFound, Purge, agentVars
<1>11. ASSUME VkNext PROVE Goal
  BY <1>1, <1>3, <1>4, <1>5, <1>6, <1>7, <1>8, <1>9, <1>10, <1>11 DEF VkNext, agentVars
<1> QED
  BY <1>1, <1>11 DEF Next, vars, agentVars

LEMMA CallOwnStep ==
  ASSUME BridgeTypes, LabelInv, [Next]_vars
  PROVE  CallOwn'
<1> TypeOK /\ LabelsOwn /\ CallOwn
  BY DEF BridgeTypes, LabelInv
<1>1. CASE vkCall' = NoCall
  BY <1>1 DEF CallOwn, NoCall
<1>2. CASE UNCHANGED vkCall
  <2>1. vkCall.pc \in {"store", "label"} => jobUid'[vkCall.job] = vkCall.pod.uid
    BY JobUidStable DEF CallOwn, PodExists
  <2>2. ASSUME NEW r \in Rpcs, WaitsFor(r)
        PROVE  submits'[r].uid = vkCall.pod.uid /\ submits'[r].pc \in {"sbatch", "store"}
    <3>1. submits[r].uid = vkCall.pod.uid /\ submits[r].pc \in {"sbatch", "store"}
      BY <2>2 DEF CallOwn, WaitsFor
    <3> QED
      BY <1>2, <2>2, <3>1, WaitedCallStays
  <2> QED
    BY <1>2, <2>1, <2>2 DEF CallOwn, WaitsFor
<1>3. ASSUME NEW r \in Rpcs, CreatePod(r) PROVE CallOwn'
  <2>1. PodExists(pods["sizecar"]) /\ pods["sizecar"].job = NoJob /\ pods["sizecar"].uid \in Uids
    BY <1>3 DEF CreatePod, Creatable, needReconcile, PodExists, TypeOK, KubeTypeOK, Roles, Pod
  <2>2. CASE /\ SubmitKnown(r, pods["sizecar"].uid)
             /\ vkCall' = [pc |-> "store", rpc |-> r, pod |-> pods["sizecar"],
                           job |-> knownJobs[pods["sizecar"].uid]]
    <3>1. /\ knownJobs[pods["sizecar"].uid] \in JobIds
          /\ jobUid[knownJobs[pods["sizecar"].uid]] = pods["sizecar"].uid
      BY <2>1, <2>2 DEF SubmitKnown, TypeOK, AgentTypeInv, AgentTypeOK, BridgeTypes, AgentInv, KnownOwnJobs
    <3>2. jobUid' = jobUid
      BY <2>2 DEF SubmitKnown, slurmVars
    <3> QED
      BY <2>1, <2>2, <3>1, <3>2 DEF CallOwn
  <2>3. CASE /\ SubmitUnknown(r, pods["sizecar"].uid)
             /\ vkCall' = [pc |-> "submit", rpc |-> r, pod |-> pods["sizecar"], job |-> NoJob]
    <3>1. submits'[r] = [pc |-> "sbatch", uid |-> pods["sizecar"].uid, job |-> NoJob]
      BY <2>3 DEF SubmitUnknown, TypeOK, AgentTypeInv, AgentTypeOK
    <3> QED
      BY <2>1, <2>3, <3>1 DEF CallOwn, WaitsFor
  <2> QED
    BY <1>3, <2>2, <2>3 DEF CreatePod
<1>4. ASSUME NEW r \in Rpcs, SubmitAnswered(r), WaitsFor(r) PROVE CallOwn'
  <2>1. /\ vkCall' = [vkCall EXCEPT !.pc = "store", !.job = submits[r].job]
        /\ submits[r].pc = "store" /\ jobUid' = jobUid
    BY <1>4 DEF SubmitAnswered, SubmitStore, slurmVars
  <2>2. /\ submits[r].job \in JobIds /\ jobUid[submits[r].job] = submits[r].uid
        /\ submits[r].uid = vkCall.pod.uid /\ PodExists(vkCall.pod) /\ vkCall.pod.job = NoJob
    BY <1>4, <2>1 DEF BridgeTypes, AgentInv, CallsOwnJobs, CallOwn, WaitsFor
  <2>3. vkCall'.pc = "store" /\ vkCall'.pod = vkCall.pod /\ vkCall'.job = submits[r].job
    BY <2>1 DEF TypeOK, VkTypeOK
  <2> QED
    BY <2>1, <2>2, <2>3 DEF CallOwn
<1>5. CASE StoreKnownPod
  <2>1. /\ vkCall'.pc = "label" /\ vkCall'.pod = vkCall.pod /\ vkCall'.job = vkCall.job
        /\ jobUid' = jobUid /\ vkCall.pc = "store"
    BY <1>5 DEF StoreKnownPod, slurmVars, TypeOK, VkTypeOK
  <2> QED
    BY <2>1 DEF CallOwn
<1> QED
  BY <1>1, <1>2, <1>3, <1>4, <1>5, CallSteps

(* Pods have UIDs of their own, sizecar pods and their copies carry no job
   but their own as label or in knownPods, and CreatePod stores and labels the
   job SubmitJob answered for its pod. *)
THEOREM LabelsHold == Spec => []LabelInv
<1>1. BridgeTypes /\ LabelInv /\ [Next]_vars => LabelInv'
  BY UidsIssuedStep, WorkerApartStep, LabelsOwnStep, CallOwnStep DEF LabelInv
<1> QED
  BY <1>1, LabelInit, BridgeTypesHold, PTL DEF Spec

-----------------------------------------------------------------------------
(* The worker pod and the sizecar pod. A copy of the sizecar pod that the
   operator works from is a copy of the pod that is there, if one is: the
   operator creates a sizecar pod only when its cache shows none. *)
AgreesWithPod(p) ==
  PodExists(p) /\ PodExists(pods["sizecar"]) =>
    /\ p.uid = pods["sizecar"].uid
    /\ p.job # NoJob /\ "labelOverwritten" \notin seen => pods["sizecar"].job = p.job

CopiesAgree ==
  /\ AgreesWithPod(cPods["sizecar"])
  /\ opPc = "worker" => AgreesWithPod(opPod)

(* Reconcile adds sub jobs and removes none. *)
SubjobsGrow ==
  /\ opPc # "idle" => DOMAIN opOld.subjobs \subseteq DOMAIN opSbj.subjobs
  /\ opPc = "worker" => DOMAIN opPod.msg.info \subseteq DOMAIN opSbj.subjobs

NoLoss == seen \cap {"lostWrite", "opCrash", "staleCreate", "labelOverwritten"} = {}

(* With a worker the sub jobs are recorded, or about to be: no further
   sizecar pod is created. *)
WorkerInv ==
  NoLoss /\ PodExists(pods["worker"]) =>
    /\ SbjExists(sbj) => \/ DOMAIN sbj.subjobs # {}
                         \/ opPc = "write" /\ DOMAIN opSbj.subjobs # {}
    /\ PodExists(pods["sizecar"]) => pods["sizecar"].job = pods["worker"].job

SharedInv == CopiesAgree /\ SubjobsGrow /\ WorkerInv

LEMMA SharedInit == Init => SharedInv
<1> SUFFICES ASSUME Init PROVE SharedInv
  OBVIOUS
<1>1. pods["worker"] = NoPod /\ cPods["sizecar"] = NoPod /\ opPc = "idle"
  BY DEF Init, KubeInit, OperatorInit, Roles
<1> QED
  BY <1>1, NoPodFields DEF SharedInv, CopiesAgree, AgreesWithPod, SubjobsGrow, WorkerInv

(* What a step can do to where Reconcile is. *)
LEMMA OpPcSteps ==
  ASSUME [Next]_vars
  PROVE  \/ UNCHANGED <<opPc, opOld, opSbj, opPod>>
         \/ opPc' = "idle" /\ opOld' = NoSbj /\ opSbj' = NoSbj /\ opPod' = NoPod
         \/ BeginReconcile \/ FoundSizeCar \/ CreateSizeCar \/ CreateWorker \/ NoWorkerNeeded
         \/ SkipResult \/ CreateFetchJob \/ ObserveFetchJob
<1>1. CASE OperatorNext
  BY <1>1 DEF OperatorNext, OperatorStep, SyncSbj, SyncPods, SyncFetch, Resync, OperatorCrash,
       CreateSizeCarFails, SizeCarLostPanic, CreateWorkerFails, CreateFetchJobFails,
       UpdateStatus, UpdateStatusFails, Return, Restarted, opLocals
<1> QED
  BY <1>1 DEF Next, vars, opVars

LEMMA AgreesStays ==
  ASSUME BridgeTypes, LabelInv, [Next]_vars, ~CreateSizeCar, NEW p \in Pod, AgreesWithPod(p)
  PROVE  PodExists(p) /\ PodExists(pods'["sizecar"]) =>
           /\ p.uid = pods'["sizecar"].uid
           /\ p.job # NoJob /\ "labelOverwritten" \notin seen' => pods'["sizecar"].job = p.job
<1> TypeOK /\ CallOwn
  BY DEF BridgeTypes, LabelInv
<1>0. seen \subseteq seen'
  BY SeenGrows
<1>1. CASE pods'["sizecar"] = NoPod
  BY <1>1, NoPodFields
<1>2. CASE addAndUpdateSlurmJobInfo /\ pods'["sizecar"].uid = pods["sizecar"].uid
  <2>1. pods["sizecar"].job = NoJob
    BY <1>2 DEF addAndUpdateSlurmJobInfo, SamePod, CallOwn
  <2> QED
    BY <1>0, <1>2, <2>1 DEF AgreesWithPod, PodExists
<1>3. CASE pods'["sizecar"].uid = pods["sizecar"].uid /\ pods'["sizecar"].job = pods["sizecar"].job
  BY <1>0, <1>3 DEF AgreesWithPod, PodExists
<1>4. CASE PollOverwritesLabel /\ pods'["sizecar"].uid = pods["sizecar"].uid
  BY <1>4 DEF AgreesWithPod, PodExists, PollOverwritesLabel
<1> QED
  BY <1>1, <1>2, <1>3, <1>4, SizecarSteps

LEMMA CopiesAgreeStep ==
  ASSUME BridgeTypes, LabelInv, SharedInv, [Next]_vars
  PROVE  CopiesAgree'
<1> TypeOK /\ CopiesAgree
  BY DEF BridgeTypes, SharedInv
<1>p. pods["sizecar"] \in Pod /\ cPods["sizecar"] \in Pod /\ opPod \in Pod
  BY DEF TypeOK, KubeTypeOK, OperatorTypeOK, Roles
<1>1. CASE CreateSizeCar
  <2>1. ~PodExists(cPods["sizecar"]) /\ cPods' = cPods
    BY <1>1 DEF CreateSizeCar, SizeCarMissing, caches
  <2>2. opPod' = pods'["sizecar"]
    BY <1>1 DEF CreateSizeCar, TypeOK, KubeTypeOK, Roles
  <2> QED
    BY <2>1, <2>2 DEF CopiesAgree, AgreesWithPod
<1>2. CASE ~CreateSizeCar
  <2>1. AgreesWithPod(cPods["sizecar"])'
    <3>1. CASE UNCHANGED cPods
      BY <1>2, <1>p, <3>1, AgreesStays DEF CopiesAgree, AgreesWithPod, PodExists
    <3>2. CASE cPods' = pods /\ UNCHANGED pods
      BY <3>2, SeenGrows DEF AgreesWithPod
    <3> QED
      BY <3>1, <3>2, PodCopySteps
  <2>2. opPc' = "worker" => AgreesWithPod(opPod)'
    <3>1. CASE UNCHANGED <<opPc, opPod>>
      BY <1>2, <1>p, <3>1, AgreesStays DEF CopiesAgree, AgreesWithPod, PodExists
    <3>2. CASE FoundSizeCar
      <4>1. opPod' = cPods["sizecar"] \/ opPod' = NoPod
        BY <3>2, PodCopySteps
      <4>2. CASE opPod' = NoPod
        BY <4>2, NoPodFields DEF AgreesWithPod
      <4>3. CASE opPod' = cPods["sizecar"]
        BY <1>2, <1>p, <4>3, AgreesStays DEF CopiesAgree, AgreesWithPod, PodExists
      <4> QED
        BY <4>1, <4>2, <4>3
    <3>3. CASE BeginReconcile
      BY <3>1, <3>3 DEF BeginReconcile, opLocals
    <3> QED
      BY <1>2, <3>1, <3>2, <3>3, OpPcSteps DEF NoWorkerNeeded, CreateWorker, SkipResult, CreateFetchJob,
         ObserveFetchJob, ToWrite
  <2> QED
    BY <2>1, <2>2 DEF CopiesAgree
<1> QED
  BY <1>1, <1>2

LEMMA UpdateSubjobs ==
  ASSUME NEW s \in Sbj, NEW p
  PROVE  /\ DOMAIN UpdateSBJStatus(s, p).subjobs = DOMAIN s.subjobs \cup DOMAIN p.msg.info
         /\ \A k \in DOMAIN s.subjobs \cup DOMAIN p.msg.info :
              UpdateSBJStatus(s, p).subjobs[k] = IF k \in DOMAIN p.msg.info
                                                 THEN SubjobStatus(p.msg.info[k]) ELSE s.subjobs[k]
<1>1. UpdateSBJStatus(s, p).subjobs = [k \in DOMAIN s.subjobs \cup DOMAIN p.msg.info |->
                    IF k \in DOMAIN p.msg.info
                    THEN SubjobStatus(p.msg.info[k]) ELSE s.subjobs[k]]
  BY DEF UpdateSBJStatus, Sbj
<1> QED
  BY <1>1

LEMMA EmptyDomain == DOMAIN Empty = {} /\ NoMsg.info = Empty /\ NoMsg.kind = "none"
  BY DEF Empty, NoMsg

(* How Reconcile gets from its copy opSbj to the next one. *)
LEMMA OpSbjSteps ==
  ASSUME TypeOK, [Next]_vars
  PROVE  \/ UNCHANGED <<opPc, opOld, opSbj, opPod>>
         \/ opPc' = "idle" /\ opOld' = NoSbj /\ opSbj' = NoSbj /\ opPod' = NoPod
         \/ /\ BeginReconcile /\ opOld' = cSbj /\ opSbj' = cSbj /\ opPod' = opPod
            /\ ~NothingToDo(cSbj) /\ opPc' \in {"sizecar", "result"}
         \/ /\ FoundSizeCar /\ opPc' = "worker" /\ opOld' = opOld /\ opPod' = cPods["sizecar"]
            /\ opPc = "sizecar" /\ cPods["sizecar"].msg.kind # "text"
            /\ opSbj' = UpdateSBJStatus(opSbj, cPods["sizecar"])
         \/ /\ CreateSizeCar /\ opPc' = "worker" /\ opOld' = opOld /\ opPod' = CreatedPod(NoJob, {})
            /\ opPc = "sizecar"
            /\ opSbj' = UpdateSBJStatus(opSbj, CreatedPod(NoJob, {}))
         \/ /\ opPc \in {"worker", "result"} /\ opPc' = "write"
            /\ opOld' = opOld /\ opPod' = opPod /\ opSbj'.subjobs = opSbj.subjobs
            /\ opSbj'.state = opSbj.state /\ opSbj'.endpoint = opSbj.endpoint
<1>1. CASE BeginReconcile
  BY <1>1 DEF BeginReconcile, opLocals
<1>2. CASE FoundSizeCar
  BY <1>2 DEF FoundSizeCar, Return, UpdateFails
<1>3. CASE CreateSizeCar
  BY <1>3 DEF CreateSizeCar, SizeCarMissing
<1>4. CASE CreateWorker \/ NoWorkerNeeded
  BY <1>4 DEF CreateWorker, NoWorkerNeeded, MayCreateWorker, WorkerMissing, opLocals
<1>5. CASE SkipResult \/ CreateFetchJob \/ ObserveFetchJob
  BY <1>5 DEF SkipResult, CreateFetchJob, FetchMissing, ObserveFetchJob, ToWrite,
     TypeOK, OperatorTypeOK, Sbj
<1> QED
  BY <1>1, <1>2, <1>3, <1>4, <1>5, OpPcSteps

LEMMA SubjobsGrowStep ==
  ASSUME TypeOK, SubjobsGrow, [Next]_vars
  PROVE  SubjobsGrow'
<1>1. CASE UNCHANGED <<opPc, opOld, opSbj, opPod>>
  BY <1>1 DEF SubjobsGrow
<1>2. CASE opPc' = "idle"
  BY <1>2 DEF SubjobsGrow
<1>3. CASE opOld' = cSbj /\ opSbj' = cSbj /\ opPc' \in {"sizecar", "result"}
  BY <1>3 DEF SubjobsGrow
<1>4. ASSUME NEW p, opPc = "sizecar", opOld' = opOld, opPod' = p, opSbj' = UpdateSBJStatus(opSbj, p)
      PROVE  SubjobsGrow'
  <2>1. opSbj \in Sbj /\ DOMAIN opOld.subjobs \subseteq DOMAIN opSbj.subjobs
    BY <1>4 DEF TypeOK, OperatorTypeOK, SubjobsGrow
  <2> QED
    BY <1>4, <2>1, UpdateSubjobs DEF SubjobsGrow
<1>5. CASE /\ opPc \in {"worker", "result"} /\ opPc' = "write"
           /\ opOld' = opOld /\ opSbj'.subjobs = opSbj.subjobs
  BY <1>5 DEF SubjobsGrow
<1> QED
  BY <1>1, <1>2, <1>3, <1>4, <1>5, OpSbjSteps

(* A status computed without loss is written. *)
LEMMA WriteNotLost ==
  ASSUME [Next]_vars, opPc = "write", NoLoss'
  PROVE  UNCHANGED <<opPc, opSbj>> \/ UpdateStatus
<1>1. CASE OperatorNext
  BY <1>1 DEF OperatorNext, OperatorStep, SyncSbj, SyncPods, SyncFetch, Resync, OperatorCrash, Fault,
       BeginReconcile, FoundSizeCar, CreateSizeCar, CreateSizeCarFails, SizeCarLostPanic,
       SizeCarMissing, NoWorkerNeeded, CreateWorker, CreateWorkerFails, WorkerMissing, MayCreateWorker,
       SkipResult, CreateFetchJob, CreateFetchJobFails, ObserveFetchJob, FetchMissing,
       UpdateStatusFails, Lose, FaultWithLoss, NoLoss, opLocals
<1> QED
  BY <1>1 DEF Next, vars, opVars

(* What is written is what was computed. *)
LEMMA WrittenStatus ==
  ASSUME TypeOK, UpdateStatus
  PROVE  /\ sbj'.subjobs = opSbj.subjobs /\ sbj'.state = opSbj.state /\ sbj'.endpoint = opSbj.endpoint
         /\ sbj.rv = opSbj.rv
  BY DEF UpdateStatus, SameStatus, TypeOK, OperatorTypeOK, Sbj

(* The copy Reconcile started from has the sub jobs of the object, when it is
   of the object's version. *)
LEMMA SameVersionSubjobs ==
  ASSUME TypeOK, VersionInv, opPc # "idle", sbj.rv = opOld.rv
  PROVE  SbjExists(sbj) /\ opOld.subjobs = sbj.subjobs
<1>1. SbjExists(opOld) /\ SbjExists(sbj)
  BY DEF VersionInv, WorkInProgress, SbjExists
<1>2. opOld \in {sbj, onOwnerCreateFunc(sbj)}
  BY <1>1 DEF VersionInv, CopyOf
<1>3. onOwnerCreateFunc(sbj).subjobs = sbj.subjobs
  BY DEF onOwnerCreateFunc, TypeOK, KubeTypeOK, Sbj
<1> QED
  BY <1>1, <1>2, <1>3

LEMMA WorkerInvStep ==
  ASSUME BridgeTypes, VersionInv, LabelInv, SharedInv, [Next]_vars
  PROVE  WorkerInv'
<1> TypeOK /\ CopiesAgree /\ SubjobsGrow /\ WorkerInv /\ LabelsOwn /\ CallOwn
  BY DEF BridgeTypes, SharedInv, LabelInv
<1> SUFFICES ASSUME NoLoss', PodExists(pods'["worker"])
             PROVE  /\ SbjExists(sbj') => \/ DOMAIN sbj'.subjobs # {}
                                          \/ opPc' = "write" /\ DOMAIN opSbj'.subjobs # {}
                    /\ PodExists(pods'["sizecar"]) => pods'["sizecar"].job = pods'["worker"].job
  BY DEF WorkerInv
<1>0. NoLoss
  BY SeenGrows DEF NoLoss
<1>1. CASE CreateWorker
  <2>1. /\ opPc = "worker" /\ opPod.job # NoJob /\ DOMAIN opPod.msg.info # {}
        /\ opPc' = "write" /\ opSbj' = opSbj
    BY <1>1 DEF CreateWorker, MayCreateWorker, WorkerMissing, Submitted, opLocals
  <2>2. DOMAIN opSbj'.subjobs # {}
    BY <2>1 DEF SubjobsGrow
  <2>3. pods'["sizecar"] = pods["sizecar"] /\ pods'["worker"].job = opPod.job
    <3>1. pods'["worker"] = CreatedPod(opPod.job, DOMAIN opPod.msg.info)
      BY <1>1 DEF CreateWorker, TypeOK, KubeTypeOK, Roles
    <3> QED
      BY <1>1, <3>1, CreateWorkerFrame, CreatedFields
  <2>4. PodExists(pods["sizecar"]) => pods["sizecar"].job = opPod.job
    BY <1>0, <2>1 DEF CopiesAgree, AgreesWithPod, LabelsOwn, OwnLabel, NoLoss
  <2> QED
    BY <2>1, <2>2, <2>3, <2>4
<1>2. CASE ~CreateWorker
  <2>1. PodExists(pods["worker"]) /\ pods'["worker"].job = pods["worker"].job
    BY <1>2, WorkerSteps, NoPodFields DEF PodExists
  <2>2. /\ SbjExists(sbj) => \/ DOMAIN sbj.subjobs # {}
                             \/ opPc = "write" /\ DOMAIN opSbj.subjobs # {}
        /\ PodExists(pods["sizecar"]) => pods["sizecar"].job = pods["worker"].job
        /\ pods["worker"].job # NoJob
    BY <1>0, <2>1 DEF WorkerInv, LabelsOwn, JobIds, NoJob
  <2>3. SbjExists(sbj') => \/ DOMAIN sbj'.subjobs # {}
                           \/ opPc' = "write" /\ DOMAIN opSbj'.subjobs # {}
    <3>1. CASE UpdateStatus
      <4>1. opPc = "write" /\ sbj'.subjobs = opSbj.subjobs /\ sbj.rv = opOld.rv
        BY <3>1, WrittenStatus DEF UpdateStatus, VersionInv, WorkInProgress
      <4>2. SbjExists(sbj) /\ DOMAIN sbj.subjobs \subseteq DOMAIN opSbj.subjobs
        BY <4>1, SameVersionSubjobs DEF SubjobsGrow
      <4> QED
        BY <2>2, <4>1, <4>2
    <3>2. CASE RemoveSbj
      BY <3>2 DEF RemoveSbj, NoSbj, SbjWithoutStatus, SbjExists
    <3>3. CASE ~UpdateStatus /\ (UNCHANGED sbj \/ DeleteSbjRequest)
      <4>1. sbj'.subjobs = sbj.subjobs
        BY <3>3 DEF DeleteSbjRequest, TypeOK, KubeTypeOK, Sbj
      <4>2. SbjExists(sbj') => SbjExists(sbj)
        BY <3>3 DEF DeleteSbjRequest
      <4> QED
        BY <2>2, <3>3, <4>1, <4>2, WriteNotLost
    <3> QED
      BY <3>1, <3>2, <3>3, SbjSteps
  <2>4. PodExists(pods'["sizecar"]) => pods'["sizecar"].job = pods["worker"].job
    <3>1. CASE pods'["sizecar"].uid = pods["sizecar"].uid /\ pods'["sizecar"].job = pods["sizecar"].job
      BY <2>2, <3>1 DEF PodExists
    <3>2. ~CreateSizeCar
      <4> SUFFICES ASSUME CreateSizeCar PROVE FALSE
        OBVIOUS
      <4>1. opPc = "sizecar" /\ DOMAIN opSbj.subjobs = {}
        BY DEF CreateSizeCar, SizeCarMissing
      <4>2. sbj.rv = opOld.rv
        BY DEF CreateSizeCar, Lose, NoLoss
      <4> QED
        BY <2>2, <4>1, <4>2, SameVersionSubjobs DEF SubjobsGrow
    <3>3. ~addAndUpdateSlurmJobInfo
      BY <2>2 DEF addAndUpdateSlurmJobInfo, SamePod, CallOwn
    <3>4. CASE pods'["sizecar"] = NoPod
      BY <3>4, NoPodFields
    <3>5. ~PollOverwritesLabel
      BY DEF PollOverwritesLabel, NoLoss
    <3> QED
      BY <3>1, <3>2, <3>3, <3>4, <3>5, SizecarSteps
  <2> QED
    BY <2>1, <2>3, <2>4
<1> QED
  BY <1>1, <1>2

(* The worker pod stands for the job of the sizecar pod, unless a status of
   the operator was lost or a sizecar pod was created from an outdated copy. *)
THEOREM WorkerHasSizecarsJob == Spec => []WorkerSharesJob
<1>1. BridgeTypes /\ VersionInv /\ LabelInv /\ SharedInv /\ [Next]_vars => SharedInv'
  BY CopiesAgreeStep, SubjobsGrowStep, WorkerInvStep DEF SharedInv, BridgeTypes
<1>2. Spec => []SharedInv
  BY <1>1, SharedInit, BridgeTypesHold, CopiesAreVersions, LabelsHold, PTL DEF Spec
<1>3. LabelInv /\ SharedInv => WorkerSharesJob
  BY DEF LabelInv, LabelsOwn, SharedInv, WorkerInv, NoLoss, WorkerSharesJob
<1> QED
  BY <1>2, <1>3, LabelsHold, PTL

-----------------------------------------------------------------------------
(* Running Slurm jobs. While no fault that excuses it was met, somebody knows
   the id of every running job: the agent's call that is about to answer it,
   the kubelet's CreatePod, or the sizecar pod through its label or through
   what the kubelet remembers of it. *)
KubeletCrashes == {"vkCrash", "vkPanic"}
LabelCauses == {"labelLost"} \cup KubeletCrashes

CallHasPod ==
  "forceDelete" \notin seen /\ vkCall.pc # "idle" => pods["sizecar"].uid = vkCall.pod.uid

CallUnlabelled ==
  vkCall.pc # "idle" /\ pods["sizecar"].uid = vkCall.pod.uid => pods["sizecar"].job = NoJob

CallKnown == vkCall.pc = "label" => knownPods[vkCall.pod.uid] = vkCall.job

(* A pod whose job the kubelet remembers has the label, unless the label is
   still to be written or was lost. *)
UnlabelledCause ==
  /\ PodExists(pods["sizecar"]) /\ pods["sizecar"].job = NoJob
  /\ knownPods[pods["sizecar"].uid] # NoJob
  => seen \cap LabelCauses # {} \/ vkCall.pc = "label"

(* A poll that has a copy of the sizecar pod without the label found the job
   in what the kubelet remembers. *)
PollKnown ==
  /\ vkPoll <= lastUid
  /\ vkPoll # NoUid /\ vkPoll = pods["sizecar"].uid =>
       knownPods[vkPoll] # NoJob \/ "cancelError" \in seen

CallInv == CallHasPod /\ CallUnlabelled /\ CallKnown /\ UnlabelledCause /\ PollKnown

LEMMA CallInit == Init => CallInv
<1> SUFFICES ASSUME Init PROVE CallInv
  OBVIOUS
<1>1. pods["sizecar"] = NoPod /\ vkCall.pc = "idle" /\ vkPoll = NoUid /\ lastUid = 0
  BY DEF Init, KubeInit, VkInit, NoCall, Roles
<1> QED
  BY <1>1, NoPodFields DEF CallInv, CallHasPod, CallUnlabelled, CallKnown, UnlabelledCause, PollKnown, NoUid

(* How a CreatePod that has its job id ends. *)
LEMMA CallEnds ==
  ASSUME TypeOK, [Next]_vars, vkCall' = NoCall, vkCall.pc \in {"store", "label"}
  PROVE  \/ vkCall.pc = "label" /\ (addAndUpdateSlurmJobInfo \/ LabelFails)
         \/ seen' \cap KubeletCrashes # {}
<1>1. vkCall' # vkCall /\ vkCall'.pc = "idle"
  BY DEF NoCall
<1>2. CASE VkNext
  <2>1. CASE VkCrash \/ PollPanic
    BY <2>1 DEF VkCrash, PollPanic, Fault, Lose, KubeletCrashes
  <2>2. ~\E r \in Rpcs : CreatePod(r)
    BY DEF CreatePod, Creatable
  <2>3. ~\E r \in Rpcs : SubmitAnswered(r) \/ SubmitError(r) \/ \E j \in JobIds : SubmitUnparsable(r, j)
    BY <1>1 DEF SubmitAnswered, SubmitError, SubmitUnparsable, WaitsFor, NobodyWaits, vkVars
  <2>4. ~\E role \in Roles : DeletePod(role) \/ DeletePodError(role) \/ PollStatus(role)
    BY <1>1 DEF DeletePod, DeletePodError, PollStatus, vkVars
  <2>5. /\ ~AgentCrash /\ ~StatusNotFound /\ ~UpdatePod /\ ~PollStarts /\ ~PollOverwritesLabel
        /\ ~\E j \in JobIds, t \in Tasks : Purge(j, t)
    BY <1>1 DEF AgentCrash, StatusNotFound, UpdatePod, PollStarts, PollOverwritesLabel, Purge, vkVars
  <2>6. ~StoreKnownPod
    <3> SUFFICES ASSUME StoreKnownPod PROVE FALSE
      OBVIOUS
    <3>1. vkCall'.pc = "label"
      BY DEF StoreKnownPod, TypeOK, VkTypeOK
    <3> QED
      BY <1>1, <3>1
  <2>7. addAndUpdateSlurmJobInfo \/ LabelFails => vkCall.pc = "label"
    BY DEF addAndUpdateSlurmJobInfo, LabelFails
  <2> QED
    BY <1>1, <1>2, <2>1, <2>2, <2>3, <2>4, <2>5, <2>6, <2>7 DEF VkNext, vkVars
<1> QED
  BY <1>1, <1>2 DEF Next, vars, vkVars

(* Deleting the worker does not touch what is remembered of the sizecar. *)
LEMMA ForgetWorker ==
  ASSUME TypeOK, WorkerApart, Forget(pods["worker"]),
         NEW u \in Uids, u = pods["sizecar"].uid \/ u = vkCall.pod.uid
  PROVE  knownPods'[u] = knownPods[u]
<1>1. u # pods["worker"].uid
  BY DEF WorkerApart, PodExists, Uids, NoUid
<1> QED
  BY <1>1 DEF Forget, TypeOK, VkTypeOK

(* A new sizecar pod is one the kubelet has not heard of. *)
LEMMA CreateSizeCarFrame ==
  ASSUME TypeOK, UidsIssued, [Next]_vars, CreateSizeCar
  PROVE  /\ UNCHANGED <<vkVars, agentVars, slurmVars>>
         /\ pods'["sizecar"] = CreatedPod(NoJob, {}) /\ pods'["sizecar"].uid # vkCall.pod.uid
         /\ knownPods'[pods'["sizecar"].uid] = NoJob
         /\ ~PodExists(pods["sizecar"]) /\ ~PodExists(cPods["sizecar"])
<1>1. opPc' # opPc
  BY DEF CreateSizeCar, SizeCarMissing
<1>2. UNCHANGED <<vkVars, agentVars, slurmVars>>
  BY <1>1, OperatorFrame
<1>3. /\ pods' = [pods EXCEPT !["sizecar"] = CreatedPod(NoJob, {})] /\ lastUid < MaxPods
      /\ ~PodExists(pods["sizecar"]) /\ ~PodExists(cPods["sizecar"])
  BY DEF CreateSizeCar, SizeCarMissing
<1>4. pods'["sizecar"] = CreatedPod(NoJob, {})
  BY <1>3 DEF TypeOK, KubeTypeOK, Roles
<1>5. pods'["sizecar"].uid = lastUid + 1
  BY <1>4, CreatedUid
<1>6. lastUid \in Nat /\ lastUid + 1 \in Uids
  BY <1>3, SlurmAssumption DEF TypeOK, KubeTypeOK, Uids
<1>7. vkCall.pod.uid \in Nat /\ vkCall.pod.uid <= lastUid
  BY SlurmAssumption DEF UidsIssued, TypeOK, VkTypeOK, Pod, Uids, NoUid
<1>8. knownPods[lastUid + 1] = NoJob
  BY <1>6 DEF UidsIssued
<1>9. lastUid + 1 # vkCall.pod.uid
  BY <1>6, <1>7
<1> QED
  BY <1>2, <1>3, <1>4, <1>5, <1>8, <1>9 DEF vkVars

LEMMA CallPodIssued ==
  ASSUME TypeOK, CallOwn, vkCall.pc # "idle"
  PROVE  vkCall.pod.uid \in Uids /\ PodExists(vkCall.pod)
  BY DEF TypeOK, VkTypeOK, Pod, CallOwn, PodExists

LEMMA CallHasPodStep ==
  ASSUME BridgeTypes, LabelInv, CallInv, [Next]_vars
  PROVE  CallHasPod'
<1> TypeOK /\ UidsIssued /\ CallOwn /\ CallHasPod
  BY DEF BridgeTypes, LabelInv, CallInv
<1> SUFFICES ASSUME "forceDelete" \notin seen', vkCall'.pc # "idle"
             PROVE  pods'["sizecar"].uid = vkCall'.pod.uid
  BY DEF CallHasPod
<1>0. "forceDelete" \notin seen
  BY SeenGrows
<1>1. ASSUME NEW r \in Rpcs, CreatePod(r) PROVE pods'["sizecar"].uid = vkCall'.pod.uid
  BY <1>1 DEF CreatePod, kubeVars
<1>2. ASSUME ~\E r \in Rpcs : CreatePod(r) PROVE pods'["sizecar"].uid = vkCall'.pod.uid
  <2>1. vkCall'.pod = vkCall.pod /\ vkCall.pc # "idle"
    <3>1. vkCall' # NoCall
      BY DEF NoCall
    <3> QED
      BY <1>2, <3>1, CallPodSteps, CallSteps DEF WaitsFor, StoreKnownPod
  <2>2. pods["sizecar"].uid = vkCall.pod.uid /\ PodExists(pods["sizecar"])
    BY <1>0, <2>1, CallPodIssued DEF CallHasPod, PodExists
  <2>3. ~CreateSizeCar
    BY <2>2 DEF CreateSizeCar
  <2>4. ~Removed("sizecar")
    BY <2>1 DEF Removed, DeletePod, Deletable, ForceDeletePod, Fault
  <2> QED
    BY <2>1, <2>2, <2>3, <2>4, SizecarSteps
<1> QED
  BY <1>1, <1>2

LEMMA CallUnlabelledStep ==
  ASSUME BridgeTypes, LabelInv, CallInv, [Next]_vars
  PROVE  CallUnlabelled'
<1> TypeOK /\ UidsIssued /\ CallOwn /\ CallUnlabelled
  BY DEF BridgeTypes, LabelInv, CallInv
<1> SUFFICES ASSUME vkCall'.pc # "idle", pods'["sizecar"].uid = vkCall'.pod.uid
             PROVE  pods'["sizecar"].job = NoJob
  BY DEF CallUnlabelled
<1>1. ASSUME NEW r \in Rpcs, CreatePod(r) PROVE pods'["sizecar"].job = NoJob
  BY <1>1 DEF CreatePod, kubeVars, needReconcile
<1>2. ASSUME ~\E r \in Rpcs : CreatePod(r) PROVE pods'["sizecar"].job = NoJob
  <2>1. vkCall'.pod = vkCall.pod /\ vkCall.pc # "idle"
    <3>1. vkCall' # NoCall
      BY DEF NoCall
    <3> QED
      BY <1>2, <3>1, CallPodSteps, CallSteps DEF WaitsFor, StoreKnownPod
  <2>2. ~addAndUpdateSlurmJobInfo
    BY DEF addAndUpdateSlurmJobInfo, NoCall
  <2>3. ~CreateSizeCar
    BY <2>1, CreateSizeCarFrame
  <2> QED
    BY <2>1, <2>2, <2>3, SizecarSteps, NoPodFields DEF CallUnlabelled
<1> QED
  BY <1>1, <1>2

LEMMA CallKnownStep ==
  ASSUME BridgeTypes, LabelInv, CallInv, [Next]_vars
  PROVE  CallKnown'
<1> TypeOK /\ WorkerApart /\ CallOwn /\ CallKnown
  BY DEF BridgeTypes, LabelInv, CallInv
<1> SUFFICES ASSUME vkCall'.pc = "label" PROVE knownPods'[vkCall'.pod.uid] = vkCall'.job
  BY DEF CallKnown
<1>t. knownPods \in [Uids -> JobIds \cup {NoJob}]
  BY DEF TypeOK, VkTypeOK
<1>1. CASE StoreKnownPod
  <2>1. /\ knownPods' = [knownPods EXCEPT ![vkCall.pod.uid] = vkCall.job] /\ vkCall.pc # "idle"
        /\ vkCall'.pod = vkCall.pod /\ vkCall'.job = vkCall.job
    BY <1>1 DEF StoreKnownPod, TypeOK, VkTypeOK
  <2> QED
    BY <1>t, <2>1, CallPodIssued
<1>2. CASE ~StoreKnownPod
  <2>1. UNCHANGED vkCall
    <3>1. vkCall' # NoCall
      BY DEF NoCall
    <3>2. ASSUME NEW r \in Rpcs, CreatePod(r) PROVE FALSE
      BY <3>2 DEF CreatePod
    <3>3. ASSUME NEW r \in Rpcs, SubmitAnswered(r), WaitsFor(r) PROVE FALSE
      BY <3>3 DEF SubmitAnswered, TypeOK, VkTypeOK
    <3> QED
      BY <1>2, <3>1, <3>2, <3>3, CallSteps
  <2>2. vkCall.pod.uid \in Uids /\ knownPods[vkCall.pod.uid] = vkCall.job
    BY <2>1, CallPodIssued DEF CallKnown
  <2>3. ASSUME NEW role \in Roles, DeletePod(role) \/ DeletePodError(role), Forget(pods[role])
        PROVE  knownPods'[vkCall.pod.uid] = knownPods[vkCall.pod.uid]
    <3>1. role = "worker"
      BY <2>1, <2>3 DEF DeletePod, DeletePodError, Deletable, Roles
    <3> QED
      BY <2>2, <2>3, <3>1, ForgetWorker
  <2>4. ~UpdatePod /\ ~VkRestarted
    BY <2>1 DEF UpdatePod, VkRestarted, NoCall
  <2> QED
    BY <1>2, <2>1, <2>2, <2>3, <2>4, KnownPodsSteps
<1> QED
  BY <1>1, <1>2

LEMMA UnlabelledCauseStep ==
  ASSUME BridgeTypes, LabelInv, CallInv, [Next]_vars
  PROVE  UnlabelledCause'
<1> TypeOK /\ UidsIssued /\ CallOwn /\ UnlabelledCause
  BY DEF BridgeTypes, LabelInv, CallInv
<1> SUFFICES ASSUME PodExists(pods'["sizecar"]), pods'["sizecar"].job = NoJob,
                    knownPods'[pods'["sizecar"].uid] # NoJob,
                    seen' \cap LabelCauses = {}, vkCall'.pc # "label"
             PROVE  FALSE
  BY DEF UnlabelledCause
<1>0. seen \cap LabelCauses = {}
  BY SeenGrows
<1>1. ~CreateSizeCar
  BY CreateSizeCarFrame
<1>2. ~addAndUpdateSlurmJobInfo
  <2> SUFFICES ASSUME addAndUpdateSlurmJobInfo PROVE FALSE
    OBVIOUS
  <2>1. vkCall.job \in JobIds /\ pods'["sizecar"].job = vkCall.job
    BY DEF addAndUpdateSlurmJobInfo, CallOwn, TypeOK, KubeTypeOK, Roles, Pod
  <2> QED
    BY <2>1 DEF JobIds, NoJob
<1>3. pods'["sizecar"].uid = pods["sizecar"].uid /\ pods'["sizecar"].job = pods["sizecar"].job
  <2>1. ~PollOverwritesLabel
    BY DEF PollOverwritesLabel, LabelCauses
  <2> QED
    BY <1>1, <1>2, <2>1, SizecarSteps, NoPodFields
<1>4. pods["sizecar"].uid \in Uids
  BY <1>3 DEF PodExists, TypeOK, KubeTypeOK, Roles, Pod
<1>5. knownPods[pods["sizecar"].uid] # NoJob
  <2>1. ~StoreKnownPod
    BY DEF StoreKnownPod, TypeOK, VkTypeOK
  <2>2. ~UpdatePod
    BY <1>3 DEF UpdatePod, kubeVars
  <2>3. ASSUME NEW role \in Roles, Forget(pods[role])
        PROVE  knownPods'[pods["sizecar"].uid] \in {NoJob, knownPods[pods["sizecar"].uid]}
    BY <1>4, <2>3 DEF Forget, TypeOK, VkTypeOK
  <2>4. ~VkRestarted
    BY <1>3, <1>4 DEF VkRestarted
  <2> QED
    BY <1>3, <2>1, <2>2, <2>3, <2>4, KnownPodsSteps
<1>6. vkCall.pc = "label"
  BY <1>0, <1>3, <1>5 DEF UnlabelledCause, PodExists
<1>7. vkCall' = NoCall
  BY <1>6, CallSteps DEF CreatePod, Creatable, WaitsFor, StoreKnownPod
<1>8. LabelFails => "labelLost" \in seen'
  BY DEF LabelFails, Lose, FaultWithLoss
<1> QED
  BY <1>2, <1>6, <1>7, <1>8, CallEnds DEF LabelCauses

(* What a step can do to the poll. *)
LEMMA PollSteps ==
  ASSUME [Next]_vars
  PROVE  UNCHANGED vkPoll \/ vkPoll' = NoUid \/ PollStarts
<1>1. CASE VkNext
  BY <1>1 DEF VkNext, CreatePod, SubmitAnswered, SubmitError, SubmitUnparsable, CreatePodError,
     NobodyWaits, StoreKnownPod, DeletePod, DeletePodError, PollStatus, PollOverwritesLabel, AgentCrash,
     StatusNotFound, addAndUpdateSlurmJobInfo, LabelFails, UpdatePod, VkCrash, PollPanic, VkRestarted,
     Purge, vkVars
<1> QED
  BY <1>1 DEF Next, vars, vkVars

LEMMA PollKnownStep ==
  ASSUME BridgeTypes, LabelInv, CallInv, [Next]_vars
  PROVE  PollKnown'
<1> TypeOK /\ UidsIssued /\ WorkerApart /\ CallOwn /\ PollKnown
  BY DEF BridgeTypes, LabelInv, CallInv
<1>0. /\ lastUid \in Nat /\ lastUid' \in Nat /\ lastUid <= lastUid' /\ vkPoll \in Nat
      /\ pods["sizecar"].uid \in Nat /\ pods["sizecar"].uid <= lastUid
      /\ knownPods \in [Uids -> JobIds \cup {NoJob}]
  BY LastUidGrows, SlurmAssumption DEF UidsIssued, TypeOK, KubeTypeOK, VkTypeOK, Pod, Uids, NoUid, Roles
<1>1. CASE vkPoll' = NoUid
  BY <1>0, <1>1 DEF PollKnown, NoUid
<1>2. CASE PollStarts
  <2>1. /\ vkPoll' = pods["sizecar"].uid /\ UNCHANGED <<pods, lastUid, knownPods>>
        /\ PodExists(pods["sizecar"]) /\ pods["sizecar"].job = NoJob
        /\ getSlurmJobId(pods["sizecar"]) # NoJob
    BY <1>2 DEF PollStarts, Polled, kubeVars
  <2>2. knownPods[pods["sizecar"].uid] # NoJob
    BY <2>1 DEF getSlurmJobId
  <2> QED
    BY <1>0, <2>1, <2>2 DEF PollKnown
<1>3. CASE UNCHANGED vkPoll /\ vkPoll # NoUid
  <2>1. vkPoll' <= lastUid'
    BY <1>0, <1>3 DEF PollKnown
  <2> SUFFICES ASSUME vkPoll = pods'["sizecar"].uid, "cancelError" \notin seen'
               PROVE  knownPods'[vkPoll] # NoJob
    BY <1>3, <2>1 DEF PollKnown
  <2>2. ~CreateSizeCar
    <3>1. CreateSizeCar => pods'["sizecar"].uid = lastUid + 1
      BY CreateSizeCarFrame, CreatedUid
    <3> QED
      BY <1>0, <3>1 DEF PollKnown
  <2>3. pods["sizecar"].uid = vkPoll /\ ~Removed("sizecar")
    BY <1>3, <2>2, SizecarSteps, NoPodFields DEF Removed, TypeOK, KubeTypeOK, Roles
  <2>4. knownPods[vkPoll] # NoJob /\ vkPoll \in Uids
    BY <1>3, <2>3, SeenGrows DEF PollKnown, TypeOK, VkTypeOK
  <2>5. CASE StoreKnownPod
    BY <1>0, <2>4, <2>5 DEF StoreKnownPod, CallOwn, JobIds, NoJob
  <2>6. CASE UpdatePod
    BY <1>0, <2>4, <2>6 DEF UpdatePod
  <2>7. ASSUME NEW role \in Roles, DeletePod(role) \/ DeletePodError(role), Forget(pods[role])
        PROVE  knownPods'[vkPoll] # NoJob
    <3>1. ~DeletePodError(role)
      BY DEF DeletePodError, Fault
    <3>2. role # "sizecar"
      BY <2>3, <2>7, <3>1 DEF DeletePod, Removed
    <3> QED
      BY <2>3, <2>4, <2>7, <3>2, ForgetWorker DEF Roles
  <2>8. ~VkRestarted
    BY <1>3 DEF VkRestarted
  <2> QED
    BY <2>4, <2>5, <2>6, <2>7, <2>8, KnownPodsSteps
<1> QED
  BY <1>1, <1>2, <1>3, PollSteps

(* A running CreatePod has a pod that is not labelled yet; a sizecar pod whose
   job is known has its label, is about to get it from
   addAndUpdateSlurmJobInfo, or lost it to one of the named causes. *)
THEOREM CallsHold == Spec => []CallInv
<1>1. BridgeTypes /\ LabelInv /\ CallInv /\ [Next]_vars => CallInv'
  BY CallHasPodStep, CallUnlabelledStep, CallKnownStep, UnlabelledCauseStep, PollKnownStep DEF CallInv
<1> QED
  BY <1>1, CallInit, BridgeTypesHold, LabelsHold, PTL DEF Spec

Unexcused ==
  /\ seen \cap {"vkCrash", "vkPanic", "agentCrash", "sbatchUnparsable", "forceDelete"} = {}
  /\ ~({"labelLost", "cancelError"} \subseteq seen)

(* Somebody knows the id of job j. *)
Held(j) ==
  \/ \E r \in Rpcs : submits[r].pc = "store" /\ submits[r].job = j
  \/ vkCall.pc \in {"store", "label"} /\ vkCall.job = j
  \/ PodExists(pods["sizecar"]) /\ getSlurmJobId(pods["sizecar"]) = j

LiveHeld == Unexcused => \A j \in JobIds : jobUid[j] \in Uids /\ LiveJob(j) => Held(j)

(* A running job was running before, or sbatch has just accepted it. *)
LEMMA LiveSteps ==
  ASSUME BridgeTypes, [Next]_vars, NEW j \in JobIds, jobUid'[j] \in Uids, LiveJob(j)'
  PROVE  \/ jobUid[j] \in Uids /\ LiveJob(j)
         \/ \E r \in Rpcs : SBatch(r, j) \/ SubmitUnparsable(r, j) \/ OrphanSBatch(r)
<1> DEFINE Before == jobUid[j] \in Uids /\ LiveJob(j)
<1>t. /\ jobUid \in [JobIds -> Uids \cup {NoUid, ContainerUid}]
      /\ records \in [JobIds -> [Tasks -> SlurmState \cup {"hidden", "purged"}]]
  BY DEF BridgeTypes, TypeOK, AgentTypeInv, SlurmTypeOK
<1>1. ASSUME UNCHANGED slurmVars PROVE Before
  BY <1>1 DEF slurmVars, LiveJob
<1>2. ASSUME NEW k \in JobIds, k # j, NEW u, Accept(k, u) PROVE Before
  BY <1>t, <1>2 DEF Accept, LiveJob
<1>3. ASSUME NEW k \in JobIds, NEW t \in Tasks, NEW from, NEW to, SetTask(k, t, from, to),
             to \in Active => \E s \in Tasks : records[k][s] \in Active
      PROVE  Before
  <2>1. CASE k # j
    BY <1>t, <1>3, <2>1 DEF SetTask, LiveJob
  <2>2. CASE k = j
    <3>1. \A s \in Tasks : records'[j][s] = IF s = t THEN to ELSE records[j][s]
      BY <1>t, <1>3, <2>2 DEF SetTask
    <3> QED
      BY <1>3, <2>2, <3>1 DEF SetTask, LiveJob
  <2> QED
    BY <2>1, <2>2
<1>4. ASSUME NEW k \in JobIds, NEW t \in Tasks, SlurmStart(k, t) PROVE Before
  <2>1. records[k][Root] \in Active /\ Root \in Tasks
    BY <1>4, SlurmAssumption DEF SlurmStart, Active
  <2> QED
    BY <1>3, <1>4, <2>1 DEF SlurmStart
<1>5. ASSUME NEW k \in JobIds, NEW t \in Tasks, SlurmEnd(k, t) PROVE Before
  <2>1. \A o \in Outcomes : o \notin Active
    BY SlurmAssumption DEF Active
  <2> QED
    BY <1>3, <1>5, <2>1 DEF SlurmEnd
<1>6. ASSUME NEW k \in JobIds, NEW t \in Tasks, SlurmPurge(k, t) PROVE Before
  BY <1>3, <1>6 DEF SlurmPurge, Active
<1>7. ASSUME NEW k \in JobIds, SCancel(k) PROVE Before
  <2>1. UNCHANGED jobUid
    BY <1>7 DEF SCancel
  <2>2. \A s \in Tasks : records'[j][s] \in Active => records[j][s] \in Active
    BY <1>t, <1>7 DEF SCancel, Active
  <2> QED
    BY <2>1, <2>2 DEF LiveJob
<1>8. ASSUME NEW role \in Roles, DeletePod(role) PROVE Before
  <2>1. getSlurmJobId(pods[role]) \in JobIds \cup {NoJob}
    BY JobIdType DEF BridgeTypes, TypeOK, KubeTypeOK
  <2> QED
    BY <1>1, <1>7, <1>8, <2>1 DEF DeletePod, CancelJob
<1>9. ASSUME NEW r \in Rpcs, CreatePod(r) \/ SubmitAnswered(r) \/ SubmitError(r) PROVE UNCHANGED slurmVars
  BY <1>9 DEF CreatePod, SubmitKnown, SubmitUnknown, SubmitAnswered, SubmitStore, SubmitError, SBatchError
<1>10. ASSUME NEW r \in Rpcs, NEW k \in JobIds, k # j, SubmitUnparsable(r, k) \/ SBatch(r, k)
       PROVE  Before
  BY <1>2, <1>10 DEF SubmitUnparsable, SBatchUnparsable, SBatch
<1>11. ASSUME \/ StoreKnownPod \/ addAndUpdateSlurmJobInfo \/ LabelFails \/ UpdatePod
              \/ PollStarts \/ PollOverwritesLabel \/ VkCrash \/ PollPanic \/ StatusNotFound \/ AgentCrash
              \/ \E role \in Roles : DeletePodError(role) \/ PollStatus(role)
       PROVE  UNCHANGED slurmVars
  BY <1>11 DEF StoreKnownPod, addAndUpdateSlurmJobInfo, LabelFails, UpdatePod, PollStarts,
     PollOverwritesLabel, VkCrash, PollPanic, VkRestarted, StatusNotFound, AgentCrash, AgentRestart, DeletePodError, PollStatus
<1>12. CASE VkNext
  BY <1>1, <1>4, <1>5, <1>6, <1>8, <1>9, <1>10, <1>11, <1>12 DEF VkNext, SlurmProgress, Purge
<1> QED
  BY <1>1, <1>12 DEF Next, vars

(* The agent's answer is pending, or is given. *)
LEMMA StoredCallSteps ==
  ASSUME BridgeTypes, [Next]_vars, NEW r \in Rpcs, submits[r].pc = "store"
  PROVE  submits'[r] = submits[r] \/ SubmitAnswered(r) \/ AgentCrash
<1>t. submits \in [Rpcs -> Call]
  BY DEF BridgeTypes, TypeOK, AgentTypeInv, AgentTypeOK
<1>1. ASSUME NEW s \in Rpcs, NEW c, s # r, submits' = [submits EXCEPT ![s] = c] PROVE submits'[r] = submits[r]
  BY <1>t, <1>1
<1>2. ASSUME NEW s \in Rpcs, s # r, SubmitAnswered(s) PROVE submits'[r] = submits[r]
  BY <1>1, <1>2 DEF SubmitAnswered, SubmitStore
<1>3. ASSUME NEW s \in Rpcs, \/ SubmitError(s) \/ OrphanSBatch(s) \/ CreatePod(s)
                             \/ \E j \in JobIds : SubmitUnparsable(s, j)
      PROVE  submits'[r] = submits[r]
  <2>1. s # r \/ UNCHANGED submits
    BY <1>3 DEF SubmitError, SubmitUnparsable, SBatchError, SBatchUnparsable, OrphanSBatch, CreatePod,
       SubmitKnown, SubmitUnknown
  <2>2. UNCHANGED submits \/ \E c : submits' = [submits EXCEPT ![s] = c]
    BY <1>3 DEF SubmitError, SubmitUnparsable, SBatchError, SBatchUnparsable, OrphanSBatch, CreatePod,
       SubmitKnown, SubmitUnknown
  <2> QED
    BY <1>1, <2>1, <2>2
<1>4. ASSUME NEW s \in Rpcs, NEW j \in JobIds, SBatch(s, j) PROVE submits'[r] = submits[r]
  <2>1. s # r /\ submits' = [submits EXCEPT ![s].pc = "store", ![s].job = j]
    BY <1>4 DEF SBatch
  <2> QED
    BY <1>t, <2>1
<1>5. ASSUME \/ StoreKnownPod \/ addAndUpdateSlurmJobInfo \/ LabelFails \/ UpdatePod
             \/ PollStarts \/ PollOverwritesLabel \/ VkCrash \/ PollPanic \/ StatusNotFound
             \/ \E j \in JobIds, t \in Tasks : Purge(j, t)
             \/ \E role \in Roles : DeletePod(role) \/ DeletePodError(role) \/ PollStatus(role)
      PROVE  UNCHANGED submits
  BY <1>5 DEF StoreKnownPod, addAndUpdateSlurmJobInfo, LabelFails, UpdatePod, PollStarts,
     PollOverwritesLabel, VkCrash, PollPanic, VkRestarted, StatusNotFound, Purge, DeletePod, DeletePodError, PollStatus, CancelJob, agentVars
<1>6. CASE VkNext
  BY <1>2, <1>3, <1>4, <1>5, <1>6 DEF VkNext, agentVars
<1> QED
  BY <1>6 DEF Next, vars, agentVars

(* Without a cause for it a pod has one job. *)
LEMMA OneJobUnexcused ==
  ASSUME BridgeTypes, FlightInv, Unexcused,
         NEW j \in JobIds, NEW k \in JobIds, jobUid[j] \in Uids, jobUid[j] = jobUid[k]
  PROVE  j = k
<1>1. ~Excused(jobUid[j])
  BY DEF Excused, FlightInv, Unexcused, Crashes
<1>2. OneJobPerUid
  BY AccountedIsOne DEF BridgeTypes
<1> QED
  BY <1>1, <1>2 DEF OneJobPerUid

LEMMA UnexcusedBefore == [Next]_vars /\ Unexcused' => Unexcused
  BY SeenGrows DEF Unexcused

(* What the pod is known by stays known, unless the job is cancelled. *)
LEMMA PodHoldStays ==
  ASSUME BridgeTypes, FlightInv, LabelInv, CallInv, [Next]_vars, Unexcused',
         NEW j \in JobIds, LiveJob(j)',
         PodExists(pods["sizecar"]), getSlurmJobId(pods["sizecar"]) = j
  PROVE  PodExists(pods'["sizecar"]) /\ getSlurmJobId(pods["sizecar"])' = j
<1> TypeOK /\ UidsIssued /\ WorkerApart /\ LabelsOwn /\ CallOwn /\ Unexcused
  BY UnexcusedBefore DEF BridgeTypes, LabelInv
<1>p. pods["sizecar"].uid \in Uids /\ j # NoJob /\ knownPods \in [Uids -> JobIds \cup {NoJob}]
  BY DEF PodExists, TypeOK, KubeTypeOK, VkTypeOK, Roles, Pod, JobIds, NoJob
<1>1. ~CreateSizeCar
  BY DEF CreateSizeCar
<1>2. ~Removed("sizecar")
  <2> SUFFICES ASSUME Removed("sizecar") PROVE FALSE
    OBVIOUS
  <2>1. ~ForceDeletePod("sizecar")
    BY DEF ForceDeletePod, Fault, Unexcused
  <2>2. SCancel(j)
    BY <1>p, <2>1 DEF Removed, DeletePod, CancelJob
  <2>3. records \in [JobIds -> [Tasks -> SlurmState \cup {"hidden", "purged"}]]
    BY DEF TypeOK, AgentTypeInv, SlurmTypeOK
  <2>4. \A t \in Tasks : records'[j][t] \notin Active
    BY <2>2, <2>3 DEF SCancel, Active
  <2> QED
    BY <2>4 DEF LiveJob
<1>3. CASE addAndUpdateSlurmJobInfo /\ pods'["sizecar"].uid = pods["sizecar"].uid
           /\ pods'["sizecar"].job = vkCall.job
  <2>1. /\ vkCall.pc = "label" /\ pods["sizecar"].uid = vkCall.pod.uid /\ pods["sizecar"].job = NoJob
        /\ vkCall.job # NoJob
    BY <1>3 DEF addAndUpdateSlurmJobInfo, SamePod, CallOwn, JobIds, NoJob
  <2>2. vkCall.job = j
    BY <2>1 DEF getSlurmJobId, CallInv, CallKnown
  <2> QED
    BY <1>3, <2>1, <2>2 DEF getSlurmJobId, PodExists
<1>4. CASE pods'["sizecar"].uid = pods["sizecar"].uid /\ pods'["sizecar"].job = pods["sizecar"].job
  <2>1. CASE pods["sizecar"].job # NoJob
    BY <1>4, <2>1 DEF getSlurmJobId, PodExists
  <2>2. CASE pods["sizecar"].job = NoJob
    <3>1. knownPods[pods["sizecar"].uid] = j
      BY <2>2 DEF getSlurmJobId
    <3>2. knownPods'[pods["sizecar"].uid] = j
      <4>1. CASE StoreKnownPod
        <5>1. knownPods' = [knownPods EXCEPT ![vkCall.pod.uid] = vkCall.job]
              /\ vkCall.job \in JobIds /\ jobUid[vkCall.job] = vkCall.pod.uid
          BY <4>1 DEF StoreKnownPod, CallOwn
        <5>2. jobUid[j] = pods["sizecar"].uid
          BY <1>p, <3>1 DEF LabelsOwn
        <5>3. vkCall.pod.uid = pods["sizecar"].uid => vkCall.job = j
          BY <1>p, <5>1, <5>2, OneJobUnexcused
        <5> QED
          BY <1>p, <3>1, <5>1, <5>3
      <4>2. CASE UpdatePod
        BY <2>2, <4>2 DEF UpdatePod
      <4>3. ASSUME NEW role \in Roles, DeletePod(role) \/ DeletePodError(role), Forget(pods[role])
            PROVE  knownPods'[pods["sizecar"].uid] = j
        <5>1. CASE role = "worker"
          BY <1>p, <3>1, <4>3, <5>1, ForgetWorker
        <5>2. CASE role = "sizecar"
          <6>1. vkCall.pc = "idle"
            BY <4>3, <5>2 DEF DeletePod, DeletePodError, Deletable
          <6>2. "labelLost" \in seen
            BY <1>p, <2>2, <3>1, <6>1 DEF CallInv, UnlabelledCause, LabelCauses, KubeletCrashes, Unexcused
          <6>3. ~DeletePodError("sizecar")
            BY <6>2, SeenGrows DEF DeletePodError, Fault, Unexcused
          <6>4. ~DeletePod("sizecar")
            BY <1>2, <1>4 DEF DeletePod, Removed
          <6> QED
            BY <4>3, <5>2, <6>3, <6>4
        <5> QED
          BY <5>1, <5>2 DEF Roles
      <4>4. ~(VkRestarted /\ seen' \cap {"vkCrash", "vkPanic"} # {})
        BY DEF Unexcused
      <4> QED
        BY <3>1, <4>1, <4>2, <4>3, <4>4, KnownPodsSteps
    <3> QED
      BY <1>4, <2>2, <3>2 DEF getSlurmJobId, PodExists
  <2> QED
    BY <2>1, <2>2
<1>5. CASE PollOverwritesLabel /\ pods'["sizecar"].uid = pods["sizecar"].uid
           /\ pods'["sizecar"].job = NoJob
  <2>1. /\ vkPoll = pods["sizecar"].uid /\ pods["sizecar"].job # NoJob /\ knownPods' = knownPods
        /\ seen' = seen \cup {"labelLost", "labelOverwritten"}
    BY <1>5 DEF PollOverwritesLabel
  <2>2. knownPods[pods["sizecar"].uid] # NoJob
    BY <1>p, <2>1 DEF CallInv, PollKnown, Unexcused, Uids, NoUid
  <2>3. knownPods[pods["sizecar"].uid] = j
    <3>1. jobUid[knownPods[pods["sizecar"].uid]] = pods["sizecar"].uid /\ jobUid[j] = pods["sizecar"].uid
      BY <1>p, <2>1, <2>2 DEF LabelsOwn, OwnLabel, getSlurmJobId
    <3> QED
      BY <1>p, <2>2, <3>1, OneJobUnexcused
  <2> QED
    BY <1>5, <2>1, <2>3 DEF getSlurmJobId, PodExists
<1> QED
  BY <1>1, <1>2, <1>3, <1>4, <1>5, SizecarSteps

LEMMA LiveHeldStep ==
  ASSUME BridgeTypes, FlightInv, LabelInv, CallInv, LiveHeld, [Next]_vars
  PROVE  LiveHeld'
<1> SUFFICES ASSUME Unexcused', NEW j \in JobIds, jobUid'[j] \in Uids, LiveJob(j)'
             PROVE  Held(j)'
  BY DEF LiveHeld
<1> TypeOK /\ CallOwn /\ Unexcused
  BY UnexcusedBefore DEF BridgeTypes, LabelInv
<1>t. submits \in [Rpcs -> Call]
  BY DEF TypeOK, AgentTypeInv, AgentTypeOK
<1>1. ASSUME NEW r \in Rpcs, SBatch(r, j) \/ SubmitUnparsable(r, j) \/ OrphanSBatch(r)
      PROVE  Held(j)'
  <2>1. ~SubmitUnparsable(r, j)
    BY DEF SubmitUnparsable, Fault, Unexcused
  <2>2. ~OrphanSBatch(r)
    BY DEF OrphanSBatch, BridgeTypes, AgentInv, OrphanNeedsRestart, FlightInv, Unexcused
  <2>3. submits' = [submits EXCEPT ![r].pc = "store", ![r].job = j]
    BY <1>1, <2>1, <2>2 DEF SBatch
  <2>4. submits'[r].pc = "store" /\ submits'[r].job = j
    BY <1>t, <2>3 DEF Call
  <2> QED
    BY <2>4 DEF Held
<1>2. ASSUME jobUid[j] \in Uids, LiveJob(j) PROVE Held(j)'
  <2>1. Held(j)
    BY <1>2 DEF LiveHeld
  <2>2. ASSUME NEW r \in Rpcs, submits[r].pc = "store", submits[r].job = j PROVE Held(j)'
    <3>1. CASE submits'[r] = submits[r]
      BY <2>2, <3>1 DEF Held
    <3>2. CASE SubmitAnswered(r)
      <4>1. WaitsFor(r)
        BY <2>2 DEF FlightInv, Unexcused, Crashes
      <4>2. vkCall'.pc = "store" /\ vkCall'.job = j
        BY <2>2, <3>2, <4>1 DEF SubmitAnswered, TypeOK, VkTypeOK
      <4> QED
        BY <4>2 DEF Held
    <3>3. ~AgentCrash
      BY DEF AgentCrash, Fault, Unexcused
    <3> QED
      BY <2>2, <3>1, <3>2, <3>3, StoredCallSteps
  <2>3. ASSUME vkCall.pc \in {"store", "label"}, vkCall.job = j PROVE Held(j)'
    <3>1. CASE UNCHANGED vkCall
      BY <2>3, <3>1 DEF Held
    <3>2. CASE StoreKnownPod
      BY <2>3, <3>2 DEF StoreKnownPod, Held, TypeOK, VkTypeOK
    <3>3. CASE vkCall' = NoCall
      <4>0. vkCall.pc = "label" /\ (addAndUpdateSlurmJobInfo \/ LabelFails)
        BY <2>3, <3>3, CallEnds DEF KubeletCrashes, Unexcused
      <4>1. pods["sizecar"].uid = vkCall.pod.uid /\ pods["sizecar"].job = NoJob /\ PodExists(pods["sizecar"])
        BY <2>3, CallPodIssued DEF CallInv, CallHasPod, CallUnlabelled, Unexcused, PodExists
      <4>2. getSlurmJobId(pods["sizecar"]) = j
        BY <2>3, <4>0, <4>1 DEF getSlurmJobId, CallInv, CallKnown
      <4>3. PodExists(pods'["sizecar"]) /\ getSlurmJobId(pods["sizecar"])' = j
        BY <4>1, <4>2, PodHoldStays
      <4> QED
        BY <4>3 DEF Held, PodExists
    <3> QED
      BY <2>3, <3>1, <3>2, <3>3, CallSteps DEF CreatePod, Creatable, WaitsFor
  <2>4. ASSUME PodExists(pods["sizecar"]), getSlurmJobId(pods["sizecar"]) = j PROVE Held(j)'
    <3>1. PodExists(pods'["sizecar"]) /\ getSlurmJobId(pods["sizecar"])' = j
      BY <2>4, PodHoldStays
    <3> QED
      BY <3>1 DEF Held, PodExists
  <2> QED
    BY <2>1, <2>2, <2>3, <2>4 DEF Held
<1> QED
  BY <1>1, <1>2, LiveSteps

(* A running Slurm job is left to itself only after a crash, a forced
   deletion, an unreadable answer of sbatch, or a lost label together with a
   failed scancel. *)
THEOREM OrphanCause == Spec => []OrphanNeedsFault
<1>1. Init => LiveHeld
  BY DEF Init, SlurmInit, LiveHeld, Uids, NoUid
<1>2. Spec => []LiveHeld
  <2>1. BridgeTypes /\ FlightInv /\ LabelInv /\ CallInv /\ LiveHeld /\ [Next]_vars => LiveHeld'
    BY LiveHeldStep
  <2> QED
    BY <1>1, <2>1, BridgeTypesHold, FlightsHold, LabelsHold, CallsHold, PTL DEF Spec
<1>3. BridgeTypes /\ LabelInv /\ LiveHeld => OrphanNeedsFault
  <2> SUFFICES ASSUME BridgeTypes, LabelInv, LiveHeld, NEW j \in JobIds, Orphaned(j), Unexcused
               PROVE  FALSE
    BY DEF OrphanNeedsFault, Unexcused
  <2>0. Held(j) /\ jobUid[j] \in Uids
    BY DEF LiveHeld, Orphaned
  <2>1. ASSUME NEW r \in Rpcs, submits[r].pc = "store", submits[r].job = j PROVE FALSE
    BY <2>1 DEF BridgeTypes, AgentInv, CallsOwnJobs, Orphaned, InFlight, Flying
  <2>2. ASSUME vkCall.pc \in {"store", "label"}, vkCall.job = j PROVE FALSE
    BY <2>2 DEF LabelInv, CallOwn, Orphaned
  <2>3. ASSUME PodExists(pods["sizecar"]), getSlurmJobId(pods["sizecar"]) = j PROVE FALSE
    <3>1. pods["sizecar"].uid # jobUid[j] /\ pods["sizecar"].job # j
      BY DEF Orphaned, Roles
    <3>2. knownPods[pods["sizecar"].uid] = j /\ j # NoJob
      BY <2>3, <3>1 DEF getSlurmJobId, JobIds, NoJob
    <3>3. pods["sizecar"].uid \in Uids
      BY <2>3 DEF PodExists, BridgeTypes, TypeOK, KubeTypeOK, Roles, Pod
    <3> QED
      BY <3>1, <3>2, <3>3 DEF LabelInv, LabelsOwn
  <2> QED
    BY <2>0, <2>1, <2>2, <2>3 DEF Held
<1> QED
  BY <1>2, <1>3, BridgeTypesHold, LabelsHold, PTL
=============================================================================
