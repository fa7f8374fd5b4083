---------------------------- MODULE BridgeProofs ----------------------------
(***************************************************************************)
(* Proofs about the bridge, for any number of pods, Slurm jobs, tasks,     *)
(* calls and faults.                                                       *)
(*                                                                         *)
(* First, its objects stay well typed, and what is proved of the agent     *)
(* alone holds of the agent inside the bridge.                             *)
(*                                                                         *)
(* Then, the status of the SlurmBridgeJob follows JobLifecycle (the        *)
(* refinement), a finished SlurmBridgeJob stays finished with the sub job  *)
(* statuses it finished with, and a final FetchResultStatus is the fetch   *)
(* Job's.                                                                  *)
(*                                                                         *)
(* The operator's copies of the SlurmBridgeJob may be old. The argument is *)
(* about versions: a copy is never newer than the object, and a copy of    *)
(* the object's version is the object, but for the SUBMITTING that         *)
(* onOwnerCreateFunc writes into the cache only. The API server accepts a  *)
(* status only from the object's version, so a Reconcile that wins worked  *)
(* on the present status.                                                  *)
(***************************************************************************)
EXTENDS SlurmBridge, SlurmAgentProofs

-----------------------------------------------------------------------------
(* Operators the objects are built from. *)

(* A function is a partial function from D to S iff its domain is a subset of D. *)
LEMMA PartialFnsDef ==
  ASSUME NEW D, NEW S, NEW E \in SUBSET D, NEW f \in [E -> S]
  PROVE  f \in PartialFns(D, S)
  BY DEF PartialFns

LEMMA PartialFnsUse ==
  ASSUME NEW D, NEW S, NEW f \in PartialFns(D, S)
  PROVE  DOMAIN f \subseteq D /\ f \in [DOMAIN f -> S]
  BY DEF PartialFns

LEMMA EmptyIsPartial == \A D, S : Empty \in PartialFns(D, S)
<1>1. ASSUME NEW S PROVE Empty \in [{} -> S]
  BY DEF Empty
<1> QED
  BY <1>1 DEF PartialFns

(* The messages a pod carries. *)
LEMMA MsgTypes ==
  /\ NoMsg \in Msg /\ TextMsg \in Msg
  /\ \A info \in PartialFns(RecordIds, JobStatus) : InfoMsg(info) \in Msg
<1>1. Empty \in PartialFns(RecordIds, JobStatus)
  BY EmptyIsPartial
<1> QED
  BY <1>1 DEF NoMsg, TextMsg, InfoMsg, Msg

(* The absent objects. *)
LEMMA AbsentTypes == NoPod \in Pod /\ NoSbj \in Sbj /\ NoFetchJob \in FetchJob
<1>1. NoPod \in Pod
  BY MsgTypes DEF NoPod, Pod, PodPhase
<1>2. Empty \in PartialFns(RecordIds, Subjob)
  BY EmptyIsPartial
<1>3. NoSbj \in Sbj
  BY <1>2 DEF NoSbj, SbjWithoutStatus, Sbj
<1> QED
  BY <1>1, <1>3 DEF NoFetchJob, FetchJob

(* A created pod has the next UID. *)
LEMMA CreatedPodType ==
  ASSUME lastUid \in 0..MaxPods, lastUid < MaxPods,
         NEW j \in JobIds \cup {NoJob}, NEW C \in SUBSET RecordIds
  PROVE  /\ CreatedPod(j, C) \in Pod
         /\ lastUid + 1 \in Uids /\ lastUid + 1 \in 0..MaxPods
<1>1. lastUid + 1 \in Uids /\ lastUid + 1 \in 0..MaxPods
  BY SlurmAssumption DEF Uids
<1>2. NoPod \in Pod
  BY AbsentTypes
<1> QED
  BY <1>1, <1>2 DEF CreatedPod, Pod, PodPhase

(* UpdateSBJStatus writes sub job statuses for the records of the message. *)
LEMMA UpdateType ==
  ASSUME NEW s \in Sbj, NEW p \in Pod
  PROVE  UpdateSBJStatus(s, p) \in Sbj
<1> DEFINE D == DOMAIN s.subjobs \cup DOMAIN p.msg.info
           F == [k \in D |-> IF k \in DOMAIN p.msg.info
                             THEN SubjobStatus(p.msg.info[k]) ELSE s.subjobs[k]]
<1>1. /\ DOMAIN s.subjobs \subseteq RecordIds
      /\ s.subjobs \in [DOMAIN s.subjobs -> Subjob]
  BY PartialFnsUse DEF Sbj
<1>2. /\ DOMAIN p.msg.info \subseteq RecordIds
      /\ p.msg.info \in [DOMAIN p.msg.info -> JobStatus]
  BY PartialFnsUse DEF Pod, Msg
<1>3. \A st \in JobStatus : SubjobStatus(st) \in Subjob
  BY DEF SubjobStatus, Subjob
<1>4. F \in [D -> Subjob]
  BY <1>1, <1>2, <1>3
<1>5. F \in PartialFns(RecordIds, Subjob)
  BY <1>1, <1>2, <1>4, PartialFnsDef
<1>6. p.phase \in PodPhase /\ (s.endpoint \/ p.job # NoJob) \in BOOLEAN
  BY DEF Pod
<1> HIDE DEF F
<1>7. [s EXCEPT !.state = p.phase, !.endpoint = @ \/ p.job # NoJob, !.subjobs = F] \in Sbj
  BY <1>5, <1>6 DEF Sbj
<1> QED
  BY <1>7 DEF UpdateSBJStatus, F

(* What a poll reports are Slurm records of the job. *)
LEMMA RecordInfoType ==
  ASSUME SlurmTypeOK, NEW j \in JobIds
  PROVE  RecordInfo(j) \in PartialFns(RecordIds, JobStatus)
<1>1. DOMAIN JobInfo(j) = Visible(j) /\ Visible(j) \subseteq Tasks
  BY DEF JobInfo, Visible
<1>2. \A t \in Visible(j) : JobInfo(j)[t] \in JobStatus
  BY DEF JobInfo, mapSInfoToProtoInfo, JobStatus
<1>3. {j} \X Visible(j) \in SUBSET RecordIds
  BY <1>1 DEF RecordIds
<1>4. RecordInfo(j) \in [{j} \X Visible(j) -> JobStatus]
  BY <1>1, <1>2 DEF RecordInfo
<1> QED
  BY <1>3, <1>4, PartialFnsDef

(* The phase a pod gets is a pod phase. *)
LEMMA PhaseType == \A info : slurmState2PodPhase(info) \in PodPhase
  BY DEF slurmState2PodPhase, EndedPhase, ActivePhase, PodPhase
-----------------------------------------------------------------------------
(* The initial states are well typed. *)
LEMMA TypeInit == Init => TypeOK
<1> SUFFICES ASSUME Init PROVE TypeOK
  OBVIOUS
<1> USE AbsentTypes, SlurmAssumption, KubeAssumption, OperatorAssumption DEF Init
<1>1. KubeTypeOK
  <2>1. PICK spec \in SbjSpecs : sbj = NewSbj(spec[1], spec[2])
    BY DEF KubeInit
  <2>2. spec[1] \in BOOLEAN /\ spec[2] \in BOOLEAN
    OBVIOUS
  <2>3. sbj \in Sbj
    BY <2>1, <2>2, EmptyIsPartial DEF NewSbj, SbjWithoutStatus, Sbj
  <2> QED
    BY <2>3 DEF KubeInit, KubeTypeOK
<1>2. OperatorTypeOK
  BY DEF OperatorInit, OperatorTypeOK
<1>3. VkTypeOK
  BY DEF VkInit, VkTypeOK, NoCall
<1>4. AgentTypeInv
  BY AgentInitInv DEF AgentInv
<1> QED
  BY <1>1, <1>2, <1>3, <1>4 DEF TypeOK

(* Faults stay within their budget and kinds. *)
LEMMA FaultType ==
  ASSUME KubeTypeOK,
         \/ \E k \in FaultKinds : Fault(k)
         \/ \E k \in FaultKinds, l \in LossKinds : FaultWithLoss(k, l)
         \/ \E l \in LossKinds : Lose(l)
         \/ NoFault
  PROVE  budget' \in 0..MaxFaults /\ seen' \subseteq FaultKinds \cup LossKinds
<1> USE KubeAssumption DEF KubeTypeOK
<1>1. ASSUME NEW k \in FaultKinds, Fault(k)
      PROVE  budget' \in 0..MaxFaults /\ seen' \subseteq FaultKinds \cup LossKinds
  BY <1>1 DEF Fault, MayFault
<1>2. ASSUME NEW k \in FaultKinds, NEW l \in LossKinds, FaultWithLoss(k, l)
      PROVE  budget' \in 0..MaxFaults /\ seen' \subseteq FaultKinds \cup LossKinds
  BY <1>2 DEF FaultWithLoss, MayFault
<1>3. ASSUME NEW l \in LossKinds, Lose(l)
      PROVE  budget' \in 0..MaxFaults /\ seen' \subseteq FaultKinds \cup LossKinds
  BY <1>3 DEF Lose
<1>4. CASE NoFault
  BY <1>4 DEF NoFault
<1> QED
  BY <1>1, <1>2, <1>3, <1>4

(* Updates of one pod. *)
LEMMA PodUpdates ==
  ASSUME NEW p \in Pod
  PROVE  /\ [p EXCEPT !.deleting = TRUE] \in Pod
         /\ \A j \in JobIds \cup {NoJob} : [p EXCEPT !.job = j] \in Pod
         /\ \A ph \in PodPhase, m \in Msg : [p EXCEPT !.phase = ph, !.msg = m] \in Pod
  BY DEF Pod

(* A new version of the SlurmBridgeJob. *)
LEMMA SbjNewVersion ==
  ASSUME NEW s \in Sbj
  PROVE  /\ [s EXCEPT !.rv = s.rv + 1] \in Sbj
         /\ [s EXCEPT !.deleting = TRUE, !.rv = s.rv + 1] \in Sbj
<1>1. s.rv \in Nat
  BY DEF Sbj
<1>2. s.rv + 1 \in Nat
  BY <1>1
<1> DEFINE v == s.rv + 1
<1>3. v \in Nat
  BY <1>2
<1> HIDE DEF v
<1>4. /\ [s EXCEPT !.rv = v] \in Sbj
      /\ [s EXCEPT !.deleting = TRUE, !.rv = v] \in Sbj
  BY <1>3 DEF Sbj
<1> QED
  BY <1>4 DEF v

(* Users, the garbage collector and the Job controller. *)
LEMMA KubeStepType == KubeTypeOK /\ KubeNext => KubeTypeOK'
<1> SUFFICES ASSUME KubeTypeOK, KubeNext PROVE KubeTypeOK'
  OBVIOUS
<1>1. ASSUME NEW role \in Roles, DeletePodRequest(role) \/ CollectPod(role) \/ ForceDeletePod(role)
      PROVE  KubeTypeOK'
  <2>1. pods[role] \in Pod
    BY DEF KubeTypeOK
  <2>2. budget' \in 0..MaxFaults /\ seen' \subseteq FaultKinds \cup LossKinds
    BY <1>1, FaultType DEF DeletePodRequest, CollectPod, ForceDeletePod, FaultKinds
  <2>3. [pods[role] EXCEPT !.deleting = TRUE] \in Pod /\ NoPod \in Pod
    BY <2>1, PodUpdates, AbsentTypes
  <2>4. pods' \in [Roles -> Pod]
    BY <1>1, <2>3 DEF KubeTypeOK, DeletePodRequest, CollectPod, ForceDeletePod
  <2> QED
    BY <1>1, <2>2, <2>4 DEF KubeTypeOK, DeletePodRequest, CollectPod, ForceDeletePod
<1>2. CASE DeleteSbjRequest
  <2>1. budget' \in 0..MaxFaults /\ seen' \subseteq FaultKinds \cup LossKinds
    BY <1>2, FaultType DEF DeleteSbjRequest, FaultKinds
  <2>2. sbj' \in Sbj
    <3>1. sbj \in Sbj
      BY DEF KubeTypeOK
    <3>2. sbj' = [sbj EXCEPT !.deleting = TRUE, !.rv = sbj.rv + 1]
      BY <1>2 DEF DeleteSbjRequest
    <3> QED
      BY <3>1, <3>2, SbjNewVersion
  <2> QED
    BY <1>2, <2>1, <2>2 DEF KubeTypeOK, DeleteSbjRequest
<1>3. CASE RemoveSbj
  BY <1>3, AbsentTypes DEF RemoveSbj, KubeTypeOK, NoFault
<1>4. CASE DeleteFetchJob
  <2>1. budget' \in 0..MaxFaults /\ seen' \subseteq FaultKinds \cup LossKinds
    BY <1>4, FaultType DEF DeleteFetchJob, FaultKinds
  <2> QED
    BY <1>4, <2>1, AbsentTypes DEF KubeTypeOK, DeleteFetchJob
<1>5. CASE FinishFetchJob
  BY <1>5 DEF FinishFetchJob, KubeTypeOK, FetchJob, NoFault
<1> QED
  BY <1>1, <1>2, <1>3, <1>4, <1>5 DEF KubeNext

(* Returning from Reconcile, restarting, listing. *)
LEMMA ReturnType ==
  ASSUME OperatorTypeOK, NEW b \in BOOLEAN, Return(b)
  PROVE  OperatorTypeOK'
  BY AbsentTypes DEF OperatorTypeOK, Return, caches

LEMMA ListedType == sbj \in Sbj => ListedSbj \in Sbj
  BY DEF ListedSbj, onOwnerCreateFunc, Sbj

LEMMA RestartType ==
  ASSUME OperatorTypeOK, KubeTypeOK, Restarted
  PROVE  OperatorTypeOK'
<1>1. ListedSbj \in Sbj /\ SbjExists(sbj) \in BOOLEAN
  BY ListedType DEF KubeTypeOK, SbjExists
<1> QED
  BY <1>1, AbsentTypes DEF OperatorTypeOK, Restarted, KubeTypeOK

(* The informers. *)
LEMMA InformerType ==
  ASSUME OperatorTypeOK, KubeTypeOK,
         SyncSbj \/ SyncPods \/ SyncFetch \/ Resync \/ OperatorCrash
  PROVE  OperatorTypeOK' /\ KubeTypeOK'
<1>1. CASE SyncSbj \/ SyncPods \/ SyncFetch \/ Resync
  <2>1. ListedSbj \in Sbj
    BY ListedType DEF KubeTypeOK
  <2>2. KubeTypeOK'
    BY <1>1 DEF KubeTypeOK, SyncSbj, SyncPods, SyncFetch, Resync, kubeVars
  <2>3. cSbj' \in Sbj /\ cPods' \in [Roles -> Pod] /\ cFetch' \in FetchJob /\ opQueued' \in BOOLEAN
    BY <1>1, <2>1 DEF KubeTypeOK, OperatorTypeOK, SyncSbj, SyncPods, SyncFetch, Resync, caches
  <2>4. UNCHANGED <<opPc, opOld, opSbj, opPod>>
    BY <1>1 DEF SyncSbj, SyncPods, SyncFetch, Resync, opLocals
  <2> QED
    BY <2>2, <2>3, <2>4 DEF OperatorTypeOK
<1>2. CASE OperatorCrash
  <2>1. OperatorTypeOK'
    BY <1>2, RestartType DEF OperatorCrash
  <2>2. budget' \in 0..MaxFaults /\ seen' \subseteq FaultKinds \cup LossKinds
    BY <1>2, FaultType DEF OperatorCrash, FaultKinds
  <2> QED
    BY <1>2, <2>1, <2>2 DEF KubeTypeOK, OperatorCrash
<1> QED
  BY <1>1, <1>2

(* Changes of the copy Reconcile works on. *)
LEMMA FetchUpdateType ==
  ASSUME NEW s \in Sbj, NEW st \in {"Running", "Succeeded", "Failed"}
  PROVE  /\ [s EXCEPT !.fetch = TRUE, !.fetchStatus = st] \in Sbj
         /\ [s EXCEPT !.fetchStatus = st] \in Sbj
  BY DEF Sbj

LEMMA NewFetchJobType ==
  ASSUME NEW s \in Sbj
  PROVE  NewFetchJob(s) \in FetchJob
<1>1. s.subjobs \in [DOMAIN s.subjobs -> Subjob] /\ s.endpoint \in BOOLEAN
  BY PartialFnsUse DEF Sbj
<1>2. {s.subjobs[k].stdOut : k \in DOMAIN s.subjobs} \in SUBSET {"out", "err"}
  BY <1>1 DEF Subjob
<1> QED
  BY <1>1, <1>2 DEF NewFetchJob, FetchJob

(* A step of Reconcile that returns. *)
LEMMA ReturnStepType ==
  ASSUME OperatorTypeOK, KubeTypeOK,
         CreateSizeCarFails \/ CreateWorkerFails \/ CreateFetchJobFails \/ UpdateStatusFails
  PROVE  OperatorTypeOK' /\ KubeTypeOK'
<1>1. (Return(TRUE) \/ Return(FALSE)) /\ UNCHANGED <<sbj, pods, fetchJob, lastUid>>
  BY DEF CreateSizeCarFails, CreateWorkerFails, CreateFetchJobFails, UpdateStatusFails
<1>2. \/ \E k \in FaultKinds : Fault(k)
      \/ \E k \in FaultKinds, l \in LossKinds : FaultWithLoss(k, l)
      \/ \E l \in LossKinds : Lose(l)
      \/ NoFault
  <2>1. "apiError" \in FaultKinds /\ "lostWrite" \in LossKinds
    BY DEF FaultKinds, LossKinds
  <2> QED
    BY <2>1 DEF CreateSizeCarFails, CreateWorkerFails, CreateFetchJobFails, UpdateStatusFails
<1>3. budget' \in 0..MaxFaults /\ seen' \subseteq FaultKinds \cup LossKinds
  BY <1>2, FaultType
<1> QED
  BY <1>1, <1>3, ReturnType DEF KubeTypeOK

(* Every step of Reconcile. *)
LEMMA ReconcileType ==
  ASSUME OperatorTypeOK, KubeTypeOK, OperatorStep
  PROVE  OperatorTypeOK' /\ KubeTypeOK'
<1>1. CASE BeginReconcile
  BY <1>1 DEF BeginReconcile, OperatorTypeOK, KubeTypeOK, kubeVars, caches, opLocals
<1>2. CASE FoundSizeCar
  <2>1. CASE Return(TRUE)
    BY <1>2, <2>1, ReturnType DEF FoundSizeCar, KubeTypeOK, kubeVars
  <2>2. CASE ~Return(TRUE)
    <3>1. cPods["sizecar"] \in Pod /\ opSbj \in Sbj
      BY DEF OperatorTypeOK, Roles
    <3>2. /\ opSbj' \in Sbj /\ opPod' \in Pod /\ opPc' = "worker"
          /\ UNCHANGED <<opOld, opQueued, cSbj, cPods, cFetch, kubeVars>>
      BY <1>2, <2>2, <3>1, UpdateType DEF FoundSizeCar, caches
    <3> QED
      BY <3>2 DEF OperatorTypeOK, KubeTypeOK, kubeVars
  <2> QED
    BY <2>1, <2>2
<1>3. CASE CreateSizeCar
  <2>1. CreatedPod(NoJob, {}) \in Pod /\ lastUid + 1 \in 0..MaxPods
    BY <1>3, CreatedPodType DEF CreateSizeCar, KubeTypeOK
  <2>2. opSbj' \in Sbj
    BY <1>3, <2>1, UpdateType DEF CreateSizeCar, OperatorTypeOK
  <2>3. pods' \in [Roles -> Pod] /\ lastUid' \in 0..MaxPods
    <3>1. pods' \in [Roles -> Pod]
      BY <1>3, <2>1 DEF CreateSizeCar, KubeTypeOK
    <3>2. lastUid' \in 0..MaxPods
      BY <1>3, <2>1 DEF CreateSizeCar
    <3> QED
      BY <3>1, <3>2
  <2>4. budget' \in 0..MaxFaults /\ seen' \subseteq FaultKinds \cup LossKinds
    BY <1>3, FaultType DEF CreateSizeCar, LossKinds
  <2>5. /\ UNCHANGED <<sbj, fetchJob, opOld, opQueued, cSbj, cPods, cFetch>>
        /\ opPc' = "worker" /\ opPod' = CreatedPod(NoJob, {})
    BY <1>3 DEF CreateSizeCar, caches
  <2> QED
    BY <2>1, <2>2, <2>3, <2>4, <2>5 DEF KubeTypeOK, OperatorTypeOK
<1>4. CASE CreateSizeCarFails \/ CreateWorkerFails \/ CreateFetchJobFails \/ UpdateStatusFails
  BY <1>4, ReturnStepType
<1>5. CASE SizeCarLostPanic
  <2>1. budget' \in 0..MaxFaults /\ seen' \subseteq FaultKinds \cup LossKinds
    BY <1>5, FaultType DEF SizeCarLostPanic, LossKinds
  <2> QED
    BY <1>5, <2>1, RestartType DEF SizeCarLostPanic, KubeTypeOK
<1>6. CASE NoWorkerNeeded
  BY <1>6 DEF NoWorkerNeeded, OperatorTypeOK, KubeTypeOK, kubeVars, opLocals, caches
<1>7. CASE CreateWorker
  <2>1. opPod.job \in JobIds \cup {NoJob} /\ DOMAIN opPod.msg.info \subseteq RecordIds
    BY PartialFnsUse DEF OperatorTypeOK, Pod, Msg
  <2>2. CreatedPod(opPod.job, DOMAIN opPod.msg.info) \in Pod /\ lastUid + 1 \in 0..MaxPods
    BY <1>7, <2>1, CreatedPodType DEF CreateWorker, KubeTypeOK
  <2>3. pods' \in [Roles -> Pod] /\ lastUid' \in 0..MaxPods
    <3>1. pods' \in [Roles -> Pod]
      BY <1>7, <2>2 DEF CreateWorker, KubeTypeOK
    <3>2. lastUid' \in 0..MaxPods
      BY <1>7, <2>2 DEF CreateWorker
    <3> QED
      BY <3>1, <3>2
  <2>4. /\ UNCHANGED <<sbj, fetchJob, opOld, opSbj, opPod, opQueued, cSbj, cPods, cFetch, budget, seen>>
        /\ opPc' = "write"
    BY <1>7 DEF CreateWorker, opLocals, caches, NoFault
  <2> QED
    BY <2>3, <2>4 DEF KubeTypeOK, OperatorTypeOK
<1>8. CASE SkipResult \/ CreateFetchJob \/ ObserveFetchJob
  <2>1. opSbj' \in Sbj
    BY <1>8, FetchUpdateType DEF SkipResult, CreateFetchJob, ObserveFetchJob, ToWrite,
       OperatorTypeOK, FetchJob, JobExists
  <2>2. fetchJob' \in FetchJob
    BY <1>8, NewFetchJobType DEF SkipResult, CreateFetchJob, ObserveFetchJob, OperatorTypeOK,
       KubeTypeOK, kubeVars
  <2>3. /\ UNCHANGED <<sbj, pods, lastUid, budget, seen, opOld, opPod, opQueued, cSbj, cPods, cFetch>>
        /\ opPc' = "write"
    BY <1>8 DEF SkipResult, CreateFetchJob, ObserveFetchJob, ToWrite, kubeVars, NoFault, caches
  <2> QED
    BY <2>1, <2>2, <2>3 DEF KubeTypeOK, OperatorTypeOK
<1>9. CASE UpdateStatus
  <2>1. sbj' \in Sbj
    BY <1>9, SbjNewVersion DEF UpdateStatus, KubeTypeOK, OperatorTypeOK
  <2> QED
    BY <1>9, <2>1, ReturnType DEF UpdateStatus, KubeTypeOK, NoFault
<1> QED
  BY <1>1, <1>2, <1>3, <1>4, <1>5, <1>6, <1>7, <1>8, <1>9 DEF OperatorStep

-----------------------------------------------------------------------------
(* A pod has a job id, or none is known. *)
LEMMA JobIdType ==
  ASSUME VkTypeOK, NEW p \in Pod
  PROVE  getSlurmJobId(p) \in JobIds \cup {NoJob}
  BY DEF VkTypeOK, getSlurmJobId, Pod, PodExists

(* An error of CreatePod, and what is left of the pod's status. *)
LEMMA FailedPodType ==
  ASSUME KubeTypeOK
  PROVE  [pods EXCEPT !["sizecar"].phase = "Failed", !["sizecar"].msg = TextMsg] \in [Roles -> Pod]
<1>1. pods["sizecar"] \in Pod
  BY DEF KubeTypeOK, Roles
<1>2. [pods["sizecar"] EXCEPT !.phase = "Failed", !.msg = TextMsg] \in Pod
  BY <1>1, PodUpdates, MsgTypes DEF PodPhase
<1>3. [pods EXCEPT !["sizecar"] = [pods["sizecar"] EXCEPT !.phase = "Failed", !.msg = TextMsg]]
        \in [Roles -> Pod]
  BY <1>2 DEF KubeTypeOK
<1>4. [pods EXCEPT !["sizecar"].phase = "Failed", !["sizecar"].msg = TextMsg]
        = [pods EXCEPT !["sizecar"] = [pods["sizecar"] EXCEPT !.phase = "Failed", !.msg = TextMsg]]
  BY <1>1 DEF KubeTypeOK, Roles, Pod
<1> QED
  BY <1>3, <1>4

(* Steps of the virtual kubelet that carry on CreatePod. *)
LEMMA CreatePodType ==
  ASSUME KubeTypeOK, VkTypeOK, AgentTypeInv, NEW r \in Rpcs, CreatePod(r) \/ SubmitAnswered(r)
  PROVE  KubeTypeOK' /\ VkTypeOK'
<1>1. KubeTypeOK' /\ UNCHANGED knownPods
  BY DEF CreatePod, SubmitAnswered, KubeTypeOK, kubeVars
<1>2. CASE CreatePod(r)
  <2>1. pods["sizecar"] \in Pod
    BY DEF KubeTypeOK, Roles
  <2>2. pods["sizecar"].uid \in Uids
    BY <1>2, <2>1 DEF CreatePod, Creatable, PodExists, Pod
  <2>3. knownJobs[pods["sizecar"].uid] \in JobIds \cup {NoJob}
    BY <2>2 DEF AgentTypeInv, AgentTypeOK
  <2> QED
    BY <1>1, <1>2, <2>1, <2>3 DEF CreatePod, VkTypeOK
<1>3. CASE SubmitAnswered(r)
  <2>1. submits[r].job \in JobIds \cup {NoJob}
    BY DEF AgentTypeInv, AgentTypeOK, Call
  <2> QED
    BY <1>1, <1>3, <2>1 DEF SubmitAnswered, VkTypeOK
<1> QED
  BY <1>2, <1>3

LEMMA CreatePodErrorType ==
  ASSUME KubeTypeOK, VkTypeOK, CreatePodError,
         budget' \in 0..MaxFaults, seen' \subseteq FaultKinds \cup LossKinds
  PROVE  KubeTypeOK' /\ VkTypeOK'
<1>1. pods' \in [Roles -> Pod]
  BY FailedPodType DEF CreatePodError, KubeTypeOK
<1>2. VkTypeOK'
  BY AbsentTypes DEF CreatePodError, VkTypeOK, NoCall
<1> QED
  BY <1>1, <1>2 DEF CreatePodError, KubeTypeOK

LEMMA CallFailsType ==
  ASSUME KubeTypeOK, VkTypeOK,
         \/ \E r \in Rpcs : SubmitError(r) \/ \E j \in JobIds : SubmitUnparsable(r, j)
         \/ AgentCrash
  PROVE  KubeTypeOK' /\ VkTypeOK'
<1>1. budget' \in 0..MaxFaults /\ seen' \subseteq FaultKinds \cup LossKinds
  BY FaultType DEF SubmitError, SubmitUnparsable, AgentCrash, FaultKinds
<1>2. CreatePodError \/ UNCHANGED <<sbj, pods, fetchJob, lastUid, vkVars>>
  BY DEF SubmitError, SubmitUnparsable, AgentCrash, NobodyWaits
<1>3. CASE CreatePodError
  BY <1>1, <1>3, CreatePodErrorType
<1>4. CASE UNCHANGED <<sbj, pods, fetchJob, lastUid, vkVars>>
  BY <1>1, <1>4 DEF KubeTypeOK, VkTypeOK, vkVars
<1> QED
  BY <1>2, <1>3, <1>4

LEMMA LabelType ==
  ASSUME KubeTypeOK, VkTypeOK, StoreKnownPod \/ addAndUpdateSlurmJobInfo \/ LabelFails \/ UpdatePod
  PROVE  KubeTypeOK' /\ VkTypeOK'
<1>1. CASE StoreKnownPod
  BY <1>1 DEF StoreKnownPod, KubeTypeOK, VkTypeOK, kubeVars
<1>2. CASE addAndUpdateSlurmJobInfo
  <2>1. pods["sizecar"] \in Pod /\ vkCall.job \in JobIds \cup {NoJob}
    BY DEF KubeTypeOK, VkTypeOK, Roles
  <2>2. [pods["sizecar"] EXCEPT !.job = vkCall.job] \in Pod
    BY <2>1, PodUpdates
  <2>3. pods' \in [Roles -> Pod]
    BY <1>2, <2>2 DEF addAndUpdateSlurmJobInfo, KubeTypeOK
  <2> QED
    BY <1>2, <2>3, AbsentTypes DEF addAndUpdateSlurmJobInfo, KubeTypeOK, VkTypeOK, NoCall, NoFault
<1>3. CASE LabelFails
  <2>1. budget' \in 0..MaxFaults /\ seen' \subseteq FaultKinds \cup LossKinds
    BY <1>3, FaultType DEF LabelFails, FaultKinds, LossKinds
  <2> QED
    BY <1>3, <2>1, AbsentTypes DEF LabelFails, KubeTypeOK, VkTypeOK, NoCall
<1>4. CASE UpdatePod
  <2>1. pods["sizecar"].job \in JobIds \cup {NoJob}
    BY DEF KubeTypeOK, Roles, Pod
  <2> QED
    BY <1>4, <2>1 DEF UpdatePod, KubeTypeOK, VkTypeOK, kubeVars
<1> QED
  BY <1>1, <1>2, <1>3, <1>4

LEMMA DeletePodType ==
  ASSUME KubeTypeOK, VkTypeOK, NEW role \in Roles, DeletePod(role) \/ DeletePodError(role)
  PROVE  KubeTypeOK' /\ VkTypeOK'
<1>1. VkTypeOK'
  BY DEF DeletePod, DeletePodError, Forget, VkTypeOK
<1>2. budget' \in 0..MaxFaults /\ seen' \subseteq FaultKinds \cup LossKinds
  BY FaultType DEF DeletePod, DeletePodError, FaultKinds
<1>3. pods' \in [Roles -> Pod]
  BY AbsentTypes DEF DeletePod, DeletePodError, KubeTypeOK
<1> QED
  BY <1>1, <1>2, <1>3 DEF DeletePod, DeletePodError, KubeTypeOK

LEMMA ShownType ==
  ASSUME KubeTypeOK, VkTypeOK, SlurmTypeOK, NEW role \in Roles, Polled(role) PROVE Shown(role) \in Pod
<1> DEFINE j == getSlurmJobId(pods[role])
<1>1. pods[role] \in Pod
  BY DEF KubeTypeOK
<1>2. j \in JobIds
  BY <1>1, JobIdType DEF Polled
<1>3. InfoMsg(RecordInfo(j)) \in Msg /\ pods[role].msg \in Msg
  BY <1>1, <1>2, RecordInfoType, MsgTypes DEF Pod
<1>4. slurmState2PodPhase(RecordInfo(j)) \in PodPhase
  BY PhaseType
<1> QED
  BY <1>1, <1>3, <1>4, PodUpdates DEF Shown

LEMMA PollType ==
  ASSUME KubeTypeOK, VkTypeOK, SlurmTypeOK,
         \/ \E role \in Roles : PollStatus(role)
         \/ PollStarts \/ PollOverwritesLabel
  PROVE  KubeTypeOK' /\ VkTypeOK'
<1>1. pods["sizecar"] \in Pod
  BY DEF KubeTypeOK, Roles
<1>2. ASSUME NEW role \in Roles, PollStatus(role) PROVE KubeTypeOK' /\ VkTypeOK'
  <2>1. pods' \in [Roles -> Pod]
    BY <1>2, ShownType DEF PollStatus, KubeTypeOK
  <2> QED
    BY <1>2, <2>1, AbsentTypes DEF PollStatus, KubeTypeOK, VkTypeOK, NoFault
<1>3. CASE PollStarts
  BY <1>1, <1>3 DEF PollStarts, KubeTypeOK, VkTypeOK, kubeVars, Pod
<1>4. CASE PollOverwritesLabel
  <2>1. "sizecar" \in Roles /\ Shown("sizecar") \in Pod
    BY <1>4, ShownType DEF PollOverwritesLabel, Roles
  <2>2. [Shown("sizecar") EXCEPT !.job = NoJob] \in Pod
    BY <2>1, AbsentTypes, PodUpdates
  <2>3. pods' \in [Roles -> Pod]
    BY <1>4, <2>2 DEF PollOverwritesLabel, KubeTypeOK
  <2>4. budget' \in 0..MaxFaults /\ seen' \subseteq FaultKinds \cup LossKinds
    BY <1>4 DEF PollOverwritesLabel, LossKinds, KubeTypeOK
  <2> QED
    BY <1>4, <2>3, <2>4, AbsentTypes DEF PollOverwritesLabel, KubeTypeOK, VkTypeOK
<1> QED
  BY <1>2, <1>3, <1>4

LEMMA VkFaultType ==
  ASSUME KubeTypeOK, VkTypeOK,
         \/ \E j \in JobIds, t \in Tasks : Purge(j, t)
         \/ VkCrash \/ PollPanic \/ StatusNotFound
  PROVE  KubeTypeOK' /\ VkTypeOK'
<1>1. budget' \in 0..MaxFaults /\ seen' \subseteq FaultKinds \cup LossKinds
  BY FaultType DEF Purge, VkCrash, PollPanic, StatusNotFound, FaultKinds, LossKinds
<1>2. CASE \E j \in JobIds, t \in Tasks : Purge(j, t)
  BY <1>1, <1>2 DEF Purge, KubeTypeOK, VkTypeOK, vkVars
<1>3. CASE VkCrash \/ PollPanic
  BY <1>1, <1>3, AbsentTypes DEF VkCrash, PollPanic, VkRestarted, KubeTypeOK, VkTypeOK, NoCall
<1>4. CASE StatusNotFound
  BY <1>1, <1>4, FailedPodType DEF StatusNotFound, KubeTypeOK, VkTypeOK, vkVars
<1> QED
  BY <1>2, <1>3, <1>4

(* Every step of the virtual kubelet, the agent and Slurm. *)
LEMMA VkType ==
  ASSUME KubeTypeOK, VkTypeOK, AgentTypeInv, VkNext
  PROVE  KubeTypeOK' /\ VkTypeOK'
<1>1. CASE UNCHANGED <<kubeVars, vkVars>>
  BY <1>1 DEF KubeTypeOK, VkTypeOK, kubeVars, vkVars
<1> QED
  BY <1>1, CreatePodType, CallFailsType, LabelType, DeletePodType, PollType, VkFaultType
  DEF VkNext, AgentTypeInv

-----------------------------------------------------------------------------
(* To the agent and Slurm, a step of the bridge is a step of the agent's own
   specification, in which any caller may make any call: what holds of the
   agent holds of it in the bridge. *)
LEMMA VkIsAgentStep ==
  ASSUME KubeTypeOK, VkTypeOK, VkNext
  PROVE  [AgentNext]_avars
<1> USE DEF avars
<1>1. ASSUME NEW r \in Rpcs, CreatePod(r) PROVE AgentNext
  <2>1. pods["sizecar"].uid \in Uids
    BY <1>1 DEF CreatePod, Creatable, PodExists, KubeTypeOK, Roles, Pod
  <2> QED
    BY <1>1, <2>1 DEF CreatePod, AgentNext
<1>2. ASSUME NEW r \in Rpcs, SubmitAnswered(r) \/ SubmitError(r) PROVE AgentNext
  BY <1>2 DEF SubmitAnswered, SubmitError, AgentNext
<1>3. ASSUME NEW r \in Rpcs, NEW j \in JobIds, SubmitUnparsable(r, j) \/ SBatch(r, j) PROVE AgentNext
  BY <1>3 DEF SubmitUnparsable, AgentNext
<1>4. ASSUME NEW r \in Rpcs, OrphanSBatch(r) PROVE AgentNext
  BY <1>4 DEF AgentNext
<1>5. CASE SlurmProgress /\ UNCHANGED agentVars
  BY <1>5 DEF AgentNext, SlurmNext
<1>6. ASSUME NEW j \in JobIds, NEW t \in Tasks, Purge(j, t) PROVE AgentNext
  BY <1>6 DEF Purge, AgentNext, SlurmNext
<1>7. CASE StoreKnownPod \/ addAndUpdateSlurmJobInfo \/ LabelFails \/ UpdatePod
  BY <1>7 DEF StoreKnownPod, addAndUpdateSlurmJobInfo, LabelFails, UpdatePod
<1>8. ASSUME NEW role \in Roles, DeletePod(role) PROVE [AgentNext]_avars
  <2>1. getSlurmJobId(pods[role]) \in JobIds \cup {NoJob}
    BY JobIdType DEF KubeTypeOK
  <2> QED
    BY <1>8, <2>1 DEF DeletePod, AgentNext
<1>9. ASSUME NEW role \in Roles, DeletePodError(role) \/ PollStatus(role) \/ PollStarts \/ PollOverwritesLabel
      PROVE  UNCHANGED avars
  BY <1>9 DEF DeletePodError, PollStatus, PollStarts, PollOverwritesLabel
<1>10. CASE AgentCrash
  BY <1>10 DEF AgentCrash, AgentNext
<1>11. CASE VkCrash \/ PollPanic \/ StatusNotFound
  BY <1>11 DEF VkCrash, PollPanic, VkRestarted, StatusNotFound
<1> QED
  BY <1>1, <1>2, <1>3, <1>4, <1>5, <1>6, <1>7, <1>8, <1>9, <1>10, <1>11 DEF VkNext, Roles

BridgeTypes == TypeOK /\ AgentInv

LEMMA BridgeTypesStep == BridgeTypes /\ [Next]_vars => BridgeTypes'
<1> SUFFICES ASSUME TypeOK, AgentInv, [Next]_vars PROVE TypeOK' /\ AgentInv'
  BY DEF BridgeTypes
<1> USE DEF TypeOK
<1>1. CASE KubeNext /\ UNCHANGED <<opVars, vkVars, agentVars, slurmVars>>
  <2>1. KubeTypeOK'
    BY <1>1, KubeStepType
  <2>2. OperatorTypeOK' /\ VkTypeOK'
    BY <1>1 DEF OperatorTypeOK, VkTypeOK, opVars, vkVars
  <2>3. AgentInv'
    BY <1>1, AgentStepInv DEF avars
  <2> QED
    BY <2>1, <2>2, <2>3 DEF AgentInv
<1>2. CASE OperatorNext /\ UNCHANGED <<vkVars, agentVars, slurmVars>>
  <2>1. KubeTypeOK' /\ OperatorTypeOK'
    BY <1>2, InformerType, ReconcileType DEF OperatorNext
  <2>2. VkTypeOK'
    BY <1>2 DEF VkTypeOK, vkVars
  <2>3. AgentInv'
    BY <1>2, AgentStepInv DEF avars
  <2> QED
    BY <2>1, <2>2, <2>3 DEF AgentInv
<1>3. CASE VkNext /\ UNCHANGED opVars
  <2>1. KubeTypeOK' /\ VkTypeOK'
    BY <1>3, VkType
  <2>2. OperatorTypeOK'
    BY <1>3 DEF OperatorTypeOK, opVars
  <2>3. AgentInv'
    BY <1>3, VkIsAgentStep, AgentStepInv
  <2> QED
    BY <2>1, <2>2, <2>3 DEF AgentInv
<1>4. CASE UNCHANGED vars
  <2>1. AgentInv'
    BY <1>4, AgentStepInv DEF vars, avars
  <2> QED
    BY <1>4, <2>1 DEF vars, KubeTypeOK, OperatorTypeOK, VkTypeOK, kubeVars, opVars, vkVars, AgentInv
<1> QED
  BY <1>1, <1>2, <1>3, <1>4 DEF Next

(* The objects, caches and local variables of the bridge stay well typed, and
   the agent inside it keeps the invariant proved of it alone. *)
THEOREM BridgeTypesHold == Spec => []BridgeTypes
<1>1. Init => BridgeTypes
  BY TypeInit, AgentInitInv DEF Init, BridgeTypes
<1> QED
  BY <1>1, BridgeTypesStep, PTL DEF Spec

(* The objects hold what their API types allow. *)
THEOREM TypeCorrect == Spec => []TypeOK
<1>1. BridgeTypes => TypeOK
  BY DEF BridgeTypes
<1> QED
  BY <1>1, BridgeTypesHold, PTL

-----------------------------------------------------------------------------
(* Duplicate jobs. Without crashes the calls of SubmitJob in flight are the
   ones CreatePod waits for, which is one at most. *)

(* Faults and losses are never forgotten. *)
LEMMA SeenGrows == [Next]_vars => seen \subseteq seen'
<1> SUFFICES ASSUME [Next]_vars PROVE seen \subseteq seen'
  OBVIOUS
<1> USE DEF kubeVars, Fault, FaultWithLoss, Lose, NoFault
<1>1. ASSUME KubeNext PROVE seen \subseteq seen'
  BY <1>1 DEF KubeNext, DeletePodRequest, ForceDeletePod, CollectPod, DeleteSbjRequest, RemoveSbj,
     DeleteFetchJob, FinishFetchJob
<1>2. ASSUME OperatorNext PROVE seen \subseteq seen'
  BY <1>2 DEF OperatorNext, OperatorStep, SyncSbj, SyncPods, SyncFetch, Resync, OperatorCrash,
       BeginReconcile, FoundSizeCar, CreateSizeCar, CreateSizeCarFails, SizeCarLostPanic,
       NoWorkerNeeded, CreateWorker, CreateWorkerFails, SkipResult, CreateFetchJob,
       CreateFetchJobFails, ObserveFetchJob, UpdateStatus, UpdateStatusFails
<1>3. ASSUME VkNext PROVE seen \subseteq seen'
  BY <1>3 DEF VkNext, CreatePod, SubmitAnswered, SubmitError, SubmitUnparsable, Purge,
     StoreKnownPod, addAndUpdateSlurmJobInfo, LabelFails, DeletePod, DeletePodError, PollStatus,
     UpdatePod, PollStarts, PollOverwritesLabel, AgentCrash, VkCrash, PollPanic, StatusNotFound
<1> QED
  BY <1>1, <1>2, <1>3 DEF Next, vars

Crashes == {"vkCrash", "vkPanic", "agentCrash"}

FlightInv ==
  /\ seen \cap Crashes = {} =>
       \A r \in Rpcs : submits[r].pc # "free" => WaitsFor(r) /\ submits[r].uid = vkCall.pod.uid
  /\ overlapped # {} => seen \cap Crashes # {}
  /\ unparsed # {} => "sbatchUnparsable" \in seen
  /\ agentRestarts > 0 => "agentCrash" \in seen

LEMMA FlightInit == Init => FlightInv
  BY DEF Init, AgentInit, FlightInv, FreeCall

(* Steps that neither make nor answer calls. *)
LEMMA FlightStutter ==
  ASSUME FlightInv, seen \subseteq seen', UNCHANGED <<agentVars, vkCall>>
  PROVE  FlightInv'
  BY DEF FlightInv, agentVars, WaitsFor

LEMMA FlightStep == BridgeTypes /\ FlightInv /\ [Next]_vars => FlightInv'
<1> SUFFICES ASSUME BridgeTypes, FlightInv, [Next]_vars PROVE FlightInv'
  OBVIOUS
<1>0. seen \subseteq seen'
  BY SeenGrows
<1>1. CASE UNCHANGED <<agentVars, vkCall>>
  BY <1>0, <1>1, FlightStutter
<1>2. ASSUME NEW r \in Rpcs, CreatePod(r) PROVE FlightInv'
  <2>1. seen \cap Crashes = {} => \A s \in Rpcs : submits[s].pc = "free"
    BY <1>2 DEF FlightInv, CreatePod, Creatable, WaitsFor
  <2>2. CASE SubmitKnown(r, pods["sizecar"].uid)
    BY <1>0, <2>1, <2>2 DEF FlightInv, SubmitKnown
  <2>3. CASE SubmitUnknown(r, pods["sizecar"].uid)
         /\ vkCall' = [pc |-> "submit", rpc |-> r, pod |-> pods["sizecar"], job |-> NoJob]
    <3>1. /\ submits' = [submits EXCEPT ![r] = [pc |-> "sbatch", uid |-> pods["sizecar"].uid, job |-> NoJob]]
          /\ UNCHANGED <<agentRestarts, unparsed>>
      BY <2>3 DEF SubmitUnknown
    <3>2. overlapped' # overlapped => seen \cap Crashes # {}
      BY <2>1, <2>3 DEF SubmitUnknown, InFlight, Flying
    <3>3. ASSUME seen' \cap Crashes = {}, NEW s \in Rpcs, submits'[s].pc # "free"
          PROVE  WaitsFor(s)' /\ submits'[s].uid = vkCall'.pod.uid
      <4>1. s = r
        BY <1>0, <2>1, <3>1, <3>3
      <4>2. submits'[r].uid = pods["sizecar"].uid
        BY <3>1 DEF BridgeTypes, TypeOK, AgentTypeInv, AgentTypeOK
      <4> QED
        BY <2>3, <4>1, <4>2 DEF WaitsFor
    <3> QED
      BY <1>0, <3>1, <3>2, <3>3 DEF FlightInv
  <2> QED
    BY <1>2, <2>2, <2>3 DEF CreatePod
<1>3. ASSUME NEW r \in Rpcs, SubmitAnswered(r) PROVE FlightInv'
  <2>1. /\ submits' = [submits EXCEPT ![r] = FreeCall]
        /\ UNCHANGED <<agentRestarts, overlapped, unparsed>>
    BY <1>3 DEF SubmitAnswered, SubmitStore
  <2>2. ASSUME seen' \cap Crashes = {}, NEW s \in Rpcs PROVE submits'[s].pc = "free"
    <3>1. \A x \in Rpcs : submits[x].pc # "free" => x = vkCall.rpc
      BY <1>0, <2>2 DEF FlightInv, WaitsFor
    <3>2. submits[r].pc # "free"
      BY <1>3 DEF SubmitAnswered, SubmitStore
    <3> QED
      BY <2>1, <3>1, <3>2 DEF FreeCall, BridgeTypes, TypeOK, AgentTypeInv, AgentTypeOK
  <2> QED
    BY <1>0, <2>1, <2>2 DEF FlightInv
<1>4. ASSUME NEW r \in Rpcs, SubmitError(r) \/ \E j \in JobIds : SubmitUnparsable(r, j)
      PROVE  FlightInv'
  <2>1. /\ submits' = [submits EXCEPT ![r] = FreeCall] /\ submits[r].pc = "sbatch"
        /\ UNCHANGED <<agentRestarts, overlapped>>
        /\ unparsed' = unparsed \/ "sbatchUnparsable" \in seen'
    BY <1>4 DEF SubmitError, SubmitUnparsable, SBatchError, SBatchUnparsable, Fault
  <2>2. ASSUME seen' \cap Crashes = {}, NEW s \in Rpcs PROVE submits'[s].pc = "free"
    <3>1. \A x \in Rpcs : submits[x].pc # "free" => x = vkCall.rpc
      BY <1>0, <2>2 DEF FlightInv, WaitsFor
    <3> QED
      BY <2>1, <3>1 DEF FreeCall, BridgeTypes, TypeOK, AgentTypeInv, AgentTypeOK
  <2> QED
    BY <1>0, <2>1, <2>2 DEF FlightInv
<1>5. ASSUME NEW r \in Rpcs, NEW j \in JobIds, SBatch(r, j), UNCHANGED vkVars PROVE FlightInv'
  <2>1. /\ submits' = [submits EXCEPT ![r].pc = "store", ![r].job = j] /\ submits[r].pc = "sbatch"
        /\ UNCHANGED <<agentRestarts, overlapped, unparsed, vkCall>>
    BY <1>5 DEF SBatch, vkVars
  <2>2. \A s \in Rpcs : submits'[s].uid = submits[s].uid
                        /\ (submits'[s].pc # "free" => submits[s].pc # "free")
    BY <2>1 DEF BridgeTypes, TypeOK, AgentTypeInv, AgentTypeOK, Call
  <2> QED
    BY <1>0, <2>1, <2>2 DEF FlightInv, WaitsFor
<1>6. ASSUME NEW r \in Rpcs, OrphanSBatch(r), UNCHANGED vkVars PROVE FlightInv'
  <2>1. /\ submits' = [submits EXCEPT ![r] = FreeCall]
        /\ UNCHANGED <<agentRestarts, overlapped, unparsed, vkCall>>
    BY <1>6 DEF OrphanSBatch, vkVars
  <2>2. \A s \in Rpcs : submits'[s].pc # "free" => submits'[s] = submits[s]
    BY <2>1 DEF BridgeTypes, TypeOK, AgentTypeInv, AgentTypeOK, FreeCall
  <2> QED
    BY <1>0, <2>1, <2>2 DEF FlightInv, WaitsFor
<1>7. CASE AgentCrash
  BY <1>0, <1>7 DEF AgentCrash, AgentRestart, Fault, FlightInv, Crashes
<1>8. CASE VkCrash \/ PollPanic
  BY <1>0, <1>8 DEF VkCrash, PollPanic, VkRestarted, Fault, Lose, FlightInv, Crashes, agentVars
<1>9. CASE StoreKnownPod \/ addAndUpdateSlurmJobInfo \/ LabelFails
  BY <1>0, <1>9 DEF StoreKnownPod, addAndUpdateSlurmJobInfo, LabelFails, FlightInv, WaitsFor, agentVars
<1>10. ASSUME NEW role \in Roles, DeletePod(role) \/ DeletePodError(role) \/ PollStatus(role)
       PROVE  UNCHANGED <<agentVars, vkCall>>
  BY <1>10 DEF DeletePod, CancelJob, DeletePodError, PollStatus, vkVars
<1>11. ASSUME \/ UpdatePod \/ PollStarts \/ PollOverwritesLabel \/ StatusNotFound
              \/ \E j \in JobIds, t \in Tasks : Purge(j, t)
       PROVE  UNCHANGED <<agentVars, vkCall>>
  BY <1>11 DEF UpdatePod, PollStarts, PollOverwritesLabel, StatusNotFound, Purge, vkVars
<1>12. CASE VkNext
  BY <1>1, <1>2, <1>3, <1>4, <1>5, <1>6, <1>7, <1>8, <1>9, <1>10, <1>11, <1>12 DEF VkNext, vkVars
<1> QED
  BY <1>1, <1>12 DEF Next, vars, vkVars

(* Without a crash the agent serves one call at a time, the one the kubelet
   waits for. *)
THEOREM FlightsHold == Spec => []FlightInv
<1> QED
  BY FlightInit, FlightStep, BridgeTypesHold, PTL DEF Spec

(* A second Slurm job for a pod needs a crash of the kubelet while SubmitJob
   runs, a restart of the agent, or an unreadable answer of sbatch. *)
THEOREM DuplicateJobCause == Spec => []DuplicateJobNeedsFault
<1>1. BridgeTypes /\ FlightInv => DuplicateJobNeedsFault
  <2> SUFFICES ASSUME BridgeTypes, FlightInv, NEW u \in Uids,
                      NEW j \in JobsOf(u), NEW k \in JobsOf(u), j # k
               PROVE  \/ seen \cap {"agentCrash", "sbatchUnparsable"} # {}
                      \/ seen \cap {"vkCrash", "vkPanic"} # {} /\ overlapped # {}
    BY DEF DuplicateJobNeedsFault, DuplicateJob
  <2>1. Excused(u)
    BY AccountedIsOne DEF BridgeTypes, OneJobPerUid, JobsOf
  <2> QED
    BY <2>1 DEF Excused, FlightInv, Crashes
<1> QED
  BY <1>1, FlightsHold, BridgeTypesHold, PTL

-----------------------------------------------------------------------------
(* The status of the SlurmBridgeJob.                                        *)

FetchDone(s) == s.fetch /\ isFinishedFetchResult(s.fetchStatus)

(* A copy s of the object may be old, but what is final in it is still so. *)
CopyOf(s, object) ==
  SbjExists(s) /\ SbjExists(object) =>
    /\ s.rv <= object.rv
    /\ s.result = object.result
    /\ Terminal(s.state) => s.state = object.state /\ s.subjobs = object.subjobs
    /\ s.rv = object.rv => s \in {object, onOwnerCreateFunc(object)}

(* t is the version after s. *)
Succeeds(t, s) ==
  /\ SbjExists(s)
  /\ t.rv = s.rv + 1
  /\ t.result = s.result
  /\ Terminal(s.state) => s.state = t.state /\ s.subjobs = t.subjobs

(* The fetch is recorded only for a finished SlurmBridgeJob that wants it. *)
FetchOk(s) == s.fetch \/ s.fetchStatus # "" => Terminal(s.state) /\ s.result

(* What Reconcile has done to the copy it works on: it follows the sizecar pod
   of an unfinished SlurmBridgeJob or the fetch Job of a finished one. *)
FollowsPod ==
  /\ ~Terminal(opOld.state) /\ opSbj.state \in PodPhase
  /\ opSbj.fetch = opOld.fetch /\ opSbj.fetchStatus = opOld.fetchStatus

MayFetch == Terminal(opOld.state) /\ opOld.result /\ ~FetchDone(opOld)

FollowsFetch ==
  /\ MayFetch
  /\ opSbj.state = opOld.state /\ opSbj.subjobs = opOld.subjobs
  /\ opSbj.fetch = opOld.fetch \/ (opSbj.fetch /\ opSbj.fetchStatus = "Running")
  /\ opSbj.fetchStatus = opOld.fetchStatus \/ opSbj.fetchStatus # ""

WorkInProgress ==
  /\ opPc # "idle" => /\ SbjExists(opOld) /\ ~opOld.deleting
                      /\ opSbj.rv = opOld.rv
                      /\ opSbj.result = opOld.result /\ opSbj.deleting = opOld.deleting
  /\ opPc = "sizecar" => opSbj = opOld /\ ~Terminal(opOld.state)
  /\ opPc = "worker" => FollowsPod
  /\ opPc = "result" => opSbj = opOld /\ MayFetch
  /\ opPc = "write" => FollowsPod \/ FollowsFetch

VersionInv ==
  /\ CopyOf(cSbj, sbj) /\ CopyOf(opOld, sbj)
  /\ FetchOk(sbj) /\ FetchOk(cSbj) /\ FetchOk(opOld) /\ FetchOk(opSbj)
  /\ SbjExists(sbj) \/ sbj = NoSbj
  /\ WorkInProgress

(* Versions are ordered reflexively. *)
LEMMA NatReflexive == \A n \in Nat : n <= n
  OBVIOUS

(* An object is a copy of itself. *)
LEMMA CopySelf == ASSUME NEW s \in Sbj PROVE CopyOf(s, s)
<1>1. s.rv <= s.rv
  BY NatReflexive DEF Sbj
<1> QED
  BY <1>1 DEF CopyOf

(* The mark of onOwnerCreateFunc leaves a copy of the object, with the same
   fetch fields. *)
LEMMA CopyMarked ==
  ASSUME NEW s \in Sbj
  PROVE  /\ CopyOf(onOwnerCreateFunc(s), s)
         /\ FetchOk(s) => FetchOk(onOwnerCreateFunc(s))
<1> DEFINE t == onOwnerCreateFunc(s)
<1>1. /\ t.rv = s.rv /\ t.result = s.result /\ t.fetch = s.fetch /\ t.fetchStatus = s.fetchStatus
      /\ t = s \/ (s.state = "" /\ t.state = "SUBMITTING")
  BY DEF onOwnerCreateFunc, Sbj
<1>2. t.rv <= s.rv
  BY <1>1, NatReflexive DEF Sbj
<1> HIDE DEF t
<1>3. CopyOf(t, s)
  BY <1>1, <1>2 DEF CopyOf, Terminal, t
<1>4. FetchOk(s) => FetchOk(t)
  BY <1>1 DEF FetchOk, Terminal
<1> QED
  BY <1>3, <1>4 DEF t

(* Copies of a version are old copies of its successor. *)
LEMMA CopyOfNewer ==
  ASSUME NEW o \in Sbj, NEW s \in Sbj, NEW t, CopyOf(o, s), Succeeds(t, s)
  PROVE  CopyOf(o, t)
<1> SUFFICES ASSUME SbjExists(o)
             PROVE  /\ o.rv <= t.rv /\ o.rv # t.rv
                    /\ o.result = t.result
                    /\ Terminal(o.state) => o.state = t.state /\ o.subjobs = t.subjobs
  BY DEF CopyOf
<1>1. o.rv \in Nat /\ s.rv \in Nat /\ o.rv <= s.rv /\ t.rv = s.rv + 1
  BY DEF CopyOf, Succeeds, Sbj
<1>2. o.rv <= t.rv /\ o.rv # t.rv
  BY <1>1
<1>3. o.result = t.result
  BY DEF CopyOf, Succeeds
<1>4. Terminal(o.state) => o.state = t.state /\ o.subjobs = t.subjobs
  BY DEF CopyOf, Succeeds
<1> QED
  BY <1>2, <1>3, <1>4

(* The absent SlurmBridgeJob is a copy of everything. *)
LEMMA CopyAbsent ==
  /\ ~SbjExists(NoSbj) /\ ~NoSbj.deleting /\ FetchOk(NoSbj)
  /\ \A t : CopyOf(NoSbj, t) /\ CopyOf(t, NoSbj)
  BY DEF NoSbj, SbjWithoutStatus, CopyOf, SbjExists, FetchOk

(* The initial states satisfy the invariant. *)
LEMMA VersionInit == Init => VersionInv
<1> SUFFICES ASSUME Init PROVE VersionInv
  OBVIOUS
<1>1. cSbj = NoSbj /\ opOld = NoSbj /\ opSbj = NoSbj /\ opPc = "idle"
  BY DEF Init, OperatorInit
<1>2. SbjExists(sbj) /\ FetchOk(sbj)
  <2>1. PICK spec \in SbjSpecs : sbj = NewSbj(spec[1], spec[2])
    BY DEF Init, KubeInit
  <2>2. sbj.rv = 1
    BY <2>1 DEF NewSbj, SbjWithoutStatus
  <2>3. SbjExists(sbj)
    BY <2>2 DEF SbjExists
  <2>4. FetchOk(sbj)
    BY <2>1 DEF FetchOk, NewSbj, SbjWithoutStatus
  <2> QED
    BY <2>3, <2>4
<1> QED
  BY <1>1, <1>2, CopyAbsent DEF VersionInv, WorkInProgress

(* The virtual kubelet, the agent and Slurm write neither the SlurmBridgeJob
   nor the fetch Job. *)
LEMMA KubeletLeavesSbj == VkNext => UNCHANGED <<sbj, fetchJob>>
<1> SUFFICES ASSUME VkNext PROVE UNCHANGED <<sbj, fetchJob>>
  OBVIOUS
<1> USE DEF kubeVars
<1>1. ASSUME NEW r \in Rpcs, CreatePod(r) \/ SubmitAnswered(r) PROVE UNCHANGED <<sbj, fetchJob>>
  BY <1>1 DEF CreatePod, SubmitAnswered
<1>2. ASSUME NEW r \in Rpcs, SubmitError(r) \/ \E j \in JobIds : SubmitUnparsable(r, j)
      PROVE  UNCHANGED <<sbj, fetchJob>>
  BY <1>2 DEF SubmitError, SubmitUnparsable, CreatePodError, NobodyWaits
<1>3. ASSUME UNCHANGED <<kubeVars, vkVars>> PROVE UNCHANGED <<sbj, fetchJob>>
  BY <1>3
<1>4. ASSUME NEW j \in JobIds, NEW t \in Tasks, Purge(j, t) PROVE UNCHANGED <<sbj, fetchJob>>
  BY <1>4 DEF Purge
<1>5. CASE \/ StoreKnownPod \/ addAndUpdateSlurmJobInfo \/ LabelFails \/ UpdatePod
           \/ PollStarts \/ PollOverwritesLabel
  BY <1>5 DEF StoreKnownPod, addAndUpdateSlurmJobInfo, LabelFails, UpdatePod, PollStarts, PollOverwritesLabel
<1>6. ASSUME NEW role \in Roles, DeletePod(role) \/ DeletePodError(role) \/ PollStatus(role)
      PROVE  UNCHANGED <<sbj, fetchJob>>
  BY <1>6 DEF DeletePod, DeletePodError, PollStatus
<1>7. CASE AgentCrash \/ VkCrash \/ PollPanic \/ StatusNotFound
  BY <1>7 DEF AgentCrash, CreatePodError, VkCrash, PollPanic, VkRestarted, StatusNotFound
<1> QED
  BY <1>1, <1>2, <1>3, <1>4, <1>5, <1>6, <1>7 DEF VkNext

(* Users delete the SlurmBridgeJob or leave it alone. *)
LEMMA UsersDelete == KubeNext => DeleteSbjRequest \/ RemoveSbj \/ UNCHANGED sbj
  BY DEF KubeNext, DeletePodRequest, ForceDeletePod, CollectPod, DeleteFetchJob, FinishFetchJob

LEMMA DeleteSucceeds ==
  ASSUME sbj \in Sbj, DeleteSbjRequest
  PROVE  /\ Succeeds(sbj', sbj) /\ sbj'.deleting /\ SbjExists(sbj')
         /\ sbj'.state = sbj.state /\ sbj'.subjobs = sbj.subjobs
         /\ sbj'.fetch = sbj.fetch /\ sbj'.fetchStatus = sbj.fetchStatus
<1>1. /\ sbj'.rv = sbj.rv + 1 /\ sbj'.result = sbj.result /\ sbj'.deleting
      /\ sbj'.state = sbj.state /\ sbj'.subjobs = sbj.subjobs
      /\ sbj'.fetch = sbj.fetch /\ sbj'.fetchStatus = sbj.fetchStatus
  BY DEF DeleteSbjRequest, Sbj
<1>2. sbj.rv \in Nat
  BY DEF Sbj
<1>3. SbjExists(sbj) /\ SbjExists(sbj')
  BY <1>1, <1>2 DEF DeleteSbjRequest, SbjExists
<1> QED
  BY <1>1, <1>3 DEF Succeeds

(* A change of the SlurmBridgeJob by its users keeps every copy a copy. *)
LEMMA UsersKeepCopies ==
  ASSUME VersionInv, TypeOK, KubeNext, UNCHANGED opVars
  PROVE  VersionInv'
<1> USE DEF opVars
<1>1. sbj \in Sbj /\ cSbj \in Sbj /\ opOld \in Sbj
  BY DEF TypeOK, KubeTypeOK, OperatorTypeOK
<1>2. /\ CopyOf(cSbj, sbj') /\ CopyOf(opOld, sbj') /\ FetchOk(sbj')
      /\ SbjExists(sbj') \/ sbj' = NoSbj
  <2>1. CASE DeleteSbjRequest
    <3>1. CopyOf(cSbj, sbj') /\ CopyOf(opOld, sbj')
      BY <1>1, <2>1, DeleteSucceeds, CopyOfNewer DEF VersionInv
    <3> QED
      BY <1>1, <2>1, <3>1, DeleteSucceeds DEF VersionInv, FetchOk, Succeeds
  <2>2. CASE RemoveSbj
    BY <2>2, CopyAbsent DEF RemoveSbj
  <2>3. CASE UNCHANGED sbj
    BY <2>3 DEF VersionInv
  <2> QED
    BY <2>1, <2>2, <2>3, UsersDelete
<1>3. WorkInProgress'
  BY DEF VersionInv, WorkInProgress, FollowsPod, FollowsFetch, MayFetch
<1> QED
  BY <1>2, <1>3 DEF VersionInv

(* What a fresh list puts into the cache is a copy of the object. *)
LEMMA ListedIsCopy ==
  ASSUME sbj \in Sbj, FetchOk(sbj)
  PROVE  CopyOf(ListedSbj, sbj) /\ FetchOk(ListedSbj)
  BY CopySelf, CopyMarked DEF ListedSbj

(* A restart of the operator forgets its copies and lists again. *)
LEMMA RestartKeepsCopies ==
  ASSUME VersionInv, TypeOK, Restarted, UNCHANGED sbj
  PROVE  VersionInv'
<1>1. CopyOf(ListedSbj, sbj) /\ FetchOk(ListedSbj)
  BY ListedIsCopy DEF VersionInv, TypeOK, KubeTypeOK
<1>2. cSbj' = ListedSbj /\ opPc' = "idle" /\ opOld' = NoSbj /\ opSbj' = NoSbj
  BY DEF Restarted
<1> QED
  BY <1>1, <1>2, CopyAbsent DEF VersionInv, WorkInProgress

(* Informers, resync and restart: caches are refreshed from the object. *)
LEMMA CachesAreCopies ==
  ASSUME VersionInv, TypeOK, SyncSbj \/ SyncPods \/ SyncFetch \/ Resync \/ OperatorCrash
  PROVE  VersionInv'
<1>1. CASE SyncSbj
  <2>1. /\ cSbj' \in {sbj, ListedSbj}
        /\ UNCHANGED <<sbj, opPc, opOld, opSbj>>
    BY <1>1 DEF SyncSbj, kubeVars, opLocals
  <2>2. CopyOf(cSbj', sbj) /\ FetchOk(cSbj')
    BY <2>1, CopySelf, ListedIsCopy DEF VersionInv, TypeOK, KubeTypeOK
  <2> QED
    BY <2>1, <2>2 DEF VersionInv, WorkInProgress, FollowsPod, FollowsFetch, MayFetch
<1>2. CASE SyncPods \/ SyncFetch \/ Resync
  <2>1. UNCHANGED <<sbj, cSbj, opPc, opOld, opSbj>>
    BY <1>2 DEF SyncPods, SyncFetch, Resync, kubeVars, opLocals, caches
  <2> QED
    BY <2>1 DEF VersionInv, WorkInProgress, FollowsPod, FollowsFetch, MayFetch
<1>3. CASE OperatorCrash
  BY <1>3, RestartKeepsCopies DEF OperatorCrash
<1> QED
  BY <1>1, <1>2, <1>3

(* UpdateSBJStatus takes the phase of the pod and leaves the fetch alone. *)
LEMMA UpdateFollowsPod ==
  ASSUME NEW s \in Sbj, NEW p \in Pod
  PROVE  /\ UpdateSBJStatus(s, p).rv = s.rv /\ UpdateSBJStatus(s, p).result = s.result
         /\ UpdateSBJStatus(s, p).deleting = s.deleting
         /\ UpdateSBJStatus(s, p).state \in PodPhase
         /\ UpdateSBJStatus(s, p).fetch = s.fetch
         /\ UpdateSBJStatus(s, p).fetchStatus = s.fetchStatus
<1>1. p.phase \in PodPhase
  BY DEF Pod
<1> QED
  BY <1>1 DEF UpdateSBJStatus, Sbj

(* Returning from Reconcile forgets its copies. *)
LEMMA ReturnKeepsCopies ==
  ASSUME VersionInv, NEW b, Return(b),
         CopyOf(cSbj, sbj'), FetchOk(sbj'), SbjExists(sbj') \/ sbj' = NoSbj
  PROVE  VersionInv'
<1>1. opPc' = "idle" /\ opOld' = NoSbj /\ opSbj' = NoSbj /\ cSbj' = cSbj
  BY DEF Return, caches
<1> QED
  BY <1>1, CopyAbsent DEF VersionInv, WorkInProgress

(* So does a step that leaves the object alone and moves Reconcile on, if it
   keeps what WorkInProgress says. *)
LEMMA MoveKeepsCopies ==
  ASSUME VersionInv, UNCHANGED <<sbj, cSbj, opOld>>, FetchOk(opSbj'), WorkInProgress'
  PROVE  VersionInv'
  BY DEF VersionInv

(* The status Reconcile writes is the next version of the status it read. *)
LEMMA WriteSucceeds ==
  ASSUME VersionInv, TypeOK, UpdateStatus, sbj' # sbj
  PROVE  /\ Succeeds(sbj', sbj) /\ SbjExists(sbj')
         /\ ~sbj'.deleting /\ ~sbj.deleting /\ FetchOk(sbj')
         /\ sbj' = [opSbj EXCEPT !.rv = opSbj.rv + 1]
         /\ opOld \in {sbj, onOwnerCreateFunc(sbj)}
         /\ FollowsPod \/ FollowsFetch
<1>1. sbj \in Sbj /\ opOld \in Sbj /\ opSbj \in Sbj
  BY DEF TypeOK, KubeTypeOK, OperatorTypeOK
<1>2. opPc = "write" /\ sbj.rv = opSbj.rv /\ sbj' = [opSbj EXCEPT !.rv = opSbj.rv + 1]
  BY DEF UpdateStatus
<1>3. /\ SbjExists(opOld) /\ ~opOld.deleting /\ sbj.rv = opOld.rv
      /\ opSbj.result = opOld.result /\ opSbj.deleting = opOld.deleting
      /\ FollowsPod \/ FollowsFetch
  BY <1>2 DEF VersionInv, WorkInProgress
<1>4. SbjExists(sbj)
  BY <1>3 DEF SbjExists
<1>5. opOld \in {sbj, onOwnerCreateFunc(sbj)} /\ opOld.result = sbj.result
  BY <1>3, <1>4 DEF VersionInv, CopyOf
<1>6. /\ opOld.deleting = sbj.deleting
      /\ Terminal(sbj.state) => opOld = sbj
  BY <1>1, <1>5 DEF onOwnerCreateFunc, Terminal, Sbj
<1>7. /\ sbj'.rv = sbj.rv + 1
      /\ sbj'.result = opSbj.result /\ sbj'.deleting = opSbj.deleting
      /\ sbj'.state = opSbj.state /\ sbj'.subjobs = opSbj.subjobs
      /\ sbj'.fetch = opSbj.fetch /\ sbj'.fetchStatus = opSbj.fetchStatus
  BY <1>1, <1>2 DEF Sbj
<1>8. Terminal(sbj.state) => sbj.state = sbj'.state /\ sbj.subjobs = sbj'.subjobs
  BY <1>3, <1>6, <1>7 DEF FollowsPod, FollowsFetch
<1>9. Succeeds(sbj', sbj)
  BY <1>3, <1>4, <1>5, <1>7, <1>8 DEF Succeeds
<1>10. FetchOk(sbj')
  BY <1>7 DEF VersionInv, FetchOk
<1>11. SbjExists(sbj')
  <2>1. sbj.rv \in Nat
    BY <1>1 DEF Sbj
  <2> QED
    BY <1>7, <2>1 DEF SbjExists
<1> QED
  BY <1>2, <1>3, <1>5, <1>6, <1>7, <1>9, <1>10, <1>11

(* Every step of Reconcile preserves the invariant. *)
LEMMA ReconcileKeepsCopies ==
  ASSUME VersionInv, TypeOK, OperatorStep
  PROVE  VersionInv'
<1> USE DEF kubeVars, caches, opLocals
<1>0. sbj \in Sbj /\ cSbj \in Sbj /\ opOld \in Sbj /\ opSbj \in Sbj
  BY DEF TypeOK, KubeTypeOK, OperatorTypeOK
<1>1. CASE BeginReconcile
  <2>1. CASE NothingToDo(cSbj)
    BY <1>1, <2>1, MoveKeepsCopies DEF BeginReconcile, VersionInv, WorkInProgress, FollowsPod,
       FollowsFetch, MayFetch
  <2>2. CASE ~NothingToDo(cSbj)
    <3>1. /\ UNCHANGED <<sbj, cSbj>>
          /\ opOld' = cSbj /\ opSbj' = cSbj
          /\ opPc' = IF Finished(cSbj) THEN "result" ELSE "sizecar"
      BY <1>1, <2>2 DEF BeginReconcile
    <3>2. /\ SbjExists(cSbj) /\ ~cSbj.deleting
          /\ Terminal(cSbj.state) => cSbj.result /\ ~FetchDone(cSbj)
      BY <2>2 DEF NothingToDo, Finished, FetchDone
    <3>3. WorkInProgress'
      BY <3>1, <3>2 DEF WorkInProgress, Finished, MayFetch
    <3> QED
      BY <3>1, <3>3 DEF VersionInv
  <2> QED
    BY <2>1, <2>2
<1>2. CASE FoundSizeCar /\ Return(TRUE)
  BY <1>2, ReturnKeepsCopies DEF FoundSizeCar, VersionInv
<1>3. CASE (FoundSizeCar /\ ~Return(TRUE)) \/ CreateSizeCar
  <2>1. PICK p \in Pod : opSbj' = UpdateSBJStatus(opSbj, p)
    <3>1. cPods["sizecar"] \in Pod
      BY DEF TypeOK, OperatorTypeOK, Roles
    <3>2. CreateSizeCar => CreatedPod(NoJob, {}) \in Pod
      BY CreatedPodType DEF CreateSizeCar, TypeOK, KubeTypeOK
    <3> QED
      BY <1>3, <3>1, <3>2 DEF FoundSizeCar, CreateSizeCar
  <2>2. UNCHANGED <<sbj, cSbj, opOld>> /\ opPc = "sizecar" /\ opPc' = "worker"
    BY <1>3 DEF FoundSizeCar, CreateSizeCar, SizeCarMissing
  <2>3. opSbj = opOld /\ ~Terminal(opOld.state) /\ SbjExists(opOld) /\ ~opOld.deleting
    BY <2>2 DEF VersionInv, WorkInProgress
  <2>4. /\ opSbj'.rv = opOld.rv /\ opSbj'.result = opOld.result
        /\ opSbj'.deleting = opOld.deleting /\ opSbj'.state \in PodPhase
        /\ opSbj'.fetch = opOld.fetch /\ opSbj'.fetchStatus = opOld.fetchStatus
    BY <1>0, <2>1, <2>3, UpdateFollowsPod
  <2>5. WorkInProgress'
    BY <2>2, <2>3, <2>4 DEF WorkInProgress, FollowsPod
  <2>6. FetchOk(opSbj')
    BY <2>3, <2>4 DEF VersionInv, FetchOk
  <2> QED
    BY <2>2, <2>5, <2>6, MoveKeepsCopies
<1>4. CASE CreateSizeCarFails \/ CreateWorkerFails \/ CreateFetchJobFails \/ UpdateStatusFails
  <2>1. (Return(TRUE) \/ Return(FALSE)) /\ UNCHANGED sbj
    BY <1>4 DEF CreateSizeCarFails, CreateWorkerFails, CreateFetchJobFails, UpdateStatusFails
  <2> QED
    BY <2>1, ReturnKeepsCopies DEF VersionInv
<1>5. CASE SizeCarLostPanic
  BY <1>5, RestartKeepsCopies DEF SizeCarLostPanic
<1>6. CASE NoWorkerNeeded \/ CreateWorker
  <2>1. UNCHANGED <<sbj, cSbj, opOld, opSbj>> /\ opPc = "worker" /\ opPc' = "write"
    BY <1>6 DEF NoWorkerNeeded, CreateWorker, MayCreateWorker, WorkerMissing
  <2>2. WorkInProgress'
    BY <2>1 DEF VersionInv, WorkInProgress, FollowsPod
  <2> QED
    BY <2>1, <2>2, MoveKeepsCopies DEF VersionInv
<1>7. CASE SkipResult \/ CreateFetchJob \/ ObserveFetchJob
  <2>1. UNCHANGED <<sbj, cSbj, opOld>> /\ opPc = "result" /\ opPc' = "write"
    BY <1>7 DEF SkipResult, CreateFetchJob, ObserveFetchJob, FetchMissing, ToWrite
  <2>2. opSbj = opOld /\ MayFetch /\ SbjExists(opOld) /\ ~opOld.deleting
    BY <2>1 DEF VersionInv, WorkInProgress
  <2>3. cFetch.status \in {"none", "Running", "Succeeded", "Failed"}
    BY DEF TypeOK, OperatorTypeOK, FetchJob
  <2>4. /\ opSbj'.rv = opOld.rv /\ opSbj'.result = opOld.result /\ opSbj'.deleting = opOld.deleting
        /\ opSbj'.state = opOld.state /\ opSbj'.subjobs = opOld.subjobs
        /\ opSbj'.fetch = opOld.fetch \/ (opSbj'.fetch /\ opSbj'.fetchStatus = "Running")
        /\ opSbj'.fetchStatus = opOld.fetchStatus \/ opSbj'.fetchStatus # ""
    BY <1>0, <1>7, <2>2, <2>3 DEF SkipResult, CreateFetchJob, ObserveFetchJob, ToWrite, Sbj
  <2>5. WorkInProgress'
    BY <2>1, <2>2, <2>4 DEF WorkInProgress, FollowsFetch, MayFetch
  <2>6. FetchOk(opSbj')
    BY <2>2, <2>4 DEF FetchOk, MayFetch
  <2> QED
    BY <2>1, <2>5, <2>6, MoveKeepsCopies
<1>8. CASE UpdateStatus
  <2>1. Return(FALSE)
    BY <1>8 DEF UpdateStatus
  <2>2. CASE sbj' = sbj
    BY <2>1, <2>2, ReturnKeepsCopies DEF VersionInv
  <2>3. CASE sbj' # sbj
    <3>1. CopyOf(cSbj, sbj')
      BY <1>0, <1>8, <2>3, WriteSucceeds, CopyOfNewer DEF VersionInv
    <3> QED
      BY <1>8, <2>1, <2>3, <3>1, WriteSucceeds, ReturnKeepsCopies
  <2> QED
    BY <2>2, <2>3
<1> QED
  BY <1>1, <1>2, <1>3, <1>4, <1>5, <1>6, <1>7, <1>8 DEF OperatorStep

(* Every step of the bridge preserves the invariant. *)
LEMMA VersionStep == TypeOK /\ VersionInv /\ [Next]_vars => VersionInv'
<1> SUFFICES ASSUME TypeOK, VersionInv, [Next]_vars PROVE VersionInv'
  OBVIOUS
<1>1. CASE KubeNext /\ UNCHANGED opVars
  BY <1>1, UsersKeepCopies
<1>2. CASE OperatorNext
  BY <1>2, CachesAreCopies, ReconcileKeepsCopies DEF OperatorNext
<1>3. CASE UNCHANGED <<sbj, opVars>>
  BY <1>3 DEF opVars, VersionInv, WorkInProgress, FollowsPod, FollowsFetch, MayFetch
<1> QED
  BY <1>1, <1>2, <1>3, KubeletLeavesSbj DEF Next, vars, kubeVars

(* The operator's copies are copies of versions of the SlurmBridgeJob. *)
THEOREM CopiesAreVersions == Spec => []VersionInv
<1> QED
  BY VersionInit, VersionStep, TypeCorrect, PTL DEF Spec

(* A step leaves the SlurmBridgeJob alone, deletes it or writes its status. *)
LEMMA SbjSteps == [Next]_vars => UNCHANGED sbj \/ DeleteSbjRequest \/ RemoveSbj \/ UpdateStatus
<1> SUFFICES ASSUME [Next]_vars PROVE UNCHANGED sbj \/ DeleteSbjRequest \/ RemoveSbj \/ UpdateStatus
  OBVIOUS
<1>1. CASE OperatorNext
  BY <1>1 DEF OperatorNext, OperatorStep, SyncSbj, SyncPods, SyncFetch, Resync, OperatorCrash,
       BeginReconcile, FoundSizeCar, CreateSizeCar, CreateSizeCarFails, SizeCarLostPanic,
       NoWorkerNeeded, CreateWorker, CreateWorkerFails, SkipResult, CreateFetchJob,
       CreateFetchJobFails, ObserveFetchJob, UpdateStatusFails, kubeVars
<1> QED
  BY <1>1, KubeletLeavesSbj, UsersDelete DEF Next, vars, kubeVars

(* A finished SlurmBridgeJob keeps its state and its sub job statuses: no
   interleaving of stale caches, lost writes, restarts of the operator, pod
   deletions and retries reopens it. *)
THEOREM FinishedStaysFinished == Spec => FinishedIsFinal
<1>1. ASSUME TypeOK, VersionInv, [Next]_vars, SbjExists(sbj), Terminal(sbj.state), SbjExists(sbj')
      PROVE  sbj'.state = sbj.state /\ sbj'.subjobs = sbj.subjobs
  <2>1. CASE RemoveSbj
    BY <1>1, <2>1, CopyAbsent DEF RemoveSbj
  <2>2. CASE DeleteSbjRequest
    BY <1>1, <2>2, DeleteSucceeds DEF TypeOK, KubeTypeOK
  <2>3. CASE UpdateStatus
    BY <1>1, <2>3, WriteSucceeds DEF Succeeds
  <2> QED
    BY <1>1, <2>1, <2>2, <2>3, SbjSteps
<1>2. TypeOK /\ VersionInv /\ [Next]_vars =>
        [SbjExists(sbj) /\ Terminal(sbj.state) /\ SbjExists(sbj)'
           => sbj'.state = sbj.state /\ sbj'.subjobs = sbj.subjobs]_vars
  BY <1>1 DEF SbjExists
<1> QED
  BY <1>2, CopiesAreVersions, TypeCorrect, PTL DEF Spec, FinishedIsFinal

-----------------------------------------------------------------------------
(* The refinement. *)

(* The refinement mapping as functions of the SlurmBridgeJob. *)
PhaseOf(s) ==
  IF ~SbjExists(s) THEN "gone"
  ELSE IF s.state = "" THEN "new" ELSE IF Terminal(s.state) THEN s.state ELSE "active"

FetchOf(s) ==
  IF ~SbjExists(s) THEN "none"
  ELSE IF FetchDone(s) THEN "done"
  ELSE IF ~s.fetch /\ s.fetchStatus = "" THEN "none" ELSE "started"

LEMMA LifeOfSbj == LifePhase = PhaseOf(sbj) /\ LifeFetch = FetchOf(sbj)
<1>1. LifePhase = PhaseOf(sbj)
  BY DEF LifePhase, PhaseOf, Finished, Terminal
<1>2. LifeFetch = FetchOf(sbj)
  BY DEF LifeFetch, FetchOf, FetchDone, isFinishedFetchResult
<1> QED
  BY <1>1, <1>2

LEMMA LifeOfNext == LifePhase' = PhaseOf(sbj') /\ LifeFetch' = FetchOf(sbj')
<1>1. LifePhase' = PhaseOf(sbj')
  BY DEF LifePhase, PhaseOf, Finished, Terminal, SbjExists
<1>2. LifeFetch' = FetchOf(sbj')
  BY DEF LifeFetch, FetchOf, FetchDone, isFinishedFetchResult, SbjExists
<1> QED
  BY <1>1, <1>2

(* A SlurmBridgeJob starts its life new. *)
LEMMA LifeStart == Init => Life!LifeInit
<1> SUFFICES ASSUME Init PROVE Life!LifeInit
  OBVIOUS
<1>1. PICK spec \in SbjSpecs : sbj = NewSbj(spec[1], spec[2])
  BY DEF Init, KubeInit
<1>2. sbj.rv = 1
  BY <1>1 DEF NewSbj, SbjWithoutStatus
<1>3. SbjExists(sbj)
  BY <1>2 DEF SbjExists
<1>4. sbj.result \in BOOLEAN
  BY <1>1, KubeAssumption DEF NewSbj, SbjWithoutStatus
<1>5. PhaseOf(sbj) = "new"
  BY <1>1, <1>3 DEF PhaseOf, NewSbj, SbjWithoutStatus
<1>6. FetchOf(sbj) = "none"
  BY <1>1, <1>3 DEF FetchOf, FetchDone, NewSbj, SbjWithoutStatus
<1> QED
  BY <1>4, <1>5, <1>6, LifeOfSbj DEF Life!LifeInit

(* A status write moves the life on, or changes nothing of it. *)
LEMMA LifeOfWrite ==
  ASSUME VersionInv, TypeOK, UpdateStatus, sbj' # sbj
  PROVE  Life!LifeNext \/ UNCHANGED Life!lifeVars
<1>1. sbj \in Sbj /\ opOld \in Sbj /\ opSbj \in Sbj
  BY DEF TypeOK, KubeTypeOK, OperatorTypeOK
<1>2. /\ SbjExists(sbj) /\ SbjExists(sbj') /\ sbj'.result = sbj.result
      /\ opOld \in {sbj, onOwnerCreateFunc(sbj)}
      /\ FetchOk(sbj) /\ FetchOk(sbj')
  BY WriteSucceeds DEF Succeeds, VersionInv
<1>3. /\ sbj'.state = opSbj.state
      /\ sbj'.fetch = opSbj.fetch /\ sbj'.fetchStatus = opSbj.fetchStatus
  BY <1>1, WriteSucceeds DEF Sbj
<1>4. /\ opOld.fetch = sbj.fetch /\ opOld.fetchStatus = sbj.fetchStatus /\ opOld.result = sbj.result
      /\ opOld.state = sbj.state \/ (sbj.state = "" /\ opOld.state = "SUBMITTING")
  BY <1>1, <1>2 DEF onOwnerCreateFunc, Sbj
<1>5. CASE FollowsPod
  <2>1. ~Terminal(sbj.state) /\ sbj'.state # ""
    BY <1>3, <1>4, <1>5 DEF FollowsPod, Terminal, PodPhase
  <2>2. FetchOf(sbj) = "none" /\ FetchOf(sbj') = "none"
    BY <1>2, <1>3, <1>4, <1>5, <2>1 DEF FollowsPod, FetchOf, FetchDone, FetchOk
  <2>3. PhaseOf(sbj) \in {"new", "active"}
    BY <1>2, <2>1 DEF PhaseOf
  <2>4. PhaseOf(sbj') \in {"active", "Succeeded", "Failed"}
    BY <1>2, <2>1 DEF PhaseOf, Terminal
  <2> QED
    BY <1>2, <2>2, <2>3, <2>4, LifeOfSbj, LifeOfNext
    DEF Life!LifeNext, Life!Activate, Life!Finish, Life!lifeVars
<1>6. CASE FollowsFetch
  <2>1. Terminal(sbj.state) /\ sbj'.state = sbj.state /\ sbj.result
    BY <1>3, <1>4, <1>6 DEF FollowsFetch, MayFetch, Terminal
  <2>2. PhaseOf(sbj) \in {"Succeeded", "Failed"} /\ PhaseOf(sbj') = PhaseOf(sbj)
    BY <1>2, <2>1 DEF PhaseOf, Terminal
  <2>3. FetchOf(sbj) \in {"none", "started"}
    BY <1>2, <1>4, <1>6 DEF FetchOf, FetchDone, FollowsFetch, MayFetch
  <2>4. FetchOf(sbj') \in {"none", "started", "done"}
    BY <1>2 DEF FetchOf
  <2>5. FetchOf(sbj) = "none" => FetchOf(sbj') # "done"
    <3> SUFFICES ASSUME ~sbj.fetch, FetchDone(sbj') PROVE FALSE
      BY <1>2 DEF FetchOf, FetchDone
    <3>1. sbj'.fetch /\ sbj'.fetchStatus # "Running"
      BY DEF FetchDone, isFinishedFetchResult
    <3> QED
      BY <1>3, <1>4, <1>6, <3>1 DEF FollowsFetch
  <2>6. FetchOf(sbj) = "started" => FetchOf(sbj') # "none"
    <3> SUFFICES ASSUME sbj.fetch \/ sbj.fetchStatus # "", ~sbj'.fetch, sbj'.fetchStatus = "" PROVE FALSE
      BY <1>2 DEF FetchOf
    <3> QED
      BY <1>3, <1>4, <1>6 DEF FollowsFetch
  <2> QED
    BY <1>2, <2>1, <2>2, <2>3, <2>4, <2>5, <2>6, LifeOfSbj, LifeOfNext
    DEF Life!LifeNext, Life!StartFetch, Life!EndFetch, Life!lifeVars
<1> QED
  BY <1>5, <1>6, WriteSucceeds

(* Every step of the bridge is a step of the life cycle or leaves it alone. *)
LEMMA LifeStep == TypeOK /\ VersionInv /\ [Next]_vars => [Life!LifeNext]_(Life!lifeVars)
<1> SUFFICES ASSUME TypeOK, VersionInv, [Next]_vars PROVE Life!LifeNext \/ UNCHANGED Life!lifeVars
  OBVIOUS
<1>1. CASE UNCHANGED sbj
  BY <1>1, LifeOfSbj, LifeOfNext DEF Life!lifeVars
<1>2. CASE DeleteSbjRequest
  <2>1. /\ SbjExists(sbj) /\ SbjExists(sbj') /\ sbj'.result = sbj.result
        /\ sbj'.state = sbj.state /\ sbj'.fetch = sbj.fetch /\ sbj'.fetchStatus = sbj.fetchStatus
    BY <1>2, DeleteSucceeds DEF TypeOK, KubeTypeOK, Succeeds
  <2>2. PhaseOf(sbj') = PhaseOf(sbj) /\ FetchOf(sbj') = FetchOf(sbj)
    BY <2>1 DEF PhaseOf, FetchOf, FetchDone
  <2> QED
    BY <2>1, <2>2, LifeOfSbj, LifeOfNext DEF Life!lifeVars
<1>3. CASE RemoveSbj
  <2>1. SbjExists(sbj) /\ sbj' = NoSbj
    BY <1>3, CopyAbsent DEF RemoveSbj, VersionInv
  <2>2. PhaseOf(sbj) # "gone"
    BY <2>1 DEF PhaseOf, Terminal
  <2>3. PhaseOf(sbj') = "gone" /\ FetchOf(sbj') = "none"
    BY <2>1, CopyAbsent DEF PhaseOf, FetchOf
  <2>4. sbj'.result = FALSE
    BY <2>1 DEF NoSbj, SbjWithoutStatus
  <2> QED
    BY <2>2, <2>3, <2>4, LifeOfSbj, LifeOfNext DEF Life!LifeNext, Life!Remove
<1>4. CASE UpdateStatus
  BY <1>1, <1>4, LifeOfWrite
<1> QED
  BY <1>1, <1>2, <1>3, <1>4, SbjSteps

(* The status of the SlurmBridgeJob implements JobLifecycle: new, active,
   finished for good; the result fetched after that, only if it was asked for,
   and not again once it is recorded. *)
THEOREM BridgeRefinesLifecycle == Spec => RefinesLifecycle
<1> QED
  BY LifeStart, LifeStep, CopiesAreVersions, TypeCorrect, PTL DEF Spec, RefinesLifecycle, Life!LifeSpec

-----------------------------------------------------------------------------
(* The outcome of the fetch. *)

(* Every place in which an outcome of the fetch Job is noted. *)
Noted == {cFetch.status, sbj.fetchStatus, cSbj.fetchStatus, opOld.fetchStatus, opSbj.fetchStatus}

(* Nobody has deleted the fetch Job so far. *)
FetchKept == SbjExists(sbj) /\ ~sbj.deleting /\ "deleteFetch" \notin seen

NotedIsTrue == FetchKept => \A x \in Noted : isFinishedFetchResult(x) => fetchJob.status = x

(* Restarting and returning note nothing new. *)
LEMMA NotedOnRestart ==
  ASSUME TypeOK, Restarted, UNCHANGED sbj
  PROVE  Noted' \subseteq Noted \cup {"", "Running", fetchJob.status}
<1>1. sbj \in Sbj
  BY DEF TypeOK, KubeTypeOK
<1>2. cSbj'.fetchStatus = sbj.fetchStatus
  BY <1>1 DEF Restarted, ListedSbj, onOwnerCreateFunc, Sbj
<1>3. opOld'.fetchStatus = "" /\ opSbj'.fetchStatus = "" /\ cFetch' = fetchJob
  BY DEF Restarted, NoSbj, SbjWithoutStatus
<1> QED
  BY <1>2, <1>3 DEF Noted

LEMMA NotedOnReturn ==
  ASSUME NEW b, Return(b), sbj'.fetchStatus \in Noted \cup {""}
  PROVE  Noted' \subseteq Noted \cup {"", "Running"}
<1>1. /\ opOld'.fetchStatus = "" /\ opSbj'.fetchStatus = ""
      /\ cSbj' = cSbj /\ cFetch' = cFetch
  BY DEF Return, NoSbj, SbjWithoutStatus, caches
<1> QED
  BY <1>1 DEF Noted

(* An outcome that is noted was noted before, or read from the Job. *)
LEMMA NotedStep ==
  ASSUME TypeOK, [Next]_vars
  PROVE  \/ Noted' \subseteq Noted \cup {"", "Running"}
         \/ UNCHANGED fetchJob /\ Noted' \subseteq Noted \cup {"", "Running", fetchJob.status}
<1> USE DEF kubeVars, caches, opLocals
<1>0. sbj \in Sbj /\ cSbj \in Sbj /\ opOld \in Sbj /\ opSbj \in Sbj
  BY DEF TypeOK, KubeTypeOK, OperatorTypeOK
<1>1. CASE UNCHANGED opVars /\ sbj'.fetchStatus \in {"", sbj.fetchStatus}
  BY <1>1 DEF opVars, Noted
<1>2. CASE KubeNext /\ UNCHANGED opVars
  <2>1. CASE DeleteSbjRequest
    BY <1>0, <1>1, <1>2, <2>1, DeleteSucceeds
  <2>2. CASE RemoveSbj
    BY <1>1, <1>2, <2>2 DEF RemoveSbj, NoSbj, SbjWithoutStatus
  <2> QED
    BY <1>1, <1>2, <2>1, <2>2, UsersDelete
<1>3. CASE SyncSbj
  <2>1. cSbj'.fetchStatus = sbj.fetchStatus
    BY <1>0, <1>3 DEF SyncSbj, ListedSbj, onOwnerCreateFunc, Sbj
  <2> QED
    BY <1>3, <2>1 DEF SyncSbj, Noted
<1>4. CASE SyncPods \/ SyncFetch \/ Resync
  BY <1>4 DEF SyncPods, SyncFetch, Resync, Noted
<1>5. CASE OperatorCrash \/ SizeCarLostPanic
  BY <1>5, NotedOnRestart DEF OperatorCrash, SizeCarLostPanic
<1>6. CASE BeginReconcile
  BY <1>6 DEF BeginReconcile, Noted
<1>7. CASE CreateSizeCarFails \/ CreateWorkerFails \/ CreateFetchJobFails \/ UpdateStatusFails
  <2>1. (Return(TRUE) \/ Return(FALSE)) /\ UNCHANGED sbj
    BY <1>7 DEF CreateSizeCarFails, CreateWorkerFails, CreateFetchJobFails, UpdateStatusFails
  <2> QED
    BY <2>1, NotedOnReturn DEF Noted
<1>8. CASE FoundSizeCar /\ Return(TRUE)
  BY <1>8, NotedOnReturn DEF FoundSizeCar, Noted
<1>9. CASE (FoundSizeCar /\ ~Return(TRUE)) \/ CreateSizeCar
  <2>1. PICK p : opSbj' = UpdateSBJStatus(opSbj, p)
    BY <1>9 DEF FoundSizeCar, CreateSizeCar
  <2>2. opSbj'.fetchStatus = opSbj.fetchStatus
    BY <1>0, <2>1 DEF UpdateSBJStatus, Sbj
  <2>3. UNCHANGED <<sbj, cSbj, opOld, cFetch>>
    BY <1>9 DEF FoundSizeCar, CreateSizeCar
  <2> QED
    BY <2>2, <2>3 DEF Noted
<1>10. CASE NoWorkerNeeded \/ CreateWorker
  BY <1>10 DEF NoWorkerNeeded, CreateWorker, Noted
<1>11. CASE SkipResult \/ CreateFetchJob \/ ObserveFetchJob
  <2>1. opSbj'.fetchStatus \in {opSbj.fetchStatus, "Running", cFetch.status}
    BY <1>0, <1>11 DEF SkipResult, CreateFetchJob, ObserveFetchJob, ToWrite, Sbj
  <2>2. UNCHANGED <<sbj, cSbj, opOld, cFetch>>
    BY <1>11 DEF SkipResult, CreateFetchJob, ObserveFetchJob, ToWrite
  <2> QED
    BY <2>1, <2>2 DEF Noted
<1>12. CASE UpdateStatus
  <2>1. sbj'.fetchStatus \in {sbj.fetchStatus, opSbj.fetchStatus}
    BY <1>0, <1>12 DEF UpdateStatus, Sbj
  <2> QED
    BY <1>12, <2>1, NotedOnReturn DEF UpdateStatus, Noted
<1>13. CASE OperatorNext
  BY <1>3, <1>4, <1>5, <1>6, <1>7, <1>8, <1>9, <1>10, <1>11, <1>12, <1>13 DEF OperatorNext, OperatorStep
<1> QED
  BY <1>1, <1>2, <1>13, KubeletLeavesSbj DEF Next, vars

(* The fetch Job runs, ends, is created or is deleted. *)
LEMMA FetchJobSteps ==
  ASSUME [Next]_vars
  PROVE  UNCHANGED fetchJob \/ DeleteFetchJob \/ FinishFetchJob \/ CreateFetchJob
<1> USE DEF kubeVars
<1>1. CASE KubeNext
  BY <1>1 DEF KubeNext, DeletePodRequest, ForceDeletePod, CollectPod, DeleteSbjRequest, RemoveSbj
<1>2. CASE OperatorNext
  BY <1>2 DEF OperatorNext, OperatorStep, SyncSbj, SyncPods, SyncFetch, Resync, OperatorCrash,
       BeginReconcile, FoundSizeCar, CreateSizeCar, CreateSizeCarFails, SizeCarLostPanic,
       NoWorkerNeeded, CreateWorker, CreateWorkerFails, SkipResult,
       CreateFetchJobFails, ObserveFetchJob, UpdateStatus, UpdateStatusFails
<1> QED
  BY <1>1, <1>2, KubeletLeavesSbj DEF Next, vars

(* A fetch Job that is kept was kept before: a deletion is not undone. *)
LEMMA KeptBefore ==
  ASSUME TypeOK, VersionInv, [Next]_vars, FetchKept'
  PROVE  FetchKept /\ ~DeleteFetchJob
<1>1. SbjExists(sbj') /\ ~sbj'.deleting /\ "deleteFetch" \notin seen'
  BY DEF FetchKept, SbjExists
<1>2. SbjExists(sbj) /\ ~sbj.deleting
  <2>1. CASE DeleteSbjRequest
    BY <1>1, <2>1, DeleteSucceeds DEF TypeOK, KubeTypeOK
  <2>2. CASE RemoveSbj
    BY <1>1, <2>2, CopyAbsent DEF RemoveSbj
  <2>3. CASE UpdateStatus /\ sbj' # sbj
    BY <2>3, WriteSucceeds DEF Succeeds
  <2> QED
    BY <1>1, <2>1, <2>2, <2>3, SbjSteps
<1>3. "deleteFetch" \notin seen
  BY <1>1, SeenGrows
<1>4. ~DeleteFetchJob
  BY <1>1, <1>2 DEF DeleteFetchJob, Fault
<1> QED
  BY <1>2, <1>3, <1>4 DEF FetchKept

LEMMA NotedTrueStep == TypeOK /\ VersionInv /\ NotedIsTrue /\ [Next]_vars => NotedIsTrue'
<1> SUFFICES ASSUME TypeOK, VersionInv, NotedIsTrue, [Next]_vars, FetchKept',
                    NEW x \in Noted', isFinishedFetchResult(x)
             PROVE  fetchJob'.status = x
  BY DEF NotedIsTrue, isFinishedFetchResult
<1>1. FetchKept /\ ~DeleteFetchJob
  BY KeptBefore
<1>2. x # "" /\ x # "Running" /\ x # "none"
  BY DEF isFinishedFetchResult
<1>3. \/ x \in Noted
      \/ UNCHANGED fetchJob /\ x = fetchJob.status
  BY <1>2, NotedStep
<1>4. CASE x \in Noted
  <2>1. fetchJob.status = x
    BY <1>1, <1>4 DEF NotedIsTrue
  <2>2. ~FinishFetchJob /\ ~CreateFetchJob
    BY <1>2, <2>1 DEF FinishFetchJob, CreateFetchJob, JobExists
  <2> QED
    BY <1>1, <2>1, <2>2, FetchJobSteps
<1> QED
  BY <1>3, <1>4

(* FetchResultStatus, once final, is the outcome of the fetch Job that
   exists, unless a Job was deleted. *)
THEOREM FetchStatusIsTrue == Spec => []FetchStatusTrue
<1>1. Init => NotedIsTrue
  <2> SUFFICES ASSUME Init, NEW x \in Noted PROVE ~isFinishedFetchResult(x)
    BY DEF NotedIsTrue
  <2>1. cSbj = NoSbj /\ opOld = NoSbj /\ opSbj = NoSbj /\ cFetch = NoFetchJob
    BY DEF Init, OperatorInit
  <2>2. PICK spec \in SbjSpecs : sbj = NewSbj(spec[1], spec[2])
    BY DEF Init, KubeInit
  <2>3. sbj.fetchStatus = "" /\ NoSbj.fetchStatus = "" /\ NoFetchJob.status = "none"
    BY <2>2 DEF NewSbj, NoSbj, SbjWithoutStatus, NoFetchJob
  <2> QED
    BY <2>1, <2>3 DEF Noted, isFinishedFetchResult
<1>2. VersionInv /\ NotedIsTrue => FetchStatusTrue
  <2> SUFFICES ASSUME VersionInv, NotedIsTrue, isFinishedFetchResult(sbj.fetchStatus),
                      ~sbj.deleting, "deleteFetch" \notin seen
               PROVE  fetchJob.status = sbj.fetchStatus
    BY DEF FetchStatusTrue
  <2>1. NoSbj.fetchStatus = ""
    BY DEF NoSbj, SbjWithoutStatus
  <2>2. SbjExists(sbj)
    BY <2>1 DEF VersionInv, isFinishedFetchResult
  <2> QED
    BY <2>2 DEF NotedIsTrue, FetchKept, Noted
<1> QED
  BY <1>1, <1>2, NotedTrueStep, CopiesAreVersions, TypeCorrect, PTL DEF Spec
=============================================================================
