------------------------- MODULE BridgeReportProofs -------------------------
(***************************************************************************)
(* Proofs about what the pods and the SlurmBridgeJob report of Slurm, for  *)
(* any number of pods, jobs, tasks, calls and faults: FetchAfterFinish,    *)
(* SucceededIsTrue and PanicNeedsCause of SlurmBridge.                     *)
(*                                                                         *)
(* A report travels from the records of Slurm through the message of the   *)
(* sizecar pod, the operator's caches and local copies, into the status of *)
(* the SlurmBridgeJob, the worker pod and the fetch Job. Each invariant    *)
(* below says of every place on this way what the property says at its     *)
(* end, and is kept because records only go forward.                       *)
(***************************************************************************)
EXTENDS BridgePodProofs

-----------------------------------------------------------------------------
(* The way of a report. *)

(* What a step can do to the contents of the sizecar pod. *)
SizecarPolled ==
  /\ \/ PollStatus("sizecar") /\ pods'["sizecar"].job = pods["sizecar"].job
     \/ PollOverwritesLabel /\ pods'["sizecar"].job = NoJob
  /\ pods'["sizecar"].uid = pods["sizecar"].uid
  /\ pods'["sizecar"].deleting = pods["sizecar"].deleting
  /\ pods'["sizecar"].msg = InfoMsg(RecordInfo(getSlurmJobId(pods["sizecar"])))
  /\ pods'["sizecar"].phase = slurmState2PodPhase(RecordInfo(getSlurmJobId(pods["sizecar"])))

SizecarFailed ==
  /\ pods'["sizecar"].uid = pods["sizecar"].uid /\ pods'["sizecar"].job = pods["sizecar"].job
  /\ pods'["sizecar"].deleting = pods["sizecar"].deleting
  /\ pods'["sizecar"].phase = "Failed" /\ pods'["sizecar"].msg = TextMsg

SizecarDeleted ==
  /\ pods'["sizecar"].uid = pods["sizecar"].uid /\ pods'["sizecar"].job = pods["sizecar"].job
  /\ pods'["sizecar"].phase = pods["sizecar"].phase /\ pods'["sizecar"].msg = pods["sizecar"].msg
  /\ pods'["sizecar"].deleting

SizecarLabelled ==
  /\ addAndUpdateSlurmJobInfo
  /\ pods'["sizecar"].uid = pods["sizecar"].uid /\ pods'["sizecar"].job = vkCall.job
  /\ pods'["sizecar"].deleting = pods["sizecar"].deleting
  /\ pods'["sizecar"].phase = pods["sizecar"].phase /\ pods'["sizecar"].msg = pods["sizecar"].msg

LEMMA FailedContents ==
  ASSUME TypeOK,
         pods' = [pods EXCEPT !["sizecar"].phase = "Failed", !["sizecar"].msg = TextMsg]
  PROVE  SizecarFailed
  BY DEF TypeOK, KubeTypeOK, Roles, Pod, SizecarFailed

LEMMA SizecarContents ==
  ASSUME TypeOK, [Next]_vars
  PROVE  \/ pods'["sizecar"] = pods["sizecar"]
         \/ SizecarPolled \/ SizecarFailed \/ SizecarDeleted \/ SizecarLabelled
         \/ CreateSizeCar /\ pods'["sizecar"] = CreatedPod(NoJob, {})
         \/ pods'["sizecar"] = NoPod
<1> DEFINE Goal == \/ pods'["sizecar"] = pods["sizecar"]
                   \/ SizecarPolled \/ SizecarFailed \/ SizecarDeleted \/ SizecarLabelled
                   \/ CreateSizeCar /\ pods'["sizecar"] = CreatedPod(NoJob, {})
                   \/ pods'["sizecar"] = NoPod
<1>t. "sizecar" \in Roles /\ "worker" \in Roles /\ "sizecar" # "worker" /\ pods \in [Roles -> Pod]
  BY DEF Roles, TypeOK, KubeTypeOK
<1>1. ASSUME UNCHANGED pods PROVE Goal
  BY <1>1
<1>2. ASSUME NEW role \in Roles, DeletePodRequest(role) \/ CollectPod(role) PROVE Goal
  <2>1. pods' = [pods EXCEPT ![role].deleting = TRUE]
    BY <1>2 DEF DeletePodRequest, CollectPod
  <2>2. CASE role = "sizecar"
    BY <1>t, <2>1, <2>2 DEF SizecarDeleted, Pod
  <2>3. CASE role # "sizecar"
    BY <1>t, <2>1, <2>3
  <2> QED
    BY <2>2, <2>3
<1>3. ASSUME NEW role \in Roles, ForceDeletePod(role) \/ DeletePod(role) PROVE Goal
  <2>1. pods' = [pods EXCEPT ![role] = NoPod]
    BY <1>3 DEF ForceDeletePod, DeletePod
  <2> QED
    BY <1>t, <2>1
<1>4. ASSUME KubeNext PROVE Goal
  BY <1>1, <1>2, <1>3, <1>4 DEF KubeNext, DeleteSbjRequest, RemoveSbj, DeleteFetchJob, FinishFetchJob
<1>5. ASSUME CreateSizeCar PROVE Goal
  BY <1>t, <1>5 DEF CreateSizeCar
<1>6. ASSUME CreateWorker PROVE Goal
  BY <1>t, <1>6 DEF CreateWorker
<1>7. ASSUME OperatorNext PROVE Goal
  BY <1>1, <1>5, <1>6, <1>7 DEF OperatorNext, OperatorStep, SyncSbj, SyncPods, SyncFetch, Resync, OperatorCrash,
       BeginReconcile, FoundSizeCar, CreateSizeCarFails, SizeCarLostPanic,
       NoWorkerNeeded, CreateWorkerFails, SkipResult, CreateFetchJob,
       CreateFetchJobFails, ObserveFetchJob, UpdateStatus, UpdateStatusFails, kubeVars
<1>8. ASSUME VkNext PROVE Goal
  <2>1. ASSUME NEW r \in Rpcs, CreatePod(r) \/ SubmitAnswered(r) PROVE UNCHANGED pods
    BY <2>1 DEF CreatePod, SubmitAnswered, kubeVars
  <2>2. ASSUME CreatePodError PROVE Goal
    BY <1>1, <2>2, FailedContents DEF CreatePodError
  <2>3. ASSUME NEW r \in Rpcs, SubmitError(r) \/ \E j \in JobIds : SubmitUnparsable(r, j) PROVE Goal
    BY <1>1, <2>2, <2>3 DEF SubmitError, SubmitUnparsable, NobodyWaits
  <2>4. ASSUME PollStatus("sizecar") PROVE Goal
    <3>1. pods'["sizecar"] = [pods["sizecar"] EXCEPT
              !.phase = slurmState2PodPhase(RecordInfo(getSlurmJobId(pods["sizecar"]))),
              !.msg = InfoMsg(RecordInfo(getSlurmJobId(pods["sizecar"])))]
      BY <1>t, <2>4 DEF PollStatus, Shown
    <3> QED
      BY <1>t, <2>4, <3>1 DEF SizecarPolled, Pod
  <2>5. ASSUME PollStatus("worker") PROVE Goal
    BY <1>t, <2>5 DEF PollStatus
  <2>o. ASSUME PollOverwritesLabel PROVE Goal
    <3>1. pods'["sizecar"] = [pods["sizecar"] EXCEPT
              !.phase = slurmState2PodPhase(RecordInfo(getSlurmJobId(pods["sizecar"]))),
              !.msg = InfoMsg(RecordInfo(getSlurmJobId(pods["sizecar"]))), !.job = NoJob]
      BY <1>t, <2>o DEF PollOverwritesLabel, Shown, Pod
    <3> QED
      BY <1>t, <2>o, <3>1 DEF SizecarPolled, Pod
  <2>6. ASSUME NEW role \in Roles, DeletePodError(role) PROVE UNCHANGED pods
    BY <2>6 DEF DeletePodError
  <2>7. ASSUME AgentCrash PROVE Goal
    BY <1>1, <2>2, <2>7 DEF AgentCrash
  <2>8. ASSUME StatusNotFound PROVE Goal
    BY <2>8, FailedContents DEF StatusNotFound
  <2>9. ASSUME addAndUpdateSlurmJobInfo PROVE Goal
    BY <1>t, <2>9 DEF addAndUpdateSlurmJobInfo, SizecarLabelled, Pod
  <2>10. ASSUME \/ StoreKnownPod \/ LabelFails \/ UpdatePod \/ PollStarts \/ VkCrash \/ PollPanic
                \/ \E j \in JobIds, t \in Tasks : Purge(j, t)
         PROVE  UNCHANGED pods
    BY <2>10 DEF StoreKnownPod, LabelFails, UpdatePod, PollStarts, VkCrash, PollPanic, VkRestarted, Purge,
       kubeVars
  <2> QED
    BY <1>1, <1>3, <1>8, <2>1, <2>3, <2>4, <2>5, <2>o, <2>6, <2>7, <2>8, <2>9, <2>10 DEF VkNext, Roles, kubeVars
<1> QED
  BY <1>1, <1>4, <1>7, <1>8 DEF Next, vars, kubeVars

(* The copies of the SlurmBridgeJob, the object itself included. *)
Copies == {sbj, cSbj, opOld, opSbj}

(* t reports what s does, up to the SUBMITTING of onOwnerCreateFunc. *)
ReportsAs(t, s) ==
  /\ t.subjobs = s.subjobs /\ t.endpoint = s.endpoint
  /\ t.state = s.state \/ t.state = "SUBMITTING"

(* A copy reports what a copy reported before, or what the sizecar pod adds. *)
LEMMA CopySteps ==
  ASSUME TypeOK, [Next]_vars, NEW t \in Copies'
  PROVE  \/ \E s \in Copies \cup {NoSbj} : ReportsAs(t, s)
         \/ t = UpdateSBJStatus(opSbj, cPods["sizecar"])
         \/ t = UpdateSBJStatus(opSbj, CreatedPod(NoJob, {}))
<1>t. sbj \in Sbj /\ cSbj \in Sbj /\ opOld \in Sbj /\ opSbj \in Sbj
  BY DEF TypeOK, KubeTypeOK, OperatorTypeOK
<1>0. \A s : ReportsAs(s, s)
  BY DEF ReportsAs
<1>1. CASE t = sbj'
  <2>1. CASE UpdateStatus
    BY <1>1, <2>1, WrittenStatus DEF Copies, ReportsAs
  <2>2. CASE DeleteSbjRequest
    BY <1>1, <1>t, <2>2 DEF DeleteSbjRequest, Copies, ReportsAs, Sbj
  <2>3. CASE UNCHANGED sbj \/ RemoveSbj
    BY <1>0, <1>1, <2>3 DEF RemoveSbj, Copies
  <2> QED
    BY <2>1, <2>2, <2>3, SbjSteps
<1>2. CASE t = cSbj'
  <2>1. ReportsAs(ListedSbj, sbj)
    BY <1>t DEF ListedSbj, onOwnerCreateFunc, ReportsAs, Sbj
  <2>2. cSbj' \in {cSbj, sbj, ListedSbj}
    <3>1. CASE OperatorNext
      BY <3>1 DEF OperatorNext, OperatorStep, SyncSbj, SyncPods, SyncFetch, Resync, OperatorCrash,
       BeginReconcile, FoundSizeCar, CreateSizeCar, CreateSizeCarFails, SizeCarLostPanic,
       NoWorkerNeeded, CreateWorker, CreateWorkerFails, SkipResult, CreateFetchJob,
       CreateFetchJobFails, ObserveFetchJob, UpdateStatus, UpdateStatusFails, ToWrite, Return,
       Restarted, caches
    <3> QED
      BY <3>1 DEF Next, vars, opVars
  <2> QED
    BY <1>0, <1>2, <2>1, <2>2 DEF Copies
<1>3. CASE t \in {opOld', opSbj'}
  BY <1>0, <1>3, OpSbjSteps DEF Copies, ReportsAs
<1> QED
  BY <1>1, <1>2, <1>3 DEF Copies

-----------------------------------------------------------------------------
(* The endpoint the fetcher is given. The endpoint annotation is written with
   the label; the poll may overtake it, and then defeats it. *)

(* The pod is no longer the one CreatePod was called with. *)
Moved ==
  \/ pods["sizecar"].uid # vkCall.pod.uid \/ pods["sizecar"].deleting
  \/ pods["sizecar"].msg.kind # "none"

NoKubeletCrash == seen \cap KubeletCrashes = {}

CallFresh ==
  NoKubeletCrash /\ vkCall.pc # "idle" => vkCall.pod.msg = NoMsg /\ ~vkCall.pod.deleting

(* A pod that was polled, or of which a poll has a copy, has a job the kubelet
   knows of. *)
InfoKnown ==
  /\ NoKubeletCrash
  /\ PodExists(pods["sizecar"]) /\ ~pods["sizecar"].deleting /\ pods["sizecar"].msg.kind = "info"
  => getSlurmJobId(pods["sizecar"]) # NoJob

MsgShape ==
  LET p == pods["sizecar"] IN
  /\ p.msg.kind = "text" => p.phase = "Failed"
  /\ p.msg.kind = "none" => p.msg = NoMsg

PollFresh ==
  vkPoll # NoUid /\ vkPoll = pods["sizecar"].uid /\ ~pods["sizecar"].deleting
  => knownPods[vkPoll] # NoJob

FreshInv == CallFresh /\ InfoKnown /\ PollFresh /\ MsgShape

LEMMA FreshInit == Init => FreshInv
<1> SUFFICES ASSUME Init PROVE FreshInv
  OBVIOUS
<1>1. pods["sizecar"] = NoPod /\ vkCall.pc = "idle" /\ vkPoll = NoUid
  BY DEF Init, KubeInit, VkInit, NoCall, Roles
<1> QED
  BY <1>1, NoPodFields, EmptyDomain DEF FreshInv, CallFresh, InfoKnown, PollFresh, MsgShape

LEMMA MsgKinds ==
  /\ TextMsg.kind = "text" /\ TextMsg.info = Empty
  /\ \A i : InfoMsg(i).kind = "info" /\ InfoMsg(i).info = i
  BY DEF TextMsg, InfoMsg

LEMMA MsgShapeStep ==
  ASSUME TypeOK, MsgShape, [Next]_vars
  PROVE  MsgShape'
<1>1. CASE pods'["sizecar"] = pods["sizecar"] \/ SizecarDeleted \/ SizecarLabelled
  BY <1>1 DEF MsgShape, SizecarDeleted, SizecarLabelled
<1>2. CASE SizecarPolled
  BY <1>2, MsgKinds DEF MsgShape, SizecarPolled
<1>3. CASE SizecarFailed
  BY <1>3, MsgKinds DEF MsgShape, SizecarFailed
<1>4. CASE pods'["sizecar"] = CreatedPod(NoJob, {})
  BY <1>4, CreatedFields, EmptyDomain DEF MsgShape
<1>5. CASE pods'["sizecar"] = NoPod
  BY <1>5, NoPodFields, EmptyDomain DEF MsgShape
<1> QED
  BY <1>1, <1>2, <1>3, <1>4, <1>5, SizecarContents

LEMMA CallFreshStep ==
  ASSUME TypeOK, FreshInv, [Next]_vars
  PROVE  CallFresh'
<1> CallFresh /\ InfoKnown /\ MsgShape
  BY DEF FreshInv
<1> SUFFICES ASSUME NoKubeletCrash', vkCall'.pc # "idle"
             PROVE  vkCall'.pod.msg = NoMsg /\ ~vkCall'.pod.deleting
  BY DEF CallFresh
<1>0. NoKubeletCrash
  BY SeenGrows DEF NoKubeletCrash
<1>1. ASSUME NEW r \in Rpcs, CreatePod(r)
      PROVE  vkCall'.pod.msg = NoMsg /\ ~vkCall'.pod.deleting
  <2>0. vkCall'.pod = pods["sizecar"]
    BY <1>1 DEF CreatePod
  <2>1. /\ PodExists(pods["sizecar"]) /\ ~pods["sizecar"].deleting /\ ~Terminal(pods["sizecar"].phase)
        /\ getSlurmJobId(pods["sizecar"]) = NoJob
    BY <1>1 DEF CreatePod, Creatable
  <2>2. pods["sizecar"].msg.kind \notin {"info", "text"}
    BY <1>0, <2>1 DEF InfoKnown, MsgShape, Terminal
  <2>3. pods["sizecar"].msg.kind \in {"none", "text", "info"}
    BY DEF TypeOK, KubeTypeOK, Roles, Pod, Msg
  <2> QED
    BY <2>0, <2>1, <2>2, <2>3 DEF MsgShape
<1>2. ASSUME ~\E r \in Rpcs : CreatePod(r)
      PROVE  vkCall'.pod.msg = NoMsg /\ ~vkCall'.pod.deleting
  <2>1. vkCall'.pod = vkCall.pod /\ vkCall.pc # "idle"
    <3>1. vkCall' # NoCall
      BY DEF NoCall
    <3> QED
      BY <1>2, <3>1, CallPodSteps, CallSteps DEF WaitsFor, StoreKnownPod
  <2> QED
    BY <1>0, <2>1 DEF CallFresh
<1> QED
  BY <1>1, <1>2

(* What the kubelet remembers of a pod stays, unless the pod is deleted. *)
LEMMA KnownStays ==
  ASSUME BridgeTypes, LabelInv, [Next]_vars,
         ~(VkRestarted /\ seen' \cap {"vkCrash", "vkPanic"} # {}),
         PodExists(pods["sizecar"]), ~pods["sizecar"].deleting,
         knownPods[pods["sizecar"].uid] # NoJob
  PROVE  knownPods'[pods["sizecar"].uid] # NoJob
<1> TypeOK /\ UidsIssued /\ WorkerApart /\ CallOwn
  BY DEF BridgeTypes, LabelInv
<1>1. pods["sizecar"].uid \in Uids /\ knownPods \in [Uids -> JobIds \cup {NoJob}]
  BY DEF PodExists, TypeOK, KubeTypeOK, VkTypeOK, Roles, Pod
<1>2. CASE StoreKnownPod
  <2>1. knownPods' = [knownPods EXCEPT ![vkCall.pod.uid] = vkCall.job] /\ vkCall.job \in JobIds
    BY <1>2 DEF StoreKnownPod, CallOwn
  <2> QED
    BY <1>1, <2>1 DEF JobIds, NoJob
<1>3. CASE UpdatePod
  BY <1>1, <1>3 DEF UpdatePod
<1>4. ASSUME NEW role \in Roles, DeletePod(role) \/ DeletePodError(role), Forget(pods[role])
      PROVE  knownPods'[pods["sizecar"].uid] # NoJob
  <2>1. role = "worker"
    BY <1>4 DEF DeletePod, DeletePodError, Deletable, Roles
  <2> QED
    BY <1>1, <1>4, <2>1, ForgetWorker
<1> QED
  BY <1>2, <1>3, <1>4, KnownPodsSteps

LEMMA PollFreshStep ==
  ASSUME BridgeTypes, LabelInv, CallInv, FreshInv, [Next]_vars
  PROVE  PollFresh'
<1> TypeOK /\ UidsIssued /\ PollKnown /\ PollFresh
  BY DEF BridgeTypes, LabelInv, CallInv, FreshInv
<1> SUFFICES ASSUME vkPoll' # NoUid, vkPoll' = pods'["sizecar"].uid, ~pods'["sizecar"].deleting
             PROVE  knownPods'[vkPoll'] # NoJob
  BY DEF PollFresh
<1>1. CASE PollStarts
  <2>1. /\ vkPoll' = pods["sizecar"].uid /\ knownPods' = knownPods
        /\ pods["sizecar"].job = NoJob /\ getSlurmJobId(pods["sizecar"]) # NoJob
    BY <1>1 DEF PollStarts, Polled, kubeVars
  <2> QED
    BY <2>1 DEF getSlurmJobId
<1>2. CASE UNCHANGED vkPoll
  <2>1. ~CreateSizeCar
    <3>1. CreateSizeCar => pods'["sizecar"].uid = lastUid + 1
      BY CreateSizeCarFrame, CreatedUid
    <3>2. lastUid \in Nat /\ vkPoll \in Nat
      BY SlurmAssumption DEF TypeOK, KubeTypeOK, VkTypeOK, Uids, NoUid
    <3> QED
      BY <1>2, <3>1, <3>2 DEF PollKnown
  <2>2. pods["sizecar"].uid = vkPoll /\ ~pods["sizecar"].deleting
    BY <1>2, <2>1, SizecarContents, NoPodFields, MsgKinds
    DEF SizecarPolled, SizecarFailed, SizecarDeleted, SizecarLabelled
  <2>3. knownPods[vkPoll] # NoJob /\ PodExists(pods["sizecar"])
    BY <1>2, <2>2 DEF PollFresh, PodExists
  <2>4. ~VkRestarted
    BY <1>2 DEF VkRestarted
  <2> QED
    BY <1>2, <2>2, <2>3, <2>4, KnownStays
<1> QED
  BY <1>1, <1>2, PollSteps

LEMMA InfoKnownStep ==
  ASSUME BridgeTypes, LabelInv, FreshInv, [Next]_vars
  PROVE  InfoKnown'
<1> TypeOK /\ UidsIssued /\ WorkerApart /\ CallOwn /\ InfoKnown
  BY DEF BridgeTypes, LabelInv, FreshInv
<1> SUFFICES ASSUME NoKubeletCrash', PodExists(pods'["sizecar"]), ~pods'["sizecar"].deleting,
                    pods'["sizecar"].msg.kind = "info"
             PROVE  getSlurmJobId(pods["sizecar"])' # NoJob
  BY DEF InfoKnown, PodExists
<1>0. NoKubeletCrash
  BY SeenGrows DEF NoKubeletCrash
<1>1. CASE SizecarLabelled
  <2>1. vkCall.job \in JobIds
    BY <1>1 DEF SizecarLabelled, addAndUpdateSlurmJobInfo, CallOwn
  <2> QED
    BY <1>1, <2>1 DEF SizecarLabelled, getSlurmJobId, JobIds, NoJob
<1>2. CASE \/ pods'["sizecar"] = pods["sizecar"]
           \/ SizecarPolled /\ pods'["sizecar"].job = pods["sizecar"].job
  <2>1. /\ pods'["sizecar"].uid = pods["sizecar"].uid /\ pods'["sizecar"].job = pods["sizecar"].job
        /\ PodExists(pods["sizecar"]) /\ ~pods["sizecar"].deleting
    BY <1>2 DEF SizecarPolled, PodExists
  <2>2. getSlurmJobId(pods["sizecar"]) # NoJob
    BY <1>0, <1>2, <2>1 DEF SizecarPolled, PollStatus, PollOverwritesLabel, Polled, InfoKnown
  <2>3. CASE pods["sizecar"].job # NoJob
    BY <2>1, <2>3 DEF getSlurmJobId
  <2>4. CASE pods["sizecar"].job = NoJob
    <3>1. knownPods[pods["sizecar"].uid] # NoJob
      BY <2>1, <2>2, <2>4 DEF getSlurmJobId
    <3>2. knownPods'[pods["sizecar"].uid] # NoJob
      BY <2>1, <3>1, KnownStays DEF NoKubeletCrash, KubeletCrashes
    <3> QED
      BY <2>1, <2>4, <3>2 DEF getSlurmJobId, PodExists
  <2> QED
    BY <2>3, <2>4
<1>o. CASE PollOverwritesLabel /\ SizecarPolled /\ pods'["sizecar"].job = NoJob
  <2>1. /\ vkPoll = pods["sizecar"].uid /\ knownPods' = knownPods /\ PodExists(pods["sizecar"])
        /\ pods'["sizecar"].uid = pods["sizecar"].uid /\ ~pods["sizecar"].deleting
    BY <1>o DEF PollOverwritesLabel, Polled, SizecarPolled
  <2>2. knownPods[pods["sizecar"].uid] # NoJob
    BY <2>1 DEF FreshInv, PollFresh, PodExists
  <2> QED
    BY <1>o, <2>1, <2>2 DEF getSlurmJobId, PodExists
<1>3. ~SizecarFailed
  BY MsgKinds DEF SizecarFailed
<1>4. ~SizecarDeleted
  BY DEF SizecarDeleted
<1>5. pods'["sizecar"] # CreatedPod(NoJob, {}) /\ pods'["sizecar"] # NoPod
  BY CreatedFields, NoPodFields, EmptyDomain
<1> QED
  BY <1>1, <1>2, <1>o, <1>3, <1>4, <1>5, SizecarContents DEF SizecarPolled

(* While the kubelet has not crashed, CreatePod works on a pod that no poll had
   touched, and a polled sizecar pod has a job getSlurmJobId finds; a pod whose
   message is plain text has failed. *)
THEOREM FreshHolds == Spec => []FreshInv
<1>1. BridgeTypes /\ LabelInv /\ CallInv /\ FreshInv /\ [Next]_vars => FreshInv'
  BY MsgShapeStep, CallFreshStep, InfoKnownStep, PollFreshStep DEF FreshInv, BridgeTypes
<1> QED
  BY <1>1, FreshInit, BridgeTypesHold, LabelsHold, CallsHold, PTL DEF Spec

(* The label is lost, or will be. *)
Unlabelled == seen \cap LabelCauses # {} \/ (vkCall.pc = "label" /\ Moved)

LEMMA UnlabelledStays ==
  ASSUME BridgeTypes, LabelInv, FreshInv, [Next]_vars, Unlabelled
  PROVE  Unlabelled'
<1> TypeOK /\ UidsIssued /\ CallOwn /\ CallFresh
  BY DEF BridgeTypes, LabelInv, FreshInv
<1>1. CASE seen \cap LabelCauses # {}
  BY <1>1, SeenGrows DEF Unlabelled
<1>2. CASE seen \cap LabelCauses = {} /\ vkCall.pc = "label" /\ Moved
  <2>1. ~SamePod
    <3>1. NoKubeletCrash
      BY <1>2 DEF NoKubeletCrash, LabelCauses
    <3>2. vkCall.pod.msg.kind = "none" /\ ~vkCall.pod.deleting
      BY <1>2, <3>1, EmptyDomain DEF CallFresh
    <3> QED
      BY <1>2, <3>2 DEF SamePod, Moved
  <2>2. CASE vkCall' = NoCall
    <3>1. LabelFails => "labelLost" \in seen'
      BY DEF LabelFails, Lose, FaultWithLoss
    <3>2. ~addAndUpdateSlurmJobInfo
      BY <2>1 DEF addAndUpdateSlurmJobInfo
    <3> QED
      BY <1>2, <2>2, <3>1, <3>2, CallEnds DEF Unlabelled, LabelCauses
  <2>3. CASE UNCHANGED vkCall
    <3>1. vkCall.pod.uid \in Uids /\ vkCall.pod.uid # NoUid
      BY <1>2, CallPodIssued DEF PodExists
    <3>2. ASSUME pods'["sizecar"] = NoPod PROVE Moved'
      BY <2>3, <3>1, <3>2, NoPodFields DEF Moved
    <3>3. ASSUME CreateSizeCar PROVE Moved'
      BY <2>3, <3>3, CreateSizeCarFrame DEF Moved
    <3>4. ASSUME pods'["sizecar"] = pods["sizecar"] \/ SizecarDeleted \/ SizecarLabelled PROVE Moved'
      BY <1>2, <2>3, <3>4 DEF Moved, SizecarDeleted, SizecarLabelled
    <3>5. ASSUME SizecarPolled \/ SizecarFailed PROVE Moved'
      BY <2>3, <3>5, MsgKinds DEF Moved, SizecarPolled, SizecarFailed
    <3>6. Moved'
      BY <3>2, <3>3, <3>4, <3>5, SizecarContents
    <3> QED
      BY <1>2, <2>3, <3>6 DEF Unlabelled
  <2> QED
    BY <1>2, <2>2, <2>3, CallSteps DEF CreatePod, Creatable, WaitsFor, StoreKnownPod
<1> QED
  BY <1>1, <1>2 DEF Unlabelled

(* Reports of a job whose label was not written. *)
PodTold(p) == DOMAIN p.msg.info # {} /\ p.job = NoJob => Unlabelled
SbjTold(s) == DOMAIN s.subjobs # {} /\ ~s.endpoint => Unlabelled
FetchTold == JobExists(fetchJob) /\ ~fetchJob.endpoint => Unlabelled

(* UpdateSBJStatus stores the paths of the two streams the wrong way round. *)
SwappedPaths(s) == \A k \in DOMAIN s.subjobs : s.subjobs[k].stdOut = "err"

FetchFinished == JobExists(fetchJob) /\ SbjExists(sbj) => Terminal(sbj.state) /\ sbj.result

FetchInv ==
  /\ PodTold(pods["sizecar"]) /\ PodTold(cPods["sizecar"])
  /\ \A s \in Copies : SbjTold(s) /\ SwappedPaths(s)
  /\ FetchTold /\ fetchJob.files \subseteq {"err"}
  /\ FetchFinished

LEMMA NoSbjFields == NoSbj.subjobs = Empty /\ NoSbj.state = "" /\ ~SbjExists(NoSbj)
  BY DEF NoSbj, SbjWithoutStatus, SbjExists

LEMMA FetchInit == Init => FetchInv
<1> SUFFICES ASSUME Init PROVE FetchInv
  OBVIOUS
<1>1. /\ pods["sizecar"] = NoPod /\ cPods["sizecar"] = NoPod /\ cSbj = NoSbj /\ opOld = NoSbj /\ opSbj = NoSbj
      /\ fetchJob = NoFetchJob
  BY DEF Init, KubeInit, OperatorInit, Roles
<1>2. sbj.subjobs = Empty
  <2> PICK s \in SbjSpecs : sbj = NewSbj(s[1], s[2])
    BY DEF Init, KubeInit
  <2> QED
    BY DEF NewSbj, SbjWithoutStatus
<1>3. \A s \in Copies : DOMAIN s.subjobs = {}
  BY <1>1, <1>2, NoSbjFields, EmptyDomain DEF Copies
<1>4. fetchJob.status = "none" /\ fetchJob.files = {}
  BY <1>1 DEF NoFetchJob
<1> QED
  BY <1>1, <1>3, <1>4, NoPodFields, EmptyDomain DEF FetchInv, PodTold, SbjTold, SwappedPaths, FetchTold,
     FetchFinished, JobExists

LEMMA PodToldStep ==
  ASSUME BridgeTypes, LabelInv, CallInv, FreshInv, FetchInv, [Next]_vars
  PROVE  PodTold(pods["sizecar"])'
<1> TypeOK /\ CallOwn /\ PodTold(pods["sizecar"])
  BY DEF BridgeTypes, LabelInv, FetchInv
<1> SUFFICES ASSUME DOMAIN pods'["sizecar"].msg.info # {}, pods'["sizecar"].job = NoJob PROVE Unlabelled'
  BY DEF PodTold
<1>1. CASE pods'["sizecar"] = pods["sizecar"] \/ SizecarDeleted
  BY <1>1, UnlabelledStays DEF PodTold, SizecarDeleted
<1>o. CASE PollOverwritesLabel
  BY <1>o DEF PollOverwritesLabel, Unlabelled, LabelCauses
<1>2. CASE SizecarPolled /\ ~PollOverwritesLabel
  <2>1. /\ PodExists(pods["sizecar"]) /\ getSlurmJobId(pods["sizecar"]) # NoJob
        /\ pods["sizecar"].job = NoJob /\ UNCHANGED vkCall /\ pods'["sizecar"].msg.kind = "info"
    BY <1>2, MsgKinds DEF SizecarPolled, PollStatus, Polled, vkVars
  <2>2. knownPods[pods["sizecar"].uid] # NoJob
    BY <2>1 DEF getSlurmJobId
  <2>3. seen \cap LabelCauses # {} \/ vkCall.pc = "label"
    BY <2>1, <2>2 DEF CallInv, UnlabelledCause
  <2> QED
    BY <2>1, <2>3, SeenGrows DEF Unlabelled, Moved
<1>3. ~SizecarFailed
  BY MsgKinds, EmptyDomain DEF SizecarFailed
<1>4. ~SizecarLabelled
  <2> SUFFICES ASSUME SizecarLabelled PROVE FALSE
    OBVIOUS
  <2>1. vkCall.job \in JobIds /\ vkCall.job = NoJob
    BY DEF SizecarLabelled, addAndUpdateSlurmJobInfo, CallOwn
  <2> QED
    BY <2>1 DEF JobIds, NoJob
<1>5. pods'["sizecar"] # CreatedPod(NoJob, {}) /\ pods'["sizecar"] # NoPod
  BY CreatedFields, NoPodFields, EmptyDomain
<1> QED
  BY <1>1, <1>o, <1>2, <1>3, <1>4, <1>5, SizecarContents

LEMMA SbjToldStep ==
  ASSUME BridgeTypes, LabelInv, FreshInv, FetchInv, [Next]_vars
  PROVE  \A t \in Copies' : SbjTold(t)' /\ SwappedPaths(t)
<1> TypeOK
  BY DEF BridgeTypes
<1> TAKE t \in Copies'
<1>1. ASSUME NEW s \in Copies \cup {NoSbj}, ReportsAs(t, s) PROVE SbjTold(t)' /\ SwappedPaths(t)
  <2>1. SbjTold(s) /\ SwappedPaths(s)
    BY NoSbjFields, EmptyDomain DEF FetchInv, SbjTold, SwappedPaths
  <2> QED
    BY <1>1, <2>1, UnlabelledStays DEF ReportsAs, SbjTold, SwappedPaths
<1>2. ASSUME NEW p, t = UpdateSBJStatus(opSbj, p), PodTold(p) PROVE SbjTold(t)' /\ SwappedPaths(t)
  <2>1. opSbj \in Sbj /\ SbjTold(opSbj) /\ SwappedPaths(opSbj)
    BY DEF TypeOK, OperatorTypeOK, FetchInv, Copies
  <2>2. \A k \in DOMAIN p.msg.info : SubjobStatus(p.msg.info[k]).stdOut = "err"
    BY DEF SubjobStatus
  <2>3. SwappedPaths(t)
    BY <1>2, <2>1, <2>2, UpdateSubjobs DEF SwappedPaths
  <2>4. DOMAIN t.subjobs = DOMAIN opSbj.subjobs \cup DOMAIN p.msg.info
    BY <1>2, <2>1, UpdateSubjobs
  <2>5. t.endpoint = (opSbj.endpoint \/ p.job # NoJob)
    BY <1>2, <2>1 DEF UpdateSBJStatus, Sbj
  <2>6. DOMAIN t.subjobs # {} /\ ~t.endpoint => Unlabelled
    BY <1>2, <2>1, <2>4, <2>5 DEF SbjTold, PodTold
  <2> QED
    BY <2>3, <2>6, UnlabelledStays DEF SbjTold
<1>3. PodTold(cPods["sizecar"]) /\ PodTold(CreatedPod(NoJob, {}))
  BY CreatedFields, EmptyDomain DEF FetchInv, PodTold
<1> QED
  BY <1>1, <1>2, <1>3, CopySteps

LEMMA FetchJobStep ==
  ASSUME BridgeTypes, VersionInv, LabelInv, FreshInv, FetchInv, [Next]_vars
  PROVE  FetchTold' /\ fetchJob'.files \subseteq {"err"} /\ FetchFinished'
<1> TypeOK
  BY DEF BridgeTypes
<1> DEFINE Created == CreateFetchJob /\ fetchJob' = NewFetchJob(opSbj)
<1>0. \/ Created
      \/ ~JobExists(fetchJob') /\ fetchJob'.files = {}
      \/ /\ JobExists(fetchJob') => JobExists(fetchJob)
         /\ fetchJob'.files = fetchJob.files /\ fetchJob'.endpoint = fetchJob.endpoint
  BY FetchJobSteps DEF DeleteFetchJob, FinishFetchJob, CreateFetchJob, NoFetchJob, JobExists, TypeOK,
     KubeTypeOK, FetchJob
<1>1. ASSUME Created
      PROVE  /\ opPc = "result" /\ DOMAIN opSbj.subjobs # {} /\ UNCHANGED sbj
             /\ fetchJob'.files \subseteq {"err"} /\ fetchJob'.endpoint = opSbj.endpoint
             /\ SbjTold(opSbj)
  <2>1. fetchJob'.files = {opSbj.subjobs[k].stdOut : k \in DOMAIN opSbj.subjobs}
        /\ fetchJob'.endpoint = opSbj.endpoint
    BY <1>1 DEF NewFetchJob
  <2>2. SwappedPaths(opSbj) /\ SbjTold(opSbj)
    BY DEF FetchInv, Copies
  <2> QED
    BY <1>1, <2>1, <2>2 DEF SwappedPaths, CreateFetchJob, FetchMissing
<1>2. FetchTold'
  BY <1>0, <1>1, UnlabelledStays DEF FetchInv, FetchTold, SbjTold
<1>3. fetchJob'.files \subseteq {"err"}
  BY <1>0, <1>1 DEF FetchInv
<1>4. FetchFinished'
  <2> SUFFICES ASSUME JobExists(fetchJob'), SbjExists(sbj')
               PROVE  Terminal(sbj'.state) /\ sbj'.result
    BY DEF FetchFinished, JobExists, SbjExists
  <2>1. CASE Created
    <3>1. Terminal(opOld.state) /\ opOld.result /\ SbjExists(opOld)
      BY <1>1, <2>1 DEF VersionInv, WorkInProgress, MayFetch
    <3>2. CopyOf(opOld, sbj) /\ sbj' = sbj
      BY <1>1, <2>1 DEF VersionInv
    <3> QED
      BY <3>1, <3>2 DEF CopyOf
  <2>2. CASE ~Created
    <3>1. CASE UNCHANGED sbj
      BY <1>0, <2>2, <3>1 DEF FetchInv, FetchFinished
    <3>2. CASE sbj' # sbj /\ ~RemoveSbj
      <4>1. Succeeds(sbj', sbj)
        BY <3>2, SbjSteps, WriteSucceeds, DeleteSucceeds DEF TypeOK, KubeTypeOK
      <4> QED
        BY <1>0, <2>2, <4>1 DEF Succeeds, FetchInv, FetchFinished
    <3>3. ~RemoveSbj
      BY NoSbjFields DEF RemoveSbj
    <3> QED
      BY <3>1, <3>2, <3>3
  <2> QED
    BY <2>1, <2>2
<1> QED
  BY <1>2, <1>3, <1>4

(* The result is fetched after the end only, from the files of the standard
   error, and without an endpoint only when the label could not be written. *)
THEOREM FetchAfterEnd == Spec => []FetchAfterFinish
<1>1. BridgeTypes /\ VersionInv /\ LabelInv /\ CallInv /\ FreshInv /\ FetchInv /\ [Next]_vars => FetchInv'
  <2> SUFFICES ASSUME BridgeTypes, VersionInv, LabelInv, CallInv, FreshInv, FetchInv, [Next]_vars
               PROVE  FetchInv'
    OBVIOUS
  <2>1. PodTold(pods["sizecar"])'
    BY PodToldStep
  <2>2. PodTold(cPods["sizecar"])'
    <3>1. cPods'["sizecar"] \in {cPods["sizecar"], pods["sizecar"]}
      BY PodCopySteps
    <3> QED
      BY <3>1, UnlabelledStays DEF FetchInv, PodTold
  <2>3. \A s \in Copies' : SbjTold(s)' /\ SwappedPaths(s)
    BY SbjToldStep
  <2> QED
    BY <2>1, <2>2, <2>3, FetchJobStep DEF FetchInv, SbjTold, SwappedPaths
<1>2. Spec => []FetchInv
  BY <1>1, FetchInit, BridgeTypesHold, CopiesAreVersions, LabelsHold, CallsHold, FreshHolds, PTL DEF Spec
<1>3. FreshInv /\ FetchInv => FetchAfterFinish
  <2> SUFFICES ASSUME FreshInv, FetchInv, JobExists(fetchJob), SbjExists(sbj)
               PROVE  /\ Terminal(sbj.state) /\ sbj.result
                      /\ fetchJob.files \subseteq {"err"}
                      /\ ~fetchJob.endpoint =>
                           \/ seen \cap {"labelLost", "vkCrash", "vkPanic"} # {}
                           \/ vkCall.pc = "label" /\ ~SamePod
    BY DEF FetchAfterFinish
  <2>1. Terminal(sbj.state) /\ sbj.result /\ fetchJob.files \subseteq {"err"}
    BY DEF FetchInv, FetchFinished
  <2>2. ASSUME seen \cap {"labelLost", "vkCrash", "vkPanic"} = {}, vkCall.pc = "label", Moved
        PROVE  ~SamePod
    <3>1. vkCall.pod.msg.kind = "none" /\ ~vkCall.pod.deleting
      BY <2>2, EmptyDomain DEF FreshInv, CallFresh, NoKubeletCrash, KubeletCrashes
    <3> QED
      BY <2>2, <3>1 DEF SamePod, Moved
  <2> QED
    BY <2>1, <2>2 DEF FetchInv, FetchTold, Unlabelled, LabelCauses, KubeletCrashes
<1> QED
  BY <1>2, <1>3, FreshHolds, PTL

-----------------------------------------------------------------------------
(* Records only go forward. *)

(* What a step can do to the record of task t of a job j that was issued. *)
RecordStep(j, t) ==
  \/ records'[j][t] = records[j][t]
  \/ /\ records[j][Root] = "PENDING" /\ records[j][t] \in {"hidden", "PENDING"}
     /\ t = Root => \A s \in Tasks : records[j][s] # "hidden"
     /\ records'[j][t] = "RUNNING"
  \/ records[j][t] = "RUNNING" /\ records'[j][t] \in Outcomes
  \/ records[j][t] \in SlurmState \ Active /\ records'[j][t] = "purged" /\ "purge" \in seen'
  \/ records[j][t] \in Active /\ records'[j][t] = "CANCELLED"

(* sbatch creates job j. *)
Issued(j) ==
  /\ jobUid[j] = NoUid
  /\ records'[j] = [t \in Tasks |-> IF t = Root THEN "PENDING" ELSE "hidden"]

LEMMA RecordSteps ==
  ASSUME BridgeTypes, [Next]_vars, NEW j \in JobIds
  PROVE  (\A t \in Tasks : RecordStep(j, t)) \/ Issued(j)
<1> DEFINE Goal == (\A t \in Tasks : RecordStep(j, t)) \/ Issued(j)
<1>t. records \in [JobIds -> [Tasks -> SlurmState \cup {"hidden", "purged"}]]
  BY DEF BridgeTypes, TypeOK, AgentTypeInv, SlurmTypeOK
<1>1. ASSUME UNCHANGED slurmVars PROVE Goal
  BY <1>1 DEF slurmVars, RecordStep
<1>2. ASSUME NEW k \in JobIds, NEW u, Accept(k, u) PROVE Goal
  <2>1. CASE k = j
    BY <1>t, <1>2, <2>1 DEF Accept, IsNextId, Issued
  <2>2. CASE k # j
    BY <1>t, <1>2, <2>2 DEF Accept, RecordStep
  <2> QED
    BY <2>1, <2>2
<1>3. ASSUME NEW k \in JobIds, NEW t \in Tasks, SlurmStart(k, t) PROVE Goal
  <2>1. /\ records' = [records EXCEPT ![k][t] = "RUNNING"]
        /\ records[k][t] \in {"hidden", "PENDING"} /\ records[k][Root] = "PENDING"
        /\ t = Root => \A s \in Tasks : records[k][s] # "hidden"
    BY <1>3 DEF SlurmStart, SetTask
  <2>2. \A s \in Tasks : records'[j][s] = IF j = k /\ s = t THEN "RUNNING" ELSE records[j][s]
    BY <1>t, <2>1
  <2> QED
    BY <2>1, <2>2 DEF RecordStep
<1>4. ASSUME NEW k \in JobIds, NEW t \in Tasks, SlurmEnd(k, t) PROVE Goal
  <2>1. PICK o \in Outcomes : records' = [records EXCEPT ![k][t] = o] /\ records[k][t] = "RUNNING"
    BY <1>4 DEF SlurmEnd, SetTask
  <2>2. \A s \in Tasks : records'[j][s] = IF j = k /\ s = t THEN o ELSE records[j][s]
    BY <1>t, <2>1
  <2> QED
    BY <2>1, <2>2 DEF RecordStep
<1>5. ASSUME NEW k \in JobIds, NEW t \in Tasks, Purge(k, t) PROVE Goal
  <2>1. /\ records' = [records EXCEPT ![k][t] = "purged"] /\ records[k][t] \in SlurmState \ Active
        /\ "purge" \in seen'
    BY <1>5 DEF Purge, SlurmPurge, SetTask, Fault
  <2>2. \A s \in Tasks : records'[j][s] = IF j = k /\ s = t THEN "purged" ELSE records[j][s]
    BY <1>t, <2>1
  <2> QED
    BY <2>1, <2>2 DEF RecordStep
<1>6. ASSUME NEW k \in JobIds, SCancel(k) PROVE Goal
  <2>1. \A s \in Tasks : records'[j][s] = IF j = k /\ records[j][s] \in Active THEN "CANCELLED"
                                          ELSE records[j][s]
    BY <1>t, <1>6 DEF SCancel
  <2> QED
    BY <2>1 DEF RecordStep
<1>7. ASSUME NEW role \in Roles, DeletePod(role) PROVE Goal
  <2>1. getSlurmJobId(pods[role]) \in JobIds \cup {NoJob}
    BY JobIdType DEF BridgeTypes, TypeOK, KubeTypeOK
  <2> QED
    BY <1>1, <1>6, <1>7, <2>1 DEF DeletePod, CancelJob
<1>8. ASSUME NEW r \in Rpcs, CreatePod(r) \/ SubmitAnswered(r) \/ SubmitError(r) PROVE UNCHANGED slurmVars
  BY <1>8 DEF CreatePod, SubmitKnown, SubmitUnknown, SubmitAnswered, SubmitStore, SubmitError, SBatchError
<1>9. ASSUME NEW r \in Rpcs, \/ OrphanSBatch(r)
                             \/ \E k \in JobIds : SubmitUnparsable(r, k) \/ SBatch(r, k)
      PROVE  Goal
  BY <1>1, <1>2, <1>9 DEF OrphanSBatch, SubmitUnparsable, SBatchUnparsable, SBatch
<1>10. ASSUME \/ StoreKnownPod \/ addAndUpdateSlurmJobInfo \/ LabelFails \/ UpdatePod
              \/ PollStarts \/ PollOverwritesLabel \/ VkCrash \/ PollPanic \/ StatusNotFound \/ AgentCrash
              \/ \E role \in Roles : DeletePodError(role) \/ PollStatus(role)
       PROVE  UNCHANGED slurmVars
  BY <1>10 DEF StoreKnownPod, addAndUpdateSlurmJobInfo, LabelFails, UpdatePod, PollStarts,
     PollOverwritesLabel, VkCrash, PollPanic, VkRestarted, StatusNotFound, AgentCrash, AgentRestart, DeletePodError, PollStatus
<1>11. ASSUME VkNext PROVE Goal
  BY <1>1, <1>3, <1>4, <1>5, <1>7, <1>8, <1>9, <1>10, <1>11 DEF VkNext, SlurmProgress
<1> QED
  BY <1>1, <1>11 DEF Next, vars

(* What Slurm has settled stays settled. *)
LEMMA RecordsSettle ==
  ASSUME BridgeTypes, [Next]_vars, NEW j \in JobIds, jobUid[j] # NoUid, NEW t \in Tasks
  PROVE  /\ jobUid'[j] # NoUid
         /\ records[j][t] \in {"COMPLETED", "purged"} => records'[j][t] \in {"COMPLETED", "purged"}
         /\ records[j][t] = "purged" => records'[j][t] = "purged"
         /\ records[j][t] # "hidden" => records'[j][t] # "hidden"
         /\ NeverStarted(j, t) => NeverStarted(j, t)'
         /\ "purge" \notin seen' /\ t \in Visible(j) => t \in Visible(j)'
<1>1. RecordStep(j, t) /\ RecordStep(j, Root)
  BY RecordSteps, SlurmAssumption DEF Issued
<1>2. \A o \in Outcomes : o \notin {"hidden", "purged"}
  BY SlurmAssumption DEF SlurmState
<1>3. jobUid'[j] # NoUid
  BY JobUidStable
<1>4. /\ records[j][t] \in {"COMPLETED", "purged"} => records'[j][t] \in {"COMPLETED", "purged"}
      /\ records[j][t] = "purged" => records'[j][t] = "purged"
      /\ records[j][t] # "hidden" => records'[j][t] # "hidden"
  BY <1>1, <1>2 DEF RecordStep, Active, SlurmState
<1>5. NeverStarted(j, t) => NeverStarted(j, t)'
  BY <1>1, <1>2 DEF RecordStep, Active, SlurmState, NeverStarted
<1>6. "purge" \notin seen' /\ t \in Visible(j) => t \in Visible(j)'
  BY <1>1, <1>2 DEF RecordStep, Active, SlurmState, Visible
<1> QED
  BY <1>3, <1>4, <1>5, <1>6

(* A job without an owner gets one from sbatch only. *)
LEMMA JustIssued ==
  ASSUME BridgeTypes, [Next]_vars, NEW j \in JobIds, jobUid[j] = NoUid, jobUid'[j] # NoUid
  PROVE  \E u : Accept(j, u)
<1>1. ASSUME NEW k \in JobIds, NEW u, Accept(k, u) PROVE \E v : Accept(j, v)
  <2>1. k = j
    BY <1>1 DEF Accept, BridgeTypes, TypeOK, AgentTypeInv, SlurmTypeOK
  <2> QED
    BY <1>1, <2>1
<1>2. CASE [AgentNext]_avars
  BY <1>1, <1>2 DEF AgentNext, SubmitKnown, SubmitUnknown, SBatchError, SubmitStore, OrphanSBatch,
     SBatch, SBatchUnparsable, SubmitJobContainer, CancelJob, SCancel, AgentRestart, SlurmNext,
     SlurmProgress, SlurmStart, SlurmEnd, SlurmPurge, SetTask, avars, slurmVars
<1>3. CASE VkNext
  BY <1>2, <1>3, VkIsAgentStep DEF BridgeTypes, TypeOK
<1> QED
  BY <1>3 DEF Next, vars, slurmVars

(* Tasks wait in the record of Root. *)
HiddenRoot ==
  \A j \in JobIds, t \in Tasks :
    jobUid[j] # NoUid /\ records[j][t] = "hidden" => records[j][Root] \in {"PENDING", "CANCELLED", "purged"}

LEMMA HiddenRootStep ==
  ASSUME BridgeTypes, HiddenRoot, [Next]_vars
  PROVE  HiddenRoot'
<1> SUFFICES ASSUME NEW j \in JobIds, NEW t \in Tasks, jobUid'[j] # NoUid, records'[j][t] = "hidden"
             PROVE  records'[j][Root] \in {"PENDING", "CANCELLED", "purged"}
  BY DEF HiddenRoot
<1>r. Root \in Tasks
  BY SlurmAssumption
<1>1. CASE Issued(j)
  BY <1>1, <1>r DEF Issued
<1>2. CASE ~Issued(j)
  <2>1. RecordStep(j, t) /\ RecordStep(j, Root)
    BY <1>2, <1>r, RecordSteps
  <2>2. \A o \in Outcomes : o \notin {"hidden", "purged"}
    BY SlurmAssumption DEF SlurmState
  <2>3. records[j][t] = "hidden"
    BY <2>1, <2>2 DEF RecordStep
  <2>4. jobUid[j] # NoUid
    <3> SUFFICES ASSUME jobUid[j] = NoUid PROVE FALSE
      OBVIOUS
    <3>1. \E u : Accept(j, u)
      BY JustIssued
    <3> QED
      BY <1>2, <3>1 DEF Accept, Issued, BridgeTypes, TypeOK, AgentTypeInv, SlurmTypeOK
  <2>5. records[j][Root] \in {"PENDING", "CANCELLED", "purged"}
    BY <2>3, <2>4 DEF HiddenRoot
  <2> QED
    BY <2>1, <2>3, <2>5 DEF RecordStep, Active, SlurmState
<1> QED
  BY <1>1, <1>2

-----------------------------------------------------------------------------
(* The records that are reported. *)
PodKeys ==
  DOMAIN pods["sizecar"].msg.info \cup DOMAIN cPods["sizecar"].msg.info
    \cup DOMAIN opPod.msg.info \cup pods["worker"].containers

Keys == PodKeys \cup UNION {DOMAIN s.subjobs : s \in Copies}

KnownKey(k) == jobUid[k[1]] # NoUid /\ records[k[1]][k[2]] # "hidden"

(* Only tasks of issued jobs that got a record are reported. *)
KeysKnown == \A k \in Keys : KnownKey(k)

LEMMA KeyTypes == TypeOK => Keys \subseteq RecordIds
<1> SUFFICES ASSUME TypeOK PROVE Keys \subseteq RecordIds
  OBVIOUS
<1>1. ASSUME NEW p \in Pod PROVE DOMAIN p.msg.info \subseteq RecordIds /\ p.containers \subseteq RecordIds
  BY PartialFnsUse DEF Pod, Msg
<1>2. ASSUME NEW s \in Sbj PROVE DOMAIN s.subjobs \subseteq RecordIds
  BY PartialFnsUse DEF Sbj
<1>3. PodKeys \subseteq RecordIds
  BY <1>1 DEF PodKeys, TypeOK, KubeTypeOK, OperatorTypeOK, Roles
<1>4. \A s \in Copies : s \in Sbj
  BY DEF Copies, TypeOK, KubeTypeOK, OperatorTypeOK
<1> QED
  BY <1>2, <1>3, <1>4 DEF Keys

LEMMA KeyFields == \A k \in RecordIds : k[1] \in JobIds /\ k[2] \in Tasks /\ k = <<k[1], k[2]>>
  BY DEF RecordIds

(* What a poll of the sizecar pod reports. *)
LEMMA PolledJob ==
  ASSUME BridgeTypes, LabelInv, NEW j, j = getSlurmJobId(pods["sizecar"]), Polled("sizecar")
  PROVE  /\ j \in JobIds /\ jobUid[j] = pods["sizecar"].uid /\ jobUid[j] # NoUid
         /\ Visible(j) # {} /\ DOMAIN RecordInfo(j) = {j} \X Visible(j)
         /\ \A t \in Visible(j) : RecordInfo(j)[<<j, t>>] = mapSInfoToProtoInfo(records[j][t])
<1>1. PodExists(pods["sizecar"]) /\ j # NoJob /\ Visible(j) # {}
  BY DEF Polled, JobInfoFails
<1>2. pods["sizecar"].uid \in Uids /\ pods["sizecar"].job \in JobIds \cup {NoJob}
  BY <1>1 DEF PodExists, BridgeTypes, TypeOK, KubeTypeOK, Roles, Pod
<1>3. j \in JobIds /\ jobUid[j] = pods["sizecar"].uid
  BY <1>1, <1>2 DEF getSlurmJobId, LabelInv, LabelsOwn, OwnLabel, BridgeTypes, TypeOK, VkTypeOK
<1>4. DOMAIN JobInfo(j) = Visible(j) /\ \A t \in Visible(j) : JobInfo(j)[t] = mapSInfoToProtoInfo(records[j][t])
  BY DEF JobInfo
<1> QED
  BY <1>1, <1>3, <1>4 DEF RecordInfo, PodExists

LEMMA PodKeysSteps ==
  ASSUME TypeOK, [Next]_vars, NEW k \in PodKeys'
  PROVE  k \in PodKeys \/ (SizecarPolled /\ k \in DOMAIN RecordInfo(getSlurmJobId(pods["sizecar"])))
<1> DEFINE Goal == k \in PodKeys
                   \/ (SizecarPolled /\ k \in DOMAIN RecordInfo(getSlurmJobId(pods["sizecar"])))
<1>1. ASSUME k \in DOMAIN pods'["sizecar"].msg.info PROVE Goal
  <2>1. CASE pods'["sizecar"] = pods["sizecar"] \/ SizecarDeleted \/ SizecarLabelled
    BY <1>1, <2>1 DEF SizecarDeleted, SizecarLabelled, PodKeys
  <2>2. CASE SizecarPolled
    BY <1>1, <2>2, MsgKinds DEF SizecarPolled
  <2>3. ~SizecarFailed
    BY <1>1, MsgKinds, EmptyDomain DEF SizecarFailed
  <2>4. pods'["sizecar"] # CreatedPod(NoJob, {}) /\ pods'["sizecar"] # NoPod
    BY <1>1, CreatedFields, NoPodFields, EmptyDomain
  <2> QED
    BY <2>1, <2>2, <2>3, <2>4, SizecarContents
<1>2. ASSUME k \in DOMAIN cPods'["sizecar"].msg.info PROVE Goal
  BY <1>2, PodCopySteps DEF PodKeys
<1>3. ASSUME k \in DOMAIN opPod'.msg.info PROVE Goal
  <2>1. opPod' # NoPod
    BY <1>3, NoPodFields, EmptyDomain
  <2>2. ~CreateSizeCar
    <3>1. opPod' # CreatedPod(NoJob, {})
      BY <1>3, CreatedFields, EmptyDomain
    <3> QED
      BY <3>1 DEF CreateSizeCar
  <2> QED
    BY <1>3, <2>1, <2>2, PodCopySteps DEF PodKeys
<1>4. ASSUME k \in pods'["worker"].containers PROVE Goal
  <2>1. CASE pods'["worker"] = CreatedPod(opPod.job, DOMAIN opPod.msg.info)
    BY <1>4, <2>1, CreatedFields DEF PodKeys
  <2> QED
    BY <1>4, <2>1, WorkerSteps, NoPodFields DEF PodKeys
<1> QED
  BY <1>1, <1>2, <1>3, <1>4 DEF PodKeys

LEMMA KeysKnownStep ==
  ASSUME BridgeTypes, LabelInv, KeysKnown, [Next]_vars
  PROVE  KeysKnown'
<1> TypeOK
  BY DEF BridgeTypes
<1>1. ASSUME NEW k \in Keys PROVE KnownKey(k)'
  <2>1. k[1] \in JobIds /\ k[2] \in Tasks /\ KnownKey(k)
    BY KeyTypes, KeyFields DEF KeysKnown
  <2> QED
    BY <2>1, RecordsSettle DEF KnownKey
<1>2. ASSUME SizecarPolled, NEW k \in DOMAIN RecordInfo(getSlurmJobId(pods["sizecar"])) PROVE KnownKey(k)'
  <2>1. Polled("sizecar") /\ UNCHANGED slurmVars
    BY <1>2 DEF SizecarPolled, PollStatus, PollOverwritesLabel
  <2>2. jobUid[k[1]] # NoUid /\ k[2] \in Visible(k[1])
    <3> DEFINE j == getSlurmJobId(pods["sizecar"])
    <3>1. jobUid[j] # NoUid /\ DOMAIN RecordInfo(j) = {j} \X Visible(j)
      BY <2>1, PolledJob
    <3>2. k[1] = j /\ k[2] \in Visible(j)
      BY <1>2, <3>1
    <3> QED
      BY <3>1, <3>2
  <2> QED
    BY <2>1, <2>2 DEF KnownKey, Visible, slurmVars
<1>3. \A k \in PodKeys' : KnownKey(k)'
  BY <1>1, <1>2, PodKeysSteps DEF Keys
<1>4. ASSUME NEW t \in Copies', NEW k \in DOMAIN t.subjobs PROVE k \in Keys
  <2>1. ASSUME NEW s \in Copies \cup {NoSbj}, ReportsAs(t, s) PROVE k \in Keys
    BY <2>1, NoSbjFields, EmptyDomain DEF ReportsAs, Keys
  <2>2. opSbj \in Sbj
    BY DEF TypeOK, OperatorTypeOK
  <2>3. CASE t = UpdateSBJStatus(opSbj, cPods["sizecar"])
    BY <2>2, <2>3, UpdateSubjobs DEF Keys, PodKeys, Copies
  <2>4. CASE t = UpdateSBJStatus(opSbj, CreatedPod(NoJob, {}))
    <3>1. k \in DOMAIN opSbj.subjobs
      BY <2>2, <2>4, UpdateSubjobs, CreatedFields, EmptyDomain
    <3> QED
      BY <3>1 DEF Keys, Copies
  <2> QED
    BY <2>1, <2>3, <2>4, CopySteps
<1> QED
  BY <1>1, <1>3, <1>4 DEF KeysKnown, Keys

RecordsInv == HiddenRoot /\ KeysKnown

LEMMA KeysInit == Init => PodKeys = {} /\ \A s \in Copies : DOMAIN s.subjobs = {}
<1> SUFFICES ASSUME Init PROVE PodKeys = {} /\ \A s \in Copies : DOMAIN s.subjobs = {}
  OBVIOUS
<1>1. /\ pods["sizecar"] = NoPod /\ pods["worker"] = NoPod /\ cPods["sizecar"] = NoPod /\ opPod = NoPod
      /\ cSbj = NoSbj /\ opOld = NoSbj /\ opSbj = NoSbj
  BY DEF Init, KubeInit, OperatorInit, Roles
<1>2. sbj.subjobs = Empty
  <2> PICK s \in SbjSpecs : sbj = NewSbj(s[1], s[2])
    BY DEF Init, KubeInit
  <2> QED
    BY DEF NewSbj, SbjWithoutStatus
<1> QED
  BY <1>1, <1>2, NoSbjFields, NoPodFields, EmptyDomain DEF Copies, PodKeys

(* Tasks are hidden only behind the record of their array, and a record that
   pods, their copies or sub job statuses tell of was one Slurm showed. *)
THEOREM RecordsHold == Spec => []RecordsInv
<1>1. Init => RecordsInv
  BY KeysInit DEF RecordsInv, KeysKnown, Keys, HiddenRoot, Init, SlurmInit
<1>2. BridgeTypes /\ LabelInv /\ RecordsInv /\ [Next]_vars => RecordsInv'
  BY HiddenRootStep, KeysKnownStep DEF RecordsInv
<1> QED
  BY <1>1, <1>2, BridgeTypesHold, LabelsHold, PTL DEF Spec

-----------------------------------------------------------------------------
(* A pod or SlurmBridgeJob reported Succeeded. *)

\* Slurm will tell nothing of task t any more.
Forgotten(j, t) == records[j][t] = "purged" \/ NeverStarted(j, t)

(* The records a Succeeded pod tells of completed, and it tells of all the
   records that were left. *)
PodTrue(p) ==
  p.phase = "Succeeded" =>
    \E j \in JobIds :
      /\ jobUid[j] # NoUid
      /\ \E t \in Tasks : <<j, t>> \in DOMAIN p.msg.info
      /\ \A t \in Tasks :
           /\ <<j, t>> \in DOMAIN p.msg.info =>
                p.msg.info[<<j, t>>] = "COMPLETED" /\ records[j][t] \in {"COMPLETED", "purged"}
           /\ <<j, t>> \notin DOMAIN p.msg.info => Forgotten(j, t)

BadStates == {"FAILED", "CANCELLED", "TIMEOUT"}

\* What SucceededIsTrue says, of any copy of the SlurmBridgeJob.
SbjTrue(s) ==
  s.state = "Succeeded" =>
    \E j \in JobIds :
      /\ jobUid[j] # NoUid
      /\ \E t \in Tasks : <<j, t>> \in DOMAIN s.subjobs
      /\ \A t \in Tasks :
           /\ records[j][t] \in {"COMPLETED", "purged"} \/ NeverStarted(j, t)
           /\ <<j, t>> \in DOMAIN s.subjobs /\ s.subjobs[<<j, t>>].state \in BadStates
              => records[j][t] = "purged"

SizecarCopies == {pods["sizecar"], cPods["sizecar"]}

SuccInv == (\A p \in SizecarCopies : PodTrue(p)) /\ (\A s \in Copies : SbjTrue(s))

(* The phase is Succeeded when all records completed. *)
LEMMA SucceededPhase ==
  ASSUME NEW info, slurmState2PodPhase(info) = "Succeeded"
  PROVE  Statuses(info) \cap {"UNKNOWN", "PENDING", "RUNNING", "FAILED", "CANCELLED", "TIMEOUT"} = {}
<1>1. ActivePhase(info) # "Succeeded"
  BY DEF ActivePhase
<1>2. isAllSlurmJobEnded(info) /\ EndedPhase(info) = "Succeeded"
  BY <1>1 DEF slurmState2PodPhase
<1> QED
  BY <1>2 DEF isAllSlurmJobEnded, EndedPhase

LEMMA PolledTrue ==
  ASSUME BridgeTypes, LabelInv, RecordsInv, SizecarPolled, NEW p, p = pods'["sizecar"]
  PROVE  PodTrue(p)'
<1> SUFFICES ASSUME p.phase = "Succeeded" PROVE PodTrue(p)'
  BY DEF PodTrue
<1> DEFINE j == getSlurmJobId(pods["sizecar"])
           info == RecordInfo(j)
<1>1. Polled("sizecar") /\ UNCHANGED slurmVars
  BY DEF SizecarPolled, PollStatus, PollOverwritesLabel
<1>2. p.msg.info = info /\ slurmState2PodPhase(info) = "Succeeded"
  BY MsgKinds DEF SizecarPolled
<1>3. /\ j \in JobIds /\ jobUid[j] # NoUid /\ Visible(j) # {} /\ DOMAIN info = {j} \X Visible(j)
      /\ \A t \in Visible(j) : info[<<j, t>>] = mapSInfoToProtoInfo(records[j][t])
  BY <1>1, PolledJob
<1> HIDE DEF j, info
<1>t. \A t \in Tasks : records[j][t] \in SlurmState \cup {"hidden", "purged"}
  BY <1>3 DEF BridgeTypes, TypeOK, AgentTypeInv, SlurmTypeOK
<1>4. ASSUME NEW t \in Visible(j) PROVE records[j][t] = "COMPLETED" /\ info[<<j, t>>] = "COMPLETED"
  <2>1. info[<<j, t>>] \in Statuses(info)
    BY <1>3 DEF Statuses
  <2>2. info[<<j, t>>] \notin {"UNKNOWN", "PENDING", "RUNNING", "FAILED", "CANCELLED", "TIMEOUT"}
    BY <1>2, <2>1, SucceededPhase
  <2> QED
    BY <1>3, <1>t, <2>2 DEF mapSInfoToProtoInfo, JobStatus, SlurmState, Visible
<1>5. ASSUME NEW t \in Tasks, t \notin Visible(j) PROVE Forgotten(j, t)
  <2>1. CASE records[j][t] = "purged"
    BY <2>1 DEF Forgotten
  <2>2. CASE records[j][t] = "hidden"
    <3>1. records[j][Root] \in {"PENDING", "CANCELLED", "purged"} /\ Root \in Tasks
      BY <1>3, <2>2, SlurmAssumption DEF RecordsInv, HiddenRoot
    <3>2. records[j][Root] = "purged"
      BY <1>4, <3>1 DEF Visible
    <3> QED
      BY <2>2, <3>2 DEF Forgotten, NeverStarted
  <2> QED
    BY <1>5, <2>1, <2>2 DEF Visible
<1>6. \A t \in Tasks : <<j, t>> \in DOMAIN info <=> t \in Visible(j)
  BY <1>3
<1>7. \E t \in Tasks : <<j, t>> \in DOMAIN info
  BY <1>3, <1>6 DEF Visible
<1>8. PodTrue(p)
  BY <1>2, <1>3, <1>4, <1>5, <1>6, <1>7 DEF PodTrue
<1> QED
  BY <1>1, <1>8 DEF PodTrue, Forgotten, NeverStarted, slurmVars

LEMMA ForgottenStays ==
  ASSUME BridgeTypes, [Next]_vars, NEW j \in JobIds, jobUid[j] # NoUid, NEW t \in Tasks, Forgotten(j, t)
  PROVE  Forgotten(j, t)'
  BY RecordsSettle DEF Forgotten

LEMMA PodTrueStays ==
  ASSUME BridgeTypes, [Next]_vars, NEW q, PodTrue(q), NEW p, p.phase = q.phase, p.msg = q.msg
  PROVE  PodTrue(p)'
<1> SUFFICES ASSUME p.phase = "Succeeded" PROVE PodTrue(p)'
  BY DEF PodTrue
<1>1. PICK j \in JobIds :
        /\ jobUid[j] # NoUid
        /\ \E t \in Tasks : <<j, t>> \in DOMAIN p.msg.info
        /\ \A t \in Tasks :
             /\ <<j, t>> \in DOMAIN p.msg.info =>
                  p.msg.info[<<j, t>>] = "COMPLETED" /\ records[j][t] \in {"COMPLETED", "purged"}
             /\ <<j, t>> \notin DOMAIN p.msg.info => Forgotten(j, t)
  BY DEF PodTrue
<1>2. jobUid'[j] # NoUid
  BY <1>1, JobUidStable
<1>3. \A t \in Tasks : records[j][t] \in {"COMPLETED", "purged"} => records'[j][t] \in {"COMPLETED", "purged"}
  BY <1>1, RecordsSettle
<1>4. \A t \in Tasks : Forgotten(j, t) => Forgotten(j, t)'
  BY <1>1, ForgottenStays
<1> QED
  BY <1>1, <1>2, <1>3, <1>4 DEF PodTrue

LEMMA SbjTrueStays ==
  ASSUME BridgeTypes, [Next]_vars, NEW s, SbjTrue(s), NEW t, ReportsAs(t, s)
  PROVE  SbjTrue(t)'
<1> SUFFICES ASSUME t.state = "Succeeded" PROVE SbjTrue(t)'
  BY DEF SbjTrue
<1>0. s.state = "Succeeded" /\ t.subjobs = s.subjobs
  BY DEF ReportsAs
<1>1. PICK j \in JobIds :
        /\ jobUid[j] # NoUid
        /\ \E i \in Tasks : <<j, i>> \in DOMAIN t.subjobs
        /\ \A i \in Tasks :
             /\ records[j][i] \in {"COMPLETED", "purged"} \/ NeverStarted(j, i)
             /\ <<j, i>> \in DOMAIN t.subjobs /\ t.subjobs[<<j, i>>].state \in BadStates
                => records[j][i] = "purged"
  BY <1>0 DEF SbjTrue
<1>2. jobUid'[j] # NoUid
  BY <1>1, JobUidStable
<1>3. \A i \in Tasks : /\ records[j][i] \in {"COMPLETED", "purged"} => records'[j][i] \in {"COMPLETED", "purged"}
                       /\ records[j][i] = "purged" => records'[j][i] = "purged"
                       /\ NeverStarted(j, i) => NeverStarted(j, i)'
  BY <1>1, RecordsSettle
<1> QED
  BY <1>1, <1>2, <1>3 DEF SbjTrue

(* UpdateSBJStatus takes over a true report. *)
LEMMA UpdateTrue ==
  ASSUME TypeOK, KeysKnown, NEW p, PodTrue(p), NEW s \in Sbj, s \in Copies
  PROVE  SbjTrue(UpdateSBJStatus(s, p))
<1> DEFINE u == UpdateSBJStatus(s, p)
<1>0. u.state = p.phase
  BY DEF UpdateSBJStatus, Sbj
<1>1. /\ DOMAIN u.subjobs = DOMAIN s.subjobs \cup DOMAIN p.msg.info
      /\ \A k \in DOMAIN p.msg.info : u.subjobs[k] = SubjobStatus(p.msg.info[k])
  BY UpdateSubjobs
<1> HIDE DEF u
<1> SUFFICES ASSUME u.state = "Succeeded" PROVE SbjTrue(u)
  BY DEF SbjTrue, u
<1>2. PICK j \in JobIds :
        /\ jobUid[j] # NoUid
        /\ \E t \in Tasks : <<j, t>> \in DOMAIN p.msg.info
        /\ \A t \in Tasks :
             /\ <<j, t>> \in DOMAIN p.msg.info =>
                  p.msg.info[<<j, t>>] = "COMPLETED" /\ records[j][t] \in {"COMPLETED", "purged"}
             /\ <<j, t>> \notin DOMAIN p.msg.info => Forgotten(j, t)
  BY <1>0 DEF PodTrue
<1>3. ASSUME NEW t \in Tasks
      PROVE  records[j][t] \in {"COMPLETED", "purged"} \/ NeverStarted(j, t)
  BY <1>2 DEF Forgotten
<1>4. ASSUME NEW t \in Tasks, <<j, t>> \in DOMAIN u.subjobs, u.subjobs[<<j, t>>].state \in BadStates
      PROVE  records[j][t] = "purged"
  <2>0. SubjobStatus("COMPLETED").state \notin BadStates
    BY DEF SubjobStatus, BadStates
  <2>1. <<j, t>> \notin DOMAIN p.msg.info
    BY <1>1, <1>2, <1>4, <2>0
  <2>2. <<j, t>> \in Keys
    BY <1>1, <1>4, <2>1 DEF Keys
  <2>3. records[j][t] # "hidden"
    BY <2>2 DEF KeysKnown, KnownKey
  <2> QED
    BY <1>2, <2>1, <2>3 DEF Forgotten, NeverStarted
<1> QED
  BY <1>1, <1>2, <1>3, <1>4 DEF SbjTrue

LEMMA SuccInit == Init => SuccInv
<1> SUFFICES ASSUME Init PROVE SuccInv
  OBVIOUS
<1>1. /\ pods["sizecar"] = NoPod /\ cPods["sizecar"] = NoPod
      /\ cSbj = NoSbj /\ opOld = NoSbj /\ opSbj = NoSbj
  BY DEF Init, KubeInit, OperatorInit, Roles
<1>2. sbj.state = ""
  <2> PICK s \in SbjSpecs : sbj = NewSbj(s[1], s[2])
    BY DEF Init, KubeInit
  <2> QED
    BY DEF NewSbj, SbjWithoutStatus
<1> QED
  BY <1>1, <1>2, NoSbjFields, NoPodFields DEF SuccInv, SizecarCopies, Copies, PodTrue, SbjTrue

LEMMA SuccStep ==
  ASSUME BridgeTypes, LabelInv, RecordsInv, SuccInv, [Next]_vars
  PROVE  SuccInv'
<1>t. TypeOK /\ KeysKnown /\ opSbj \in Sbj
  BY DEF BridgeTypes, RecordsInv, TypeOK, OperatorTypeOK
<1>1. ASSUME NEW p \in SizecarCopies PROVE PodTrue(p)'
  BY <1>1, PodTrueStays DEF SuccInv
<1>2. ASSUME NEW p, p = pods'["sizecar"] PROVE PodTrue(p)'
  <2>1. CASE p.phase # "Succeeded"
    BY <2>1 DEF PodTrue
  <2>2. ASSUME p.phase = pods["sizecar"].phase, p.msg = pods["sizecar"].msg PROVE PodTrue(p)'
    <3>1. PICK q : q = pods["sizecar"]
      OBVIOUS
    <3>2. PodTrue(q)
      BY <3>1 DEF SuccInv, SizecarCopies
    <3> QED
      BY <2>2, <3>1, <3>2, PodTrueStays
  <2>3. CASE SizecarPolled
    BY <1>2, <2>3, PolledTrue
  <2>4. CASE SizecarFailed
    BY <1>2, <2>1, <2>4 DEF SizecarFailed
  <2>5. CASE pods'["sizecar"] = CreatedPod(NoJob, {}) \/ pods'["sizecar"] = NoPod
    BY <1>2, <2>1, <2>5, CreatedPhase, NoPodFields
  <2> QED
    BY <1>2, <1>t, <2>2, <2>3, <2>4, <2>5, SizecarContents DEF SizecarDeleted, SizecarLabelled
<1>3. \A p \in SizecarCopies' : PodTrue(p)'
  BY <1>1, <1>2, PodCopySteps DEF SizecarCopies
<1>4. ASSUME NEW t \in Copies' PROVE SbjTrue(t)'
  <2>1. ASSUME NEW s \in Copies \cup {NoSbj}, ReportsAs(t, s) PROVE SbjTrue(t)'
    <3>1. SbjTrue(s)
      BY NoSbjFields DEF SuccInv, SbjTrue
    <3> QED
      BY <2>1, <3>1, SbjTrueStays
  <2>2. ASSUME NEW p, PodTrue(p), t = UpdateSBJStatus(opSbj, p) PROVE SbjTrue(t)'
    <3>1. SbjTrue(t)
      BY <1>t, <2>2, UpdateTrue DEF Copies
    <3> QED
      BY <3>1, SbjTrueStays DEF ReportsAs
  <2>3. CASE t = UpdateSBJStatus(opSbj, cPods["sizecar"])
    BY <2>2, <2>3 DEF SuccInv, SizecarCopies
  <2>4. CASE t = UpdateSBJStatus(opSbj, CreatedPod(NoJob, {}))
    <3>1. PodTrue(CreatedPod(NoJob, {}))
      BY CreatedPhase DEF PodTrue
    <3> QED
      BY <2>2, <2>4, <3>1
  <2> QED
    BY <1>t, <2>1, <2>3, <2>4, CopySteps
<1> QED
  BY <1>3, <1>4 DEF SuccInv

(* A SlurmBridgeJob reported Succeeded has a Slurm job none of whose tasks
   slurm still runs or saw fail (what UpdateSBJStatus derives from the pod
   phase of slurmState2PodPhase), and a failed sub job is overruled only when
   Slurm forgot its record. *)
THEOREM SucceededTrue == Spec => []SucceededIsTrue
<1>1. BridgeTypes /\ LabelInv /\ RecordsInv /\ SuccInv /\ [Next]_vars => SuccInv'
  BY SuccStep
<1>2. SuccInv => SucceededIsTrue
  BY DEF SuccInv, Copies, SbjTrue, SucceededIsTrue, BadStates
<1> QED
  BY <1>1, <1>2, SuccInit, BridgeTypesHold, LabelsHold, RecordsHold, PTL DEF Spec

-----------------------------------------------------------------------------
(* The panic of the kubelet. *)

PanicCause == "purge" \in seen \/ ("vkCrash" \in seen /\ DuplicateJob)

\* The message of a labelled pod tells of the job on the label.
OneJob(j, D) == \A k \in D : k[1] = j
MsgOfJob(p) == p.job # NoJob => OneJob(p.job, DOMAIN p.msg.info)

\* Labelled or not, it tells of jobs that were submitted for the pod.
MsgOfUid == \A k \in DOMAIN pods["sizecar"].msg.info : jobUid[k[1]] = pods["sizecar"].uid

\* Records do not go before Slurm forgets them.
UnpurgedKeys == "purge" \notin seen => \A k \in PodKeys : k[2] \in Visible(k[1])

PodCopies == SizecarCopies \cup {opPod}

NoPanic ==
  ~PanicCause =>
    /\ \A p \in PodCopies : MsgOfJob(p)
    /\ OneJob(pods["worker"].job, pods["worker"].containers)
    /\ "vkPanic" \notin seen

PanicInv == MsgOfUid /\ UnpurgedKeys /\ NoPanic

LEMMA PanicInit == Init => PanicInv
<1> SUFFICES ASSUME Init PROVE PanicInv
  OBVIOUS
<1>1. /\ pods["sizecar"] = NoPod /\ pods["worker"] = NoPod /\ cPods["sizecar"] = NoPod /\ opPod = NoPod
      /\ seen = {}
  BY DEF Init, KubeInit, OperatorInit, Roles
<1> QED
  BY <1>1, KeysInit, NoPodFields, EmptyDomain
  DEF PanicInv, MsgOfUid, UnpurgedKeys, NoPanic, PodCopies, SizecarCopies, MsgOfJob, OneJob

LEMMA PanicSteps ==
  ASSUME [Next]_vars, "vkPanic" \in seen'
  PROVE  "vkPanic" \in seen \/ PollPanic
<1> DEFINE Goal == "vkPanic" \in seen
<1> USE DEF kubeVars
<1>f. ASSUME NEW k, Fault(k), k # "vkPanic" PROVE Goal
  BY <1>f DEF Fault
<1>l. ASSUME NEW k, Lose(k), k # "vkPanic" PROVE Goal
  BY <1>l DEF Lose
<1>w. ASSUME NEW k, NEW l, FaultWithLoss(k, l), k # "vkPanic", l # "vkPanic" PROVE Goal
  BY <1>w DEF FaultWithLoss
<1>n. ASSUME NoFault \/ UNCHANGED seen PROVE Goal
  BY <1>n DEF NoFault
<1> HIDE DEF Goal
<1>1. ASSUME KubeNext PROVE Goal
  BY <1>f, <1>n, <1>1 DEF KubeNext, DeletePodRequest, ForceDeletePod, CollectPod, DeleteSbjRequest,
     RemoveSbj, DeleteFetchJob, FinishFetchJob
<1>2. ASSUME OperatorNext PROVE Goal
  <2>1. CASE SyncSbj \/ SyncPods \/ SyncFetch \/ Resync \/ OperatorCrash
    BY <1>f, <1>n, <2>1 DEF SyncSbj, SyncPods, SyncFetch, Resync, OperatorCrash
  <2>2. CASE BeginReconcile \/ FoundSizeCar \/ NoWorkerNeeded \/ CreateWorker \/ SkipResult
             \/ CreateFetchJob \/ ObserveFetchJob \/ UpdateStatus
    BY <1>n, <2>2 DEF BeginReconcile, FoundSizeCar, NoWorkerNeeded, CreateWorker, SkipResult,
       CreateFetchJob, ObserveFetchJob, UpdateStatus
  <2>3. CASE CreateSizeCar
    BY <1>l, <1>n, <2>3 DEF CreateSizeCar
  <2>4. CASE CreateSizeCarFails
    BY <1>f, <1>n, <2>4 DEF CreateSizeCarFails
  <2>5. CASE SizeCarLostPanic
    BY <1>l, <2>5 DEF SizeCarLostPanic
  <2>6. CASE CreateWorkerFails
    BY <1>f, <1>n, <2>6 DEF CreateWorkerFails
  <2>7. CASE CreateFetchJobFails
    BY <1>f, <1>n, <2>7 DEF CreateFetchJobFails
  <2>8. CASE UpdateStatusFails
    BY <1>l, <1>w, <1>n, <2>8 DEF UpdateStatusFails
  <2> QED
    BY <1>2, <2>1, <2>2, <2>3, <2>4, <2>5, <2>6, <2>7, <2>8 DEF OperatorNext, OperatorStep
<1>3. ASSUME VkNext, ~PollPanic PROVE Goal
  <2>1. ASSUME NEW r \in Rpcs, CreatePod(r) \/ SubmitAnswered(r) PROVE Goal
    BY <1>n, <2>1 DEF CreatePod, SubmitAnswered
  <2>2. ASSUME NEW r \in Rpcs, SubmitError(r) \/ \E j \in JobIds : SubmitUnparsable(r, j) PROVE Goal
    BY <1>f, <2>2 DEF SubmitError, SubmitUnparsable
  <2>3. ASSUME NEW role \in Roles, DeletePod(role) \/ DeletePodError(role) \/ PollStatus(role) PROVE Goal
    BY <1>f, <1>n, <2>3 DEF DeletePod, DeletePodError, PollStatus
  <2>4. CASE AgentCrash \/ VkCrash \/ StatusNotFound \/ \E j \in JobIds, t \in Tasks : Purge(j, t)
    BY <1>f, <2>4 DEF AgentCrash, VkCrash, StatusNotFound, Purge
  <2>5. CASE StoreKnownPod \/ addAndUpdateSlurmJobInfo \/ UpdatePod \/ PollStarts
    BY <1>n, <2>5 DEF StoreKnownPod, addAndUpdateSlurmJobInfo, UpdatePod, PollStarts
  <2>o. CASE PollOverwritesLabel
    BY <2>o DEF PollOverwritesLabel, Goal
  <2>6. CASE LabelFails
    BY <1>l, <1>w, <2>6 DEF LabelFails
  <2> QED
    BY <1>3, <1>n, <2>1, <2>2, <2>3, <2>4, <2>5, <2>o, <2>6 DEF VkNext
<1> QED
  BY <1>n, <1>1, <1>2, <1>3 DEF Next, vars, Goal

LEMMA PanicCauseStays ==
  ASSUME BridgeTypes, [Next]_vars, PanicCause
  PROVE  PanicCause'
<1>1. DuplicateJob => DuplicateJob'
  <2> SUFFICES ASSUME NEW u \in Uids, NEW j \in JobsOf(u), NEW k \in JobsOf(u), j # k
               PROVE  DuplicateJob'
    BY DEF DuplicateJob
  <2>1. u # NoUid
    BY DEF Uids, NoUid
  <2>2. j \in JobsOf(u)' /\ k \in JobsOf(u)'
    BY <2>1, JobUidStable DEF JobsOf
  <2> QED
    BY <2>2 DEF DuplicateJob
<1> QED
  BY <1>1, SeenGrows DEF PanicCause

LEMMA MsgOfUidStep ==
  ASSUME BridgeTypes, LabelInv, RecordsInv, MsgOfUid, [Next]_vars
  PROVE  MsgOfUid'
<1> TypeOK
  BY DEF BridgeTypes
<1> SUFFICES ASSUME NEW k \in DOMAIN pods'["sizecar"].msg.info
             PROVE  jobUid'[k[1]] = pods'["sizecar"].uid
  BY DEF MsgOfUid
<1>1. ASSUME pods'["sizecar"].uid = pods["sizecar"].uid, pods'["sizecar"].msg = pods["sizecar"].msg
      PROVE  jobUid'[k[1]] = pods'["sizecar"].uid
  <2>1. k \in Keys
    BY <1>1 DEF Keys, PodKeys
  <2>2. k[1] \in JobIds /\ jobUid[k[1]] # NoUid
    BY <2>1, KeyTypes, KeyFields DEF RecordsInv, KeysKnown, KnownKey
  <2> QED
    BY <1>1, <2>2, JobUidStable DEF MsgOfUid
<1>2. CASE SizecarPolled
  <2> DEFINE j == getSlurmJobId(pods["sizecar"])
  <2>1. Polled("sizecar") /\ UNCHANGED slurmVars
    BY <1>2 DEF SizecarPolled, PollStatus, PollOverwritesLabel
  <2>2. jobUid[j] = pods["sizecar"].uid /\ DOMAIN RecordInfo(j) = {j} \X Visible(j)
    BY <2>1, PolledJob
  <2>3. k \in DOMAIN RecordInfo(j)
    BY <1>2, MsgKinds DEF SizecarPolled
  <2>4. k[1] = j
    BY <2>2, <2>3
  <2> QED
    BY <1>2, <2>1, <2>2, <2>4 DEF slurmVars, SizecarPolled
<1>3. ~SizecarFailed
  BY MsgKinds, EmptyDomain DEF SizecarFailed
<1>4. pods'["sizecar"] # CreatedPod(NoJob, {}) /\ pods'["sizecar"] # NoPod
  BY CreatedFields, NoPodFields, EmptyDomain
<1> QED
  BY <1>1, <1>2, <1>3, <1>4, SizecarContents DEF SizecarDeleted, SizecarLabelled

LEMMA UnpurgedKeysStep ==
  ASSUME BridgeTypes, LabelInv, RecordsInv, UnpurgedKeys, [Next]_vars
  PROVE  UnpurgedKeys'
<1> TypeOK
  BY DEF BridgeTypes
<1> SUFFICES ASSUME "purge" \notin seen', NEW k \in PodKeys' PROVE k[2] \in Visible(k[1])'
  BY DEF UnpurgedKeys
<1>1. CASE k \in PodKeys
  <2>1. k \in Keys /\ k[1] \in JobIds /\ k[2] \in Tasks
    BY <1>1, KeyTypes, KeyFields DEF Keys
  <2>2. jobUid[k[1]] # NoUid
    BY <2>1 DEF RecordsInv, KeysKnown, KnownKey
  <2>3. k[2] \in Visible(k[1])
    BY <1>1, SeenGrows DEF UnpurgedKeys
  <2> QED
    BY <2>1, <2>2, <2>3, RecordsSettle
<1>2. CASE SizecarPolled /\ k \in DOMAIN RecordInfo(getSlurmJobId(pods["sizecar"]))
  <2> DEFINE j == getSlurmJobId(pods["sizecar"])
  <2>1. Polled("sizecar") /\ UNCHANGED slurmVars
    BY <1>2 DEF SizecarPolled, PollStatus, PollOverwritesLabel
  <2>2. DOMAIN RecordInfo(j) = {j} \X Visible(j)
    BY <2>1, PolledJob
  <2>3. k[1] = j /\ k[2] \in Visible(j)
    BY <1>2, <2>2
  <2> QED
    BY <2>1, <2>3 DEF slurmVars, Visible
<1> QED
  BY <1>1, <1>2, PodKeysSteps

(* The label that is written names the job of the message. *)
LEMMA LabelledMsg ==
  ASSUME BridgeTypes, LabelInv, FreshInv, RecordsInv, MsgOfUid, ~PanicCause, "vkPanic" \notin seen,
         addAndUpdateSlurmJobInfo
  PROVE  OneJob(vkCall.job, DOMAIN pods["sizecar"].msg.info)
<1> TypeOK /\ CallOwn /\ CallFresh
  BY DEF BridgeTypes, LabelInv, FreshInv
<1>1. vkCall.pc = "label" /\ pods["sizecar"] = vkCall.pod
  BY DEF addAndUpdateSlurmJobInfo, SamePod
<1>2. CASE NoKubeletCrash
  BY <1>1, <1>2, EmptyDomain DEF CallFresh, OneJob
<1>3. CASE ~NoKubeletCrash
  <2>1. ~DuplicateJob
    BY <1>3 DEF NoKubeletCrash, KubeletCrashes, PanicCause
  <2>2. vkCall.job \in JobIds /\ jobUid[vkCall.job] = pods["sizecar"].uid
    BY <1>1 DEF CallOwn
  <2>3. pods["sizecar"].uid \in Uids
    BY <1>1, CallPodIssued
  <2>4. ASSUME NEW k \in DOMAIN pods["sizecar"].msg.info PROVE k[1] = vkCall.job
    <3>1. k[1] \in JobIds
      BY KeyTypes, KeyFields DEF Keys, PodKeys
    <3>2. jobUid[k[1]] = pods["sizecar"].uid
      BY DEF MsgOfUid
    <3> QED
      BY <2>1, <2>2, <2>3, <3>1, <3>2 DEF DuplicateJob, JobsOf
  <2> QED
    BY <2>4 DEF OneJob
<1> QED
  BY <1>2, <1>3

(* The containers of the worker pod are records of its job. *)
LEMMA NoPollPanic ==
  ASSUME BridgeTypes, LabelInv, UnpurgedKeys, "purge" \notin seen,
         OneJob(pods["worker"].job, pods["worker"].containers)
  PROVE  ~PollPanic
<1> SUFFICES ASSUME PollPanic PROVE FALSE
  OBVIOUS
<1> DEFINE j == pods["worker"].job
<1>1. PodExists(pods["worker"]) /\ ~(pods["worker"].containers \subseteq DOMAIN RecordInfo(getSlurmJobId(pods["worker"])))
  BY DEF PollPanic, Polled, ContainerStatusesPanic
<1>2. j \in JobIds /\ getSlurmJobId(pods["worker"]) = j
  BY <1>1 DEF LabelInv, LabelsOwn, getSlurmJobId, JobIds, NoJob
<1>3. DOMAIN RecordInfo(j) = {j} \X Visible(j)
  BY DEF RecordInfo, JobInfo
<1>4. ASSUME NEW k \in pods["worker"].containers PROVE k \in {j} \X Visible(j)
  <2>1. k \in PodKeys /\ k \in RecordIds
    BY KeyTypes DEF PodKeys, Keys, BridgeTypes
  <2>2. k = <<k[1], k[2]>> /\ k[1] = j /\ k[2] \in Visible(k[1])
    BY <2>1, KeyFields DEF UnpurgedKeys, OneJob
  <2> QED
    BY <2>2
<1> QED
  BY <1>1, <1>2, <1>3, <1>4

LEMMA NoPanicStep ==
  ASSUME BridgeTypes, LabelInv, FreshInv, RecordsInv, PanicInv, [Next]_vars
  PROVE  NoPanic'
<1> SUFFICES ASSUME ~PanicCause'
             PROVE  /\ \A p \in PodCopies' : MsgOfJob(p)
                    /\ OneJob(pods'["worker"].job, pods'["worker"].containers)
                    /\ "vkPanic" \notin seen'
  BY DEF NoPanic
<1>t. TypeOK /\ MsgOfUid /\ UnpurgedKeys /\ ~PanicCause
  BY PanicCauseStays DEF BridgeTypes, PanicInv
<1>0. /\ \A p \in PodCopies : MsgOfJob(p)
      /\ OneJob(pods["worker"].job, pods["worker"].containers)
      /\ "vkPanic" \notin seen /\ "purge" \notin seen
  BY <1>t DEF PanicInv, NoPanic, PanicCause
<1>e. \A p : p.msg.info = Empty => MsgOfJob(p)
  BY EmptyDomain DEF MsgOfJob, OneJob
<1>s. MsgOfJob(pods["sizecar"]) /\ MsgOfJob(cPods["sizecar"]) /\ MsgOfJob(opPod)
  BY <1>0 DEF PodCopies, SizecarCopies
<1>1. MsgOfJob(pods'["sizecar"])
  <2>1. CASE pods'["sizecar"] = pods["sizecar"] \/ SizecarDeleted
    BY <1>s, <2>1 DEF SizecarDeleted, MsgOfJob
  <2>2. CASE SizecarPolled
    <3> SUFFICES ASSUME pods["sizecar"].job # NoJob
                 PROVE  OneJob(pods["sizecar"].job, DOMAIN pods'["sizecar"].msg.info)
      BY <2>2 DEF SizecarPolled, MsgOfJob
    <3>1. getSlurmJobId(pods["sizecar"]) = pods["sizecar"].job
      BY DEF getSlurmJobId
    <3>2. DOMAIN pods'["sizecar"].msg.info = {pods["sizecar"].job} \X Visible(pods["sizecar"].job)
      BY <2>2, <3>1, MsgKinds DEF SizecarPolled, RecordInfo, JobInfo
    <3> QED
      BY <3>2 DEF OneJob
  <2>3. CASE SizecarFailed
    BY <1>e, <2>3, MsgKinds DEF SizecarFailed
  <2>4. CASE SizecarLabelled
    BY <1>t, <1>0, <2>4, LabelledMsg DEF SizecarLabelled, MsgOfJob
  <2>5. CASE pods'["sizecar"] = CreatedPod(NoJob, {}) \/ pods'["sizecar"] = NoPod
    BY <1>e, <2>5, CreatedFields, NoPodFields, EmptyDomain
  <2> QED
    BY <1>t, <2>1, <2>2, <2>3, <2>4, <2>5, SizecarContents
<1>2. MsgOfJob(cPods'["sizecar"])
  BY <1>s, PodCopySteps
<1>3. MsgOfJob(opPod')
  <2>1. MsgOfJob(NoPod)
    BY <1>e, NoPodFields, EmptyDomain
  <2>2. CASE CreateSizeCar
    BY <1>e, <2>2, CreatedFields, EmptyDomain DEF CreateSizeCar
  <2> QED
    BY <1>s, <2>1, <2>2, PodCopySteps
<1>4. OneJob(pods'["worker"].job, pods'["worker"].containers)
  <2>1. CASE CreateWorker /\ pods'["worker"] = CreatedPod(opPod.job, DOMAIN opPod.msg.info)
    <3>1. opPod.job # NoJob
      BY <2>1 DEF CreateWorker, MayCreateWorker, Submitted
    <3> QED
      BY <1>s, <2>1, <3>1, CreatedFields DEF MsgOfJob
  <2>2. CASE pods'["worker"] = NoPod
    BY <2>2, NoPodFields DEF OneJob
  <2> QED
    BY <1>0, <1>t, <2>1, <2>2, WorkerSteps
<1>5. "vkPanic" \notin seen'
  BY <1>0, <1>t, NoPollPanic, PanicSteps
<1> QED
  BY <1>1, <1>2, <1>3, <1>4, <1>5 DEF PodCopies, SizecarCopies

(* The poll of the worker pod dereferences a nil record
   (getRelateSLurmJobInfo) only after Slurm forgot a record, or after a crash
   of the kubelet that got the sizecar pod a second job. *)
THEOREM PanicHasCause == Spec => []PanicNeedsCause
<1>1. BridgeTypes /\ LabelInv /\ FreshInv /\ RecordsInv /\ PanicInv /\ [Next]_vars => PanicInv'
  BY MsgOfUidStep, UnpurgedKeysStep, NoPanicStep DEF PanicInv
<1>2. PanicInv => PanicNeedsCause
  BY DEF PanicInv, NoPanic, PanicCause, PanicNeedsCause
<1> QED
  BY <1>1, <1>2, PanicInit, BridgeTypesHold, LabelsHold, FreshHolds, RecordsHold, PTL DEF Spec
=============================================================================
