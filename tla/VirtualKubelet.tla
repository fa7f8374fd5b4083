--------------------------- MODULE VirtualKubelet ---------------------------
(***************************************************************************)
(* The virtual kubelet's pod provider (slurm-virtual-kubelet/provider.go   *)
(* and status.go) for the two pods of a SlurmBridgeJob. The kubelet        *)
(* library that drives it (external) runs at most one CreatePod, UpdatePod *)
(* or DeletePod for a pod at a time and polls GetPodStatus in another      *)
(* goroutine. It calls CreatePod for a pod GetPod does not return, leaves  *)
(* pods in a final phase alone, and answers an error of CreatePod by       *)
(* trying again or by marking the pod Failed with the error as message.    *)
(* knownPods lives in memory only.                                         *)
(***************************************************************************)
EXTENDS KubeState, SlurmAgent

VARIABLES
  knownPods,  \* provider.knownPods: pod UID -> job id
  vkCall,     \* the running CreatePod of the sizecar pod
  vkPoll      \* UID of the sizecar pod of which a poll has a copy without label

vkVars == <<knownPods, vkCall, vkPoll>>

NoCall == [pc |-> "idle", rpc |-> "none", pod |-> NoPod, job |-> NoJob]

VkTypeOK ==
  /\ knownPods \in [Uids -> JobIds \cup {NoJob}]
  /\ vkCall \in [pc : {"idle", "submit", "store", "label"}, rpc : Rpcs \cup {"none"},
                 pod : Pod, job : JobIds \cup {NoJob}]
  /\ vkPoll \in Uids \cup {NoUid}

VkInit ==
  /\ knownPods = [u \in Uids |-> NoJob]
  /\ vkCall = NoCall
  /\ vkPoll = NoUid

\* Mutation: only the label is looked at.
getSlurmJobId_LabelOnly(p) == p.job

\* getSlurmJobId: the label, else what the process remembers.
getSlurmJobId(p) ==
  IF p.job # NoJob THEN p.job
  ELSE IF PodExists(p) THEN knownPods[p.uid] ELSE NoJob

\* Mutation: the test of the label is inverted.
needReconcile_Labelled(role, p) == p.job # NoJob /\ role = "sizecar"

\* needReconcile, for a pod of the given role.
needReconcile(role, p) == p.job = NoJob /\ role = "sizecar"

\* The library hands the pod to CreatePod: GetPod returned nothing for it.
Creatable(p) ==
  /\ PodExists(p) /\ ~p.deleting /\ ~Terminal(p.phase)
  /\ vkCall.pc = "idle"
  /\ getSlurmJobId(p) = NoJob

-----------------------------------------------------------------------------
(* CreatePod up to the agent's lookup of the UID. *)
CreatePod(r) ==
  LET p == pods["sizecar"] IN
  /\ Creatable(p) /\ needReconcile("sizecar", p)
  /\ \/ /\ SubmitKnown(r, p.uid)
        /\ vkCall' = [pc |-> "store", rpc |-> r, pod |-> p, job |-> knownJobs[p.uid]]
     \/ /\ SubmitUnknown(r, p.uid)
        /\ vkCall' = [pc |-> "submit", rpc |-> r, pod |-> p, job |-> NoJob]
  /\ UNCHANGED <<kubeVars, knownPods, vkPoll>>

\* Call r of SubmitJob is the one the running CreatePod waits for.
WaitsFor(r) == vkCall.pc = "submit" /\ vkCall.rpc = r

(* The agent answers call r; nobody listens if the kubelet crashed. *)
SubmitAnswered(r) ==
  /\ SubmitStore(r)
  /\ vkCall' = IF WaitsFor(r) THEN [vkCall EXCEPT !.pc = "store", !.job = submits[r].job]
               ELSE vkCall
  /\ UNCHANGED <<kubeVars, knownPods, vkPoll>>

(* CreatePod returns an error: the library marks the pod Failed with the
   error's text, or leaves it for another try. *)
CreatePodError ==
  /\ vkCall' = NoCall
  /\ UNCHANGED <<sbj, fetchJob, lastUid, knownPods, vkPoll>>
  /\ \/ /\ pods["sizecar"].uid = vkCall.pod.uid
        /\ pods' = [pods EXCEPT !["sizecar"].phase = "Failed", !["sizecar"].msg = TextMsg]
     \/ UNCHANGED pods

NobodyWaits(r) == ~WaitsFor(r) /\ UNCHANGED <<sbj, pods, fetchJob, lastUid, vkVars>>

SubmitError(r) ==
  /\ Fault("sbatchError")
  /\ SBatchError(r)
  /\ (WaitsFor(r) /\ CreatePodError) \/ NobodyWaits(r)

SubmitUnparsable(r, j) ==
  /\ Fault("sbatchUnparsable")
  /\ SBatchUnparsable(r, j)
  /\ (WaitsFor(r) /\ CreatePodError) \/ NobodyWaits(r)

AgentCrash ==
  /\ Fault("agentCrash")
  /\ AgentRestart
  /\ IF vkCall.pc = "submit" THEN CreatePodError
     ELSE UNCHANGED <<sbj, pods, fetchJob, lastUid, vkVars>>

\* CreatePod remembers the job id ...
StoreKnownPod ==
  /\ vkCall.pc = "store"
  /\ knownPods' = [knownPods EXCEPT ![vkCall.pod.uid] = vkCall.job]
  /\ vkCall' = [vkCall EXCEPT !.pc = "label"]
  /\ UNCHANGED <<kubeVars, vkPoll, slurmVars, agentVars>>

SamePod == pods["sizecar"] = vkCall.pod

(* ... and writes it as a label, with the endpoint annotation, into the
   version of the pod it was called with. *)
addAndUpdateSlurmJobInfo ==
  /\ vkCall.pc = "label"
  /\ SamePod
  /\ pods' = [pods EXCEPT !["sizecar"].job = vkCall.job]
  /\ vkCall' = NoCall
  /\ UNCHANGED <<sbj, fetchJob, lastUid, knownPods, vkPoll, slurmVars, agentVars>> /\ NoFault

\* The pod changed meanwhile, or the request fails; the error is only logged.
LabelFails ==
  /\ vkCall.pc = "label"
  /\ \/ ~SamePod /\ Lose("labelLost")
     \/ FaultWithLoss("labelError", "labelLost")
  /\ vkCall' = NoCall
  /\ UNCHANGED <<sbj, pods, fetchJob, lastUid, knownPods, vkPoll, slurmVars, agentVars>>

-----------------------------------------------------------------------------
(* UpdatePod remembers the job id label. For the worker pod, which carries the
   label from its creation on, the entry is never read and is left out. *)
UpdatePod ==
  LET p == pods["sizecar"] IN
  /\ PodExists(p) /\ ~p.deleting /\ p.job # NoJob
  /\ vkCall.pc = "idle"
  /\ knownPods[p.uid] # p.job
  /\ knownPods' = [knownPods EXCEPT ![p.uid] = p.job]
  /\ UNCHANGED <<kubeVars, vkCall, vkPoll, slurmVars, agentVars>>

(* DeletePod cancels the job of the pod, if it finds one, and forgets the
   pod; then the library removes the pod. *)
Deletable(role) ==
  /\ pods[role].deleting
  /\ role = "sizecar" => vkCall.pc = "idle"

Forget(p) == knownPods' = [knownPods EXCEPT ![p.uid] = NoJob]

\* Mutation: only the job of a running pod is cancelled.
DeletePod_RunningOnly(role) ==
  LET p == pods[role] IN
  /\ Deletable(role)
  /\ IF getSlurmJobId(p) = NoJob \/ p.phase # "Running"
     THEN UNCHANGED <<slurmVars, agentVars>>
     ELSE CancelJob(getSlurmJobId(p))
  /\ Forget(p)
  /\ pods' = [pods EXCEPT ![role] = NoPod]
  /\ UNCHANGED <<sbj, fetchJob, lastUid, vkCall, vkPoll>> /\ NoFault

DeletePod(role) ==
  LET p == pods[role] IN
  /\ Deletable(role)
  /\ IF getSlurmJobId(p) = NoJob
     THEN UNCHANGED <<slurmVars, agentVars>>
     ELSE CancelJob(getSlurmJobId(p))
  /\ Forget(p)
  /\ pods' = [pods EXCEPT ![role] = NoPod]
  /\ UNCHANGED <<sbj, fetchJob, lastUid, vkCall, vkPoll>> /\ NoFault

(* scancel fails: DeletePod is tried again later, but the deferred Delete has
   already dropped the pod from knownPods. *)
DeletePodError(role) ==
  /\ Deletable(role)
  /\ getSlurmJobId(pods[role]) # NoJob
  /\ Fault("cancelError")
  /\ Forget(pods[role])
  /\ UNCHANGED <<sbj, pods, fetchJob, lastUid, vkCall, vkPoll, slurmVars, agentVars>>

-----------------------------------------------------------------------------
RecordInfo(j) == [k \in {j} \X DOMAIN JobInfo(j) |-> JobInfo(j)[k[2]]]

Polled(role) ==
  /\ PodExists(pods[role]) /\ ~Terminal(pods[role].phase)
  /\ getSlurmJobId(pods[role]) # NoJob
  /\ ~JobInfoFails(getSlurmJobId(pods[role]))

\* GetPodStatus converts the agent's answer. Nothing reads the message of the
\* worker pod, so it is left out.
Shown(role) ==
  LET info == RecordInfo(getSlurmJobId(pods[role])) IN
  [pods[role] EXCEPT !.phase = slurmState2PodPhase(info),
                     !.msg = IF role = "sizecar" THEN InfoMsg(info) ELSE @]

(* The poll: the library writes the new status into the copy of the pod it
   started from, and that over the pod, whatever its version. *)
PollStatus(role) ==
  /\ Polled(role)
  /\ ~ContainerStatusesPanic(role, pods[role].containers, RecordInfo(getSlurmJobId(pods[role])))
  /\ Shown(role) # pods[role]
  /\ pods' = [pods EXCEPT ![role] = Shown(role)]
  /\ vkPoll' = IF role = "sizecar" THEN NoUid ELSE vkPoll
  /\ UNCHANGED <<sbj, fetchJob, lastUid, knownPods, vkCall, slurmVars, agentVars>> /\ NoFault

(* A poll starts from a copy without the label; a copy that has the label has
   all that the pod has when the status is written. *)
PollStarts ==
  /\ Polled("sizecar") /\ pods["sizecar"].job = NoJob
  /\ vkPoll' = pods["sizecar"].uid
  /\ UNCHANGED <<kubeVars, knownPods, vkCall, slurmVars, agentVars>>

(* CreatePod has written the label meanwhile: the poll takes it away again. *)
PollOverwritesLabel ==
  /\ Polled("sizecar") /\ pods["sizecar"].job # NoJob
  /\ vkPoll = pods["sizecar"].uid
  /\ Shown("sizecar") # pods["sizecar"]
  /\ pods' = [pods EXCEPT !["sizecar"] = [Shown("sizecar") EXCEPT !.job = NoJob]]
  /\ vkPoll' = NoUid
  /\ seen' = seen \cup {"labelLost", "labelOverwritten"} /\ UNCHANGED budget
  /\ UNCHANGED <<sbj, fetchJob, lastUid, knownPods, vkCall, slurmVars, agentVars>>

VkRestarted ==
  /\ knownPods' = [u \in Uids |-> NoJob]
  /\ vkCall' = NoCall
  /\ vkPoll' = NoUid
  /\ UNCHANGED <<sbj, pods, fetchJob, lastUid, slurmVars, agentVars>>

(* A record the worker pod has a container for is gone: nil dereference. *)
PollPanic ==
  /\ Polled("worker")
  /\ ContainerStatusesPanic("worker", pods["worker"].containers,
                            RecordInfo(getSlurmJobId(pods["worker"])))
  /\ VkRestarted
  /\ Lose("vkPanic")

VkCrash ==
  /\ Fault("vkCrash")
  /\ VkRestarted

(* GetPodStatus returns nil for a pod without a job; the library gives up on
   a pod that stays so and marks it Failed. *)
StatusNotFound ==
  /\ PodExists(pods["sizecar"]) /\ ~Terminal(pods["sizecar"].phase)
  /\ getSlurmJobId(pods["sizecar"]) = NoJob
  /\ Fault("podNotFound")
  /\ pods' = [pods EXCEPT !["sizecar"].phase = "Failed", !["sizecar"].msg = TextMsg]
  /\ UNCHANGED <<sbj, fetchJob, lastUid, vkVars, slurmVars, agentVars>>

Purge(j, t) ==
  /\ Fault("purge")
  /\ SlurmPurge(j, t)
  /\ UNCHANGED <<sbj, pods, fetchJob, lastUid, agentVars, vkVars>>

VkNext ==
  \/ \E r \in Rpcs : CreatePod(r) \/ SubmitAnswered(r) \/ SubmitError(r)
  \/ \E r \in Rpcs, j \in JobIds : SubmitUnparsable(r, j)
  \/ \E r \in Rpcs, j \in JobIds : SBatch(r, j) /\ UNCHANGED <<kubeVars, vkVars>>
  \/ \E r \in Rpcs : OrphanSBatch(r) /\ UNCHANGED <<kubeVars, vkVars>>
  \/ SlurmProgress /\ UNCHANGED <<agentVars, kubeVars, vkVars>>
  \/ \E j \in JobIds, t \in Tasks : Purge(j, t)
  \/ StoreKnownPod \/ addAndUpdateSlurmJobInfo \/ LabelFails
  \/ \E role \in Roles : DeletePod(role) \/ DeletePodError(role) \/ PollStatus(role)
  \/ UpdatePod \/ PollStarts \/ PollOverwritesLabel
  \/ AgentCrash \/ VkCrash \/ PollPanic \/ StatusNotFound
=============================================================================
