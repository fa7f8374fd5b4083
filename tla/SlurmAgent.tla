----------------------------- MODULE SlurmAgent -----------------------------
(***************************************************************************)
(* The slurm-agent gRPC server (slurm-agent/api/slurm.go on top of         *)
(* slurm-agent/slurm.go): SubmitJob, SubmitJobContainer, CancelJob and     *)
(* JobInfo. gRPC runs every call in a goroutine of its own, and SubmitJob  *)
(* looks a pod UID up in knownJobs, runs sbatch and stores the job id      *)
(* without a lock, so calls for one UID interleave. knownJobs lives in     *)
(* memory only.                                                            *)
(***************************************************************************)
EXTENDS Slurm

CONSTANTS
  Rpcs,              \* slots for SubmitJob calls in flight
  MaxAgentRestarts   \* bound on agent restarts

ASSUME AgentAssumption == MaxAgentRestarts \in Nat

VARIABLES
  knownJobs,      \* Slurm.knownJobs: pod UID -> job id
  submits,        \* the SubmitJob calls in flight
  agentRestarts,  \* number of restarts so far
  replies,        \* history: <<uid, job>> pairs answered to callers
  overlapped,     \* history: UIDs for which two calls were in flight at once
  unparsed        \* history: UIDs for which sbatch's output was not a number

agentVars == <<knownJobs, submits, agentRestarts, replies, overlapped, unparsed>>

FreeCall == [pc |-> "free", uid |-> NoUid, job |-> NoJob]

(* pc of a call: "sbatch" between the failed lookup and sbatch's answer,
   "store" between that answer and the return, "orphan" when the agent was
   killed while the sbatch child process was running. *)
Call ==
  [pc  : {"free", "sbatch", "store", "orphan"},
   uid : Uids \cup {NoUid},
   job : JobIds \cup {NoJob}]

AgentTypeOK ==
  /\ knownJobs \in [Uids -> JobIds \cup {NoJob}]
  /\ submits \in [Rpcs -> Call]
  /\ agentRestarts \in 0..MaxAgentRestarts
  /\ replies \subseteq Uids \X JobIds
  /\ overlapped \subseteq Uids
  /\ unparsed \subseteq Uids

AgentInit ==
  /\ knownJobs = [u \in Uids |-> NoJob]
  /\ submits = [r \in Rpcs |-> FreeCall]
  /\ agentRestarts = 0
  /\ replies = {}
  /\ overlapped = {}
  /\ unparsed = {}

Flying(r, u) == submits[r].pc \in {"sbatch", "store", "orphan"} /\ submits[r].uid = u
InFlight(u) == {r \in Rpcs : Flying(r, u)}

-----------------------------------------------------------------------------
(* SubmitJob: the UID is known, its job id is the answer. *)
SubmitKnown(r, u) ==
  /\ submits[r].pc = "free"
  /\ knownJobs[u] # NoJob
  /\ replies' = replies \cup {<<u, knownJobs[u]>>}
  /\ UNCHANGED <<slurmVars, knownJobs, submits, agentRestarts, overlapped, unparsed>>

(* Mutation: the lookup in knownJobs is dropped, every call runs sbatch. *)
SubmitUnknown_NoLookup(r, u) ==
  /\ submits[r].pc = "free"
  /\ submits' = [submits EXCEPT ![r] = [pc |-> "sbatch", uid |-> u, job |-> NoJob]]
  /\ overlapped' = IF InFlight(u) = {} THEN overlapped ELSE overlapped \cup {u}
  /\ UNCHANGED <<slurmVars, knownJobs, agentRestarts, replies, unparsed>>

(* SubmitJob: the UID is not known, sbatch is started. *)
SubmitUnknown(r, u) ==
  /\ submits[r].pc = "free"
  /\ knownJobs[u] = NoJob
  /\ submits' = [submits EXCEPT ![r] = [pc |-> "sbatch", uid |-> u, job |-> NoJob]]
  /\ overlapped' = IF InFlight(u) = {} THEN overlapped ELSE overlapped \cup {u}
  /\ UNCHANGED <<slurmVars, knownJobs, agentRestarts, replies, unparsed>>

(* sbatch accepted the script and its output is the job id. *)
SBatch(r, j) ==
  /\ submits[r].pc = "sbatch"
  /\ Accept(j, submits[r].uid)
  /\ submits' = [submits EXCEPT ![r].pc = "store", ![r].job = j]
  /\ UNCHANGED <<knownJobs, agentRestarts, replies, overlapped, unparsed>>

(* sbatch failed; SubmitJob returns the error and remembers nothing. *)
SBatchError(r) ==
  /\ submits[r].pc = "sbatch"
  /\ submits' = [submits EXCEPT ![r] = FreeCall]
  /\ UNCHANGED <<slurmVars, knownJobs, agentRestarts, replies, overlapped, unparsed>>

(* sbatch accepted the script but its combined output (a warning on stderr,
   a cluster name after the id) is not a number: the job exists and SubmitJob
   returns an error. *)
SBatchUnparsable(r, j) ==
  /\ submits[r].pc = "sbatch"
  /\ Accept(j, submits[r].uid)
  /\ unparsed' = unparsed \cup {submits[r].uid}
  /\ submits' = [submits EXCEPT ![r] = FreeCall]
  /\ UNCHANGED <<knownJobs, agentRestarts, replies, overlapped>>

(* Mutation: the job id is answered but not stored. *)
SubmitStore_NoStore(r) ==
  /\ submits[r].pc = "store"
  /\ replies' = replies \cup {<<submits[r].uid, submits[r].job>>}
  /\ submits' = [submits EXCEPT ![r] = FreeCall]
  /\ UNCHANGED <<slurmVars, knownJobs, agentRestarts, overlapped, unparsed>>

(* SubmitJob stores the new job id and answers it. *)
SubmitStore(r) ==
  /\ submits[r].pc = "store"
  /\ knownJobs' = [knownJobs EXCEPT ![submits[r].uid] = submits[r].job]
  /\ replies' = replies \cup {<<submits[r].uid, submits[r].job>>}
  /\ submits' = [submits EXCEPT ![r] = FreeCall]
  /\ UNCHANGED <<slurmVars, agentRestarts, overlapped, unparsed>>

(* SubmitJobContainer runs sbatch without a UID and without remembering. *)
SubmitJobContainer(j) ==
  /\ Accept(j, ContainerUid)
  /\ UNCHANGED agentVars

(* CancelJob; an error of scancel changes nothing. *)
CancelJob(j) ==
  /\ jobUid[j] # NoUid
  /\ SCancel(j)
  /\ UNCHANGED agentVars

(* The agent process dies and starts again with an empty knownJobs. An
   sbatch child process that was running goes on. *)
AgentRestart ==
  /\ agentRestarts < MaxAgentRestarts
  /\ agentRestarts' = agentRestarts + 1
  /\ knownJobs' = [u \in Uids |-> NoJob]
  /\ submits' = [r \in Rpcs |->
                   IF submits[r].pc \in {"sbatch", "orphan"}
                   THEN [submits[r] EXCEPT !.pc = "orphan"] ELSE FreeCall]
  /\ UNCHANGED <<slurmVars, replies, overlapped, unparsed>>

(* The child process left behind by a restart reaches Slurm, or does not. *)
OrphanSBatch(r) ==
  /\ submits[r].pc = "orphan"
  /\ submits' = [submits EXCEPT ![r] = FreeCall]
  /\ \/ \E j \in JobIds : Accept(j, submits[r].uid)
     \/ UNCHANGED slurmVars
  /\ UNCHANGED <<knownJobs, agentRestarts, replies, overlapped, unparsed>>

(* mapSInfoToProtoInfo: a state name that JobStatus lacks becomes UNKNOWN. *)
mapSInfoToProtoInfo(state) == IF state \in JobStatus THEN state ELSE "UNKNOWN"

(* JobInfo: what the agent answers about job j; an error when no record is
   left. *)
JobInfoFails(j) == Visible(j) = {}

(* Mutation: only tasks that have not ended are asked for. *)
JobInfo_ActiveOnly(j) ==
  [t \in {s \in Visible(j) : records[j][s] \in Active} |-> records[j][t]]

JobInfo(j) == [t \in Visible(j) |-> mapSInfoToProtoInfo(records[j][t])]

-----------------------------------------------------------------------------
AgentNext ==
  \/ \E r \in Rpcs, u \in Uids : SubmitKnown(r, u) \/ SubmitUnknown(r, u)
  \/ \E r \in Rpcs : SBatchError(r) \/ SubmitStore(r) \/ OrphanSBatch(r)
  \/ \E r \in Rpcs, j \in JobIds : SBatch(r, j) \/ SBatchUnparsable(r, j)
  \/ \E j \in JobIds : SubmitJobContainer(j) \/ CancelJob(j)
  \/ AgentRestart
  \/ SlurmNext /\ UNCHANGED agentVars

SystemInit == SlurmInit /\ AgentInit

AgentSpec == SystemInit /\ [][AgentNext]_<<slurmVars, agentVars>>

-----------------------------------------------------------------------------
(* What SubmitJob stores, answers and keeps on its stack are job ids sbatch
   printed, never the zero value of a failed conversion. *)
AgentTypeInv == SlurmTypeOK /\ AgentTypeOK

(* The causes of a second Slurm job for one pod: two SubmitJob calls for it
   were in flight at once, sbatch's output could not be read, or the agent
   lost knownJobs in a restart. *)
Excused(u) == u \in overlapped \/ u \in unparsed \/ agentRestarts > 0

(* At most one Slurm job is ever submitted for a pod UID, however often the
   virtual kubelet repeats SubmitJob, unless one of these causes occurred. *)
OneJobPerUid ==
  \A u \in Uids : ~Excused(u) =>
    \A j, k \in JobIds : jobUid[j] = u /\ jobUid[k] = u => j = k

(* Every answer of SubmitJob for a UID names a job submitted for that UID,
   and two answers differ only when calls overlapped or the agent restarted:
   an unreadable sbatch answer alone does not make them differ. *)
RepliesAgree ==
  \A x \in replies :
    /\ jobUid[x[2]] = x[1]
    /\ \A y \in replies : x[1] = y[1] /\ x[2] # y[2]
                          => x[1] \in overlapped \/ agentRestarts > 0
=============================================================================
