-------------------------- MODULE SlurmAgentProofs --------------------------
(***************************************************************************)
(* Proofs about the agent, for any number of pods, jobs, tasks, concurrent *)
(* calls and restarts.                                                     *)
(***************************************************************************)
EXTENDS SlurmAgent, TLAPS

avars == <<slurmVars, agentVars>>

-----------------------------------------------------------------------------
(* The inductive invariant, in parts. *)

(* A call that reached sbatch has a UID, and the job it got belongs to it. *)
CallsOwnJobs ==
  \A r \in Rpcs :
    /\ submits[r].pc # "free" => submits[r].uid \in Uids
    /\ submits[r].pc = "store" => /\ submits[r].job \in JobIds
                                  /\ jobUid[submits[r].job] = submits[r].uid

KnownOwnJobs == \A u \in Uids : knownJobs[u] # NoJob => jobUid[knownJobs[u]] = u

OrphanNeedsRestart == \A r \in Rpcs : submits[r].pc = "orphan" => agentRestarts > 0

SingleFlight ==
  \A u \in Uids : u \notin overlapped =>
    \A r, s \in Rpcs : Flying(r, u) /\ Flying(s, u) => r = s

(* While a call for u is in flight nothing is known for u. *)
LookupStillValid ==
  \A u \in Uids : u \notin overlapped /\ agentRestarts = 0 =>
    \A r \in Rpcs : Flying(r, u) => knownJobs[u] = NoJob

(* The jobs of u are the known one, or the one a call is about to store. *)
JobsAccounted ==
  \A u \in Uids : ~Excused(u) =>
    \A j \in JobIds : jobUid[j] = u =>
      \/ knownJobs[u] = j
      \/ \E r \in Rpcs : submits[r].pc = "store" /\ submits[r].uid = u /\ submits[r].job = j

RepliesKnown ==
  \A x \in replies :
    /\ jobUid[x[2]] = x[1]
    /\ x[1] \notin overlapped /\ agentRestarts = 0 => knownJobs[x[1]] = x[2]

AgentInv ==
  /\ AgentTypeInv
  /\ CallsOwnJobs
  /\ KnownOwnJobs
  /\ OrphanNeedsRestart
  /\ SingleFlight
  /\ LookupStillValid
  /\ JobsAccounted
  /\ RepliesKnown

-----------------------------------------------------------------------------
(* The initial state satisfies the invariant: nothing is known, no call is in
   flight and Slurm holds no job. *)
LEMMA AgentInitInv == SlurmInit /\ AgentInit => AgentInv
<1> SUFFICES ASSUME SlurmInit, AgentInit PROVE AgentInv
  OBVIOUS
<1> USE SlurmAssumption, AgentAssumption
<1>1. AgentTypeInv
  BY DEF AgentTypeInv, SlurmInit, AgentInit, SlurmTypeOK, AgentTypeOK, Call, FreeCall
<1>2. CallsOwnJobs /\ KnownOwnJobs /\ OrphanNeedsRestart
  BY DEF AgentInit, CallsOwnJobs, KnownOwnJobs, OrphanNeedsRestart, FreeCall
<1>3. SingleFlight /\ LookupStillValid
  BY DEF AgentInit, SingleFlight, LookupStillValid, Flying, FreeCall
<1>4. JobsAccounted /\ RepliesKnown
  BY DEF SlurmInit, AgentInit, JobsAccounted, RepliesKnown, Uids, NoUid
<1> QED
  BY <1>1, <1>2, <1>3, <1>4 DEF AgentInv

(* A step that changes only the records of jobs preserves the invariant. *)
LEMMA AgentStutter ==
  ASSUME AgentInv, UNCHANGED <<jobUid, agentVars>>, SlurmTypeOK'
  PROVE  AgentInv'
<1> USE DEF agentVars
<1>1. AgentTypeInv'
  BY DEF AgentInv, AgentTypeInv, AgentTypeOK
<1>2. CallsOwnJobs' /\ KnownOwnJobs' /\ OrphanNeedsRestart'
  BY DEF AgentInv, CallsOwnJobs, KnownOwnJobs, OrphanNeedsRestart
<1>3. SingleFlight' /\ LookupStillValid'
  BY DEF AgentInv, SingleFlight, LookupStillValid, Flying
<1>4. JobsAccounted' /\ RepliesKnown'
  BY DEF AgentInv, JobsAccounted, RepliesKnown, Excused
<1> QED
  BY <1>1, <1>2, <1>3, <1>4 DEF AgentInv

(* Steps of Slurm and scancel keep the types of the records. *)
LEMMA SlurmNextType ==
  ASSUME SlurmTypeOK, SlurmNext \/ \E j \in JobIds : SCancel(j)
  PROVE  SlurmTypeOK' /\ UNCHANGED jobUid
<1> USE SlurmAssumption DEF SlurmTypeOK, SlurmState
<1>1. ASSUME NEW j \in JobIds, NEW t \in Tasks, NEW from, NEW to \in SlurmState \cup {"purged"},
             SetTask(j, t, from, to)
      PROVE  SlurmTypeOK' /\ UNCHANGED jobUid
  BY <1>1 DEF SetTask
<1>2. CASE SlurmNext
  BY <1>1, <1>2 DEF SlurmNext, SlurmProgress, SlurmStart, SlurmEnd, SlurmPurge
<1>3. CASE \E j \in JobIds : SCancel(j)
  BY <1>3 DEF SCancel
<1> QED
  BY <1>2, <1>3

(* sbatch keeps the types of the job table. *)
LEMMA AcceptType ==
  ASSUME SlurmTypeOK, NEW j \in JobIds, NEW u \in Uids \cup {ContainerUid}, Accept(j, u)
  PROVE  SlurmTypeOK'
<1>1. jobUid' \in [JobIds -> Uids \cup {NoUid, ContainerUid}]
  BY DEF SlurmTypeOK, Accept
<1>2. [t \in Tasks |-> IF t = Root THEN "PENDING" ELSE "hidden"]
        \in [Tasks -> SlurmState \cup {"hidden", "purged"}]
  BY DEF SlurmState
<1>3. records' \in [JobIds -> [Tasks -> SlurmState \cup {"hidden", "purged"}]]
  BY <1>2 DEF SlurmTypeOK, Accept
<1> QED
  BY <1>1, <1>3 DEF SlurmTypeOK

-----------------------------------------------------------------------------
(* Every step of the agent preserves the invariant. *)
LEMMA AgentStepInv == AgentInv /\ [AgentNext]_avars => AgentInv'
<1> SUFFICES ASSUME AgentInv, [AgentNext]_avars PROVE AgentInv'
  OBVIOUS
<1> USE SlurmAssumption, AgentAssumption
<1> USE DEF AgentInv, AgentTypeInv, SlurmTypeOK, AgentTypeOK, Call, Uids, JobIds, NoUid, NoJob,
            ContainerUid
<1>1. ASSUME NEW r \in Rpcs, NEW u \in Uids, SubmitKnown(r, u) PROVE AgentInv'
  <2>1. AgentTypeInv'
    BY <1>1 DEF SubmitKnown, slurmVars, SlurmState
  <2>2. CallsOwnJobs' /\ KnownOwnJobs' /\ OrphanNeedsRestart'
    BY <1>1 DEF SubmitKnown, slurmVars, CallsOwnJobs, KnownOwnJobs, OrphanNeedsRestart
  <2>3. SingleFlight'
    BY <1>1 DEF SubmitKnown, slurmVars, SingleFlight, Flying
  <2>4. LookupStillValid'
    BY <1>1 DEF SubmitKnown, slurmVars, SingleFlight, LookupStillValid, Flying, OrphanNeedsRestart
  <2>5. JobsAccounted'
    BY <1>1 DEF SubmitKnown, slurmVars, JobsAccounted, Excused, LookupStillValid, Flying, CallsOwnJobs, SingleFlight
  <2>6. RepliesKnown'
    BY <1>1 DEF SubmitKnown, slurmVars, RepliesKnown, LookupStillValid, SingleFlight, CallsOwnJobs, KnownOwnJobs, Flying, OrphanNeedsRestart
  <2> QED
    BY <2>1, <2>2, <2>3, <2>4, <2>5, <2>6
<1>2. ASSUME NEW r \in Rpcs, NEW u \in Uids, SubmitUnknown(r, u) PROVE AgentInv'
  <2>1. AgentTypeInv'
    BY <1>2 DEF SubmitUnknown, slurmVars, InFlight, SlurmState
  <2>2. CallsOwnJobs' /\ KnownOwnJobs' /\ OrphanNeedsRestart'
    BY <1>2 DEF SubmitUnknown, slurmVars, InFlight, CallsOwnJobs, KnownOwnJobs, OrphanNeedsRestart
  <2>3. SingleFlight'
    BY <1>2 DEF SubmitUnknown, slurmVars, InFlight, SingleFlight, Flying
  <2>4. LookupStillValid'
    BY <1>2 DEF SubmitUnknown, slurmVars, InFlight, SingleFlight, LookupStillValid, Flying, OrphanNeedsRestart
  <2>5. JobsAccounted'
    BY <1>2 DEF SubmitUnknown, slurmVars, InFlight, JobsAccounted, Excused, LookupStillValid, Flying, CallsOwnJobs, SingleFlight
  <2>6. RepliesKnown'
    BY <1>2 DEF SubmitUnknown, slurmVars, InFlight, RepliesKnown, LookupStillValid, SingleFlight, CallsOwnJobs, KnownOwnJobs, Flying, OrphanNeedsRestart
  <2> QED
    BY <2>1, <2>2, <2>3, <2>4, <2>5, <2>6
<1>3. ASSUME NEW r \in Rpcs, NEW j \in JobIds, SBatch(r, j) PROVE AgentInv'
  <2>1. AgentTypeInv'
    <3>1. submits[r].uid \in Uids
      BY <1>3 DEF SBatch, CallsOwnJobs
    <3>2. SlurmTypeOK'
      BY <1>3, <3>1, AcceptType DEF SBatch, AgentInv, AgentTypeInv, slurmVars, SlurmTypeOK
    <3>3. AgentTypeOK'
      BY <1>3, <3>1 DEF SBatch, AgentTypeOK, Call, FreeCall
    <3> QED
      BY <3>2, <3>3
  <2>2. CallsOwnJobs' /\ KnownOwnJobs' /\ OrphanNeedsRestart'
    BY <1>3 DEF SBatch, Accept, IsNextId, CallsOwnJobs, KnownOwnJobs, OrphanNeedsRestart
  <2>3. SingleFlight'
    BY <1>3 DEF SBatch, Accept, IsNextId, SingleFlight, Flying
  <2>4. LookupStillValid'
    BY <1>3 DEF SBatch, Accept, IsNextId, SingleFlight, LookupStillValid, Flying, OrphanNeedsRestart
  <2>5. JobsAccounted'
    <3> SUFFICES ASSUME NEW u \in Uids, ~Excused(u)', NEW k \in JobIds, jobUid'[k] = u
                 PROVE  \/ knownJobs'[u] = k
                        \/ \E s \in Rpcs : /\ submits'[s].pc = "store"
                                            /\ submits'[s].uid = u
                                            /\ submits'[s].job = k
      BY DEF JobsAccounted
    <3> ~Excused(u)
      BY <1>3 DEF SBatch, Excused
    <3>1. CASE k = j
      <4>1. submits[r].uid = u
        BY <1>3, <3>1 DEF SBatch, Accept
      <4> QED
        BY <1>3, <3>1, <4>1 DEF SBatch
    <3>2. CASE k # j
      <4>1. jobUid[k] = u
        BY <1>3, <3>2 DEF SBatch, Accept
      <4>2. CASE knownJobs[u] = k
        BY <1>3, <4>2 DEF SBatch
      <4>3. CASE knownJobs[u] # k
        <5>1. PICK s \in Rpcs : /\ submits[s].pc = "store"
                                /\ submits[s].uid = u
                                /\ submits[s].job = k
          BY <4>1, <4>3 DEF JobsAccounted
        <5> QED
          BY <1>3, <5>1 DEF SBatch
      <4> QED
        BY <4>2, <4>3
    <3> QED
      BY <3>1, <3>2
  <2>6. RepliesKnown'
    BY <1>3 DEF SBatch, Accept, IsNextId, RepliesKnown, LookupStillValid, SingleFlight, CallsOwnJobs, KnownOwnJobs, Flying, OrphanNeedsRestart
  <2> QED
    BY <2>1, <2>2, <2>3, <2>4, <2>5, <2>6
<1>4. ASSUME NEW r \in Rpcs, NEW j \in JobIds, SBatchUnparsable(r, j) PROVE AgentInv'
  <2>1. AgentTypeInv'
    <3>1. submits[r].uid \in Uids
      BY <1>4 DEF SBatchUnparsable, CallsOwnJobs
    <3>2. SlurmTypeOK'
      BY <1>4, <3>1, AcceptType DEF SBatchUnparsable, AgentInv, AgentTypeInv, slurmVars, SlurmTypeOK
    <3>3. AgentTypeOK'
      BY <1>4, <3>1 DEF SBatchUnparsable, AgentTypeOK, Call, FreeCall
    <3> QED
      BY <3>2, <3>3
  <2>2. CallsOwnJobs' /\ KnownOwnJobs' /\ OrphanNeedsRestart'
    BY <1>4 DEF SBatchUnparsable, Accept, IsNextId, FreeCall, CallsOwnJobs, KnownOwnJobs, OrphanNeedsRestart
  <2>3. SingleFlight'
    BY <1>4 DEF SBatchUnparsable, Accept, IsNextId, FreeCall, SingleFlight, Flying
  <2>4. LookupStillValid'
    BY <1>4 DEF SBatchUnparsable, Accept, IsNextId, FreeCall, SingleFlight, LookupStillValid, Flying, OrphanNeedsRestart
  <2>5. JobsAccounted'
    BY <1>4 DEF SBatchUnparsable, Accept, IsNextId, FreeCall, JobsAccounted, Excused, LookupStillValid, Flying, CallsOwnJobs, SingleFlight
  <2>6. RepliesKnown'
    BY <1>4 DEF SBatchUnparsable, Accept, IsNextId, FreeCall, RepliesKnown, LookupStillValid, SingleFlight, CallsOwnJobs, KnownOwnJobs, Flying, OrphanNeedsRestart
  <2> QED
    BY <2>1, <2>2, <2>3, <2>4, <2>5, <2>6
<1>5. ASSUME NEW r \in Rpcs, SBatchError(r) PROVE AgentInv'
  <2>1. AgentTypeInv'
    BY <1>5 DEF SBatchError, slurmVars, FreeCall, SlurmState
  <2>2. CallsOwnJobs' /\ KnownOwnJobs' /\ OrphanNeedsRestart'
    BY <1>5 DEF SBatchError, slurmVars, FreeCall, CallsOwnJobs, KnownOwnJobs, OrphanNeedsRestart
  <2>3. SingleFlight'
    BY <1>5 DEF SBatchError, slurmVars, FreeCall, SingleFlight, Flying
  <2>4. LookupStillValid'
    BY <1>5 DEF SBatchError, slurmVars, FreeCall, SingleFlight, LookupStillValid, Flying, OrphanNeedsRestart
  <2>5. JobsAccounted'
    BY <1>5 DEF SBatchError, slurmVars, FreeCall, JobsAccounted, Excused, LookupStillValid, Flying, CallsOwnJobs, SingleFlight
  <2>6. RepliesKnown'
    BY <1>5 DEF SBatchError, slurmVars, FreeCall, RepliesKnown, LookupStillValid, SingleFlight, CallsOwnJobs, KnownOwnJobs, Flying, OrphanNeedsRestart
  <2> QED
    BY <2>1, <2>2, <2>3, <2>4, <2>5, <2>6
<1>6. ASSUME NEW r \in Rpcs, SubmitStore(r) PROVE AgentInv'
  <2>1. AgentTypeInv'
    <3>1. submits[r].uid \in Uids /\ submits[r].job \in JobIds
      BY <1>6 DEF SubmitStore, CallsOwnJobs
    <3> QED
      BY <1>6, <3>1 DEF SubmitStore, slurmVars, FreeCall
  <2>2. CallsOwnJobs' /\ KnownOwnJobs' /\ OrphanNeedsRestart'
    BY <1>6 DEF SubmitStore, slurmVars, FreeCall, CallsOwnJobs, KnownOwnJobs, OrphanNeedsRestart
  <2>3. SingleFlight'
    BY <1>6 DEF SubmitStore, slurmVars, FreeCall, SingleFlight, Flying
  <2>4. LookupStillValid'
    BY <1>6 DEF SubmitStore, slurmVars, FreeCall, SingleFlight, LookupStillValid, Flying, OrphanNeedsRestart
  <2>5. JobsAccounted'
    BY <1>6 DEF SubmitStore, slurmVars, FreeCall, JobsAccounted, Excused, LookupStillValid, Flying, CallsOwnJobs, SingleFlight
  <2>6. RepliesKnown'
    BY <1>6 DEF SubmitStore, slurmVars, FreeCall, RepliesKnown, LookupStillValid, SingleFlight, CallsOwnJobs, KnownOwnJobs, Flying, OrphanNeedsRestart
  <2> QED
    BY <2>1, <2>2, <2>3, <2>4, <2>5, <2>6
<1>7. ASSUME NEW r \in Rpcs, OrphanSBatch(r) PROVE AgentInv'
  <2>1. AgentTypeInv'
    <3>1. submits[r].uid \in Uids
      BY <1>7 DEF OrphanSBatch, CallsOwnJobs
    <3>2. SlurmTypeOK'
      BY <1>7, <3>1, AcceptType DEF OrphanSBatch, AgentInv, AgentTypeInv, slurmVars, SlurmTypeOK
    <3>3. AgentTypeOK'
      BY <1>7, <3>1 DEF OrphanSBatch, AgentTypeOK, Call, FreeCall
    <3> QED
      BY <3>2, <3>3
  <2>2. CallsOwnJobs' /\ KnownOwnJobs' /\ OrphanNeedsRestart'
    BY <1>7 DEF OrphanSBatch, slurmVars, Accept, IsNextId, FreeCall, CallsOwnJobs, KnownOwnJobs, OrphanNeedsRestart
  <2>3. SingleFlight'
    BY <1>7 DEF OrphanSBatch, slurmVars, Accept, IsNextId, FreeCall, SingleFlight, Flying
  <2>4. LookupStillValid'
    BY <1>7 DEF OrphanSBatch, slurmVars, Accept, IsNextId, FreeCall, SingleFlight, LookupStillValid, Flying, OrphanNeedsRestart
  <2>5. JobsAccounted'
    BY <1>7 DEF OrphanSBatch, OrphanNeedsRestart, JobsAccounted, Excused
  <2>6. RepliesKnown'
    BY <1>7 DEF OrphanSBatch, slurmVars, Accept, IsNextId, FreeCall, RepliesKnown, LookupStillValid, SingleFlight, CallsOwnJobs, KnownOwnJobs, Flying, OrphanNeedsRestart
  <2> QED
    BY <2>1, <2>2, <2>3, <2>4, <2>5, <2>6
<1>8. ASSUME NEW j \in JobIds, SubmitJobContainer(j) PROVE AgentInv'
  <2>1. AgentTypeInv'
    BY <1>8 DEF SubmitJobContainer, agentVars, Accept, IsNextId, SlurmState
  <2>2. CallsOwnJobs' /\ KnownOwnJobs' /\ OrphanNeedsRestart'
    BY <1>8 DEF SubmitJobContainer, agentVars, Accept, IsNextId, CallsOwnJobs, KnownOwnJobs, OrphanNeedsRestart
  <2>3. SingleFlight'
    BY <1>8 DEF SubmitJobContainer, agentVars, Accept, IsNextId, SingleFlight, Flying
  <2>4. LookupStillValid'
    BY <1>8 DEF SubmitJobContainer, agentVars, Accept, IsNextId, SingleFlight, LookupStillValid, Flying, OrphanNeedsRestart
  <2>5. JobsAccounted'
    BY <1>8 DEF SubmitJobContainer, agentVars, Accept, IsNextId, JobsAccounted, Excused, LookupStillValid, Flying, CallsOwnJobs, SingleFlight
  <2>6. RepliesKnown'
    BY <1>8 DEF SubmitJobContainer, agentVars, Accept, IsNextId, RepliesKnown, LookupStillValid, SingleFlight, CallsOwnJobs, KnownOwnJobs, Flying, OrphanNeedsRestart
  <2> QED
    BY <2>1, <2>2, <2>3, <2>4, <2>5, <2>6
<1>9. ASSUME AgentRestart PROVE AgentInv'
  <2>1. AgentTypeInv'
    <3>1. submits' \in [Rpcs -> Call]
      BY <1>9 DEF AgentRestart, FreeCall
    <3>2. agentRestarts' \in 0..MaxAgentRestarts
      BY <1>9 DEF AgentRestart
    <3> QED
      BY <1>9, <3>1, <3>2 DEF AgentRestart, slurmVars
  <2>2. CallsOwnJobs' /\ KnownOwnJobs' /\ OrphanNeedsRestart'
    BY <1>9 DEF AgentRestart, slurmVars, FreeCall, CallsOwnJobs, KnownOwnJobs, OrphanNeedsRestart
  <2>3. SingleFlight'
    BY <1>9 DEF AgentRestart, slurmVars, FreeCall, SingleFlight, Flying
  <2>4. LookupStillValid'
    BY <1>9 DEF AgentRestart, slurmVars, FreeCall, SingleFlight, LookupStillValid, Flying, OrphanNeedsRestart
  <2>5. JobsAccounted'
    BY <1>9 DEF AgentRestart, slurmVars, FreeCall, JobsAccounted, Excused, LookupStillValid, Flying, CallsOwnJobs, SingleFlight
  <2>6. RepliesKnown'
    BY <1>9 DEF AgentRestart, slurmVars, FreeCall, RepliesKnown, LookupStillValid, SingleFlight, CallsOwnJobs, KnownOwnJobs, Flying, OrphanNeedsRestart
  <2> QED
    BY <2>1, <2>2, <2>3, <2>4, <2>5, <2>6
<1>10. ASSUME NEW j \in JobIds, CancelJob(j) PROVE AgentInv'
  BY <1>10, SlurmNextType, AgentStutter DEF CancelJob
<1>11. CASE SlurmNext /\ UNCHANGED agentVars
  BY <1>11, SlurmNextType, AgentStutter
<1>12. CASE UNCHANGED avars
  BY <1>12, AgentStutter DEF avars, slurmVars
<1> QED
  BY <1>1, <1>2, <1>3, <1>4, <1>5, <1>6, <1>7, <1>8, <1>9, <1>10, <1>11, <1>12 DEF AgentNext

-----------------------------------------------------------------------------
(* The invariant holds in every reachable state of the agent. *)
THEOREM AgentInvariant == AgentSpec => []AgentInv
<1>1. SlurmInit /\ AgentInit => AgentInv
  BY AgentInitInv
<1>2. AgentInv /\ [AgentNext]_avars => AgentInv'
  BY AgentStepInv
<1> QED
  BY <1>1, <1>2, PTL DEF AgentSpec, SystemInit, avars

(* The type invariant of the agent and of Slurm. *)
THEOREM AgentTypeCorrect == AgentSpec => []AgentTypeInv
<1>1. AgentInv => AgentTypeInv
  BY DEF AgentInv
<1> QED
  BY <1>1, AgentInvariant, PTL

(* The jobs accounted for are at most one. *)
LEMMA AccountedIsOne == AgentInv => OneJobPerUid
<1> SUFFICES ASSUME AgentInv, NEW u \in Uids, ~Excused(u),
                    NEW j \in JobIds, NEW k \in JobIds, jobUid[j] = u, jobUid[k] = u
             PROVE  j = k
  BY DEF OneJobPerUid
<1>1. j # NoJob /\ k # NoJob
  BY SlurmAssumption DEF JobIds, NoJob
<1>2. CASE knownJobs[u] = j
  <2>1. ~\E r \in Rpcs : Flying(r, u)
    BY <1>1, <1>2 DEF AgentInv, AgentTypeInv, AgentTypeOK, LookupStillValid, Excused
  <2> QED
    BY <1>2, <2>1 DEF AgentInv, JobsAccounted, Flying
<1>3. CASE knownJobs[u] # j
  <2>1. PICK r \in Rpcs : submits[r].pc = "store" /\ submits[r].uid = u /\ submits[r].job = j
    BY <1>3 DEF AgentInv, JobsAccounted
  <2>2. knownJobs[u] = NoJob
    BY <2>1 DEF AgentInv, AgentTypeInv, AgentTypeOK, LookupStillValid, Excused, Flying
  <2>3. PICK s \in Rpcs : submits[s].pc = "store" /\ submits[s].uid = u /\ submits[s].job = k
    BY <1>1, <2>2 DEF AgentInv, JobsAccounted
  <2> QED
    BY <2>1, <2>3 DEF AgentInv, SingleFlight, Flying, Excused
<1> QED
  BY <1>2, <1>3

(* SubmitJob submits at most one Slurm job per pod UID unless calls for it
   overlapped, sbatch's output was unreadable or the agent restarted. *)
THEOREM AtMostOneJobPerPod == AgentSpec => []OneJobPerUid
<1> QED
  BY AccountedIsOne, AgentInvariant, PTL

(* SubmitJob answers one UID with one job id, a job of that UID, unless calls
   overlapped or the agent restarted. *)
THEOREM AnswersAgree == AgentSpec => []RepliesAgree
<1>1. AgentInv => RepliesAgree
  BY DEF AgentInv, AgentTypeInv, AgentTypeOK, RepliesKnown, RepliesAgree
<1> QED
  BY <1>1, AgentInvariant, PTL
=============================================================================
