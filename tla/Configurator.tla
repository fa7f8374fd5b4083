---------------------------- MODULE Configurator ----------------------------
(***************************************************************************)
(* The configurator (configurator/configurator.go): on every tick it asks  *)
(* the agent for Slurm's partitions, lists the virtual nodes and creates   *)
(* or deletes the pods that run a virtual kubelet for a partition. The     *)
(* pods and nodes are the API server's; a kubelet registers its node when  *)
(* it runs, and the node outlives it. One action per API request. Pods and *)
(* nodes are named after their partition. Partitions are numbered in the   *)
(* order in which Slurm lists them; that of the nodes is left open.        *)
(***************************************************************************)
EXTENDS Naturals

CONSTANTS
  Partition,     \* partitions, as Slurm orders them
  Unnameable,    \* those whose name no pod name may contain (upper case, _)
  MaxChanges,    \* bound on changes of Slurm's partitions
  MaxFailures    \* bound on failed requests, restarts and lost pods

ASSUME ConfiguratorAssumption ==
  /\ Partition \subseteq Nat \ {0}
  /\ Unnameable \subseteq Partition
  /\ MaxChanges \in Nat
  /\ MaxFailures \in Nat

VARIABLES
  nodesMatch,  \* whether the kubelet image gives its nodes VKNodeLabel
  partitions,  \* Slurm's partitions
  vkPods,      \* vkPods[p]: the pod slurm-partition-p
  vkNodes,     \* the registered nodes
  pc,          \* where the tick is
  answer,      \* partitionsResp
  nNames,      \* the partitions of the listed nodes
  todo,        \* what is left of partitionToCreate or nodesToDelete
  changes, failures

\* The empty name, which the agent answers when Slurm has no partition.
NoName == 0

confVars ==
  <<nodesMatch, partitions, vkPods, vkNodes, pc, answer, nNames, todo, changes, failures>>
clusterVars == <<nodesMatch, partitions, vkPods, vkNodes>>
tickVars == <<pc, answer, nNames, todo>>

ConfTypeOK ==
  /\ nodesMatch \in BOOLEAN
  /\ partitions \subseteq Partition
  /\ vkPods \in [Partition -> {"none", "running", "terminating", "evicted"}]
  /\ vkNodes \subseteq Partition
  /\ pc \in {"idle", "list", "create", "delete"}
  /\ answer \subseteq Partition \cup {NoName}
  /\ nNames \subseteq Partition
  /\ todo \subseteq Partition \cup {NoName}
  /\ changes \in 0..MaxChanges
  /\ failures \in 0..MaxFailures

\* An image of another build may give its nodes the label.
ConfInit ==
  /\ nodesMatch \in BOOLEAN
  /\ partitions \in SUBSET Partition
  /\ vkPods = [p \in Partition |-> "none"]
  /\ vkNodes = {}
  /\ pc = "idle"
  /\ answer = {} /\ nNames = {} /\ todo = {}
  /\ changes = 0 /\ failures = 0

\* The tick is over; WatchPartitions waits for the next one.
TickEnds == pc' = "idle" /\ answer' = {} /\ nNames' = {} /\ todo' = {}

-----------------------------------------------------------------------------
(* WatchPartitions: the agent's answer, which parsePartitionsNames makes of
   what scontrol prints. *)
WatchPartitions ==
  /\ pc = "idle"
  /\ answer' = IF partitions = {} THEN {NoName} ELSE partitions
  /\ pc' = "list"
  /\ UNCHANGED <<clusterVars, nNames, todo, changes, failures>>

\* The nodes the label selector finds.
Listed == IF nodesMatch THEN vkNodes ELSE {}

notIn(s1, s2) == s1 \ s2

\* Mutation: no node listed, nothing done.
Reconcile_NoNodes ==
  /\ pc = "list"
  /\ nNames' = Listed
  /\ todo' = IF Listed = {} THEN {} ELSE notIn(answer, Listed)
  /\ pc' = "create"
  /\ UNCHANGED <<clusterVars, answer, changes, failures>>

\* Reconcile up to the list of partitions to create.
Reconcile ==
  /\ pc = "list"
  /\ nNames' = Listed
  /\ todo' = notIn(answer, Listed)
  /\ pc' = "create"
  /\ UNCHANGED <<clusterVars, answer, changes, failures>>

First(p) == p \in todo /\ \A q \in todo : p <= q

(* Mutation: Create without Get, so that a pod that exists is an error. *)
CreateWithoutGet(p) ==
  /\ pc = "create" /\ First(p)
  /\ IF p \in Unnameable \cup {NoName} \/ vkPods[p] # "none"
     THEN TickEnds /\ UNCHANGED vkPods
     ELSE /\ vkPods' = [vkPods EXCEPT ![p] = "running"]
          /\ todo' = todo \ {p}
          /\ UNCHANGED <<pc, answer, nNames>>
  /\ UNCHANGED <<nodesMatch, partitions, vkNodes, changes, failures>>

(* A pod that exists is left alone, even one that is evicted or being deleted.
   The API server refuses to create one whose name it does not allow, and the
   error ends the loop and Reconcile. *)
ReconcileCreateNodeForPartition(p) ==
  /\ pc = "create" /\ First(p)
  /\ IF p \in Unnameable \cup {NoName}
     THEN TickEnds /\ UNCHANGED vkPods
     ELSE /\ vkPods' = [vkPods EXCEPT ![p] = IF @ = "none" THEN "running" ELSE @]
          /\ todo' = todo \ {p}
          /\ UNCHANGED <<pc, answer, nNames>>
  /\ UNCHANGED <<nodesMatch, partitions, vkNodes, changes, failures>>

\* Mutation: the arguments of notIn are swapped.
NodesToDelete_Swapped ==
  /\ pc = "create" /\ todo = {}
  /\ todo' = notIn(answer, nNames)
  /\ pc' = "delete"
  /\ UNCHANGED <<clusterVars, answer, nNames, changes, failures>>

NodesToDelete ==
  /\ pc = "create" /\ todo = {}
  /\ todo' = notIn(nNames, answer)
  /\ pc' = "delete"
  /\ UNCHANGED <<clusterVars, answer, nNames, changes, failures>>

(* Deleting a pod that is gone is an error, which ends the loop. A pod that
   runs is given time to end. *)
ReconcileDeleteControllingPod(p) ==
  /\ pc = "delete" /\ p \in todo
  /\ IF vkPods[p] = "none"
     THEN TickEnds /\ UNCHANGED vkPods
     ELSE /\ vkPods' = [vkPods EXCEPT ![p] = IF @ = "evicted" THEN "none" ELSE "terminating"]
          /\ todo' = todo \ {p}
          /\ UNCHANGED <<pc, answer, nNames>>
  /\ UNCHANGED <<nodesMatch, partitions, vkNodes, changes, failures>>

ReconcileEnds ==
  /\ pc = "delete" /\ todo = {}
  /\ TickEnds
  /\ UNCHANGED <<clusterVars, changes, failures>>

\* A request fails, or the process restarts: the tick is abandoned.
TickFails ==
  /\ failures < MaxFailures /\ failures' = failures + 1
  /\ pc # "idle"
  /\ TickEnds
  /\ UNCHANGED <<clusterVars, changes>>

Tick ==
  \/ WatchPartitions \/ Reconcile \/ NodesToDelete \/ ReconcileEnds
  \/ \E p \in Partition \cup {NoName} : ReconcileCreateNodeForPartition(p)
  \/ \E p \in Partition : ReconcileDeleteControllingPod(p)

-----------------------------------------------------------------------------
(* Slurm's administrators, the kubelets and the API server (external). *)
ChangePartition(p) ==
  /\ changes < MaxChanges /\ changes' = changes + 1
  /\ partitions' = IF p \in partitions THEN partitions \ {p} ELSE partitions \cup {p}
  /\ UNCHANGED <<nodesMatch, vkPods, vkNodes, tickVars, failures>>

RegisterNode(p) ==
  /\ vkPods[p] = "running" /\ p \notin vkNodes
  /\ vkNodes' = vkNodes \cup {p}
  /\ UNCHANGED <<nodesMatch, partitions, vkPods, tickVars, changes, failures>>

RemoveNode(p) ==
  /\ vkPods[p] \in {"none", "evicted"} /\ p \in vkNodes
  /\ vkNodes' = vkNodes \ {p}
  /\ UNCHANGED <<nodesMatch, partitions, vkPods, tickVars, changes, failures>>

PodTerminated(p) ==
  /\ vkPods[p] = "terminating"
  /\ vkPods' = [vkPods EXCEPT ![p] = "none"]
  /\ UNCHANGED <<nodesMatch, partitions, vkNodes, tickVars, changes, failures>>

(* The pod is evicted, and stays as an object, or lost with the machine it
   runs on; no controller owns it. *)
PodLost(p) ==
  /\ failures < MaxFailures /\ failures' = failures + 1
  /\ vkPods[p] = "running"
  /\ \E s \in {"evicted", "none"} : vkPods' = [vkPods EXCEPT ![p] = s]
  /\ UNCHANGED <<nodesMatch, partitions, vkNodes, tickVars, changes>>

\* Somebody, or the garbage collector of pods, removes the evicted pod.
PodCollected(p) ==
  /\ vkPods[p] = "evicted"
  /\ vkPods' = [vkPods EXCEPT ![p] = "none"]
  /\ UNCHANGED <<nodesMatch, partitions, vkNodes, tickVars, changes, failures>>

Environment ==
  \E p \in Partition :
    \/ ChangePartition(p) \/ RegisterNode(p) \/ RemoveNode(p)
    \/ PodTerminated(p) \/ PodLost(p) \/ PodCollected(p)

ConfNext == Tick \/ TickFails \/ Environment

ConfSpec == ConfInit /\ [][ConfNext]_confVars

(* The ticker goes on; a kubelet finds the hosts of its partition, if Slurm
   has it, and registers; a pod that is told to end does. *)
ConfFairSpec ==
  /\ ConfSpec
  /\ WF_confVars(Tick)
  /\ \A p \in Partition :
       WF_confVars(p \in partitions /\ RegisterNode(p)) /\ WF_confVars(PodTerminated(p))

-----------------------------------------------------------------------------
\* The node of a kubelet that is gone is still listed.
NodeLeftBehind(p) == p \in Listed /\ vkPods[p] = "none"

\* A partition listed before p whose pod cannot be created ends every tick.
Starved(p) == \E q \in partitions \cap Unnameable : q <= p

(* A partition that stays in Slurm ends up with a virtual kubelet, although
   Reconcile gives up at the first failed request, works on an answer that may
   be outdated and skips pods that are still terminating. Three things keep it
   from doing so: a name that no pod may have, its own or one that Slurm lists
   before it; an evicted pod that nobody removes; a node that the selector
   finds and that outlives its kubelet for ever. *)
PartitionServed ==
  \A p \in Partition :
    <>[](p \in partitions /\ ~Starved(p)) /\ []<>(vkPods[p] # "evicted") /\ []<>~NodeLeftBehind(p)
      => <>[](vkPods[p] = "running")

\* A kubelet that the configurator cannot see among the nodes.
Unseen(p) == vkPods[p] = "running" /\ p \notin Listed

(* The kubelet of a partition that is gone for good is deleted in the end,
   although the delete half comes after the create half and ends at the first
   error. It is not when it is never seen, because the label of its node is
   not the one that is asked for or because it has not registered while Slurm
   had the partition; when a partition whose pod cannot be created, or the
   empty name when no partition is left, ends each tick before; or when the
   pod of another node is missing for ever. *)
PartitionReleased ==
  \A p \in Partition :
    /\ <>[](p \notin partitions)
    /\ []<>~Unseen(p)
    /\ <>[](partitions # {} /\ partitions \cap Unnameable = {})
    /\ \A q \in Partition : []<>~NodeLeftBehind(q)
    => <>[](vkPods[p] # "running")

(* Reconcile deletes the kubelet of no partition that was in the agent's
   answer, and of none it has not seen as a node. *)
DeletesOnlyGone ==
  [][\A p \in Partition :
       vkPods[p] = "running" /\ vkPods'[p] = "terminating" => p \in nNames \ answer]_confVars
=============================================================================
