------------------------- MODULE ConfiguratorProofs -------------------------
(***************************************************************************)
(* Proof that Reconcile deletes only the kubelets of partitions missing    *)
(* from the agent's answer, for any partitions and bounds, and that it     *)
(* deletes none at all while no node carries the label it selects by.      *)
(***************************************************************************)
EXTENDS Configurator, TLAPS

(* What the delete loop still has to do was computed from the snapshots the
   tick holds; partitions that come back to Slurm meanwhile do not matter. *)
DeleteListFromSnapshots == pc = "delete" => todo \subseteq nNames \ answer

(* The selector finds no node: the snapshot of node names is empty. *)
NoNodeListed == nodesMatch \/ nNames = {}

ConfInv == ConfTypeOK /\ DeleteListFromSnapshots /\ NoNodeListed

(* The initial states satisfy the invariant. *)
LEMMA ConfInitInv == ConfInit => ConfInv
<1> SUFFICES ASSUME ConfInit PROVE ConfInv
  OBVIOUS
<1> USE ConfiguratorAssumption DEF ConfInit
<1>1. ConfTypeOK
  BY DEF ConfTypeOK
<1>2. DeleteListFromSnapshots /\ NoNodeListed
  BY DEF DeleteListFromSnapshots, NoNodeListed
<1> QED
  BY <1>1, <1>2 DEF ConfInv

(* Every step of the configurator and of its environment preserves it. *)
LEMMA ConfStepInv == ConfInv /\ [ConfNext]_confVars => ConfInv'
<1> SUFFICES ASSUME ConfInv, [ConfNext]_confVars PROVE ConfInv'
  OBVIOUS
<1> USE ConfiguratorAssumption DEF ConfInv
<1>1. CASE WatchPartitions
  BY <1>1 DEF WatchPartitions, clusterVars, ConfTypeOK, DeleteListFromSnapshots, NoNodeListed
<1>2. CASE Reconcile
  BY <1>2 DEF Reconcile, clusterVars, notIn, Listed, ConfTypeOK,
              DeleteListFromSnapshots, NoNodeListed
<1>3. CASE NodesToDelete
  BY <1>3 DEF NodesToDelete, clusterVars, notIn, ConfTypeOK,
              DeleteListFromSnapshots, NoNodeListed
<1>4. CASE ReconcileEnds
  BY <1>4 DEF ReconcileEnds, TickEnds, clusterVars, ConfTypeOK,
              DeleteListFromSnapshots, NoNodeListed
<1>5. ASSUME NEW p \in Partition \cup {NoName}, ReconcileCreateNodeForPartition(p) PROVE ConfInv'
  <2>1. CASE p \in Unnameable \cup {NoName}
    BY <1>5, <2>1 DEF ReconcileCreateNodeForPartition, TickEnds, ConfTypeOK,
                      DeleteListFromSnapshots, NoNodeListed
  <2>2. CASE p \notin Unnameable \cup {NoName}
    BY <1>5, <2>2 DEF ReconcileCreateNodeForPartition, ConfTypeOK,
                      DeleteListFromSnapshots, NoNodeListed
  <2> QED
    BY <2>1, <2>2
<1>6. ASSUME NEW p \in Partition, ReconcileDeleteControllingPod(p) PROVE ConfInv'
  <2>1. CASE vkPods[p] = "none"
    BY <1>6, <2>1 DEF ReconcileDeleteControllingPod, TickEnds, ConfTypeOK,
                      DeleteListFromSnapshots, NoNodeListed
  <2>2. CASE vkPods[p] # "none"
    BY <1>6, <2>2 DEF ReconcileDeleteControllingPod, ConfTypeOK,
                      DeleteListFromSnapshots, NoNodeListed
  <2> QED
    BY <2>1, <2>2
<1>7. CASE TickFails
  BY <1>7 DEF TickFails, TickEnds, clusterVars, ConfTypeOK,
              DeleteListFromSnapshots, NoNodeListed
<1>8. CASE Environment
  <2> USE DEF tickVars, DeleteListFromSnapshots, NoNodeListed, ConfTypeOK
  <2>1. ASSUME NEW p \in Partition, ChangePartition(p) PROVE ConfInv'
    BY <2>1 DEF ChangePartition
  <2>2. ASSUME NEW p \in Partition, RegisterNode(p) \/ RemoveNode(p) PROVE ConfInv'
    BY <2>2 DEF RegisterNode, RemoveNode
  <2>3. ASSUME NEW p \in Partition, PodTerminated(p) \/ PodCollected(p) PROVE ConfInv'
    BY <2>3 DEF PodTerminated, PodCollected
  <2>4. ASSUME NEW p \in Partition, PodLost(p) PROVE ConfInv'
    <3>1. PICK s \in {"evicted", "none"} : vkPods' = [vkPods EXCEPT ![p] = s]
      BY <2>4 DEF PodLost
    <3>2. vkPods' \in [Partition -> {"none", "running", "terminating", "evicted"}]
      BY <3>1
    <3> QED
      BY <2>4, <3>2 DEF PodLost
  <2> QED
    BY <1>8, <2>1, <2>2, <2>3, <2>4 DEF Environment
<1>9. CASE UNCHANGED confVars
  BY <1>9 DEF confVars, ConfTypeOK, DeleteListFromSnapshots, NoNodeListed
<1> QED
  BY <1>1, <1>2, <1>3, <1>4, <1>5, <1>6, <1>7, <1>8, <1>9 DEF ConfNext, Tick

(* The inductive invariant holds throughout. *)
THEOREM ConfInvariant == ConfSpec => []ConfInv
<1> QED
  BY ConfInitInv, ConfStepInv, PTL DEF ConfSpec

(* A step that turns a running pod into a terminating one is a step of
   ReconcileDeleteControllingPod for that pod. *)
LEMMA OnlyReconcileDeletes ==
  ASSUME ConfInv, [ConfNext]_confVars, NEW p \in Partition,
         vkPods[p] = "running", vkPods'[p] = "terminating"
  PROVE  pc = "delete" /\ p \in todo
<1> USE DEF ConfInv, ConfTypeOK
<1>1. CASE WatchPartitions \/ Reconcile \/ NodesToDelete \/ ReconcileEnds \/ TickFails
  BY <1>1 DEF WatchPartitions, Reconcile, NodesToDelete, ReconcileEnds, TickFails, clusterVars
<1>2. ASSUME NEW q \in Partition \cup {NoName}, ReconcileCreateNodeForPartition(q)
      PROVE  pc = "delete" /\ p \in todo
  BY <1>2 DEF ReconcileCreateNodeForPartition
<1>3. ASSUME NEW q \in Partition, ReconcileDeleteControllingPod(q)
      PROVE  pc = "delete" /\ p \in todo
  BY <1>3 DEF ReconcileDeleteControllingPod
<1>4. CASE Environment
  BY <1>4 DEF Environment, ChangePartition, RegisterNode, RemoveNode, PodTerminated, PodLost, PodCollected
<1>5. CASE UNCHANGED confVars
  BY <1>5 DEF confVars
<1> QED
  BY <1>1, <1>2, <1>3, <1>4, <1>5 DEF ConfNext, Tick

(* Reconcile deletes the kubelet of no partition the agent reported in this
   tick, however Slurm's partitions change while the tick runs. *)
THEOREM DeletesAreJustified == ConfSpec => DeletesOnlyGone
<1>1. ConfInv /\ [ConfNext]_confVars =>
        [\A p \in Partition :
           vkPods[p] = "running" /\ vkPods'[p] = "terminating" => p \in nNames \ answer]_confVars
  BY OnlyReconcileDeletes DEF ConfInv, DeleteListFromSnapshots
<1> QED
  BY <1>1, ConfInvariant, PTL DEF ConfSpec, DeletesOnlyGone

(* While the nodes do not carry VKNodeLabel, no kubelet is deleted: the pods
   of removed partitions stay. *)
THEOREM UnlabelledNeverDeleted ==
  ConfSpec => [][\A p \in Partition :
                   ~nodesMatch /\ vkPods[p] = "running" => vkPods'[p] # "terminating"]_confVars
<1>1. ConfInv /\ [ConfNext]_confVars =>
        [\A p \in Partition :
           ~nodesMatch /\ vkPods[p] = "running" => vkPods'[p] # "terminating"]_confVars
  BY OnlyReconcileDeletes DEF ConfInv, DeleteListFromSnapshots, NoNodeListed
<1> QED
  BY <1>1, ConfInvariant, PTL DEF ConfSpec
=============================================================================
