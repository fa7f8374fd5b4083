---------------------------- MODULE MCSlurmAgent ----------------------------
(* Instance of SlurmAgent for TLC: two pods, two concurrent calls, three
   jobs of one task, one restart. The calls are interchangeable. *)
EXTENDS SlurmAgent, TLC

RpcSymmetry == Permutations(Rpcs)
=============================================================================
