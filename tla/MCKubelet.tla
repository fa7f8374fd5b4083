----------------------------- MODULE MCKubelet -----------------------------
(* Instance of KubeletNode for TLC: two kubelets of one host that share the
   TLS files; the port of one comes from its flag. *)
EXTENDS KubeletNode

MCArgs == [k1 |-> virtualKubeletPodTemplate("p", "agent"),
           k2 |-> [partition |-> "q", endpoint |-> "agent", port |-> 10260]]
MCFiles == [k1 |-> [given |-> FALSE],
            k2 |-> [given |-> TRUE, port |-> 10250, cert |-> "", key |-> "my.key"]]
MCNodeOf == [s1 |-> "k1", w1 |-> "k1", s2 |-> "k2"]
MCPods == <<"s1", "s2", "w1">>
MCSizeCarOf == [s1 |-> "s1", w1 |-> "s1", s2 |-> "s2"]
=============================================================================
