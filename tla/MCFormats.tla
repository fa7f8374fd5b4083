----------------------------- MODULE MCFormats -----------------------------
(* Instances of JobRequest and SlurmOutput for TLC: a behaviour follows one
   request, or has the agent and the kubelet ask Slurm. *)
EXTENDS JobRequest, SlurmOutput

Two == <<Num(2)>>
Words == {Assign("--nodes", Two), Assign("-N", <<Num(1), Dash, Num(3)>>), Bare("--nodes"),
          Bare("-c"), Value(Two), Value(<<Num(3)>>), Assign("--cpus-per-task", <<Num(4)>>),
          Assign("--mem-per-cpu", <<Num(512)>>), Assign("--ntasks-per-node", Two),
          Assign("--time", <<Num(1), Dash, Num(2)>>), Assign("--time", <<Word("soon")>>),
          Bare("--exclusive"), Assign("--nodes", <<Word("many")>>), Assign("--ntasks", Two),
          Bare("-n"), Assign("--array", <<Num(0), Dash, Num(3)>>)}
WordLists == UNION {[1..n -> Words] : n \in 0..2}

Sbatch(words) == Line("sbatch", words)
Blank == Line("blank", <<>>)
Comment == Line("comment", <<>>)
Batch == Line("command", <<>>)

Scripts ==
  {<<Blank, Sbatch(w), Batch>> : w \in WordLists \cup [1..3 -> Words \cap {w \in Words : ~w.eq}]}
  \cup {<<Blank, Sbatch(<<Bare("-c"), Value(Two), w>>), Batch>> : w \in Words}
  \cup {<<Blank, Sbatch(<<a>>), between, Sbatch(<<b>>), Batch>> :
          a, b \in Words, between \in {Blank, Comment, Batch}}

Zero == [Partition |-> "p", RunAsUser |-> "", RunAsGroup |-> "", WorkingDir |-> "", Gres |-> "",
         Licenses |-> "", Nodes |-> 0, CpusPerTask |-> 0, MemPerCpu |-> 0, NtasksPerNode |-> 0,
         Ntasks |-> 0, Array |-> <<>>]
Numbers ==
  {[Zero EXCEPT !.Nodes = n, !.CpusPerTask = c, !.NtasksPerNode = t, !.Ntasks = k] :
     n \in {0, 2}, c \in {0, 3}, t \in {0, 2}, k \in {0, 5}}
Arrays == {<<Num(7)>>, <<Num(0), Dash, Num(3)>>, <<Num(1), Comma, Num(3)>>,
           <<Num(0), Dash, Num(6), Colon, Num(2)>>, <<Num(1), Dash, Num(3), Percent, Num(2)>>,
           <<Num(5), Dash, Num(2)>>}
Specs ==
  Numbers \cup {[s EXCEPT !.Array = a] : s \in Numbers, a \in Arrays}
  \cup {[Zero EXCEPT !.MemPerCpu = m, !.RunAsUser = u, !.WorkingDir = "/work", !.Partition = p] :
          m \in {256, 2048, 8192}, u \in {"", "1000"}, p \in {"p", "q", "r", "none"}}
  \cup {[Zero EXCEPT !.RunAsGroup = "100"], [Zero EXCEPT !.Gres = "gpu:1", !.Licenses = "matlab"]}

PlainScripts == {<<Blank, Batch>>, <<Blank, Sbatch(<<Bare("-c"), Value(Two)>>), Batch>>,
                 <<Blank, Sbatch(<<Bare("-n"), Value(Two), Bare("-a"), Value(<<Num(7)>>)>>), Batch>>}
MCJobs ==
  {[spec |-> Zero, script |-> s] : s \in Scripts}
  \cup {[spec |-> s, script |-> t] : s \in Specs, t \in PlainScripts}

MCContainers ==
  [WallTime : {0, 59, 3600, 90000}, MemPerNode : {0, 100}, Nodes : {0, 2}, CpuPerNode : {0, 3},
   Partition : {"p"}, Local : BOOLEAN, AllowUnsigned : BOOLEAN]

MCPartitions ==
  {[name |-> "p", nodes |-> <<[Cpus |-> 4, Memory |-> 4096], [Cpus |-> 8, Memory |-> 8192]>>],
   [name |-> "q", nodes |-> <<[Cpus |-> 2, Memory |-> 1024]>>], [name |-> "r", nodes |-> <<>>]}

JobRecords ==
  {[State |-> st, RunTime |-> 61, TimeLimit |-> Unlimited, StartTime |-> Stamp(5)] :
     st \in {"COMPLETED", "FAILED", "RUNNING", "PENDING", "NODE_FAIL", "SUSPENDED"}}
  \cup [State : {"PENDING"}, RunTime : {0, 59, 3600, 86399, 86400, 180061},
        TimeLimit : {Num(600), Num(90000), Unlimited, Word("Partition_Limit")},
        StartTime : {Unknown, Stamp(1)}]
MCJobLists == {<<>>} \cup {<<r>> : r \in JobRecords} \cup
  {<<r, q>> : r, q \in {j \in JobRecords : j.RunTime = 61 \/ j.TimeLimit = Word("Partition_Limit")}}

MCStepLists ==
  {<<>>} \cup {<<s>> : s \in [Start : {Stamp(1), Unknown, Word("None")}, End : {Stamp(2), Unknown},
                              ExitCode : {0, 1}, State : {"COMPLETED", "CANCELLED by 0"}]}

MCHosts == [a |-> [Cpus |-> 1, Memory |-> 10], b |-> [Cpus |-> 2, Memory |-> 100],
            c |-> [Cpus |-> 4, Memory |-> 1000]]
MCLimits ==
  [MaxNodes : {Unlimited, Num(1)}, MaxTime : {Unlimited, Num(90061)},
   MaxCPUsPerNode : {Unlimited, Num(2)}, TotalCPUs : {7},
   MemKey : {"MaxMemPerNode", "MaxMemPerCPU"}, MaxMem : {Unlimited, Num(64)}]
ConfigValues == {[Nodes |-> 0, CPUPerNode |-> 0, MemPerNode |-> 0, WallTime |-> 0],
                 [Nodes |-> 9, CPUPerNode |-> 9, MemPerNode |-> 9, WallTime |-> 9]}
MCConfigs == [value : ConfigValues, auto : {{}, {"Nodes", "WallTime"}}]

RequestQuiet == step = "none" /\ job = <<>> /\ pod = NoPod /\ node = NoNode
                /\ request = NoRequest /\ opts = <<>>
FirstJobs == CHOOSE l \in JobLists : TRUE
FirstLimits == CHOOSE l \in Limits : TRUE
FirstConfig == CHOOSE c \in Configs : TRUE
OutputQuiet ==
  /\ jobs = FirstJobs /\ steps = <<>> /\ partitions = {} /\ members = {}
  /\ limits = FirstLimits /\ config = FirstConfig /\ replies = <<>>
  /\ kubelet = "starting" /\ advertised = [cpu |-> 0, memory |-> 0, pods |-> 0] /\ asked = {} /\ served = {}

\* Each part of Slurm's state is varied on its own.
NoPartition == partitions = {} /\ members = {}
PartitionVaried == jobs = FirstJobs /\ steps = <<>> /\ limits = FirstLimits /\ config = FirstConfig
OneVaried ==
  \/ steps = <<>> /\ limits = FirstLimits /\ config = FirstConfig /\ NoPartition
  \/ jobs = FirstJobs /\ limits = FirstLimits /\ config = FirstConfig /\ NoPartition
  \/ PartitionVaried
  \/ jobs = FirstJobs /\ steps = <<>> /\ NoPartition

FormatsInit ==
  \/ RequestInit /\ OutputQuiet
  \/ RequestQuiet /\ OneVaried /\ OutputInit

FormatsNext ==
  \/ step # "none" /\ RequestNext /\ UNCHANGED outputVars
  \/ step = "none" /\ QueryNext /\ UNCHANGED requestVars
  \/ step = "none" /\ PartitionVaried /\ NodeNext /\ UNCHANGED requestVars

FormatsSpec == FormatsInit /\ [][FormatsNext]_<<requestVars, outputVars>>
=============================================================================
