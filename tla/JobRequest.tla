----------------------------- MODULE JobRequest -----------------------------
(***************************************************************************)
(* How the resources a SlurmBridgeJob asks for travel: from its spec and   *)
(* the #SBATCH lines of its script into the reservation, the labels and    *)
(* the affinity of the sizecar pod (operator), through the scheduler onto  *)
(* the virtual node of a partition, from the pod's labels into a           *)
(* SubmitJobRequest (virtual kubelet), and into the options of sbatch      *)
(* (agent). Also the script the agent writes for SubmitJobContainer.       *)
(***************************************************************************)
EXTENDS SlurmText

CONSTANTS
  Jobs,         \* [spec, script] of the SlurmBridgeJobs
  Containers,   \* SubmitJobContainerRequests
  Partitions    \* [name, nodes]: nodes is the sequence of [Cpus, Memory]

VARIABLES
  step,     \* where the request is, "none" without a request
  job,      \* the SlurmBridgeJob, or the one a container request amounts to
  pod,      \* the sizecar pod
  node,     \* the virtual node it is bound to
  request,  \* the SubmitJobRequest
  opts      \* the options sbatch is called with

requestVars == <<step, job, pod, node, request, opts>>

ScriptWord == [name : STRING, eq : BOOLEAN, value : Seq(Token)]
ScriptLine == [kind : {"blank", "sbatch", "comment", "command"}, words : Seq(ScriptWord)]
JobSpec == [Partition : STRING, RunAsUser : STRING, RunAsGroup : STRING, WorkingDir : STRING,
            Gres : STRING, Licenses : STRING, Nodes : Int, CpusPerTask : Int, MemPerCpu : Int,
            NtasksPerNode : Int, Ntasks : Int, Array : Seq(Token)]

ASSUME JobsAssumption == Jobs \subseteq [spec : JobSpec, script : Seq(ScriptLine)]

\* An array without lists, steps and limits is a number or a range.
ASSUME ArraysAssumption ==
  \A j \in Jobs :
    LET a == j.spec.Array
    IN  a # <<>> /\ (\A i \in DOMAIN a : a[i] \notin {Comma, Colon, Percent}) =>
          \/ Len(a) = 1 /\ IsNum(a[1])
          \/ Len(a) = 3 /\ IsNum(a[1]) /\ a[2] = Dash /\ IsNum(a[3])

ASSUME ContainersAssumption ==
  Containers \subseteq [WallTime : Nat, MemPerNode : Nat, Nodes : Nat, CpuPerNode : Nat,
                        Partition : STRING, Local : BOOLEAN, AllowUnsigned : BOOLEAN]

ASSUME PartitionsAssumption ==
  Partitions \subseteq [name : STRING, nodes : Seq([Cpus : Nat, Memory : Nat])]

-----------------------------------------------------------------------------
(* The script parser (slurm-bridge-operator/parse.go). A line of a script is
   empty or a shebang, a #SBATCH line, or another one. A word of a #SBATCH
   line is cut at its first '='; without '=' it may be the value of the word
   before it. *)
Line(kind, words) == [kind |-> kind, words |-> words]
Assign(name, value) == [name |-> name, eq |-> TRUE, value |-> value]
Bare(name) == [name |-> name, eq |-> FALSE, value |-> <<Word(name)>>]
Value(text) == [name |-> "", eq |-> FALSE, value |-> text]

WordText(word) == IF word.eq THEN <<Word(word.name)>> ELSE word.value

NoResources ==
  [Nodes |-> 0, CpusPerTask |-> 0, MemPerCpu |-> 0, NtasksPerNode |-> 0, Ntasks |-> 0,
   Array |-> <<>>, WallTime |-> 0]

Extracted(status, res) == [status |-> status, res |-> res, skip |-> FALSE]

SetInt(acc, field, text) ==
  IF ParseInt(text).ok THEN [acc EXCEPT !.res[field] = ParseInt(text).value]
  ELSE [acc EXCEPT !.status = "error"]

SetTime(acc, d) ==
  CASE d.kind = "duration" -> [acc EXCEPT !.res.WallTime = d.value]
    [] d.kind = "unlimited" -> acc
    [] d.kind = "invalid" -> [acc EXCEPT !.status = "error"]

applySbatchParam(acc, param, value) ==
  CASE param \in {"--time", "-t"} ->
         SetTime(acc, ParseDuration(value))
    [] param \in {"--nodes", "-N"} ->
         SetInt(acc, "Nodes", IF Contains(value, Dash) THEN Before(value, Dash) ELSE value)
    [] param = "--mem-per-cpu" -> SetInt(acc, "MemPerCpu", value)
    [] param \in {"--cpus-per-task", "-c"} -> SetInt(acc, "CpusPerTask", value)
    [] param = "--ntasks-per-node" -> SetInt(acc, "NtasksPerNode", value)
    [] OTHER -> acc

(* Mutation: the rest of a line after a value of its own is left out. *)
ScanWordStopsAtValue(words, a, j) ==
  LET word == words[j]
  IN  CASE a.status # "ok" \/ a.skip -> a
        [] a.status = "ok" /\ ~a.skip /\ ~word.eq /\ j = Len(words) -> [a EXCEPT !.status = "panic"]
        [] OTHER ->
             [applySbatchParam(a, word.name, IF word.eq THEN word.value ELSE WordText(words[j + 1]))
               EXCEPT !.skip = ~word.eq]

(* One word of a #SBATCH line. i is -1 in `i < len(params)-1`, so the test
   always holds: a last word without '=' reads params[len(params)] and panics. *)
ScanWord(words, a, j) ==
  LET word == words[j]
  IN  CASE a.status # "ok" -> a
        [] a.status = "ok" /\ a.skip -> [a EXCEPT !.skip = FALSE]
        [] a.status = "ok" /\ ~a.skip /\ ~word.eq /\ j = Len(words) -> [a EXCEPT !.status = "panic"]
        [] OTHER ->
             [applySbatchParam(a, word.name, IF word.eq THEN word.value ELSE WordText(words[j + 1]))
               EXCEPT !.skip = ~word.eq]

\* Empty lines and the shebang are skipped.
ScanLine(acc, line) ==
  IF line.kind = "blank" THEN acc
  ELSE FoldLeftDomain(LAMBDA a, j : ScanWord(line.words, a, j), [acc EXCEPT !.skip = FALSE],
                      line.words)

\* The lines up to the first that is neither empty, a shebang nor #SBATCH.
Header(script) ==
  LET ends == {i \in DOMAIN script : script[i].kind \in {"comment", "command"}}
  IN  SubSeq(script, 1, IF ends = {} THEN Len(script) ELSE Min(ends) - 1)

extractBatchResourcesFromScript(script) ==
  LET acc == FoldLeft(ScanLine, Extracted("ok", NoResources), Header(script))
  IN  [status |-> acc.status, res |-> acc.res]

(* Mutation: the elements between the bounds are counted. *)
parseArrayLenExclusive(array) ==
  IF Contains(array, Dash)
  THEN LET bounds == Split(array, Dash)
       IN  ParseInt(bounds[2]).value - ParseInt(bounds[1]).value
  ELSE Len(Split(array, Comma))

parseArrayLen(array) ==
  IF Contains(array, Dash)
  THEN LET bounds == Split(array, Dash)
       IN  ParseInt(bounds[2]).value - ParseInt(bounds[1]).value + 1
  ELSE Len(Split(array, Comma))

-----------------------------------------------------------------------------
(* The sizecar pod (slurm-bridge-operator/pod.go). *)
SpecFields == {"Nodes", "CpusPerTask", "MemPerCpu", "NtasksPerNode", "Ntasks", "Array"}
Given(spec, f) == IF f = "Array" THEN spec.Array # <<>> ELSE spec[f] > 0

setRequireResourceBySpec(spec, res) ==
  [f \in DOMAIN res |-> IF f \in SpecFields /\ Given(spec, f) THEN spec[f] ELSE res[f]]

Default == [Nodes |-> 1, CpusPerTask |-> 1, MemPerCpu |-> 1024]
setDefaultRequireResource(res) ==
  [f \in DOMAIN res |-> IF f \in DOMAIN Default /\ res[f] = 0 THEN Default[f] ELSE res[f]]

CpuCount(res) ==
  LET tasks ==
        CASE res.Ntasks > 0 -> res.Ntasks
          [] res.Ntasks <= 0 /\ res.NtasksPerNode > 0 /\ res.Nodes > 0 ->
               res.NtasksPerNode * res.Nodes
          [] OTHER -> 1
  IN  res.CpusPerTask * tasks * (IF res.Array = <<>> THEN 1 ELSE parseArrayLen(res.Array))

(* Mutation: memory is counted in pages of 4 KB. *)
genResourceListForPodInPages(res) ==
  [cpu |-> CpuCount(res), memory |-> CpuCount(res) * res.MemPerCpu * 4096]

genResourceListForPod(res) ==
  [cpu |-> CpuCount(res), memory |-> CpuCount(res) * res.MemPerCpu * 1024]

getResourceRequestLabelsForPod(spec) ==
  [f \in {g \in SpecFields : Given(spec, g)} |->
     IF f = "Array" THEN spec.Array ELSE Itoa(spec[f])]

\* The node selector terms: DefaultNodeSelectors and the partition.
affinityForSj(spec) ==
  [type |-> "virtual-kubelet", partition |-> spec.Partition]

DefaultTolerations == {"virtual-kubelet.io/provider"}

newSizeCarPodForSJ(j, res) ==
  [tolerations |-> DefaultTolerations,
   labels |-> getResourceRequestLabelsForPod(j.spec),
   limits |-> genResourceListForPod(setDefaultRequireResource(setRequireResourceBySpec(j.spec, res))),
   affinity |-> affinityForSj(j.spec),
   command |-> j.script, WorkingDir |-> j.spec.WorkingDir,
   RunAsUser |-> j.spec.RunAsUser, RunAsGroup |-> j.spec.RunAsGroup]

\* The API server accepts letters, digits and inner dashes as a label value,
\* and no negative quantity.
ValidLabelValue(text) ==
  /\ \A i \in DOMAIN text : text[i] \notin {Comma, Colon, Percent}
  /\ text[1] # Dash /\ text[Len(text)] # Dash
Admitted(p) ==
  (\A f \in DOMAIN p.labels : ValidLabelValue(p.labels[f])) /\ p.limits.cpu >= 0

NoPod == [labels |-> <<>>]

(* Reconcile reads the script and creates the pod. An error is retried with
   the same outcome; the panic ends the operator's process. *)
CreateSizeCarPod ==
  /\ step = "reconcile"
  /\ LET e == extractBatchResourcesFromScript(job.script)
         p == newSizeCarPodForSJ(job, e.res)
     IN  CASE e.status # "ok" -> step' = e.status /\ UNCHANGED pod
           [] e.status = "ok" /\ ~Admitted(p) -> step' = "rejected" /\ UNCHANGED pod
           [] OTHER -> step' = "created" /\ pod' = p
  /\ UNCHANGED <<job, node, request, opts>>

-----------------------------------------------------------------------------
(* The virtual node (slurm-virtual-kubelet/node.go and server.go). *)
setDefaultSlurmVKFlags(partition) == [type |-> "virtual-kubelet", partition |-> partition]

getDefaultTaints == DefaultTolerations

VirtualNode(partition) ==
  [taints |-> getDefaultTaints,
   labels |-> setDefaultSlurmVKFlags(partition.name),
   capacity |-> GetPartitionCapacity(partition.nodes)]
NoNode == [labels |-> <<>>]

Fits(p, n) ==
  /\ p.affinity = n.labels /\ n.taints \subseteq p.tolerations
  /\ p.limits.cpu <= n.capacity.cpu /\ p.limits.memory <= n.capacity.memory
  /\ n.capacity.pods >= 1

\* The scheduler (external) binds the pod to a node that fits.
Schedule(partition) ==
  /\ step = "created"
  /\ Fits(pod, VirtualNode(partition))
  /\ node' = VirtualNode(partition)
  /\ step' = "scheduled"
  /\ UNCHANGED <<job, pod, request, opts>>

Unschedulable ==
  /\ step = "created"
  /\ \A partition \in Partitions : ~Fits(pod, VirtualNode(partition))
  /\ step' = "pending"
  /\ UNCHANGED <<job, pod, node, request, opts>>

-----------------------------------------------------------------------------
(* The kubelet's request and the agent's call of sbatch. *)
LabelInt(labels, f) ==
  IF f \in DOMAIN labels /\ ParseInt(labels[f]).ok THEN ParseInt(labels[f]).value ELSE 0

(* The group is not read from the pod. *)
newSubmitRequestForPod(p, n) ==
  [Partition |-> n.labels.partition, Script |-> p.command,
   RunAsUser |-> p.RunAsUser, RunAsGroup |-> "", WorkingDir |-> p.WorkingDir,
   Nodes |-> LabelInt(p.labels, "Nodes"), CpusPerTask |-> LabelInt(p.labels, "CpusPerTask"),
   MemPerCpu |-> LabelInt(p.labels, "MemPerCpu"), Ntasks |-> LabelInt(p.labels, "Ntasks"),
   NtasksPerNode |-> LabelInt(p.labels, "NtasksPerNode"),
   Array |-> IF "Array" \in DOMAIN p.labels THEN p.labels["Array"] ELSE <<>>]

NoRequest == [Partition |-> ""]

CreatePod ==
  /\ step = "scheduled"
  /\ request' = newSubmitRequestForPod(pod, node)
  /\ step' = "requested"
  /\ UNCHANGED <<job, pod, node, opts>>

\* The options for the fields of a request that are set.
Selected(req, fields) ==
  [o \in {f \in fields : Given(req, f)} \cup
         {f \in {"Partition", "RunAsUser", "RunAsGroup", "WorkingDir"} : req[f] # ""} |-> req[o]]

(* Mutation: --ntasks-per-node is left out. *)
getSbatchOptsNoPerNode(req) ==
  Selected(req, SpecFields \ {"NtasksPerNode"})

getSbatchOpts(req) ==
  Selected(req, SpecFields)

SubmitJob ==
  /\ step = "requested"
  /\ IF request.Partition = "" \/ request.Script = <<>>
     THEN step' = "error" /\ UNCHANGED opts
     ELSE step' = "submitted" /\ opts' = getSbatchOpts(request)
  /\ UNCHANGED <<job, pod, node, request>>

-----------------------------------------------------------------------------
(* SubmitJobContainer: each value that is not 0 becomes a #SBATCH line, the
   wall time in seconds as 0 minutes and that many seconds. *)
Command(name) == Line("command", <<Bare(name)>>)

\* The options of singularity are left out.
buildRunCommand == Command("run")

\* A local image is verified, a remote one when it is pulled, unless unsigned
\* images are allowed; a pulled one is removed.
ImageCommands(r) ==
  CASE r.Local /\ r.AllowUnsigned -> <<buildRunCommand>>
    [] r.Local /\ ~r.AllowUnsigned -> <<Command("verify"), buildRunCommand>>
    [] OTHER -> <<Command(IF r.AllowUnsigned THEN "pull -U" ELSE "pull"), buildRunCommand,
                  Command("rm")>>

NonZero(n, word) == IF n = 0 THEN <<>> ELSE <<Line("sbatch", <<word>>)>>

buildSLURMScript(r) ==
  <<Line("blank", <<>>)>>
  \o NonZero(r.WallTime, Assign("--time", <<Num(0), Colon, Num(r.WallTime)>>))
  \o NonZero(r.MemPerNode, Assign("--mem", <<Num(r.MemPerNode)>>))
  \o NonZero(r.Nodes, Assign("--nodes", <<Num(r.Nodes)>>))
  \o NonZero(r.CpuPerNode, Assign("--cpus-per-task", <<Num(r.CpuPerNode)>>))
  \o ImageCommands(r)

SubmitJobContainer ==
  /\ step = "container"
  /\ step' = "containerSubmitted"
  /\ opts' = [Script |-> buildSLURMScript(job), Partition |-> job.Partition]
  /\ UNCHANGED <<job, pod, node, request>>

RequestInit ==
  /\ \/ step = "reconcile" /\ job \in Jobs
     \/ step = "container" /\ job \in Containers
  /\ pod = NoPod /\ node = NoNode /\ request = NoRequest /\ opts = <<>>

RequestNext ==
  \/ CreateSizeCarPod \/ Unschedulable
  \/ \E partition \in Partitions : Schedule(partition)
  \/ CreatePod \/ SubmitJob \/ SubmitJobContainer

RequestSpec == RequestInit /\ [][RequestNext]_requestVars

-----------------------------------------------------------------------------
(* What sbatch makes of the same script and options (external). It reads the
   #SBATCH lines before the first command and gives options precedence. *)
IsFlag(word) == word.name # ""

\* Every flag has its value, after '=' or as the next word, and none is negative.
Valued(line) ==
  \A j \in DOMAIN line.words :
    LET w == line.words[j]
    IN  /\ w.value = <<>> \/ w.value[1] # Dash
        /\ ~w.eq => IF IsFlag(w)
                    THEN /\ j < Len(line.words)
                         /\ ~IsFlag(line.words[j + 1]) /\ ~line.words[j + 1].eq
                    ELSE j > 1 /\ ~line.words[j - 1].eq /\ IsFlag(line.words[j - 1])

Plain(script) ==
  /\ \A i \in DOMAIN script : script[i].kind = "sbatch" => Valued(script[i])
  /\ \A i, k \in DOMAIN script :
       i < k /\ script[i].kind = "comment" => script[k].kind # "sbatch"

\* The directives of a plain script: <<line, word>> of each flag before the
\* first command.
Directives(script, names) ==
  {d \in UNION {{i} \X DOMAIN script[i].words : i \in DOMAIN script} :
    /\ script[d[1]].kind = "sbatch"
    /\ \A i \in 1..d[1] : script[i].kind # "command"
    /\ script[d[1]].words[d[2]].name \in names}

DirectiveText(script, d) ==
  LET words == script[d[1]].words
  IN  IF words[d[2]].eq THEN words[d[2]].value ELSE words[d[2] + 1].value

Later(d, e) == d[1] > e[1] \/ (d[1] = e[1] /\ d[2] >= e[2])
LastDirective(script, names) ==
  DirectiveText(script, CHOOSE d \in Directives(script, names) :
                          \A e \in Directives(script, names) : Later(d, e))

FlagsOf ==
  [Nodes |-> {"--nodes", "-N"}, CpusPerTask |-> {"--cpus-per-task", "-c"},
   MemPerCpu |-> {"--mem-per-cpu"}, NtasksPerNode |-> {"--ntasks-per-node"}]

\* What the operator has no case for.
Unread == [Ntasks |-> {"--ntasks", "-n"}, Array |-> {"--array", "-a"}]

SbatchFlags(f) == IF f \in DOMAIN FlagsOf THEN FlagsOf[f] ELSE Unread[f]

\* The script decides about a field, by a flag that the operator does not read.
LeftToScript(j, f) == ~Given(j.spec, f) /\ Directives(j.script, Unread[f]) # {}

\* A number, or the minimum of a range of nodes.
AtLeast(text) == text[1].num

Asked(j, f) ==
  CASE Given(j.spec, f) -> j.spec[f]
    [] ~Given(j.spec, f) /\ Directives(j.script, SbatchFlags(f)) # {} ->
         AtLeast(LastDirective(j.script, SbatchFlags(f)))
    [] OTHER -> 0

AskedArray(j) ==
  IF LeftToScript(j, "Array") THEN LastDirective(j.script, Unread["Array"]) ELSE j.spec.Array

\* The indices of a job array: numbers and ranges n-m:step, with a limit %n.
IndicesOf(part) ==
  LET bounds == Split(Split(part, Colon)[1], Dash)
      by == IF Contains(part, Colon) THEN Split(part, Colon)[2][1].num ELSE 1
      first == bounds[1][1].num
      last == IF Len(bounds) = 1 THEN first ELSE bounds[2][1].num
  IN  {i \in first..last : (i - first) % by = 0}
ArrayIndices(array) ==
  UNION {IndicesOf(part) : part \in ToSet(Split(Split(array, Percent)[1], Comma))}

SlurmCpus(j) ==
  LET Positive(f) == Max({Asked(j, f), 1})
      tasks == CASE Asked(j, "Ntasks") > 0 -> Asked(j, "Ntasks")
                 [] Asked(j, "Ntasks") = 0 /\ Asked(j, "NtasksPerNode") > 0 ->
                      Asked(j, "NtasksPerNode") * Positive("Nodes")
                 [] OTHER -> Positive("Nodes")
      elements == IF AskedArray(j) = <<>> THEN 1 ELSE Cardinality(ArrayIndices(AskedArray(j)))
  IN  tasks * Positive("CpusPerTask") * elements

-----------------------------------------------------------------------------
\* The request is that of a SlurmBridgeJob.
OfJob == step \notin {"none", "container", "containerSubmitted"}

(* extractBatchResourcesFromScript reads nodes, CPUs per task, memory per CPU
   and tasks per node of a script whose flags have values as sbatch does: the
   last directive counts, wherever it is and whichever form it has. Only a
   flag without a value, which swallows the next word, or lines after a
   comment make it differ; and only such a flag at the end of a line takes the
   operator down. The script that the agent writes for a container asks for
   the wall time, nodes and CPUs of the request. *)
ScriptReadAsSbatch ==
  /\ OfJob =>
       LET e == extractBatchResourcesFromScript(job.script)
       IN  /\ Plain(job.script) /\ e.status = "ok" =>
                \A f \in DOMAIN FlagsOf :
                  e.res[f] = IF Directives(job.script, FlagsOf[f]) = {} THEN 0
                             ELSE AtLeast(LastDirective(job.script, FlagsOf[f]))
           /\ step = "panic" =>
                \E i \in DOMAIN job.script :
                  LET line == job.script[i]
                  IN  line.kind = "sbatch" /\ ~Valued(line) /\ ~line.words[Len(line.words)].eq
  /\ step = "containerSubmitted" =>
       LET e == extractBatchResourcesFromScript(opts.Script)
       IN  /\ e.status = "ok" /\ e.res.WallTime = job.WallTime
           /\ e.res.Nodes = job.Nodes /\ e.res.CpusPerTask = job.CpuPerNode

\* No code on the way from the spec to sbatch carries these.
Dropped == {"RunAsGroup", "Gres", "Licenses"}

(* What the spec says is what sbatch is told, and nothing else: each field
   comes back from its label unchanged, what the spec leaves out is left to
   the script, and the scheduler has put the pod on the node of the partition.
   Only RunAsGroup, which the pod still has, Gres and Licenses are lost. *)
SpecReachesSbatch ==
  step = "submitted" =>
    LET words == {"Partition", "RunAsUser", "WorkingDir"} \cup Dropped
        said == {f \in SpecFields : Given(job.spec, f)} \cup {f \in words : job.spec[f] # ""}
    IN  DOMAIN opts = said \ Dropped /\ \A o \in DOMAIN opts : opts[o] = job.spec[o]

(* The pod reserves the CPUs that the Slurm job will have, all elements of a
   job array together, unless the script alone says how many tasks or elements
   (--ntasks or -n, --array or -a, which the operator does not read), or
   several nodes are asked for without a number of tasks. A job array that the
   API server takes as a label is counted right, although parseArrayLen knows
   neither steps, nor lists of ranges, nor %. *)
ReservationExact ==
  /\ step \in {"created", "pending", "scheduled", "requested", "submitted"}
  /\ Plain(job.script)
  /\ \A f \in DOMAIN Unread : ~LeftToScript(job, f)
  /\ Asked(job, "Ntasks") > 0 \/ Asked(job, "NtasksPerNode") > 0 \/ Asked(job, "Nodes") <= 1
  => pod.limits.cpu = SlurmCpus(job)

(* A pod stays pending only if Slurm could not run the job in its partition at
   once either: the CPUs that sbatch will give it, or the memory it asks for
   on them, exceed what the partition has, although both sides convert memory
   on their own. The causes that are the operator's: it charges 1024 MB for a
   CPU when no memory per CPU is asked for, and it misreads or does not read
   parts of the script. *)
PendingNeedsDemand ==
  step = "pending" =>
    \A partition \in Partitions :
      LET Total(field) == FoldLeft(LAMBDA sum, n : sum + n[field], 0, partition.nodes)
          memory == LET m == Asked(job, "MemPerCpu") IN IF m = 0 THEN Default.MemPerCpu ELSE m
      IN  partition.name = job.spec.Partition =>
            \/ ~Plain(job.script)
            \/ \E f \in DOMAIN Unread : LeftToScript(job, f)
            \/ Total("Cpus") = 0
            \/ SlurmCpus(job) > Total("Cpus")
            \/ SlurmCpus(job) * memory > Total("Memory")
=============================================================================
