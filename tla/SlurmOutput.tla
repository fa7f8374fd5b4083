----------------------------- MODULE SlurmOutput -----------------------------
(***************************************************************************)
(* What the agent reads out of Slurm's text output (slurm-agent/slurm.go,  *)
(* parse.go), what its queries answer (slurm-agent/api/slurm.go) and what  *)
(* the virtual kubelet makes of the answers: the phase of a pod and the    *)
(* capacity of its node, for which it asks twice.                          *)
(***************************************************************************)
EXTENDS SlurmText, PodStatus

CONSTANTS
  JobLists,    \* what scontrol may know of a job: sequences of records
  StepLists,   \* what sacct may know of its steps
  Hosts,       \* [name -> [Cpus, Memory]] of the cluster
  Names,       \* the names partitions may have
  Limits,      \* limits a partition may have
  Configs,     \* the entry of the agent's configuration for the partition
  Zone         \* seconds that the local time of the agent's host is ahead of UTC

VARIABLES
  jobs, steps,   \* in Slurm: a job's records and its steps
  partitions,    \* in Slurm: the partitions there are
  members,       \* in Slurm: the hosts of the kubelet's partition
  limits,        \* in Slurm: its limits
  config,        \* in the agent
  replies,       \* the answers the agent has given
  kubelet,       \* what the kubelet's node provider is doing
  advertised,    \* the capacity of the virtual node
  asked,         \* the hosts when the kubelet was last told of the partition
  served         \* history: the hosts that the advertised capacity is of

nodeVars == <<kubelet, advertised, asked, served>>
outputVars == <<jobs, steps, partitions, members, limits, config, replies, nodeVars>>

Stamp(n) == [word |-> "T", num |-> n]
Unknown == Word("Unknown")

\* What Slurm knows as a duration, and as a point in time.
Seconds == [word : {""}, num : Nat]
Stamps == [word : {"T"}, num : Nat] \cup {Unknown}

JobRecord == [State : STRING, RunTime : Nat,
              TimeLimit : Seconds \cup {Unlimited, Word("Partition_Limit")}, StartTime : Stamps]
StepRecord == [Start : Stamps \cup {Word("None")}, End : Stamps \cup {Word("None")},
               ExitCode : Nat, State : STRING]

ASSUME JobListsAssumption == JobLists \subseteq Seq(JobRecord)
ASSUME StepListsAssumption == StepLists \subseteq Seq(StepRecord)

\* What a limit of a partition may be.
Amounts == Seconds \cup {Unlimited}
PartitionLimits ==
  [MaxNodes : Amounts, MaxTime : Amounts, MaxCPUsPerNode : Amounts, TotalCPUs : Nat,
   MemKey : {"MaxMemPerNode", "MaxMemPerCPU"}, MaxMem : Amounts]

\* Every host has a CPU, and its name is no separator of Slurm's lists.
ASSUME HostsAssumption ==
  /\ IsFiniteSet(DOMAIN Hosts)
  /\ \A h \in DOMAIN Hosts : h \notin {",", "(null)"} /\ Hosts[h] \in [Cpus : Nat \ {0}, Memory : Nat]
ASSUME NamesAssumption == IsFiniteSet(Names)
ASSUME LimitsAssumption == Limits \subseteq PartitionLimits
ASSUME ZoneAssumption == Zone \in Int

-----------------------------------------------------------------------------
(* Slurm's output (external): blocks of fields key=value, the blocks parted
   by empty lines. eqs is the number of '=' in a field. *)
Field(key, text) == [key |-> key, eqs |-> 1, text |-> text]
Nested(key) == [key |-> key, eqs |-> 2, text |-> <<>>]

\* days-hh:mm:ss, or the word Slurm prints instead.
TimeText(t) ==
  IF ~IsNum(t) THEN <<t>>
  ELSE LET clock == <<Num((t.num % Day) \div Hour), Colon,
                      Num((t.num % Hour) \div Minute), Colon, Num(t.num % Minute)>>
       IN  IF t.num < Day THEN clock ELSE <<Num(t.num \div Day), Dash>> \o clock

\* A point in time, as the clock of the host shows it and without its zone.
LocalTime(t) == IF t.word = "T" THEN Stamp(t.num + Zone) ELSE t

ShowJob(r) ==
  <<Field("JobState", <<Word(r.State)>>), Field("RunTime", TimeText(Num(r.RunTime))),
    Field("TimeLimit", TimeText(r.TimeLimit)), Field("StartTime", <<LocalTime(r.StartTime)>>),
    Nested("TRES")>>

\* sacct -p: columns, each ended by '|', so one more than asked for.
SacctLine(s) ==
  <<<<LocalTime(s.Start)>>, <<LocalTime(s.End)>>, <<Num(s.ExitCode), Colon, Num(0)>>, <<Word(s.State)>>,
    <<Word("id")>>, <<Word("name")>>, <<>>>>

\* Without steps sacct prints nothing, which is one line of one empty column.
SacctLines(list) == IF list = <<>> THEN <<<<<<>>>>>> ELSE [i \in DOMAIN list |-> SacctLine(list[i])]

HostList(hosts) ==
  LET names == SetToSeq(hosts)
  IN  IF hosts = {} THEN <<Word("(null)")>>
      ELSE FoldLeftDomain(LAMBDA text, i : text \o (IF i = 1 THEN <<>> ELSE <<Comma>>)
                                                \o <<Word(names[i])>>, <<>>, names)

ShowPartition(hosts, l) ==
  <<Field("PartitionName", <<Word("p")>>), Field("MaxNodes", <<l.MaxNodes>>),
    Field("MaxTime", TimeText(l.MaxTime)), Field("MaxCPUsPerNode", <<l.MaxCPUsPerNode>>),
    Field("Nodes", HostList(hosts)), Field("TotalCPUs", <<Num(l.TotalCPUs)>>),
    Field("TotalNodes", <<Num(Cardinality(hosts))>>), Field(l.MemKey, <<l.MaxMem>>),
    Nested("TRES")>>

\* scontrol show partition, without partitions a sentence.
ShowPartitions ==
  IF partitions = {} THEN <<<<[key |-> "No", eqs |-> 0, text |-> <<>>]>>>>
  ELSE LET list == SetToSeq(partitions)
       IN  [i \in DOMAIN list |-> <<Field("PartitionName", <<Word(list[i])>>), Nested("TRES")>>]

ShowNode(h) ==
  <<Field("CPUTot", <<Num(Hosts[h].Cpus)>>), Field("RealMemory", <<Num(Hosts[h].Memory)>>),
    Field("CPUAlloc", <<Num(0)>>), Nested("CfgTRES")>>

-----------------------------------------------------------------------------
(* The parsers. A field with another number of '=' than one is skipped; of
   several fields with one key the last counts. *)
Keys(block) == {block[i].key : i \in {k \in DOMAIN block : block[k].eqs = 1}}
Get(block, key) ==
  block[Max({i \in DOMAIN block : block[i].key = key /\ block[i].eqs = 1})].text

Nil == [ok |-> TRUE, value |-> -1]

\* time.Parse takes a time without a zone to be UTC.
parseTime(text) ==
  CASE text \in {<<>>, <<Unknown>>} -> Nil
    [] text \notin {<<>>, <<Unknown>>} /\ text[1].word = "T" -> Parsed(text[1].num)
    [] OTHER -> NotParsed

\* A duration of a record; nil when unlimited.
DurationField(d) ==
  CASE d.kind = "duration" -> Parsed(d.value)
    [] d.kind = "unlimited" -> Nil
    [] d.kind = "invalid" -> NotParsed

\* A duration or time of a record; nil when missing.
Filled(block, key) ==
  CASE key \notin Keys(block) -> Nil
    [] key \in Keys(block) /\ key = "StartTime" -> parseTime(Get(block, key))
    [] OTHER -> DurationField(ParseDuration(Get(block, key)))

fillFromSlurmFields(block) ==
  [State |-> IF "JobState" \in Keys(block) THEN Get(block, "JobState")[1].word ELSE "",
   RunTime |-> Filled(block, "RunTime"), TimeLimit |-> Filled(block, "TimeLimit"),
   StartTime |-> Filled(block, "StartTime")]

Readable(info) == info.RunTime.ok /\ info.TimeLimit.ok /\ info.StartTime.ok

(* Mutation: a state the protocol lacks counts as failed. *)
ProtoStatusFailed(state) == IF state \in JobStatus THEN state ELSE "FAILED"

ProtoStatus(state) == IF state \in JobStatus THEN state ELSE "UNKNOWN"

\* A call fails, or its text is not what the parser expects.
CallFailed == [ok |-> FALSE, why |-> "call"]
Error == [ok |-> FALSE, why |-> "text"]

mapSInfoToProtoInfo(infos) ==
  IF \E i \in DOMAIN infos : ~Readable(infos[i]) THEN Error
  ELSE [ok |-> TRUE,
        infos |-> [i \in DOMAIN infos |->
                    [infos[i] EXCEPT !.State = ProtoStatus(infos[i].State)]]]

JobInfo(blocks) ==
  mapSInfoToProtoInfo([i \in DOMAIN blocks |-> fillFromSlurmFields(blocks[i])])

toProtoSteps(list) ==
  [i \in DOMAIN list |-> [list[i] EXCEPT !.Status = ProtoStatus(@)]]

parseSacctResponse(lines) ==
  LET Step(l) == [Start |-> parseTime(l[1]), End |-> parseTime(l[2]),
                  ExitCode |-> ParseInt(Split(l[3], Colon)[1]),
                  Status |-> l[4][1].word]
  IN  IF \E i \in DOMAIN lines :
           \/ Len(lines[i]) # 7 \/ Len(Split(lines[i][3], Colon)) # 2
           \/ ~(Step(lines[i]).Start.ok /\ Step(lines[i]).End.ok /\ Step(lines[i]).ExitCode.ok)
      THEN Error
      ELSE [ok |-> TRUE, steps |-> [i \in DOMAIN lines |-> Step(lines[i])]]

parsePartitionsNames(blocks) ==
  [i \in DOMAIN blocks |->
    IF "PartitionName" \in Keys(blocks[i]) THEN Get(blocks[i], "PartitionName")[1].word ELSE ""]

parsePartition(block) == Split(Get(block, "Nodes"), Comma)

\* strings.Join(nodeNames, ","), and the hosts scontrol finds for it.
Join(names) ==
  FoldLeftDomain(LAMBDA text, i : text \o (IF i = 1 THEN <<>> ELSE <<Comma>>) \o names[i],
                 <<>>, names)
Found(text) == {hosts \in SUBSET DOMAIN Hosts : HostList(hosts) = text /\ hosts # {}}

(* Mutation: only the first of the names is asked for. *)
NodesFirst(names) ==
  IF Found(names[1]) = {} THEN Error
  ELSE LET hosts == SetToSeq(CHOOSE hosts \in Found(names[1]) : TRUE)
       IN  [ok |-> TRUE, nodes |-> [i \in DOMAIN hosts |->
             [Cpus |-> ParseInt(Get(ShowNode(hosts[i]), "CPUTot")).value,
              Memory |-> ParseInt(Get(ShowNode(hosts[i]), "RealMemory")).value]]]

Nodes(names) ==
  IF Found(Join(names)) = {} THEN Error
  ELSE LET hosts == SetToSeq(CHOOSE hosts \in Found(Join(names)) : TRUE)
       IN  [ok |-> TRUE, nodes |-> [i \in DOMAIN hosts |->
             [Cpus |-> ParseInt(Get(ShowNode(hosts[i]), "CPUTot")).value,
              Memory |-> ParseInt(Get(ShowNode(hosts[i]), "RealMemory")).value]]]

(* parseResources takes the first value of the first field with a key; a limit
   is 0 without its field, and what is given instead when unlimited. *)
First(block, key) ==
  Split(block[Min({i \in DOMAIN block : block[i].key = key /\ block[i].eqs = 1})].text, Comma)[1]

Limit(block, key, instead) ==
  CASE key \notin Keys(block) -> Parsed(0)
    [] key \in Keys(block) /\ First(block, key) = <<Unlimited>> -> instead
    [] OTHER -> ParseInt(First(block, key))

TotalOf(block, key) == IF key \in Keys(block) THEN ParseInt(First(block, key)) ELSE Parsed(-1)

\* A value of the configuration counts unless it is 0 or automatic.
Automatic(f) == f \in config.auto \/ config.value[f] = 0

(* An unlimited WallTime is -1 nanosecond, which is 0 in whole seconds. *)
parseResources(block) ==
  LET time == ParseDuration(First(block, "MaxTime"))
  IN  [Nodes |-> Limit(block, "MaxNodes", TotalOf(block, "TotalNodes")),
       CPUPerNode |-> Limit(block, "MaxCPUsPerNode", TotalOf(block, "TotalCPUs")),
       MemPerNode |-> Limit(block, "MaxMemPerNode", Parsed(-1)),
       WallTime |-> [ok |-> time.kind # "invalid", value |-> time.value]]

Resources(block) ==
  LET r == parseResources(block)
  IN  IF \E f \in DOMAIN r : ~r[f].ok THEN Error
      ELSE [ok |-> TRUE,
            list |-> [f \in DOMAIN r |-> IF Automatic(f)
                                         THEN r[f].value ELSE config.value[f]]]

-----------------------------------------------------------------------------
Reply(key, answer) == replies' = [k \in DOMAIN replies \cup {key} |->
                                   IF k = key THEN answer ELSE replies[k]]
Unasked(key) == key \notin DOMAIN replies
SlurmUnchanged == UNCHANGED <<jobs, steps, partitions, members, limits, config>>

\* For a job it does not know scontrol exits with an error.
QueryJobInfo ==
  /\ Unasked("info") /\ jobs # <<>>
  /\ Reply("info", JobInfo([i \in DOMAIN jobs |-> ShowJob(jobs[i])]))
  /\ SlurmUnchanged /\ UNCHANGED nodeVars

SJobSteps == parseSacctResponse(SacctLines(steps))

QueryJobSteps ==
  /\ Unasked("steps")
  /\ Reply("steps", IF SJobSteps.ok THEN [SJobSteps EXCEPT !.steps = toProtoSteps(@)]
                    ELSE Error)
  /\ SlurmUnchanged /\ UNCHANGED nodeVars

PartitionNames == parsePartitionsNames(ShowPartitions)

QueryPartitions ==
  /\ Unasked("names")
  /\ Reply("names", [ok |-> TRUE, list |-> PartitionNames])
  /\ SlurmUnchanged /\ UNCHANGED nodeVars

QueryResources ==
  /\ Unasked("resources")
  /\ Reply("resources", Resources(ShowPartition(members, limits)))
  /\ SlurmUnchanged /\ UNCHANGED nodeVars

\* The agent cannot be reached, or the command it runs fails.
QueryFails(key) ==
  /\ Unasked(key)
  /\ Reply(key, CallFailed)
  /\ SlurmUnchanged /\ UNCHANGED nodeVars

(* The kubelet's GetPartitionCapacity asks for the partition, then for its
   nodes: when it starts, and when the timer of NotifyNodeStatus fires. An
   error of either call is the answer. *)
PartitionHosts == parsePartition(ShowPartition(members, limits))

Asking == kubelet \in {"starting", "refreshing"} /\ Unasked("capacity")

QueryPartition ==
  /\ Asking /\ Unasked("hosts")
  /\ Reply("hosts", PartitionHosts)
  /\ asked' = members
  /\ SlurmUnchanged /\ UNCHANGED <<kubelet, advertised, served>>

QueryNodes ==
  /\ Asking /\ ~Unasked("hosts")
  /\ LET r == Nodes(replies["hosts"])
     IN  Reply("capacity", IF r.ok THEN [ok |-> TRUE, list |-> GetPartitionCapacity(r.nodes)]
                           ELSE Error)
  /\ SlurmUnchanged /\ UNCHANGED nodeVars

CapacityFails == Asking /\ QueryFails("capacity")

(* Without a capacity a kubelet does not start, and one that runs logs the
   error and keeps the node as it is. *)
NewNodeOrDie ==
  /\ ~Unasked("capacity")
  /\ LET answer == replies["capacity"]
     IN  /\ advertised' = IF answer.ok THEN answer.list ELSE advertised
         /\ served' = IF answer.ok THEN asked ELSE served
         /\ kubelet' = CASE kubelet = "refreshing" -> IF answer.ok THEN "refreshed" ELSE "kept"
                         [] kubelet = "starting" /\ answer.ok -> "running"
                         [] OTHER -> "exited"
  /\ replies' = Restrict(replies, DOMAIN replies \ {"hosts", "capacity"})
  /\ SlurmUnchanged /\ UNCHANGED asked

\* The timer fires after a minute and is not set again, after an error either.
NotifyNodeStatus ==
  /\ kubelet = "running"
  /\ kubelet' = "refreshing"
  /\ SlurmUnchanged /\ UNCHANGED <<replies, advertised, asked, served>>

\* Administrators change the partition (external).
Reconfigure(hosts) ==
  /\ members' = hosts
  /\ UNCHANGED <<jobs, steps, partitions, limits, config, replies>> /\ UNCHANGED nodeVars

OutputInit ==
  /\ jobs \in JobLists /\ steps \in StepLists
  /\ partitions \in SUBSET Names /\ members \in SUBSET DOMAIN Hosts /\ limits \in Limits /\ config \in Configs
  /\ replies = <<>>
  /\ kubelet = "starting" /\ advertised = [cpu |-> 0, memory |-> 0, pods |-> 0]
  /\ asked = {} /\ served = {}

QueryNext ==
  \/ QueryJobInfo \/ QueryJobSteps \/ QueryPartitions \/ QueryResources
  \/ \E key \in {"info", "steps", "names", "resources"} : QueryFails(key)

NodeNext ==
  \/ QueryPartition \/ QueryNodes \/ CapacityFails \/ NewNodeOrDie \/ NotifyNodeStatus
  \/ \E hosts \in SUBSET DOMAIN Hosts : Reconfigure(hosts)

OutputSpec == OutputInit /\ [][QueryNext \/ NodeNext]_outputVars

-----------------------------------------------------------------------------
Answered(key) == ~Unasked(key) /\ replies[key].ok
Refused(key) == ~Unasked(key) /\ ~replies[key].ok

\* Slurm states of a job that is over.
EndedStates == {"COMPLETED", "CANCELLED", "FAILED", "TIMEOUT", "NODE_FAIL", "OUT_OF_MEMORY"}

(* The phase a pod gets from the text scontrol prints tells the truth: it is
   final only when all records are of jobs that are over and Succeeded only
   when all have completed. The one way for a pod to stay open although its
   job is over is a state that JobStatus lacks. *)
PhaseTellsState ==
  Answered("info") =>
    LET infos == replies["info"].infos
        phase == slurmState2PodPhase([i \in DOMAIN infos |-> infos[i].State])
        over == \A i \in DOMAIN jobs : jobs[i].State \in EndedStates
    IN  /\ Terminal(phase) => over
        /\ phase = "Succeeded" <=> \A i \in DOMAIN jobs : jobs[i].State = "COMPLETED"
        /\ over /\ ~Terminal(phase) => \E i \in DOMAIN jobs : jobs[i].State \notin JobStatus

\* Nothing but a failed call leaves a question without an answer.
OnlyCallFails(key) == Refused(key) => replies[key].why = "call"

\* What a duration of Slurm must become; and a point in time, ahead by Zone.
Told(answer, t) == answer = IF t = Unlimited THEN Nil ELSE Parsed(t.num)
ToldTime(answer, t) == answer = IF t = Unknown THEN Nil ELSE Parsed(t.num + Zone)

(* Durations survive Slurm's formatting and ParseDuration: seconds, minutes,
   hours and days come back as the number of seconds. A point in time comes
   back ahead by the zone of the host, for parseTime takes the local time that
   Slurm prints for UTC. Unless the call fails, as it does for a job that
   Slurm does not know, JobInfo gives no answer, and so no phase, only when a
   record has the limit Partition_Limit; JobSteps when there is no step yet,
   because the empty output is an error, or a step has a time that is a word
   other than Unknown. *)
TimesExact ==
  /\ Answered("info") =>
       \A i \in DOMAIN jobs :
         LET info == replies["info"].infos[i]
         IN  /\ info.RunTime = Parsed(jobs[i].RunTime)
             /\ Told(info.TimeLimit, jobs[i].TimeLimit)
             /\ ToldTime(info.StartTime, jobs[i].StartTime)
  /\ \/ OnlyCallFails("info")
     \/ \E i \in DOMAIN jobs : jobs[i].TimeLimit = Word("Partition_Limit")
  /\ Answered("steps") =>
       /\ steps # <<>>
       /\ \A i \in DOMAIN steps :
            LET s == replies["steps"].steps[i]
            IN  /\ ToldTime(s.Start, steps[i].Start) /\ ToldTime(s.End, steps[i].End)
                /\ s.ExitCode = Parsed(steps[i].ExitCode)
                /\ s.Status \in {steps[i].State, "UNKNOWN"}
  /\ \/ OnlyCallFails("steps") \/ steps = <<>>
     \/ \E i \in DOMAIN steps : Word("None") \in {steps[i].Start, steps[i].End}

SumOver(hosts, field) == FoldSet(LAMBDA h, sum : sum + Hosts[h][field], 0, hosts)

CapacityOf(hosts) ==
  [cpu |-> SumOver(hosts, "Cpus"), memory |-> 2048 * SumOver(hosts, "Memory"),
   pods |-> SumOver(hosts, "Cpus")]

(* What is told of a partition is what Slurm has: the names, but one empty
   name when there is no partition; for the capacity of a node all hosts of
   the list, each once, as the list was at the first of the two questions, so
   that unless a call fails there is a capacity but for a partition without
   hosts; the limits, but the CPUs of the whole partition per node, and 0 as
   time, when unlimited. A node that runs always advertises what one answer
   told of some hosts: the last one, and after a refresh that failed, at the
   first question or between the two, the one before, whole. *)
PartitionTold ==
  /\ Answered("names") =>
       LET names == replies["names"].list
       IN  /\ ToSet(names) = IF partitions = {} THEN {""} ELSE partitions
           /\ Len(names) = Cardinality(ToSet(names))
  /\ OnlyCallFails("names")
  /\ Answered("capacity") => replies["capacity"].list = CapacityOf(asked)
  /\ OnlyCallFails("capacity") \/ asked = {}
  /\ kubelet \in {"running", "refreshing", "refreshed", "kept"} =>
       served # {} /\ advertised = CapacityOf(served)
  /\ kubelet \in {"running", "refreshed"} => served = asked
  /\ Answered("resources") =>
       LET list == replies["resources"].list
           Bound(limit, instead) == IF limit = Unlimited THEN instead ELSE limit.num
       IN  /\ \A f \in DOMAIN list : ~Automatic(f) => list[f] = config.value[f]
           /\ Automatic("CPUPerNode") => list["CPUPerNode"] = Bound(limits.MaxCPUsPerNode, limits.TotalCPUs)
           /\ Automatic("WallTime") => list["WallTime"] = Bound(limits.MaxTime, 0)
           /\ Automatic("MemPerNode") /\ limits.MemKey = "MaxMemPerNode" =>
                list["MemPerNode"] = Bound(limits.MaxMem, -1)
  /\ OnlyCallFails("resources")
=============================================================================
