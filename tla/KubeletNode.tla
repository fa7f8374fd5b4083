----------------------------- MODULE KubeletNode -----------------------------
(***************************************************************************)
(* The processes slurm-virtual-kubelet of one host: configuration, the     *)
(* TLS files, the server for logs, and Run with the pod informer, the      *)
(* virtual node and the pod controller of the virtual-kubelet library.     *)
(* A process has the goroutines main (RunVirtualKubelet), run (vk.Run),    *)
(* starter (podInformerFactory.Start) and server (ListenAndServe...).      *)
(***************************************************************************)
EXTENDS Integers, Sequences, FiniteSets

CONSTANTS
  Kubelets,    \* processes
  Args,        \* Args[k]: the flags --partition, --endpoint and --port, 0 if absent
  Files,       \* Files[k]: the configuration file, given or not
  Pods,        \* the pods of the cluster in the order the API server lists them
  NodeOf,      \* NodeOf[p]: the kubelet whose node the pod is bound to
  SizeCarOf,   \* SizeCarOf[p]: the sizecar pod whose job the pod carries
  MaxCrashes,  \* how often processes are killed
  MaxChanges   \* how often the agent goes or comes back

ASSUME KubeletAssumption ==
  /\ Kubelets \cap {"none", "provided"} = {}   \* marks of files nobody here wrote
  /\ NodeOf \in [DOMAIN NodeOf -> Kubelets]
  /\ SizeCarOf \in [DOMAIN NodeOf -> DOMAIN NodeOf]

VARIABLES
  vk,        \* vk[k]: the process of kubelet k
  disk,      \* the files: absent, or whose key they belong to
  ports,     \* ports[k]: the port k listens on, 0 if none
  agent,     \* the agent can be asked for the capacity of the partition
  pods,      \* the pods there are
  job,       \* job[p]: the Slurm job of a sizecar pod
  crashes, changes,
  broken,    \* history: why a pair of TLS files may be unusable
  fresh      \* history: fresh[k]: pods bound between the filling of the cache
             \* of k and its first use

kubeletVars == <<vk, disk, ports, agent, pods, job, crashes, changes,
                 broken, fresh>>
podVars == <<pods, job, fresh>>
envVars == <<agent, crashes, changes>>

-----------------------------------------------------------------------------
(* Configuration: the file over the defaults, the flags over the file. *)
Defaulted(c) ==
  [port |-> IF c.port = 0 THEN 10250 ELSE c.port,
   cert |-> IF "" \in {c.cert, c.key} THEN "kubelet.crt" ELSE c.cert,
   key |-> IF "" \in {c.cert, c.key} THEN "kubelet.key" ELSE c.key]

Configuration(k) ==
  Defaulted(IF Files[k].given THEN Files[k] ELSE [port |-> 0, cert |-> "", key |-> ""])

AddKubeletConfigFlags(c, args) ==
  [c EXCEPT !.port = IF args.port = 0 THEN @ ELSE args.port]

kubeletConfigFlagPrecedence(k) == AddKubeletConfigFlags(Configuration(k), Args[k])

\* The command line of the pods that the configurator creates.
virtualKubeletPodTemplate(partition, endpoint) ==
  [partition |-> partition, endpoint |-> endpoint, port |-> 0]

(* The labels of the node; of those in a Kubernetes namespace a kubelet may set
   only some. The name of the partition is taken to be a valid label value. *)
KubernetesLabels ==
  {"exclude-balancer", "exclude-from-external-load-balancers",
   "kubernetes.io/role", "kubernetes.io/hostname"}
NodeLabels == KubernetesLabels \cup {"type", "kubecluster.org/partition"}

isKubernetesLabel(label) == label \in KubernetesLabels

IsKubeletLabel(label) ==
  label \in {"kubernetes.io/hostname", "topology.kubernetes.io/zone",
             "exclude-balancer", "exclude-from-external-load-balancers",
             "kubernetes.io/role"}

ValidateKubeletFlags(k) ==
  /\ \A label \in NodeLabels : isKubernetesLabel(label) => IsKubeletLabel(label)
  /\ Args[k].partition # ""

\* grpc.Dial does not wait for the agent; only an empty address is refused.
NewSlurmVirtualKubelet(k) == Args[k].endpoint # ""

Cert(k) == kubeletConfigFlagPrecedence(k).cert
Key(k) == kubeletConfigFlagPrecedence(k).key
Paths == {Cert(k) : k \in Kubelets} \cup {Key(k) : k \in Kubelets}

Down == [main |-> "down", run |-> "none", starter |-> "none", server |-> "none",
         informer |-> "none", cache |-> {}]

Generating(k) == vk[k].main \in {"cert", "key"}
Up(k) == vk[k].main # "down"

\* Why the pair of a process that ends now may stay unusable.
EndsInWindow(k) ==
  broken' = IF Generating(k) THEN broken \cup {"ended"} ELSE broken

Exit(k) ==
  /\ vk' = [vk EXCEPT ![k] = Down]
  /\ ports' = [ports EXCEPT ![k] = 0]
  /\ EndsInWindow(k)
  /\ fresh' = [fresh EXCEPT ![k] = {}]

\* vk.Run is spawned, which spawns the goroutine that starts the informer
\* factory; main goes on.
RunVirtualKubelet ==
  [Down EXCEPT !.main = "check", !.run = "spawned", !.starter = "pending"]

(* The process starts, or is started again; flags that are not valid end it
   at once. *)
StartProcess(k) ==
  /\ ~Up(k) /\ ValidateKubeletFlags(k) /\ NewSlurmVirtualKubelet(k)
  /\ vk' = [vk EXCEPT ![k] = RunVirtualKubelet]
  /\ UNCHANGED <<disk, ports, broken>> /\ UNCHANGED podVars /\ UNCHANGED envVars

-----------------------------------------------------------------------------
(* main: startVirtualKubelet and tryPrepareTlsCerts. *)
Step(k, from, to) == vk[k].main = from /\ vk' = [vk EXCEPT ![k].main = to]
MainOnly == UNCHANGED ports /\ UNCHANGED podVars /\ UNCHANGED envVars

CheckCerts(k) ==
  /\ Step(k, "check", IF disk[Cert(k)] = "none" /\ disk[Key(k)] = "none"
                      THEN "cert" ELSE "serve")
  /\ UNCHANGED <<disk, broken>> /\ MainOnly

\* Other processes at work on the same files.
Raced(k) == \E o \in Kubelets \ {k} : Generating(o) /\ Cert(o) = Cert(k)

Write(k, path, content) ==
  /\ disk' = [disk EXCEPT ![path] = content]
  /\ broken' = IF Raced(k) THEN broken \cup {"race"} ELSE broken
  /\ MainOnly

\* os.Create, Encode and Close of the certificate, then of the key.
WriteCert(k) == Step(k, "cert", "key") /\ Write(k, Cert(k), k)

(* Mutation: the key file holds another key than the certificate is for. *)
WriteKey_Other(k) == Step(k, "key", "serve") /\ Write(k, Key(k), "other")

WriteKey(k) == Step(k, "key", "serve") /\ Write(k, Key(k), k)

\* One file can hold both, unless the key was written over the certificate.
Usable(cert, key) ==
  /\ disk[cert] = disk[key] /\ disk[cert] # "none"
  /\ cert = key => disk[cert] = "provided"

PortTaken(k) ==
  \E o \in Kubelets \ {k} : ports[o] = kubeletConfigFlagPrecedence(k).port

(* server: a pair that cannot be loaded, or a port that is taken, ends the
   process. *)
ListenAndServe(k) ==
  /\ vk[k].main = "serve" /\ vk[k].server = "none"
  /\ Usable(Cert(k), Key(k)) /\ ~PortTaken(k)
  /\ vk' = [vk EXCEPT ![k].server = "serving"]
  /\ ports' = [ports EXCEPT ![k] = kubeletConfigFlagPrecedence(k).port]
  /\ UNCHANGED <<disk, broken>> /\ UNCHANGED podVars /\ UNCHANGED envVars

ListenFails(k) ==
  /\ vk[k].main = "serve" /\ vk[k].server = "none"
  /\ ~Usable(Cert(k), Key(k)) \/ PortTaken(k)
  /\ Exit(k)
  /\ UNCHANGED <<disk, pods, job>> /\ UNCHANGED envVars

-----------------------------------------------------------------------------
(* run: vk.Run. The factory is started by a goroutine that runs at once or
   later; an informer that is registered after that is never started. *)
RunOnly == UNCHANGED <<disk, ports, broken>> /\ UNCHANGED envVars

StartInformers(k) ==
  /\ vk[k].starter = "pending"
  /\ vk' = [vk EXCEPT ![k].starter = "done",
                      ![k].informer = IF @ = "registered" THEN "running" ELSE @]
  /\ UNCHANGED podVars /\ RunOnly

\* podInformer.Lister() registers the informer; NewResourceManager.
NewResourceManager(k) ==
  /\ vk[k].run = "spawned"
  /\ vk' = [vk EXCEPT ![k].run = "registered", ![k].informer = "registered"]
  /\ UNCHANGED podVars /\ RunOnly

(* The agent is asked for the capacity of the partition, klog.Fatal when it
   cannot tell; then nodeRunner registers the node, which is there for the
   scheduler although no pod is handled yet. *)
NewNodeOrDie(k) ==
  /\ vk[k].run = "registered" /\ agent
  /\ vk' = [vk EXCEPT ![k].run = "sync"]
  /\ UNCHANGED podVars /\ RunOnly

NewNodeDies(k) ==
  /\ vk[k].run = "registered" /\ ~agent
  /\ Exit(k)
  /\ UNCHANGED <<disk, pods, job>> /\ UNCHANGED envVars

OwnPods(k) == {p \in pods : NodeOf[p] = k}

(* Mutation: the pod controller is waited for before it is run, as with a
   startup timeout. *)
SyncCache_WaitsForReady(k) ==
  /\ vk[k].run = "sync" /\ vk[k].informer = "running" /\ vk[k].cache # {}
  /\ vk' = [vk EXCEPT ![k].run = "dangling", ![k].cache = OwnPods(k)]
  /\ fresh' = [fresh EXCEPT ![k] = {}]
  /\ UNCHANGED <<pods, job>> /\ RunOnly

\* pc.Run waits for the informer's first list.
SyncCache(k) ==
  /\ vk[k].run = "sync" /\ vk[k].informer = "running"
  /\ vk' = [vk EXCEPT ![k].run = "dangling", ![k].cache = OwnPods(k)]
  /\ fresh' = [fresh EXCEPT ![k] = {}]
  /\ UNCHANGED <<pods, job>> /\ RunOnly

\* The watch brings the cache up to date; it is followed here until its first
\* use, later ones are those of VirtualKubelet.
WatchPods(k) ==
  /\ vk[k].run = "dangling" /\ vk[k].cache # OwnPods(k)
  /\ vk' = [vk EXCEPT ![k].cache = OwnPods(k)]
  /\ UNCHANGED podVars /\ RunOnly

Position(p) == CHOOSE i \in DOMAIN Pods : Pods[i] = p

(* Mutation: each pod of the list is returned. *)
GetPods_Each == pods

(* GetPods lists the pods of all nodes, and its loop variable makes every
   entry the last pod of the list. *)
GetPods == {p \in pods : \A q \in pods : Position(q) <= Position(p)}

Running(p) == job[SizeCarOf[p]] = "running"

\* The library deletes what GetPods returns and the cache lacks: DeletePod
\* cancels the job in the pod's label. CancelJob may fail, which is logged.
DeleteDanglingPods(k) ==
  LET victims == {p \in GetPods \ vk[k].cache : Running(p)}
  IN  /\ vk[k].run = "dangling"
      /\ vk' = [vk EXCEPT ![k].run = "ready", ![k].cache = {}]
      /\ fresh' = [fresh EXCEPT ![k] = {}]
      /\ job' = [p \in DOMAIN job |->
                  IF \E v \in victims : SizeCarOf[v] = p THEN "cancelled" ELSE job[p]]
      /\ UNCHANGED pods /\ RunOnly

DanglingCancelFails(k) ==
  /\ vk[k].run = "dangling"
  /\ \E p \in GetPods \ vk[k].cache : Running(p)
  /\ vk' = [vk EXCEPT ![k].run = "ready", ![k].cache = {}]
  /\ fresh' = [fresh EXCEPT ![k] = {}]
  /\ UNCHANGED <<pods, job>> /\ RunOnly

\* A worker of the pod controller submits a sizecar pod.
SubmitPod(p) ==
  LET k == NodeOf[p]
  IN  /\ vk[k].run = "ready" /\ p \in pods
      /\ SizeCarOf[p] = p /\ job[p] = "none"
      /\ job' = [job EXCEPT ![p] = "running"]
      /\ UNCHANGED <<vk, pods, fresh>> /\ RunOnly

-----------------------------------------------------------------------------
(* Around the kubelets (external): the operator creates a worker pod, bound to
   the node of its sizecar; the agent fails; processes die. *)
BindWorker(p) ==
  /\ p \notin pods /\ job[SizeCarOf[p]] = "running"
  /\ pods' = pods \cup {p}
  /\ fresh' = [fresh EXCEPT ![NodeOf[p]] = IF vk[NodeOf[p]].run = "dangling" THEN @ \cup {p} ELSE @]
  /\ UNCHANGED <<vk, job>> /\ RunOnly

ChangeAgent ==
  /\ changes < MaxChanges
  /\ changes' = changes + 1 /\ agent' = ~agent
  /\ UNCHANGED <<vk, disk, ports, crashes, broken>> /\ UNCHANGED podVars

Crash(k) ==
  /\ Up(k) /\ crashes < MaxCrashes
  /\ crashes' = crashes + 1
  /\ Exit(k)
  /\ UNCHANGED <<disk, pods, job, agent, changes>>

-----------------------------------------------------------------------------
\* A host with no TLS files, or with files of a proper pair; sizecar pods are
\* bound to the nodes and the agent is yet to come up.
KubeletInit ==
  /\ vk = [k \in Kubelets |-> Down]
  /\ disk \in {[p \in Paths |-> c] : c \in {"none", "provided"}}
  /\ ports = [k \in Kubelets |-> 0]
  /\ agent = FALSE
  /\ pods = {SizeCarOf[p] : p \in DOMAIN SizeCarOf} /\ job = [p \in pods |-> "none"]
  /\ crashes = 0 /\ changes = 0
  /\ broken = {} /\ fresh = [k \in Kubelets |-> {}]

MainStep(k) ==
  \/ CheckCerts(k) \/ WriteCert(k) \/ WriteKey(k)
  \/ ListenAndServe(k) \/ ListenFails(k)

RunStep(k) ==
  \/ NewResourceManager(k) \/ NewNodeOrDie(k) \/ NewNodeDies(k)
  \/ SyncCache(k) \/ DeleteDanglingPods(k) \/ DanglingCancelFails(k)

KubeletNext ==
  \/ \E k \in Kubelets :
       \/ StartProcess(k) \/ MainStep(k) \/ RunStep(k) \/ StartInformers(k)
       \/ WatchPods(k) \/ Crash(k)
  \/ \E p \in DOMAIN NodeOf : SubmitPod(p) \/ BindWorker(p)
  \/ ChangeAgent

\* The goroutines of vk.Run go on while their process is up.
KubeletFairness ==
  \A k \in Kubelets :
    WF_kubeletVars(RunStep(k)) /\ WF_kubeletVars(StartInformers(k))

KubeletSpec == KubeletInit /\ [][KubeletNext]_kubeletVars /\ KubeletFairness

-----------------------------------------------------------------------------
\* A file of the pair of k is also part of another pair.
Mixed(k) ==
  \E o \in Kubelets :
    \/ Cert(o) = Key(k) \/ Key(o) = Cert(k)
    \/ (Cert(o) = Cert(k)) # (Key(o) = Key(k))

(* TLS files that no process can load, at which every kubelet using them exits
   at each start, come about only if a process ended while it wrote them,
   which its own klog.Fatal in Run may do, two processes wrote them at the
   same time, or the configuration gives one file to two pairs:
   startVirtualKubelet writes them only if both are missing. *)
BadPairNeedsCause ==
  \A k \in Kubelets :
    /\ ~Usable(Cert(k), Key(k))
    /\ {disk[Cert(k)], disk[Key(k)]} # {"none"}
    /\ \A o \in Kubelets : Generating(o) => Cert(o) # Cert(k)
    => broken # {} \/ Mixed(k)

(* The start of a kubelet cancels no Slurm job of its own pods that were there
   when its cache was filled. It may cancel that of another kubelet's pod, or
   of a worker pod just created, and then only that of the last pod listed. *)
StartCancels ==
  [][\A s \in DOMAIN job :
       job[s] = "running" /\ job'[s] = "cancelled" =>
         \E k \in Kubelets, v \in pods :
           /\ vk[k].run = "dangling" /\ vk'[k].run = "ready"
           /\ SizeCarOf[v] = s /\ \A q \in pods : Position(q) <= Position(v)
           /\ NodeOf[v] # k \/ v \in fresh[k]]_kubeletVars

\* The informer was registered after the factory had been started.
Missed(k) == vk[k].starter = "done" /\ vk[k].informer = "registered"

(* A kubelet process gets to handle pods or ends, unless the goroutine that
   starts the informer factory overtook the registration of the informer: Run
   then waits for the cache for ever, with its node advertised. *)
KubeletStarts ==
  \A k \in Kubelets : Up(k) ~> (vk[k].run = "ready" \/ ~Up(k) \/ Missed(k))
=============================================================================
