--------------------------- MODULE KubeletProofs ---------------------------
(***************************************************************************)
(* Proofs about KubeletNode, for any number of kubelets, configurations,   *)
(* pods, crashes and failures of the agent: what makes a pair of TLS files *)
(* unusable, and which Slurm jobs the start of a kubelet can cancel.       *)
(***************************************************************************)
EXTENDS KubeletNode, TLAPS

Process ==
  [main : {"down", "check", "cert", "key", "serve"},
   run : {"none", "spawned", "registered", "sync", "dangling", "ready"},
   starter : {"none", "pending", "done"}, server : {"none", "serving"},
   informer : {"none", "registered", "running"}, cache : SUBSET DOMAIN NodeOf]

KubeletTypeOK ==
  /\ vk \in [Kubelets -> Process]
  /\ disk \in [Paths -> Kubelets \cup {"none", "provided"}]
  /\ pods \subseteq DOMAIN NodeOf
  /\ job \in [DOMAIN job -> {"none", "running", "cancelled"}]
  /\ fresh \in [Kubelets -> SUBSET DOMAIN NodeOf]

LEMMA PathsUsed == \A k \in Kubelets : Cert(k) \in Paths /\ Key(k) \in Paths
  BY DEF Paths

LEMMA DownType == Down \in Process /\ Down.main = "down" /\ Down.run = "none"
  BY DEF Down, Process

LEMMA StartedType ==
  RunVirtualKubelet \in Process /\ RunVirtualKubelet.main = "check" /\ RunVirtualKubelet.run = "spawned"
  BY DEF RunVirtualKubelet, Down, Process

LEMMA KubeletTypeInit == KubeletInit => KubeletTypeOK
<1> SUFFICES ASSUME KubeletInit PROVE KubeletTypeOK
  OBVIOUS
<1>1. vk \in [Kubelets -> Process]
  BY DownType DEF KubeletInit
<1>2. disk \in [Paths -> Kubelets \cup {"none", "provided"}]
  BY DEF KubeletInit
<1>3. pods \subseteq DOMAIN NodeOf
  BY KubeletAssumption DEF KubeletInit
<1>4. job \in [DOMAIN job -> {"none", "running", "cancelled"}]
  BY DEF KubeletInit
<1>5. fresh \in [Kubelets -> SUBSET DOMAIN NodeOf]
  BY DEF KubeletInit
<1> QED
  BY <1>1, <1>2, <1>3, <1>4, <1>5 DEF KubeletTypeOK

(* The steps of a process, and what they change of it. *)
LEMMA ExitSteps ==
  ASSUME KubeletTypeOK, NEW k \in Kubelets, Exit(k)
  PROVE  /\ vk' = [vk EXCEPT ![k] = Down] /\ vk' \in [Kubelets -> Process]
         /\ fresh' \in [Kubelets -> SUBSET DOMAIN NodeOf]
         /\ broken \subseteq broken' /\ (Generating(k) => broken' # {})
  BY DownType DEF KubeletTypeOK, Exit, EndsInWindow

\* One process changes, and which parts of it.
OneProcess(k) == vk' \in [Kubelets -> Process] /\ \A o \in Kubelets \ {k} : vk'[o] = vk[o]
SameMain == \A o \in Kubelets : vk'[o].main = vk[o].main
SameRun == \A o \in Kubelets : vk'[o].run = vk[o].run /\ vk'[o].cache = vk[o].cache

LEMMA MainUpdate ==
  ASSUME KubeletTypeOK, NEW k \in Kubelets, NEW m \in {"check", "cert", "key", "serve"},
         vk' = [vk EXCEPT ![k].main = m]
  PROVE  OneProcess(k) /\ SameRun /\ vk'[k].main = m
<1>1. /\ vk[k] \in Process /\ [vk[k] EXCEPT !.main = m] \in Process
      /\ [vk[k] EXCEPT !.main = m].main = m
      /\ [vk[k] EXCEPT !.main = m].run = vk[k].run /\ [vk[k] EXCEPT !.main = m].cache = vk[k].cache
  BY DEF KubeletTypeOK, Process
<1>2. vk' = [vk EXCEPT ![k] = [vk[k] EXCEPT !.main = m]]
  BY DEF KubeletTypeOK
<1> QED
  BY <1>1, <1>2 DEF KubeletTypeOK, OneProcess, SameRun

LEMMA RunUpdate ==
  ASSUME KubeletTypeOK, NEW k \in Kubelets, NEW p \in Process, p.main = vk[k].main,
         vk' = [vk EXCEPT ![k] = p]
  PROVE  OneProcess(k) /\ SameMain /\ vk'[k] = p
  BY DEF KubeletTypeOK, OneProcess, SameMain

(* The steps of main. *)
LEMMA MainSteps ==
  ASSUME KubeletTypeOK, NEW k \in Kubelets, CheckCerts(k) \/ WriteCert(k) \/ WriteKey(k)
  PROVE  /\ OneProcess(k) /\ SameRun /\ UNCHANGED podVars
         /\ disk' \in [Paths -> Kubelets \cup {"none", "provided"}] /\ broken \subseteq broken'
         /\ CheckCerts(k) => vk'[k].main = IF disk[Cert(k)] = "none" /\ disk[Key(k)] = "none"
                                          THEN "cert" ELSE "serve"
         /\ WriteCert(k) => vk'[k].main = "key"
         /\ WriteKey(k) => vk'[k].main = "serve"
<1>d. ASSUME NEW p, Write(k, p, k)
      PROVE  /\ disk' \in [Paths -> Kubelets \cup {"none", "provided"}] /\ broken \subseteq broken'
             /\ UNCHANGED podVars
  BY <1>d DEF Write, MainOnly, KubeletTypeOK
<1>1. CASE CheckCerts(k)
  BY <1>1, MainUpdate DEF CheckCerts, Step, MainOnly, WriteCert, WriteKey, KubeletTypeOK
<1>2. CASE WriteCert(k)
  BY <1>2, <1>d, MainUpdate DEF WriteCert, Step, CheckCerts, WriteKey
<1>3. CASE WriteKey(k)
  BY <1>3, <1>d, MainUpdate DEF WriteKey, Step, CheckCerts, WriteCert
<1> QED
  BY <1>1, <1>2, <1>3

(* The steps of the other goroutines leave the files and main alone. *)
OtherStep(k) ==
  \/ ListenAndServe(k) \/ StartInformers(k) \/ NewResourceManager(k) \/ NewNodeOrDie(k)
  \/ SyncCache(k) \/ WatchPods(k) \/ DeleteDanglingPods(k) \/ DanglingCancelFails(k)

LEMMA OtherSteps ==
  ASSUME KubeletTypeOK, NEW k \in Kubelets, OtherStep(k)
  PROVE  /\ OneProcess(k) /\ SameMain /\ UNCHANGED <<disk, broken, pods>>
         /\ vk'[k].run = "dangling" =>
              \/ SyncCache(k) /\ vk'[k].cache = OwnPods(k)
              \/ WatchPods(k) /\ vk'[k].cache = OwnPods(k)
              \/ vk[k].run = "dangling" /\ vk'[k].cache = vk[k].cache /\ UNCHANGED fresh
         /\ DeleteDanglingPods(k) => vk'[k].run = "ready"
         /\ ~DeleteDanglingPods(k) => UNCHANGED job
         /\ fresh' \in [Kubelets -> SUBSET DOMAIN NodeOf]
         /\ \A o \in Kubelets \ {k} : fresh'[o] = fresh[o]
<1> DEFINE Goal ==
         /\ OneProcess(k) /\ SameMain /\ UNCHANGED <<disk, broken, pods>>
         /\ vk'[k].run = "dangling" =>
              \/ SyncCache(k) /\ vk'[k].cache = OwnPods(k)
              \/ WatchPods(k) /\ vk'[k].cache = OwnPods(k)
              \/ vk[k].run = "dangling" /\ vk'[k].cache = vk[k].cache /\ UNCHANGED fresh
         /\ DeleteDanglingPods(k) => vk'[k].run = "ready"
         /\ ~DeleteDanglingPods(k) => UNCHANGED job
         /\ fresh' \in [Kubelets -> SUBSET DOMAIN NodeOf]
         /\ \A o \in Kubelets \ {k} : fresh'[o] = fresh[o]
<1>t. /\ vk[k] \in Process /\ vk \in [Kubelets -> Process] /\ OwnPods(k) \in SUBSET DOMAIN NodeOf
      /\ fresh \in [Kubelets -> SUBSET DOMAIN NodeOf]
  BY DEF KubeletTypeOK, OwnPods
<1>f. /\ UNCHANGED fresh \/ fresh' = [fresh EXCEPT ![k] = {}]
      /\ UNCHANGED <<disk, broken, pods>> /\ (~DeleteDanglingPods(k) => UNCHANGED job)
  BY DEF OtherStep, ListenAndServe, StartInformers, NewResourceManager, NewNodeOrDie, SyncCache,
     WatchPods, DeleteDanglingPods, DanglingCancelFails, podVars, RunOnly
<1>g. /\ fresh' \in [Kubelets -> SUBSET DOMAIN NodeOf]
      /\ \A o \in Kubelets \ {k} : fresh'[o] = fresh[o]
  BY <1>t, <1>f
<1>1. ASSUME ListenAndServe(k) \/ StartInformers(k) PROVE Goal
  <2>1. PICK p \in Process :
          /\ vk' = [vk EXCEPT ![k] = p] /\ p.main = vk[k].main
          /\ p.run = vk[k].run /\ p.cache = vk[k].cache
    <3>1. CASE ListenAndServe(k)
      <4>1. vk' = [vk EXCEPT ![k] = [vk[k] EXCEPT !.server = "serving"]]
        BY <1>t, <3>1 DEF ListenAndServe
      <4>2. [vk[k] EXCEPT !.server = "serving"] \in Process
        BY <1>t DEF Process
      <4> QED
        BY <1>t, <4>1, <4>2 DEF Process
    <3>2. CASE StartInformers(k)
      <4> DEFINE i == IF vk[k].informer = "registered" THEN "running" ELSE vk[k].informer
                 q == [vk[k] EXCEPT !.starter = "done", !.informer = i]
      <4>1. vk' = [vk EXCEPT ![k] = q]
        BY <1>t, <3>2 DEF StartInformers
      <4>2. q \in Process /\ q.main = vk[k].main /\ q.run = vk[k].run /\ q.cache = vk[k].cache
        BY <1>t DEF Process
      <4> QED
        BY <4>1, <4>2
    <3> QED
      BY <1>1, <3>1, <3>2
  <2>2. UNCHANGED fresh
    BY <1>1 DEF ListenAndServe, StartInformers, podVars
  <2>3. ~DeleteDanglingPods(k) \/ vk'[k].run = "ready"
    <3> SUFFICES ASSUME DeleteDanglingPods(k) PROVE vk'[k].run = "ready"
      OBVIOUS
    <3> QED
      BY <1>t DEF DeleteDanglingPods, Process
  <2> QED
    BY <1>f, <1>g, <2>1, <2>2, <2>3, RunUpdate
<1>2. ASSUME NEW r \in {"registered", "sync", "dangling", "ready"}, NEW C \in SUBSET DOMAIN NodeOf,
             vk' = [vk EXCEPT ![k].run = r, ![k].cache = C]
      PROVE  OneProcess(k) /\ SameMain /\ vk'[k].run = r /\ vk'[k].cache = C
  <2> DEFINE q == [vk[k] EXCEPT !.run = r, !.cache = C]
  <2>1. vk' = [vk EXCEPT ![k] = q]
    BY <1>t, <1>2
  <2>2. q \in Process /\ q.main = vk[k].main /\ q.run = r /\ q.cache = C
    BY <1>t DEF Process
  <2> QED
    BY <2>1, <2>2, RunUpdate
<1>3. ASSUME NEW r \in {"registered", "sync"}, NEW i \in {"none", "registered", "running"},
             vk' = [vk EXCEPT ![k].run = r, ![k].informer = i]
      PROVE  OneProcess(k) /\ SameMain /\ vk'[k].run = r
  <2> DEFINE q == [vk[k] EXCEPT !.run = r, !.informer = i]
  <2>1. vk' = [vk EXCEPT ![k] = q]
    BY <1>t, <1>3
  <2>2. q \in Process /\ q.main = vk[k].main /\ q.run = r
    BY <1>t DEF Process
  <2> QED
    BY <2>1, <2>2, RunUpdate
<1>4. CASE NewResourceManager(k)
  BY <1>3, <1>4, <1>f, <1>g DEF NewResourceManager, DeleteDanglingPods
<1>5. CASE NewNodeOrDie(k)
  <2>1. vk' = [vk EXCEPT ![k].run = "sync", ![k].informer = vk[k].informer]
    BY <1>t, <1>5 DEF NewNodeOrDie, Process
  <2>2. vk[k].informer \in {"none", "registered", "running"}
    BY <1>t DEF Process
  <2> QED
    BY <1>3, <1>5, <1>f, <1>g, <2>1, <2>2 DEF NewNodeOrDie, DeleteDanglingPods
<1>6. CASE SyncCache(k)
  BY <1>2, <1>6, <1>f, <1>g, <1>t DEF SyncCache, DeleteDanglingPods
<1>7. CASE WatchPods(k)
  <2>1. vk' = [vk EXCEPT ![k].run = "dangling", ![k].cache = OwnPods(k)]
    BY <1>t, <1>7 DEF WatchPods, Process
  <2>2. ~DeleteDanglingPods(k)
    BY <1>2, <1>t, <2>1 DEF DeleteDanglingPods
  <2> QED
    BY <1>2, <1>7, <1>f, <1>g, <1>t, <2>1, <2>2
<1>8. CASE DeleteDanglingPods(k) \/ DanglingCancelFails(k)
  <2>1. vk' = [vk EXCEPT ![k].run = "ready", ![k].cache = {}]
    BY <1>8 DEF DeleteDanglingPods, DanglingCancelFails
  <2>0. {} \in SUBSET DOMAIN NodeOf
    OBVIOUS
  <2>2. OneProcess(k) /\ SameMain /\ vk'[k].run = "ready"
    BY <1>2, <2>0, <2>1
  <2> QED
    BY <1>f, <1>g, <2>2
<1> QED
  BY <1>1, <1>4, <1>5, <1>6, <1>7, <1>8 DEF OtherStep

(* The steps of a process, of pods and of the agent. *)
EndStep(k) == Exit(k) /\ UNCHANGED <<disk, pods, job>>

LEMMA StepCases ==
  ASSUME KubeletNext
  PROVE  \/ \E k \in Kubelets :
              \/ StartProcess(k) \/ CheckCerts(k) \/ WriteCert(k) \/ WriteKey(k)
              \/ OtherStep(k) \/ EndStep(k)
         \/ \E p \in DOMAIN NodeOf : SubmitPod(p) \/ BindWorker(p)
         \/ ChangeAgent
  BY DEF KubeletNext, MainStep, RunStep, OtherStep, EndStep, ListenFails, NewNodeDies, Crash

LEMMA StartSteps ==
  ASSUME KubeletTypeOK, NEW k \in Kubelets, StartProcess(k)
  PROVE  /\ OneProcess(k) /\ vk[k].main = "down" /\ vk'[k].main = "check" /\ vk'[k].run = "spawned"
         /\ UNCHANGED <<disk, broken, pods, job, fresh>>
  BY StartedType DEF StartProcess, Up, KubeletTypeOK, OneProcess, podVars

LEMMA EndSteps ==
  ASSUME KubeletTypeOK, NEW k \in Kubelets, EndStep(k)
  PROVE  /\ OneProcess(k) /\ vk'[k].main = "down" /\ vk'[k].run = "none"
         /\ UNCHANGED <<disk, pods, job>>
         /\ broken \subseteq broken' /\ (Generating(k) => broken' # {})
         /\ fresh' = [fresh EXCEPT ![k] = {}] /\ fresh' \in [Kubelets -> SUBSET DOMAIN NodeOf]
  BY ExitSteps, DownType DEF EndStep, Exit, KubeletTypeOK, OneProcess

LEMMA PodSteps ==
  ASSUME KubeletTypeOK, NEW p \in DOMAIN NodeOf, SubmitPod(p) \/ BindWorker(p)
  PROVE  /\ UNCHANGED <<vk, disk, broken>> /\ pods' \subseteq DOMAIN NodeOf
         /\ job' \in [DOMAIN job' -> {"none", "running", "cancelled"}]
         /\ \A s \in DOMAIN job : job'[s] = "cancelled" => job[s] = "cancelled"
         /\ fresh' \in [Kubelets -> SUBSET DOMAIN NodeOf]
<1>1. CASE SubmitPod(p)
  BY <1>1 DEF SubmitPod, RunOnly, KubeletTypeOK
<1>2. CASE BindWorker(p)
  <2>1. NodeOf[p] \in Kubelets
    BY KubeletAssumption
  <2> QED
    BY <1>2, <2>1 DEF BindWorker, RunOnly, KubeletTypeOK
<1> QED
  BY <1>1, <1>2

LEMMA KubeletTypeStep == KubeletTypeOK /\ [KubeletNext]_kubeletVars => KubeletTypeOK'
<1> SUFFICES ASSUME KubeletTypeOK, [KubeletNext]_kubeletVars PROVE KubeletTypeOK'
  OBVIOUS
<1>1. ASSUME NEW k \in Kubelets, StartProcess(k) PROVE KubeletTypeOK'
  BY <1>1, StartSteps DEF KubeletTypeOK, OneProcess
<1>2. ASSUME NEW k \in Kubelets, CheckCerts(k) \/ WriteCert(k) \/ WriteKey(k) PROVE KubeletTypeOK'
  BY <1>2, MainSteps DEF KubeletTypeOK, OneProcess, podVars
<1>3. ASSUME NEW k \in Kubelets, OtherStep(k) PROVE KubeletTypeOK'
  <2>1. job' \in [DOMAIN job' -> {"none", "running", "cancelled"}]
    <3>1. CASE DeleteDanglingPods(k)
      BY <3>1 DEF KubeletTypeOK, DeleteDanglingPods
    <3>2. CASE ~DeleteDanglingPods(k)
      BY <1>3, <3>2, OtherSteps DEF KubeletTypeOK
    <3> QED
      BY <3>1, <3>2
  <2> QED
    BY <1>3, <2>1, OtherSteps DEF KubeletTypeOK, OneProcess
<1>4. ASSUME NEW k \in Kubelets, EndStep(k) PROVE KubeletTypeOK'
  BY <1>4, EndSteps DEF KubeletTypeOK, OneProcess
<1>5. ASSUME NEW p \in DOMAIN NodeOf, SubmitPod(p) \/ BindWorker(p) PROVE KubeletTypeOK'
  BY <1>5, PodSteps DEF KubeletTypeOK
<1>6. CASE ChangeAgent \/ UNCHANGED kubeletVars
  BY <1>6 DEF ChangeAgent, KubeletTypeOK, podVars, kubeletVars
<1> QED
  BY <1>1, <1>2, <1>3, <1>4, <1>5, <1>6, StepCases

(* The variables of KubeletNode keep their shape: processes go through the
   stages of RunVirtualKubelet and vk.Run, files belong to a kubelet. *)
THEOREM KubeletTypesHold == KubeletSpec => []KubeletTypeOK
  BY KubeletTypeInit, KubeletTypeStep, PTL DEF KubeletSpec

-----------------------------------------------------------------------------
(* The TLS files. *)

\* The kubelets that use the certificate file of k.
Sharing(k) == {o \in Kubelets : Cert(o) = Cert(k)}

(* While nothing broke the pair of k, whoever found it missing still finds it
   missing, and whoever has written the certificate is alone with it. *)
CertInv(k) ==
  \A o \in Sharing(k) :
    vk[o].main = "cert" => disk[Cert(k)] = "none" /\ disk[Key(k)] = "none"
KeyInv(k) ==
  \A o \in Sharing(k) :
    vk[o].main = "key" =>
      /\ disk[Cert(k)] = o /\ disk[Key(k)] = "none"
      /\ \A q \in Sharing(k) \ {o} : ~Generating(q)
Idle(k) == \A o \in Sharing(k) : ~Generating(o)
PairInv(k) == CertInv(k) /\ KeyInv(k) /\ (Idle(k) => disk[Cert(k)] = disk[Key(k)])

PairsInv == broken = {} => \A k \in Kubelets : ~Mixed(k) => PairInv(k)

\* The files of an unmixed pair are written together or not at all.
LEMMA Unmixed ==
  ASSUME NEW k \in Kubelets, ~Mixed(k), NEW o \in Kubelets
  PROVE  /\ Cert(o) # Key(k) /\ Key(o) # Cert(k) /\ (Cert(o) = Cert(k) <=> Key(o) = Key(k))
         /\ Cert(k) # Key(k)
  BY DEF Mixed

LEMMA PairsInit == KubeletInit => PairsInv
<1> SUFFICES ASSUME KubeletInit, NEW k \in Kubelets PROVE PairInv(k)
  BY DEF PairsInv
<1>1. \A o \in Kubelets : vk[o].main = "down"
  BY DownType DEF KubeletInit
<1>2. disk[Cert(k)] = disk[Key(k)]
  BY PathsUsed DEF KubeletInit
<1> QED
  BY <1>1, <1>2 DEF PairInv, CertInv, KeyInv, Sharing

LEMMA PairsStep == KubeletTypeOK /\ PairsInv /\ [KubeletNext]_kubeletVars => PairsInv'
<1> SUFFICES ASSUME KubeletTypeOK, PairsInv, [KubeletNext]_kubeletVars, broken' = {},
                    NEW k \in Kubelets, ~Mixed(k)
             PROVE  PairInv(k)'
  BY DEF PairsInv, Mixed
<1>p. Cert(k) \in Paths /\ Key(k) \in Paths /\ Cert(k) # Key(k)
  BY PathsUsed, Unmixed
<1>i. broken \subseteq broken' => PairInv(k)
  BY DEF PairsInv
<1>s. Sharing(k)' = Sharing(k)
  BY DEF Sharing
<1> DEFINE SameWriters ==
             \A o \in Kubelets : vk'[o].main = vk[o].main \/ (~Generating(o) /\ ~Generating(o)')
<1>0. ASSUME PairInv(k), UNCHANGED disk, SameWriters PROVE PairInv(k)'
  <2>1. \A o \in Sharing(k) :
          (vk'[o].main = "cert" <=> vk[o].main = "cert") /\ (vk'[o].main = "key" <=> vk[o].main = "key")
    BY <1>0 DEF Sharing, Generating
  <2>0. /\ CertInv(k) /\ KeyInv(k) /\ (Idle(k) => disk[Cert(k)] = disk[Key(k)])
        /\ disk'[Cert(k)] = disk[Cert(k)] /\ disk'[Key(k)] = disk[Key(k)]
    BY <1>0 DEF PairInv
  <2>2. CertInv(k)'
    BY <1>s, <2>0, <2>1 DEF CertInv
  <2>3. KeyInv(k)'
    BY <1>s, <2>0, <2>1 DEF KeyInv, Generating
  <2>4. Idle(k)' => disk'[Cert(k)] = disk'[Key(k)]
    BY <1>s, <2>0, <2>1 DEF Idle, Generating
  <2> QED
    BY <2>2, <2>3, <2>4 DEF PairInv
<1>1. ASSUME NEW o \in Kubelets, StartProcess(o) PROVE PairInv(k)'
  BY <1>0, <1>1, <1>i, StartSteps DEF OneProcess, Generating
<1>2. ASSUME NEW o \in Kubelets, OtherStep(o) PROVE PairInv(k)'
  BY <1>0, <1>2, <1>i, OtherSteps DEF SameMain
<1>3. ASSUME NEW o \in Kubelets, EndStep(o) PROVE PairInv(k)'
  BY <1>0, <1>3, <1>i, EndSteps DEF OneProcess, Generating
<1>4. ASSUME NEW o \in Kubelets, CheckCerts(o) PROVE PairInv(k)'
  <2>1. /\ PairInv(k) /\ UNCHANGED disk /\ vk[o].main = "check" /\ OneProcess(o)
        /\ vk'[o].main = IF disk[Cert(o)] = "none" /\ disk[Key(o)] = "none" THEN "cert" ELSE "serve"
    BY <1>4, <1>i, MainSteps DEF CheckCerts, Step
  <2>2. CASE vk'[o].main # "cert"
    BY <1>0, <2>1, <2>2 DEF OneProcess, Generating
  <2>3. CASE vk'[o].main = "cert" /\ o \notin Sharing(k)
    <3>1. \A q \in Sharing(k) : vk'[q] = vk[q]
      BY <2>1, <2>3 DEF OneProcess, Sharing
    <3> QED
      BY <1>s, <2>1, <3>1 DEF PairInv, CertInv, KeyInv, Idle, Generating
  <2>4. CASE vk'[o].main = "cert" /\ o \in Sharing(k)
    <3>1. disk[Cert(k)] = "none" /\ disk[Key(k)] = "none"
      BY <2>1, <2>4, Unmixed DEF Sharing
    <3>2. \A q \in Sharing(k) : vk'[q].main # "key"
      BY <2>1, <2>4, <3>1, KubeletAssumption DEF PairInv, KeyInv, OneProcess, Sharing
    <3> QED
      BY <1>s, <2>1, <2>4, <3>1, <3>2 DEF PairInv, CertInv, KeyInv, Idle, Generating
  <2> QED
    BY <2>2, <2>3, <2>4
<1>5. ASSUME NEW o \in Kubelets, NEW path, Write(o, path, o), o \notin Sharing(k), path \in {Cert(o), Key(o)},
             PairInv(k), OneProcess(o)
      PROVE  PairInv(k)'
  <2>1. path # Cert(k) /\ path # Key(k)
    BY <1>5, Unmixed DEF Sharing
  <2>2. disk'[Cert(k)] = disk[Cert(k)] /\ disk'[Key(k)] = disk[Key(k)]
    BY <1>5, <1>p, <2>1 DEF Write, KubeletTypeOK
  <2>3. \A q \in Sharing(k) : vk'[q] = vk[q]
    BY <1>5 DEF OneProcess, Sharing
  <2> QED
    BY <1>s, <1>5, <2>2, <2>3 DEF PairInv, CertInv, KeyInv, Idle, Generating
\* A write that does not break the pair is made by the only writer.
<1>6. ASSUME NEW o \in Sharing(k), NEW path, Write(o, path, o), OneProcess(o)
      PROVE  \A q \in Sharing(k) \ {o} : ~Generating(q) /\ ~Generating(q)'
  BY <1>6 DEF Write, Raced, Sharing, OneProcess, Generating
<1>7. ASSUME NEW o \in Kubelets, WriteCert(o) PROVE PairInv(k)'
  <2>1. PairInv(k) /\ OneProcess(o) /\ vk[o].main = "cert" /\ vk'[o].main = "key" /\ Write(o, Cert(o), o)
    BY <1>7, <1>i, MainSteps DEF WriteCert, Step
  <2>2. CASE o \in Sharing(k)
    <3>1. disk[Key(k)] = "none" /\ Cert(o) = Cert(k)
      BY <2>1, <2>2 DEF PairInv, CertInv, Sharing
    <3>2. disk'[Cert(k)] = o /\ disk'[Key(k)] = "none"
      BY <1>p, <2>1, <3>1 DEF Write, KubeletTypeOK
    <3>3. \A q \in Sharing(k) \ {o} : ~Generating(q)'
      BY <1>6, <2>1, <2>2
    <3> QED
      BY <1>s, <2>1, <2>2, <3>2, <3>3 DEF PairInv, CertInv, KeyInv, Idle, Generating
  <2> QED
    BY <1>5, <2>1, <2>2
<1>8. ASSUME NEW o \in Kubelets, WriteKey(o) PROVE PairInv(k)'
  <2>1. PairInv(k) /\ OneProcess(o) /\ vk[o].main = "key" /\ vk'[o].main = "serve" /\ Write(o, Key(o), o)
    BY <1>8, <1>i, MainSteps DEF WriteKey, Step
  <2>2. CASE o \in Sharing(k)
    <3>1. disk[Cert(k)] = o /\ Key(o) = Key(k)
      BY <2>1, <2>2, Unmixed DEF PairInv, KeyInv, Sharing
    <3>2. disk'[Cert(k)] = o /\ disk'[Key(k)] = o
      BY <1>p, <2>1, <3>1 DEF Write, KubeletTypeOK
    <3>3. \A q \in Sharing(k) \ {o} : ~Generating(q)'
      BY <1>6, <2>1, <2>2
    <3> QED
      BY <1>s, <2>1, <2>2, <3>2, <3>3 DEF PairInv, CertInv, KeyInv, Idle, Generating
  <2> QED
    BY <1>5, <2>1, <2>2
<1>9. ASSUME UNCHANGED <<vk, disk, broken>> PROVE PairInv(k)'
  BY <1>0, <1>9, <1>i
<1> QED
  BY <1>1, <1>2, <1>3, <1>4, <1>7, <1>8, <1>9, StepCases, PodSteps DEF ChangeAgent, kubeletVars

(* TLS files that no kubelet can load need a process that ended, or two that
   met, while writing them, or a configuration that mixes two pairs
   (startVirtualKubelet and tryPrepareTlsCerts). *)
THEOREM BadPairCause == KubeletSpec => []BadPairNeedsCause
<1>1. KubeletTypeOK /\ PairsInv => BadPairNeedsCause
  <2> SUFFICES ASSUME PairsInv, broken = {}, NEW k \in Kubelets, ~Mixed(k),
                      \A o \in Kubelets : Generating(o) => Cert(o) # Cert(k),
                      {disk[Cert(k)], disk[Key(k)]} # {"none"}
               PROVE  Usable(Cert(k), Key(k))
    BY DEF BadPairNeedsCause
  <2>1. disk[Cert(k)] = disk[Key(k)]
    BY DEF PairsInv, PairInv, Idle, Sharing
  <2>2. Cert(k) # Key(k)
    BY Unmixed
  <2> QED
    BY <2>1, <2>2 DEF Usable
<1> QED
  BY <1>1, PairsInit, PairsStep, KubeletTypesHold, PTL DEF KubeletSpec

-----------------------------------------------------------------------------
(* Dangling pods. *)

(* A kubelet about to delete dangling pods misses only pods that were bound
   since it filled its cache. *)
CacheInv ==
  \A k \in Kubelets : vk[k].run = "dangling" => OwnPods(k) \subseteq vk[k].cache \cup fresh[k]

LEMMA CacheInit == KubeletInit => CacheInv
  BY DownType DEF KubeletInit, CacheInv

LEMMA CacheStep == KubeletTypeOK /\ CacheInv /\ [KubeletNext]_kubeletVars => CacheInv'
<1> SUFFICES ASSUME KubeletTypeOK, CacheInv, [KubeletNext]_kubeletVars, NEW k \in Kubelets,
                    vk'[k].run = "dangling"
             PROVE  OwnPods(k)' \subseteq vk'[k].cache \cup fresh'[k]
  BY DEF CacheInv
<1> DEFINE Goal == OwnPods(k)' \subseteq vk'[k].cache \cup fresh'[k]
<1>0. ASSUME UNCHANGED pods, vk'[k].run = vk[k].run, vk'[k].cache = vk[k].cache, fresh'[k] = fresh[k]
      PROVE  Goal
  BY <1>0 DEF CacheInv, OwnPods
<1>1. ASSUME NEW o \in Kubelets, StartProcess(o) PROVE Goal
  BY <1>0, <1>1, StartSteps DEF OneProcess
<1>2. ASSUME NEW o \in Kubelets, CheckCerts(o) \/ WriteCert(o) \/ WriteKey(o) PROVE Goal
  BY <1>0, <1>2, MainSteps DEF SameRun, podVars
<1>3. ASSUME NEW o \in Kubelets, OtherStep(o) PROVE Goal
  <2>1. CASE o # k
    BY <1>0, <1>3, <2>1, OtherSteps DEF OneProcess
  <2>2. CASE o = k
    <3>1. OwnPods(k)' = OwnPods(k)
      BY <1>3, OtherSteps DEF OwnPods
    <3> QED
      BY <1>3, <2>2, <3>1, OtherSteps DEF CacheInv
  <2> QED
    BY <2>1, <2>2
<1>4. ASSUME NEW o \in Kubelets, EndStep(o) PROVE Goal
  BY <1>0, <1>4, EndSteps DEF OneProcess, KubeletTypeOK
<1>5. ASSUME NEW p \in DOMAIN NodeOf, SubmitPod(p) PROVE Goal
  BY <1>0, <1>5 DEF SubmitPod
<1>6. ASSUME NEW p \in DOMAIN NodeOf, BindWorker(p) PROVE Goal
  <2>1. /\ UNCHANGED vk /\ pods' = pods \cup {p} /\ NodeOf[p] \in Kubelets
        /\ \A o \in Kubelets : fresh'[o] = IF o = NodeOf[p] /\ vk[o].run = "dangling"
                                           THEN fresh[o] \cup {p} ELSE fresh[o]
    BY <1>6, KubeletAssumption DEF BindWorker, KubeletTypeOK
  <2> QED
    BY <2>1 DEF CacheInv, OwnPods
<1>7. CASE ChangeAgent \/ UNCHANGED kubeletVars
  BY <1>0, <1>7 DEF ChangeAgent, podVars, kubeletVars
<1> QED
  BY <1>1, <1>2, <1>3, <1>4, <1>5, <1>6, <1>7, StepCases

(* What deleteDanglingPods cancels through GetPods, whose loop variable makes
   every entry the last pod of the list. *)
LEMMA CancelStep ==
  ASSUME KubeletTypeOK, CacheInv, [KubeletNext]_kubeletVars, NEW s \in DOMAIN job,
         job[s] = "running", job'[s] = "cancelled"
  PROVE  \E k \in Kubelets, v \in pods :
           /\ vk[k].run = "dangling" /\ vk'[k].run = "ready"
           /\ SizeCarOf[v] = s /\ \A q \in pods : Position(q) <= Position(v)
           /\ NodeOf[v] # k \/ v \in fresh[k]
<1>1. PICK k \in Kubelets : DeleteDanglingPods(k)
  <2>1. job' # job
    OBVIOUS
  <2> QED
    BY <2>1, StepCases, StartSteps, MainSteps, OtherSteps, EndSteps, PodSteps
    DEF podVars, ChangeAgent, kubeletVars
<1>2. vk[k].run = "dangling" /\ vk'[k].run = "ready"
  BY <1>1, OtherSteps DEF OtherStep, DeleteDanglingPods
<1>3. PICK v \in GetPods \ vk[k].cache : SizeCarOf[v] = s
  BY <1>1 DEF DeleteDanglingPods
<1>4. v \in pods /\ \A q \in pods : Position(q) <= Position(v)
  BY DEF GetPods
<1>5. NodeOf[v] # k \/ v \in fresh[k]
  BY <1>2, <1>3, <1>4 DEF CacheInv, OwnPods
<1> QED
  BY <1>2, <1>3, <1>4, <1>5

(* The start of a kubelet cancels no job of its own pods that its cache was
   filled with (deleteDanglingPods and GetPods). *)
THEOREM StartCancelsOthers == KubeletSpec => StartCancels
<1>1. KubeletTypeOK /\ CacheInv /\ [KubeletNext]_kubeletVars =>
        [\A s \in DOMAIN job :
           job[s] = "running" /\ job'[s] = "cancelled" =>
             \E k \in Kubelets, v \in pods :
               /\ vk[k].run = "dangling" /\ vk'[k].run = "ready"
               /\ SizeCarOf[v] = s /\ \A q \in pods : Position(q) <= Position(v)
               /\ NodeOf[v] # k \/ v \in fresh[k]]_kubeletVars
  BY CancelStep
<1> QED
  BY <1>1, CacheInit, CacheStep, KubeletTypesHold, PTL DEF KubeletSpec, StartCancels
=============================================================================
