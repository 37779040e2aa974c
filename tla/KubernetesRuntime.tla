-------------------------- MODULE KubernetesRuntime --------------------------
(***************************************************************************)
(* The Kubernetes runtime (internal/runtime/kubernetes.go) and the         *)
(* goroutines that use it, as in DockerRuntime: a scale-up, the cleanup    *)
(* ticker and those that stop a runner.  A step is one call of the API     *)
(* server, which is external and may fail any call: a pod ends thirty      *)
(* seconds after its deletion, and a claim that a scheduled pod uses is    *)
(* kept until that pod is gone.  The two cache claims of an architecture   *)
(* are one here, and cache volumes and claims are enabled.                 *)
(***************************************************************************)
EXTENDS FiniteSets

CONSTANTS
  Ids,        \* UIDs of pods
  None,       \* no pod
  Archs,      \* architectures that labels ask for
  NodeArchs   \* those that the cluster has nodes of

VARIABLES
  pod,        \* [Ids -> pods or None]
  deleting,   \* pods in their grace period
  old,        \* pods older than RunnerTimeout
  claim,      \* [Archs -> {"missing", "bound", "terminating"}], the cache claims
  oldClaims,  \* claims older than an hour
  startPc,    \* where the scale-up is
  arch,       \* requiredArch
  sweepPc,    \* where cleanupOldRunners is
  todo,       \* what is left of its list
  checked,    \* the pod whose logs it has read, or None
  took,       \* whether that pod has taken a job since then (history)
  counted     \* the pods that it saw when it looked for used claims (history)

pods   == <<pod, deleting, old>>
claims == <<claim, oldClaims>>
start  == <<startPc, arch>>
sweep  == <<sweepPc, todo, checked, took, counted>>
vars   == <<pod, deleting, old, claim, oldClaims, startPc, arch, sweepPc, todo,
            checked, took, counted>>

(* What the sweeps tell apart of a pod: its phase or, while it runs, what  *)
(* the last line of the runner's log says.  "exited" is a runner container *)
(* that has terminated next to its sidecar.                                *)
Running  == {"starting", "listening", "busy", "done", "exited"}
Statuses == Running \cup {"pending", "succeeded", "failed"}
Ended    == {"exited", "succeeded", "failed"}

PodRecords == [status : Statuses, arch : Archs]

Pods      == {p \in Ids : pod[p] # None}
In(set)   == {p \in Pods : pod[p].status \in set}
Fresh     == Ids \ (Pods \cup todo \cup counted \cup {checked})
Uses(p,a) == pod[p].arch = a

(* GetRunningRunners                                                       *)
GetRunningRunners == In(Statuses \ {"succeeded"})

Init ==
  /\ pod = [p \in Ids |-> None] /\ deleting = {} /\ old = {}
  /\ claim = [a \in Archs |-> "missing"] /\ oldClaims = {}
  /\ startPc = "idle" /\ arch = None
  /\ sweepPc = "idle" /\ todo = {} /\ checked = None /\ took = FALSE /\ counted = {}
------------------------------------------------------------------------------
(***************************************************************************)
(* The cluster and the runners                                             *)
(***************************************************************************)
(* A pod is scheduled when its architecture has nodes and its claim is     *)
(* there; it registers, listens, works and ends.                           *)
Moves(p) ==
  CASE pod[p].status = "pending" ->
         IF pod[p].arch \in NodeArchs /\ claim[pod[p].arch] = "bound"
         THEN {"starting", "failed"} ELSE {}
    [] pod[p].status = "starting"  -> {"listening", "exited", "failed"}
    [] pod[p].status = "listening" -> {"busy", "exited", "failed"}
    [] pod[p].status = "busy"      -> {"done", "failed"}
    [] pod[p].status = "done"      -> {"exited"}
    [] pod[p].status = "exited"    -> {"succeeded", "failed"}
    [] OTHER                       -> {}

(* A claim that was to go goes with the last scheduled pod that uses it.   *)
Scheduled(pods1, a) ==
  {p \in Ids : pods1[p] # None /\ pods1[p].arch = a /\ pods1[p].status \in Running}

Settle(claims1, pods1) ==
  [a \in Archs |-> IF claims1[a] = "terminating" /\ Scheduled(pods1, a) = {}
                   THEN "missing" ELSE claims1[a]]

MovePod(p) ==
  /\ p \in Pods \ deleting
  /\ \E s \in Moves(p) :
       /\ pod' = [pod EXCEPT ![p].status = s]
       /\ took' = (took \/ (p = checked /\ s = "busy"))
  /\ claim' = Settle(claim, pod')
  /\ UNCHANGED <<deleting, old, oldClaims, start, sweepPc, todo, checked, counted>>

Vanish(p) ==
  /\ p \in deleting
  /\ pod' = [pod EXCEPT ![p] = None]
  /\ deleting' = deleting \ {p} /\ old' = old \ {p}
  /\ claim' = Settle(claim, pod')
  /\ UNCHANGED <<oldClaims, start, sweep>>

GrowOld(p) ==
  /\ p \in Pods \ old
  /\ old' = old \cup {p}
  /\ UNCHANGED <<pod, deleting, claims, start, sweep>>

ClaimGrowsOld(a) ==
  /\ claim[a] # "missing" /\ a \notin oldClaims
  /\ oldClaims' = oldClaims \cup {a}
  /\ UNCHANGED <<pods, claim, start, sweep>>
------------------------------------------------------------------------------
(***************************************************************************)
(* StartRunnerWithLabelsForOwner                                           *)
(***************************************************************************)
DetectArchitecture(a) ==
  /\ startPc = "idle"
  /\ arch' = a
  /\ startPc' = "claims"
  /\ UNCHANGED <<pods, claims, sweep>>

(* A claim that is there is enough, also when it is being deleted; one     *)
(* that cannot be asked for or created is only a warning.                  *)
ensurePersistentVolumesForArchitecture ==
  /\ startPc = "claims"
  /\ \/ /\ claim[arch] = "missing"
        /\ claim' = [claim EXCEPT ![arch] = "bound"]
        /\ oldClaims' = oldClaims \ {arch}
     \/ UNCHANGED claims
  /\ startPc' = "create"
  /\ UNCHANGED <<pods, arch, sweep>>

CreatePod(p) ==
  /\ startPc = "create"
  /\ p \in Fresh
  /\ pod' = [pod EXCEPT ![p] = [status |-> "pending", arch |-> arch]]
  /\ startPc' = "idle"
  /\ UNCHANGED <<deleting, old, claims, arch, sweep>>

BreakCreate ==
  /\ startPc = "create"
  /\ startPc' = "idle"
  /\ UNCHANGED <<pods, claims, arch, sweep>>
------------------------------------------------------------------------------
(***************************************************************************)
(* cleanupOldRunners                                                       *)
(***************************************************************************)
(* StopRunner: a pod that is not found counts as stopped.                  *)
StopRunner(p) == deleting' = deleting \cup ({p} \cap Pods)

(* StopAllRunners, and the cleanup after a workflow: any listed runner.    *)
StopListed(p) ==
  /\ p \in GetRunningRunners \ deleting
  /\ StopRunner(p)
  /\ UNCHANGED <<pod, old, claims, start, sweep>>

Completed == In(Ended)

ListCompleted ==
  /\ sweepPc = "idle"
  /\ todo' = Completed
  /\ sweepPc' = "completed"
  /\ UNCHANGED <<pods, claims, start, checked, took, counted>>

CleanupCompletedRunner(p) ==
  /\ sweepPc = "completed" /\ p \in todo
  /\ todo' = todo \ {p}
  /\ StopRunner(p)
  /\ UNCHANGED <<pod, old, claims, start, sweepPc, checked, took, counted>>

EndCompleted ==
  /\ sweepPc = "completed" /\ todo = {}
  /\ sweepPc' = "list"
  /\ UNCHANGED <<pods, claims, start, todo, checked, took, counted>>

ListOldRunners ==
  /\ sweepPc = "list"
  /\ todo' = GetRunningRunners \cap old
  /\ sweepPc' = "old"
  /\ UNCHANGED <<pods, claims, start, checked, took, counted>>

(* Mutant: a runner that does not run a job is idle.                       *)
NotRunningJob(p) == p \in In(Running \ {"busy"})

(* The runner's container runs, and its last line is "Listening for Jobs"  *)
(* or says that a job has completed.  The pod is read before its logs;     *)
(* one that ends in between is taken for idle and deleted, as it is by the *)
(* next sweep in any case, so that both are read at once here.             *)
isRunnerIdle(p) == p \in In({"listening", "done"})

CheckRunner(p) ==
  /\ sweepPc = "old" /\ p \in todo /\ checked = None
  /\ todo' = todo \ {p}
  /\ took' = FALSE
  /\ checked' = IF isRunnerIdle(p) THEN p ELSE None
  /\ UNCHANGED <<pods, claims, start, sweepPc, counted>>

CleanupOldRunner ==
  /\ checked # None
  /\ checked' = None
  /\ took' = FALSE
  /\ StopRunner(checked)
  /\ UNCHANGED <<pod, old, claims, start, sweepPc, todo, counted>>

EndOldRunners ==
  /\ sweepPc = "old" /\ todo = {} /\ checked = None
  /\ sweepPc' = "claims"
  /\ UNCHANGED <<pods, claims, start, todo, checked, took, counted>>

(* cleanupUnusedPVCs, unless claims are disabled: all claims, then all     *)
(* pods, then the old claims that none of those pods uses are deleted.     *)
ListClaims ==
  /\ sweepPc = "claims"
  /\ todo' = {a \in Archs : claim[a] # "missing"}
  /\ sweepPc' = "pods"
  /\ UNCHANGED <<pods, claims, start, checked, took, counted>>

(* Mutant: only pods that run use their claims.                            *)
UnusedByRunning(all) ==
  {a \in all : \A p \in In(Running) : ~Uses(p, a)}

UnusedClaims(all) == {a \in all : \A p \in Pods : ~Uses(p, a)}

ListPods ==
  /\ sweepPc = "pods"
  /\ todo' = UnusedClaims(todo) \cap oldClaims
  /\ counted' = Pods
  /\ sweepPc' = "delete"
  /\ UNCHANGED <<pods, claims, start, checked, took>>

DeleteClaim(a) ==
  /\ sweepPc = "delete" /\ a \in todo
  /\ todo' = todo \ {a}
  /\ claim' = Settle([claim EXCEPT ![a] = IF @ = "missing" THEN @ ELSE "terminating"], pod)
  /\ UNCHANGED <<pods, oldClaims, start, sweepPc, checked, took, counted>>

(* A call fails: a list ends its part of the sweep, anything else is       *)
(* skipped, and a pod whose logs cannot be read counts as busy.            *)
FailSweep ==
  /\ \/ sweepPc = "idle" /\ sweepPc' = "list" /\ UNCHANGED <<todo, checked>>
     \/ sweepPc = "list" /\ sweepPc' = "claims" /\ UNCHANGED <<todo, checked>>
     \/ sweepPc \in {"claims", "pods"} /\ sweepPc' = "idle" /\ todo' = {} /\ UNCHANGED checked
     \/ checked # None /\ checked' = None /\ UNCHANGED <<sweepPc, todo>>
     \/ /\ checked = None /\ sweepPc \in {"completed", "old", "delete"}
        /\ \E x \in todo : todo' = todo \ {x}
        /\ UNCHANGED <<sweepPc, checked>>
  /\ UNCHANGED <<pods, claims, start, took, counted>>

EndClaims ==
  /\ sweepPc = "delete" /\ todo = {}
  /\ sweepPc' = "idle" /\ counted' = {}
  /\ UNCHANGED <<pods, claims, start, todo, checked, took>>
------------------------------------------------------------------------------
(* One pass of the ticker, calls that succeed.                             *)
Sweep ==
  \/ ListCompleted \/ EndCompleted \/ ListOldRunners \/ CleanupOldRunner \/ EndOldRunners
  \/ ListClaims \/ ListPods \/ EndClaims
  \/ \E p \in Ids : CleanupCompletedRunner(p) \/ CheckRunner(p)
  \/ \E a \in Archs : DeleteClaim(a)

Next ==
  \/ \E p \in Ids : MovePod(p) \/ Vanish(p) \/ GrowOld(p) \/ CreatePod(p) \/ StopListed(p)
  \/ \E a \in Archs : ClaimGrowsOld(a) \/ DetectArchitecture(a)
  \/ ensurePersistentVolumesForArchitecture \/ BreakCreate
  \/ Sweep \/ FailSweep
------------------------------------------------------------------------------
TypeOK ==
  /\ pod \in [Ids -> PodRecords \cup {None}]
  /\ deleting \cup old \subseteq Pods
  /\ claim \in [Archs -> {"missing", "bound", "terminating"}] /\ oldClaims \subseteq Archs
  /\ \A a \in Archs : claim[a] = "terminating" => Scheduled(pod, a) # {}
  /\ startPc \in {"idle", "claims", "create"} /\ arch \in Archs \cup {None}
  /\ sweepPc \in {"idle", "completed", "list", "old", "claims", "pods", "delete"}
  /\ todo \subseteq Ids \cup Archs
  /\ checked \in Ids \cup {None} /\ checked # None => sweepPc = "old"
  /\ took \in BOOLEAN /\ counted \subseteq Ids

(* The cleanup of old runners deletes a pod that works only when it took   *)
(* its job after its logs were read, and never one that still starts up.   *)
OldCleanupSparesWork ==
  [][\A p \in deleting' \ deleting : p = checked /\ checked' = None =>
       p \in In({"listening", "done"} \cup Ended) \/ took]_vars

(* The cleanup deletes the claim of an architecture only when every pod    *)
(* that uses it was created after the pods were listed: no pod that was    *)
(* already waiting for its claim, and no older one, loses it.              *)
ClaimsInUseStay ==
  [][\A a \in Archs : claim[a] = "bound" /\ claim'[a] # "bound" =>
       \A p \in counted \cap Pods : ~Uses(p, a)]_vars
==============================================================================
