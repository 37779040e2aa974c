------------------------------ MODULE Runtimes ------------------------------
(***************************************************************************)
(* The container runtime that NewContainerRuntime chooses                  *)
(* (internal/runtime/interface.go) under the manager's goroutines.  The    *)
(* two runtimes share the variables of what the goroutines have in common. *)
(***************************************************************************)
EXTENDS Integers, FiniteSets

CONSTANTS
  Ids, None,                                                    \* both
  Images, RunnerImage, Created, Tagged, Aged, MaxUnusedImages,  \* Docker
  Archs, NodeArchs                                              \* Kubernetes

VARIABLES
  kind,                                                  \* config.Runtime
  old, startPc, sweepPc, todo,
  keep, box, images, starting, unused, removed, failed,  \* Docker
  pod, deleting, claim, oldClaims, arch, checked, took, counted  \* Kubernetes

shared     == <<old, startPc, sweepPc, todo>>
docker     == <<keep, box, images, starting, unused, removed, failed>>
kubernetes == <<pod, deleting, claim, oldClaims, arch, checked, took, counted>>
vars       == <<kind, shared, docker, kubernetes>>

Docker     == INSTANCE DockerRuntime
Kubernetes == INSTANCE KubernetesRuntime

(* A host has finitely many images, each built at a time of its own.       *)
ASSUME RuntimesAssumption ==
  /\ None \notin Ids \cup Docker!Containers \cup Kubernetes!PodRecords
  /\ IsFiniteSet(Images)
  /\ RunnerImage \in Images /\ Tagged \subseteq Images /\ Aged \subseteq Images
  /\ Created \in [Images -> Nat]
  /\ \A i, j \in Images : Created[i] = Created[j] => i = j
  /\ MaxUnusedImages \in Nat
  /\ NodeArchs \subseteq Archs

(* An unknown type is Docker, too.  The other one keeps its first state.   *)
NewContainerRuntime ==
  /\ kind \in {"docker", "kubernetes"}
  /\ Docker!Init /\ Kubernetes!Init
  /\ kind = "kubernetes" => keep

OnDocker(step)     == kind = "docker" /\ step /\ UNCHANGED <<kind, kubernetes>>
OnKubernetes(step) == kind = "kubernetes" /\ step /\ UNCHANGED <<kind, docker>>

Next == OnDocker(Docker!Next) \/ OnKubernetes(Kubernetes!Next)

Spec == NewContainerRuntime /\ [][Next]_vars

(* The ticker goes on, calls return, a pod that is deleted ends, and an    *)
(* outage of the daemon or of the API server ends, too.                    *)
Failure == OnDocker(Docker!FailSweep) \/ OnKubernetes(Kubernetes!FailSweep)

Fairness ==
  /\ WF_vars(OnDocker(Docker!Sweep) \/ OnKubernetes(Kubernetes!Sweep) \/ Failure)
  /\ \A p \in Ids : WF_vars(OnKubernetes(Kubernetes!Vanish(p)))
  /\ <>[][~Failure]_vars

FairSpec == Spec /\ Fairness
------------------------------------------------------------------------------
TypeOK ==
  /\ kind = "docker" => Docker!TypeOK
  /\ kind = "kubernetes" => Kubernetes!TypeOK

ImagesInUseStay      == Docker!ImagesInUseStay
FewUnusedImagesLeft  == Docker!FewUnusedImagesLeft
YoungImagesGoLast    == Docker!YoungImagesGoLast
OldCleanupSparesWork == Kubernetes!OldCleanupSparesWork
ClaimsInUseStay      == Kubernetes!ClaimsInUseStay

(* A runner that nobody needs any more does not stay: a Docker runner that *)
(* is too old, a pod that has ended or is old and idle, although sweeps    *)
(* work on stale lists and others stop runners meanwhile.                  *)
Stale(c) ==
  IF kind = "docker" THEN c \in Docker!Runners \cap old
  ELSE c \in Kubernetes!In(Kubernetes!Ended) \cup (Kubernetes!In({"listening"}) \cap old)

StaleRunnersRemoved == \A c \in Ids : []<>~Stale(c)
=============================================================================
