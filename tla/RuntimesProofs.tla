---------------------------- MODULE RuntimesProofs ----------------------------
(***************************************************************************)
(* Proofs about Runtimes, for all containers, images and pods, every limit *)
(* of unused images and all architectures.                                 *)
(***************************************************************************)
EXTENDS Runtimes, FiniteSetTheorems, WellFoundedInduction, TLAPS

(***************************************************************************)
(* Docker.  CleanupImages removes images between "finals" and "excess".    *)
(***************************************************************************)
Removing == {"finals", "intermediates", "excess"}

(* The lists of a sweep are empty until it makes them.                     *)
ListsInOrder ==
  /\ sweepPc \notin Removing \cup {"stop"} => todo = {}
  /\ sweepPc \in {"idle", "list", "stop", "images"} => unused = {}
  /\ sweepPc \notin Removing => removed = {} /\ failed = {}
  /\ sweepPc = "stop" => todo \subseteq Ids
  /\ sweepPc \in Removing => todo \subseteq unused

(* A container that is starting is neither old nor on a list of old ones.  *)
StartInOrder ==
  /\ startPc # "start" => starting = None
  /\ startPc = "start" => starting \in Ids \ old
  /\ sweepPc = "stop" => starting \notin todo

DockerTypeInv == Docker!TypeOK /\ ListsInOrder /\ StartInOrder

(* Before the excess is counted, only images that are too old are listed.  *)
AgedInv == sweepPc \in {"finals", "intermediates"} => todo \subseteq Aged

Tried == removed \cup failed

(* The excess is the oldest final images; those listed and those tried are *)
(* enough of them.                                                         *)
ExcessInv ==
  sweepPc = "excess" =>
    /\ todo # {} => Cardinality(unused) > MaxUnusedImages
    /\ todo \subseteq Docker!Finals
    /\ \A i \in todo, j \in Docker!Finals : Created[j] < Created[i] => j \in todo \cup Tried
    /\ Cardinality(Docker!Finals \ (todo \cup Tried)) <= MaxUnusedImages

DockerInv == DockerTypeInv /\ AgedInv /\ ExcessInv
------------------------------------------------------------------------------
(***************************************************************************)
(* Kubernetes                                                              *)
(***************************************************************************)
PodLists   == {"completed", "old"}
ClaimLists == {"pods", "delete"}

(* The lists of a sweep hold pods or claims, and a scale-up that has       *)
(* looked at the labels knows its architecture.                            *)
PodsInOrder ==
  /\ sweepPc \notin PodLists \cup ClaimLists => todo = {}
  /\ sweepPc \in PodLists => todo \subseteq Ids
  /\ sweepPc \in ClaimLists => todo \subseteq Archs
  /\ startPc # "idle" => arch \in Archs

KubernetesTypeInv == Kubernetes!TypeOK /\ PodsInOrder

(* A pod whose logs said that it was idle has not started to work since,   *)
(* or has taken its job.                                                   *)
CheckedInv ==
  checked \in Kubernetes!In(Kubernetes!Statuses \ ({"listening", "done"} \cup Kubernetes!Ended))
    => took

(* No pod that was counted uses a claim that is to be deleted.             *)
ClaimsInv ==
  sweepPc = "delete" =>
    \A a \in todo, p \in counted \cap Kubernetes!Pods : ~Kubernetes!Uses(p, a)

KubernetesInv == KubernetesTypeInv /\ CheckedInv /\ ClaimsInv
------------------------------------------------------------------------------
RuntimesInv ==
  /\ kind \in {"docker", "kubernetes"}
  /\ kind = "docker" => DockerInv
  /\ kind = "kubernetes" => KubernetesInv
  /\ ImagesInUseStay
------------------------------------------------------------------------------
(* The instance counts as this module does.                                *)
LEMMA DockerCardinality == \A S : Docker!Cardinality(S) = Cardinality(S)
  BY DEF Docker!Cardinality, Cardinality

(* A nonempty set of natural numbers has a least one.                      *)
LEMMA LeastNat ==
  ASSUME NEW T, T \subseteq Nat, T # {}
  PROVE  \E m \in T : \A n \in T : m <= n
<1>1. PICK m \in T : \A n \in T : ~(<<n, m>> \in OpToRel(<, Nat))
  BY NatLessThanWellFounded, WFMin
<1>2. \A n \in T : ~(n < m)
  BY <1>1 DEF OpToRel
<1> QED
  BY <1>2

(* At least n of the final images, if there are so many, are its n oldest: *)
(* the oldest one that is not among them has n older ones, which are.      *)
LEMMA OldestEnough ==
  ASSUME unused \subseteq Images, NEW n \in Nat,
         n <= Cardinality(Docker!Finals)
  PROVE  Cardinality(Docker!Finals \ Docker!OldestFinals(n)) <= Cardinality(Docker!Finals) - n
<1> DEFINE Older(i)  == {j \in Docker!Finals : Created[j] < Created[i]}
           Oldest    == Docker!OldestFinals(n)
           Others    == Docker!Finals \ Oldest
<1>1. /\ IsFiniteSet(Docker!Finals) /\ Cardinality(Docker!Finals) \in Nat
      /\ Docker!Finals \subseteq Images
  BY RuntimesAssumption, FS_Subset, FS_CardinalityType DEF Docker!Finals
<1>2. Oldest \subseteq Docker!Finals /\ IsFiniteSet(Oldest) /\ Cardinality(Oldest) \in Nat
  BY <1>1, FS_Subset, FS_CardinalityType DEF Docker!OldestFinals
<1>3. CASE Others = {}
  <2>1. Cardinality(Others) = 0
    BY <1>3, FS_EmptySet, Zenon
  <2> QED
    BY <1>1, <2>1
<1>4. CASE Others # {}
  <2>1. {Created[i] : i \in Others} \subseteq Nat /\ {Created[i] : i \in Others} # {}
    BY <1>1, <1>4, RuntimesAssumption
  <2>2. PICK c \in {Created[i] : i \in Others} : \A d \in {Created[i] : i \in Others} : c <= d
    BY <2>1, LeastNat
  <2>3. PICK m \in Others : Created[m] = c
    BY <2>2
  <2>4. \A i \in Others : Created[m] <= Created[i]
    BY <2>2, <2>3
  <2>5. \A i, j \in Docker!Finals : Created[i] \in Nat /\ Created[j] \in Nat
    BY <1>1, RuntimesAssumption
  <2>6. Older(m) \subseteq Oldest
    BY <2>4, <2>5
  <2>7. IsFiniteSet(Older(m)) /\ Cardinality(Older(m)) \in Nat
    BY <1>1, FS_Subset, FS_CardinalityType
  <2>8. Cardinality(Older(m)) >= n
    <3>1. ~(Docker!Cardinality(Older(m)) < n)
      BY <2>3 DEF Docker!OldestFinals
    <3> QED
      BY <2>7, <3>1, DockerCardinality
  <2>9. Cardinality(Older(m)) <= Cardinality(Oldest)
    BY <1>2, <2>6, FS_Subset
  <2>10. Docker!Finals \cap Oldest = Oldest
    BY <1>2
  <2>11. Cardinality(Others) = Cardinality(Docker!Finals) - Cardinality(Oldest)
    BY <1>1, <2>10, FS_Difference
  <2> HIDE DEF Older, Oldest, Others
  <2>12. Cardinality(Others) <= Cardinality(Docker!Finals) - n
    BY <1>1, <1>2, <2>7, <2>8, <2>9, <2>11
  <2> QED
    BY <2>12 DEF Others, Oldest
<1> QED
  BY <1>3, <1>4
------------------------------------------------------------------------------
(* Steps of the Docker host, and of a scale-up.                            *)
LEMMA DockerHostSteps ==
  ASSUME DockerTypeInv, ImagesInUseStay,
         \/ \E c \in Ids : \/ Docker!GrowOld(c) \/ Docker!ExitContainer(c) \/ Docker!AutoRemove(c)
                           \/ Docker!StopListed(c) \/ Docker!ContainerCreate(c)
         \/ \E c \in Ids, i \in Images : Docker!RunOther(c, i)
         \/ \E i \in Images : Docker!BuildImage(i)
         \/ Docker!ensureImage \/ Docker!BreakCreate
         \/ Docker!ContainerStart \/ Docker!BreakStart
  PROVE  DockerTypeInv' /\ ImagesInUseStay'
<1> USE RuntimesAssumption DEF DockerTypeInv, Docker!TypeOK, ListsInOrder, StartInOrder,
        Removing, ImagesInUseStay, Docker!ImagesInUseStay, Docker!Used, Docker!Exists,
        Docker!sweep
<1>1. ASSUME NEW c \in Ids, Docker!GrowOld(c)
      PROVE  DockerTypeInv' /\ ImagesInUseStay'
  BY <1>1 DEF Docker!GrowOld, Docker!Runners, Docker!start
<1>2. ASSUME NEW c \in Ids, Docker!ExitContainer(c)
      PROVE  DockerTypeInv' /\ ImagesInUseStay'
  <2>1. box' = [box EXCEPT ![c].state = "exited"] /\ box[c] \in Docker!Containers
    BY <1>2 DEF Docker!ExitContainer
  <2>2. box'[c] \in Docker!Containers /\ box'[c].image = box[c].image
    BY <2>1 DEF Docker!Containers
  <2>3. starting # c
    BY <1>2 DEF Docker!ExitContainer
  <2> QED
    BY <1>2, <2>1, <2>2, <2>3 DEF Docker!ExitContainer, Docker!start
<1>3. ASSUME NEW c \in Ids, Docker!AutoRemove(c)
      PROVE  DockerTypeInv' /\ ImagesInUseStay'
  BY <1>3 DEF Docker!AutoRemove, Docker!Remove, Docker!start
<1>4. ASSUME NEW c \in Ids, Docker!StopListed(c)
      PROVE  DockerTypeInv' /\ ImagesInUseStay'
  BY <1>4 DEF Docker!StopListed, Docker!StopRunner, Docker!Remove, Docker!Runners, Docker!start
<1>5. ASSUME NEW c \in Ids, Docker!ContainerCreate(c)
      PROVE  DockerTypeInv' /\ ImagesInUseStay'
  <2> DEFINE new == [image |-> RunnerImage, state |-> "created", runner |-> TRUE]
  <2>1. RunnerImage \in Images
    OBVIOUS
  <2>2. new \in Docker!Containers
    BY <2>1 DEF Docker!Containers
  <2>3. box' = [box EXCEPT ![c] = new] /\ c \notin Docker!Exists \cup todo
    BY <1>5 DEF Docker!ContainerCreate, Docker!Fresh
  <2>4. new.image = RunnerImage /\ new.state = "created"
    OBVIOUS
  <2> HIDE DEF new
  <2>5. new # None
    BY <2>2
  <2>6. box'[c] = new /\ \A d \in Ids \ {c} : box'[d] = box[d]
    BY <2>3
  <2>7. DockerTypeInv'
    <3>1. starting' = c /\ startPc' = "start" /\ UNCHANGED <<keep, old, images, Docker!sweep>>
      BY <1>5 DEF Docker!ContainerCreate
    <3>2. box' \in [Ids -> Docker!Containers \cup {None}]
      BY <2>2, <2>3
    <3>3. c \notin old /\ old \subseteq Docker!Exists'
      BY <2>3, <2>5, <2>6, <3>1
    <3>4. box'[starting'] # None /\ box'[starting'].state = "created"
      BY <2>4, <2>5, <2>6, <3>1
    <3>5. StartInOrder' /\ ListsInOrder'
      BY <2>3, <3>1, <3>3
    <3> QED
      BY <3>1, <3>2, <3>3, <3>4, <3>5
  <2>8. ImagesInUseStay'
    BY <1>5, <2>2, <2>3, <2>4, <2>5, <2>6 DEF Docker!ContainerCreate
  <2> QED
    BY <2>7, <2>8
<1>6. ASSUME NEW c \in Ids, NEW i \in Images, Docker!RunOther(c, i)
      PROVE  DockerTypeInv' /\ ImagesInUseStay'
  BY <1>6 DEF Docker!RunOther, Docker!Fresh, Docker!Containers, Docker!start
<1>7. ASSUME NEW i \in Images, Docker!BuildImage(i)
      PROVE  DockerTypeInv' /\ ImagesInUseStay'
  BY <1>7 DEF Docker!BuildImage, Docker!start
<1>8. CASE Docker!ensureImage \/ Docker!BreakCreate
  BY <1>8 DEF Docker!ensureImage, Docker!BreakCreate
<1>9. CASE Docker!ContainerStart
  <2>1. box' = [box EXCEPT ![starting].state = "running"] /\ box[starting] \in Docker!Containers
    BY <1>9 DEF Docker!ContainerStart
  <2>2. box'[starting] \in Docker!Containers /\ box'[starting].image = box[starting].image
    BY <2>1 DEF Docker!Containers
  <2> QED
    BY <1>9, <2>1, <2>2 DEF Docker!ContainerStart, Docker!EndStart
<1>10. CASE Docker!BreakStart
  BY <1>10 DEF Docker!BreakStart, Docker!EndStart, Docker!Remove
<1> QED
  BY <1>1, <1>2, <1>3, <1>4, <1>5, <1>6, <1>7, <1>8, <1>9, <1>10

(* Steps of the ticker.                                                    *)
LEMMA DockerSweepSteps ==
  ASSUME DockerTypeInv, ImagesInUseStay, Docker!Sweep \/ Docker!FailSweep
  PROVE  DockerTypeInv' /\ ImagesInUseStay'
<1> USE RuntimesAssumption DEF DockerTypeInv, Docker!TypeOK, ListsInOrder, StartInOrder,
        Removing, ImagesInUseStay, Docker!ImagesInUseStay, Docker!Used, Docker!Exists,
        Docker!start, Docker!SweepOn
<1>1. CASE Docker!CleanupCompletedRunners \/ Docker!EndOldRunners \/ Docker!SkipImages
  BY <1>1 DEF Docker!CleanupCompletedRunners, Docker!EndOldRunners, Docker!SkipImages
<1>2. CASE Docker!ListOldRunners
  BY <1>2 DEF Docker!ListOldRunners, Docker!Runners
<1>3. ASSUME NEW c \in Ids, Docker!CleanupOldRunner(c)
      PROVE  DockerTypeInv' /\ ImagesInUseStay'
  BY <1>3 DEF Docker!CleanupOldRunner, Docker!StopRunner, Docker!Remove
<1>4. CASE Docker!FailSweep
  BY <1>4 DEF Docker!FailSweep
<1>5. CASE Docker!ImageList
  BY <1>5 DEF Docker!ImageList
<1>6. CASE Docker!ContainerList
  BY <1>6 DEF Docker!ContainerList
<1>7. ASSUME NEW i \in Images, Docker!RemoveAged(i) \/ Docker!RemoveExcess(i)
      PROVE  DockerTypeInv' /\ ImagesInUseStay'
  BY <1>7 DEF Docker!RemoveAged, Docker!RemoveExcess, Docker!removeImage
<1>8. CASE Docker!EndFinals
  BY <1>8 DEF Docker!EndFinals
<1>9. CASE Docker!EndIntermediates
  BY <1>9 DEF Docker!EndIntermediates, Docker!OldestFinals, Docker!Finals
<1>10. CASE Docker!EndImages
  BY <1>10 DEF Docker!EndImages
<1> QED
  BY <1>1, <1>2, <1>3, <1>4, <1>5, <1>6, <1>7, <1>8, <1>9, <1>10 DEF Docker!Sweep
------------------------------------------------------------------------------
(* When more images are unused than may be, the excess is at least what    *)
(* exceeds the limit among the final ones.                                 *)
LEMMA ExcessEnough ==
  ASSUME unused \subseteq Images, Cardinality(unused) > MaxUnusedImages
  PROVE  /\ Docker!ExcessFinalImages \in Int
         /\ Docker!ExcessFinalImages >= Cardinality(Docker!Finals) - MaxUnusedImages
<1>1. IsFiniteSet(unused) /\ Cardinality(unused) \in Nat /\ MaxUnusedImages \in Nat
  BY RuntimesAssumption, FS_Subset, FS_CardinalityType
<1>2. /\ IsFiniteSet(Docker!Finals) /\ Cardinality(Docker!Finals) \in Nat
      /\ IsFiniteSet(unused \ Tagged) /\ Cardinality(unused \ Tagged) \in Nat
  BY <1>1, FS_Subset, FS_CardinalityType DEF Docker!Finals
<1>3. Cardinality(unused \ Tagged) = Cardinality(unused) - Cardinality(Docker!Finals)
  BY <1>1, FS_Difference DEF Docker!Finals
<1>4. Docker!ExcessFinalImages =
        IF Cardinality(unused) - MaxUnusedImages > 0 /\ ~keep
        THEN Cardinality(Docker!Finals) - MaxUnusedImages
        ELSE Cardinality(unused) - MaxUnusedImages
  BY <1>1, <1>2, <1>3, DockerCardinality DEF Docker!ExcessFinalImages
<1> QED
  BY <1>1, <1>2, <1>3, <1>4

(* So few final images are left when all in excess are gone.               *)
LEMMA FewLeft ==
  ASSUME unused \subseteq Images
  PROVE  LET excess == Docker!OldestFinals(Docker!ExcessFinalImages)
         IN  Cardinality(unused) > MaxUnusedImages =>
               Cardinality(Docker!Finals \ excess) <= MaxUnusedImages
<1> DEFINE n == Cardinality(Docker!Finals) - MaxUnusedImages
<1> SUFFICES ASSUME Cardinality(unused) > MaxUnusedImages
             PROVE  Cardinality(Docker!Finals \ Docker!OldestFinals(Docker!ExcessFinalImages))
                      <= MaxUnusedImages
  OBVIOUS
<1>1. /\ IsFiniteSet(Docker!Finals) /\ Cardinality(Docker!Finals) \in Nat
      /\ Docker!Finals \subseteq Images /\ MaxUnusedImages \in Nat
  BY RuntimesAssumption, FS_Subset, FS_CardinalityType DEF Docker!Finals
<1>2. \A T \in SUBSET Docker!Finals :
        IsFiniteSet(T) /\ Cardinality(T) \in Nat /\ Cardinality(T) <= Cardinality(Docker!Finals)
  BY <1>1, FS_Subset, FS_CardinalityType
<1>3. CASE Cardinality(Docker!Finals) <= MaxUnusedImages
  BY <1>1, <1>2, <1>3
<1>4. CASE Cardinality(Docker!Finals) > MaxUnusedImages
  <2>1. n \in Nat /\ n <= Cardinality(Docker!Finals)
    BY <1>1, <1>4
  <2>2. Cardinality(Docker!Finals \ Docker!OldestFinals(n)) <= MaxUnusedImages
    <3>1. Cardinality(Docker!Finals) - n = MaxUnusedImages
      BY <1>1
    <3> HIDE DEF n
    <3>2. Cardinality(Docker!Finals \ Docker!OldestFinals(n)) <= Cardinality(Docker!Finals) - n
      BY <2>1, OldestEnough
    <3> QED
      BY <3>1, <3>2
  <2>3. Docker!OldestFinals(n) \subseteq Docker!OldestFinals(Docker!ExcessFinalImages)
    <3>1. \A i \in Docker!Finals :
            Docker!Cardinality({j \in Docker!Finals : Created[j] < Created[i]}) \in Nat
      BY <1>2, DockerCardinality
    <3>2. n \in Int /\ Docker!ExcessFinalImages \in Int /\ Docker!ExcessFinalImages >= n
      BY <2>1, ExcessEnough
    <3> HIDE DEF n
    <3> QED
      BY <3>1, <3>2 DEF Docker!OldestFinals
  <2>4. Docker!Finals \ Docker!OldestFinals(n) \in SUBSET Docker!Finals
    OBVIOUS
  <2>5. /\ Docker!Finals \ Docker!OldestFinals(Docker!ExcessFinalImages)
             \in SUBSET (Docker!Finals \ Docker!OldestFinals(n))
        /\ IsFiniteSet(Docker!Finals \ Docker!OldestFinals(n))
    BY <1>2, <2>3, <2>4
  <2>6. Cardinality(Docker!Finals \ Docker!OldestFinals(Docker!ExcessFinalImages))
          <= Cardinality(Docker!Finals \ Docker!OldestFinals(n))
    BY <2>5, FS_Subset
  <2> QED
    BY <1>1, <1>2, <2>2, <2>5, <2>6
<1> QED
  BY <1>1, <1>3, <1>4

(* With an image all older final ones are among the oldest n.              *)
LEMMA OldestClosed ==
  ASSUME unused \subseteq Images, NEW n \in Int,
         NEW i \in Docker!OldestFinals(n), NEW j \in Docker!Finals, Created[j] < Created[i]
  PROVE  j \in Docker!OldestFinals(n)
<1> DEFINE Older(k) == {l \in Docker!Finals : Created[l] < Created[k]}
<1>1. IsFiniteSet(Docker!Finals) /\ Docker!Finals \subseteq Images
  BY RuntimesAssumption, FS_Subset DEF Docker!Finals
<1>2. i \in Docker!Finals /\ Docker!Cardinality(Older(i)) < n
  BY DEF Docker!OldestFinals
<1>3. \A l \in Docker!Finals : Created[l] \in Nat
  BY <1>1, RuntimesAssumption
<1>4. Older(j) \in SUBSET Older(i)
  BY <1>2, <1>3
<1>5. /\ IsFiniteSet(Older(i)) /\ Cardinality(Older(i)) \in Nat
      /\ IsFiniteSet(Older(j)) /\ Cardinality(Older(j)) \in Nat
  BY <1>1, FS_Subset, FS_CardinalityType
<1>6. Cardinality(Older(j)) <= Cardinality(Older(i))
  BY <1>4, <1>5, FS_Subset
<1> HIDE DEF Older
<1>7. Docker!Cardinality(Older(j)) < n
  BY <1>2, <1>5, <1>6, DockerCardinality
<1> QED
  BY <1>7 DEF Older, Docker!OldestFinals
------------------------------------------------------------------------------
(* What the sweep keeps in mind survives every step.                       *)
LEMMA DockerCleanup ==
  ASSUME DockerInv, Docker!Next
  PROVE  AgedInv' /\ ExcessInv'
<1> USE DEF AgedInv, ExcessInv, Tried, Docker!Finals
<1>1. CASE UNCHANGED Docker!sweep
  BY <1>1 DEF DockerInv, Docker!sweep
<1>2. CASE sweepPc' \notin Removing
  BY <1>2 DEF Removing
<1>3. CASE Docker!ContainerList
  BY <1>3 DEF Docker!ContainerList, Docker!SweepOn
<1>4. ASSUME NEW i \in Images, Docker!RemoveAged(i)
      PROVE  AgedInv' /\ ExcessInv'
  BY <1>4 DEF DockerInv, Docker!RemoveAged, Docker!removeImage
<1>5. CASE Docker!EndFinals
  BY <1>5 DEF Docker!EndFinals, Docker!SweepOn
<1>6. CASE Docker!EndIntermediates
  <2>1. unused \subseteq Images /\ UNCHANGED <<unused, removed, failed>>
    BY <1>6 DEF DockerInv, DockerTypeInv, Docker!TypeOK, Docker!EndIntermediates
  <2> DEFINE excess == Docker!OldestFinals(Docker!ExcessFinalImages)
  <2>2. todo' = IF Cardinality(unused) > MaxUnusedImages THEN excess ELSE {}
    BY <1>6, DockerCardinality DEF Docker!EndIntermediates
  <2>3. excess \subseteq unused \cap Tagged
    BY DEF Docker!OldestFinals
  <2>4. ASSUME NEW i \in todo', NEW j \in Docker!Finals, Created[j] < Created[i]
        PROVE  j \in todo'
    BY <2>1, <2>2, <2>4, ExcessEnough, OldestClosed DEF Docker!Finals
  <2>5. Cardinality(Docker!Finals \ (todo' \cup Tried)) <= MaxUnusedImages
    <3>1. IsFiniteSet(unused) /\ Cardinality(unused) \in Nat /\ MaxUnusedImages \in Nat
      BY <2>1, RuntimesAssumption, FS_Subset, FS_CardinalityType
    <3>2. \A S, T : IsFiniteSet(S) /\ T \subseteq S =>
             /\ IsFiniteSet(T) /\ Cardinality(T) \in Nat
             /\ Cardinality(S) \in Nat /\ Cardinality(T) <= Cardinality(S)
      BY FS_Subset, FS_CardinalityType
    <3>3. CASE Cardinality(unused) > MaxUnusedImages
      <4>1. /\ Docker!Finals \ (todo' \cup Tried) \subseteq Docker!Finals \ excess
            /\ Docker!Finals \ excess \subseteq unused
        BY <2>2, <3>3
      <4>2. Cardinality(Docker!Finals \ excess) <= MaxUnusedImages
        BY <2>1, <3>3, FewLeft
      <4> HIDE DEF excess
      <4> QED
        BY <3>1, <3>2, <4>1, <4>2
    <3>4. CASE ~(Cardinality(unused) > MaxUnusedImages)
      <4>1. Docker!Finals \ (todo' \cup Tried) \subseteq unused
        OBVIOUS
      <4> QED
        BY <3>1, <3>2, <3>4, <4>1
    <3> QED
      BY <3>3, <3>4
  <2> HIDE DEF excess
  <2>6. sweepPc' = "excess"
    BY <1>6 DEF Docker!EndIntermediates, Docker!SweepOn
  <2> QED
    BY <2>1, <2>2, <2>3, <2>4, <2>5, <2>6
<1>7. ASSUME NEW i \in Images, Docker!RemoveExcess(i)
      PROVE  AgedInv' /\ ExcessInv'
  BY <1>7 DEF DockerInv, Docker!RemoveExcess, Docker!removeImage
<1>8. CASE Docker!CleanupCompletedRunners \/ Docker!ListOldRunners \/ Docker!EndOldRunners
           \/ Docker!SkipImages \/ Docker!ImageList \/ Docker!EndImages \/ Docker!FailSweep
           \/ \E c \in Ids : Docker!CleanupOldRunner(c)
  <2>1. sweepPc' \notin Removing
    BY <1>8 DEF Docker!CleanupCompletedRunners, Docker!ListOldRunners, Docker!EndOldRunners,
       Docker!SkipImages, Docker!ImageList, Docker!EndImages, Docker!FailSweep,
       Docker!CleanupOldRunner, Docker!SweepOn, Removing
  <2> QED
    BY <1>2, <2>1
<1>9. CASE \/ \E c \in Ids : \/ Docker!GrowOld(c) \/ Docker!ExitContainer(c)
                             \/ Docker!AutoRemove(c) \/ Docker!ContainerCreate(c)
                             \/ Docker!StopListed(c)
           \/ \E c \in Ids, i \in Images : Docker!RunOther(c, i)
           \/ \E i \in Images : Docker!BuildImage(i)
           \/ Docker!ensureImage \/ Docker!BreakCreate
           \/ Docker!ContainerStart \/ Docker!BreakStart
  <2>1. UNCHANGED Docker!sweep
    BY <1>9 DEF Docker!ensureImage, Docker!BreakCreate, Docker!ContainerStart, Docker!BreakStart,
       Docker!GrowOld, Docker!ExitContainer, Docker!AutoRemove, Docker!ContainerCreate,
       Docker!StopListed, Docker!RunOther, Docker!BuildImage
  <2> QED
    BY <1>1, <2>1
<1> HIDE DEF AgedInv, ExcessInv, Tried, Docker!Finals
<1>10. CASE Docker!Sweep
  BY <1>3, <1>4, <1>5, <1>6, <1>7, <1>8, <1>10, Zenon DEF Docker!Sweep
<1> QED
  BY <1>8, <1>9, <1>10, Zenon DEF Docker!Next

LEMMA DockerSteps ==
  ASSUME DockerInv, ImagesInUseStay, Docker!Next
  PROVE  DockerInv' /\ ImagesInUseStay'
<1>1. DockerTypeInv' /\ ImagesInUseStay'
  BY DockerHostSteps, DockerSweepSteps DEF DockerInv, Docker!Next
<1> QED
  BY <1>1, DockerCleanup DEF DockerInv
------------------------------------------------------------------------------
(* Settling claims leaves those alone that are not to go, and no claim to  *)
(* go without a scheduled pod that uses it.                                *)
LEMMA SettledClaims ==
  ASSUME NEW claims \in [Archs -> {"missing", "bound", "terminating"}], NEW pods
  PROVE  LET settled == Kubernetes!Settle(claims, pods)
         IN  /\ settled \in [Archs -> {"missing", "bound", "terminating"}]
             /\ \A a \in Archs : claims[a] = "bound" => settled[a] = "bound"
             /\ \A a \in Archs : settled[a] = "terminating" => Kubernetes!Scheduled(pods, a) # {}
BY DEF Kubernetes!Settle

(* Steps of the cluster, and of a scale-up.                                *)
LEMMA KubernetesHostSteps ==
  ASSUME KubernetesInv,
         \/ \E p \in Ids : \/ Kubernetes!MovePod(p) \/ Kubernetes!Vanish(p) \/ Kubernetes!GrowOld(p)
                           \/ Kubernetes!CreatePod(p) \/ Kubernetes!StopListed(p)
         \/ \E a \in Archs : Kubernetes!ClaimGrowsOld(a) \/ Kubernetes!DetectArchitecture(a)
         \/ Kubernetes!ensurePersistentVolumesForArchitecture \/ Kubernetes!BreakCreate
  PROVE  KubernetesTypeInv'
<1> USE RuntimesAssumption DEF KubernetesInv, KubernetesTypeInv, Kubernetes!TypeOK, PodsInOrder,
        Kubernetes!Pods, Kubernetes!sweep, Kubernetes!start, Kubernetes!claims, Kubernetes!pods
<1>1. ASSUME NEW p \in Ids, Kubernetes!MovePod(p)
      PROVE  KubernetesTypeInv'
  <2>1. PICK s \in Kubernetes!Moves(p) : pod' = [pod EXCEPT ![p].status = s]
    BY <1>1 DEF Kubernetes!MovePod
  <2>2. s \in Kubernetes!Statuses
    BY <2>1 DEF Kubernetes!Moves, Kubernetes!Statuses, Kubernetes!Running
  <2>3. pod[p] \in Kubernetes!PodRecords
    BY <1>1 DEF Kubernetes!MovePod
  <2>4. pod'[p] \in Kubernetes!PodRecords /\ \A q \in Ids \ {p} : pod'[q] = pod[q]
    BY <2>1, <2>2, <2>3 DEF Kubernetes!PodRecords
  <2>5. pod' \in [Ids -> Kubernetes!PodRecords \cup {None}]
    BY <2>1, <2>4
  <2>6. /\ claim' \in [Archs -> {"missing", "bound", "terminating"}]
        /\ \A a \in Archs : claim'[a] = "terminating" => Kubernetes!Scheduled(pod', a) # {}
    BY <1>1, SettledClaims DEF Kubernetes!MovePod
  <2>7. took' \in BOOLEAN
    BY <1>1 DEF Kubernetes!MovePod
  <2>8. deleting \cup old \subseteq Kubernetes!Pods'
    BY <2>4
  <2> QED
    BY <1>1, <2>5, <2>6, <2>7, <2>8 DEF Kubernetes!MovePod
<1>2. ASSUME NEW p \in Ids, Kubernetes!Vanish(p)
      PROVE  KubernetesTypeInv'
  <2>1. /\ claim' \in [Archs -> {"missing", "bound", "terminating"}]
        /\ \A a \in Archs : claim'[a] = "terminating" => Kubernetes!Scheduled(pod', a) # {}
    BY <1>2, SettledClaims DEF Kubernetes!Vanish
  <2>2. /\ pod' \in [Ids -> Kubernetes!PodRecords \cup {None}]
        /\ deleting' \cup old' \subseteq Kubernetes!Pods'
    BY <1>2 DEF Kubernetes!Vanish
  <2> QED
    BY <1>2, <2>1, <2>2 DEF Kubernetes!Vanish
<1>3. ASSUME NEW p \in Ids, Kubernetes!GrowOld(p) \/ Kubernetes!StopListed(p)
      PROVE  KubernetesTypeInv'
  BY <1>3 DEF Kubernetes!GrowOld, Kubernetes!StopListed, Kubernetes!StopRunner,
     Kubernetes!GetRunningRunners, Kubernetes!In
<1>4. ASSUME NEW p \in Ids, Kubernetes!CreatePod(p)
      PROVE  KubernetesTypeInv'
  <2> DEFINE new == [status |-> "pending", arch |-> arch]
  <2>1. arch \in Archs /\ pod' = [pod EXCEPT ![p] = new] /\ p \notin Kubernetes!Pods
    BY <1>4 DEF Kubernetes!CreatePod, Kubernetes!Fresh
  <2>2. new \in Kubernetes!PodRecords
    BY <2>1 DEF Kubernetes!PodRecords, Kubernetes!Statuses
  <2> HIDE DEF new
  <2>3. pod' \in [Ids -> Kubernetes!PodRecords \cup {None}] /\ \A q \in Ids \ {p} : pod'[q] = pod[q]
    BY <2>1, <2>2
  <2>4. \A a \in Archs : Kubernetes!Scheduled(pod, a) \subseteq Kubernetes!Scheduled(pod', a)
    BY <2>1, <2>3 DEF Kubernetes!Scheduled
  <2>5. deleting \cup old \subseteq Kubernetes!Pods'
    BY <2>1, <2>3
  <2> QED
    BY <1>4, <2>3, <2>4, <2>5 DEF Kubernetes!CreatePod
<1>5. ASSUME NEW a \in Archs, Kubernetes!ClaimGrowsOld(a) \/ Kubernetes!DetectArchitecture(a)
      PROVE  KubernetesTypeInv'
  BY <1>5 DEF Kubernetes!ClaimGrowsOld, Kubernetes!DetectArchitecture
<1>6. CASE Kubernetes!ensurePersistentVolumesForArchitecture \/ Kubernetes!BreakCreate
  BY <1>6 DEF Kubernetes!ensurePersistentVolumesForArchitecture, Kubernetes!BreakCreate
<1> QED
  BY <1>1, <1>2, <1>3, <1>4, <1>5, <1>6

(* Steps of the ticker.                                                    *)
LEMMA KubernetesSweepSteps ==
  ASSUME KubernetesInv, Kubernetes!Sweep \/ Kubernetes!FailSweep
  PROVE  KubernetesTypeInv'
<1> USE RuntimesAssumption DEF KubernetesInv, KubernetesTypeInv, Kubernetes!TypeOK, PodsInOrder,
        PodLists, ClaimLists, Kubernetes!Pods, Kubernetes!start, Kubernetes!claims, Kubernetes!pods
<1>1. CASE Kubernetes!ListCompleted \/ Kubernetes!EndCompleted \/ Kubernetes!ListOldRunners
  BY <1>1 DEF Kubernetes!ListCompleted, Kubernetes!EndCompleted, Kubernetes!ListOldRunners,
     Kubernetes!Completed, Kubernetes!GetRunningRunners, Kubernetes!In
<1>2. CASE Kubernetes!EndOldRunners \/ Kubernetes!EndClaims
  BY <1>2 DEF Kubernetes!EndOldRunners, Kubernetes!EndClaims
<1>3. CASE Kubernetes!ListClaims \/ Kubernetes!ListPods
  BY <1>3 DEF Kubernetes!ListClaims, Kubernetes!ListPods, Kubernetes!UnusedClaims
<1>4. ASSUME NEW p \in Ids, Kubernetes!CleanupCompletedRunner(p)
      PROVE  KubernetesTypeInv'
  BY <1>4 DEF Kubernetes!CleanupCompletedRunner, Kubernetes!StopRunner
<1>5. ASSUME NEW p \in Ids, Kubernetes!CheckRunner(p)
      PROVE  KubernetesTypeInv'
  BY <1>5 DEF Kubernetes!CheckRunner
<1>6. CASE Kubernetes!CleanupOldRunner
  BY <1>6 DEF Kubernetes!CleanupOldRunner, Kubernetes!StopRunner
<1>7. ASSUME NEW a \in Archs, Kubernetes!DeleteClaim(a)
      PROVE  KubernetesTypeInv'
  <2> DEFINE claims1 == [claim EXCEPT ![a] = IF @ = "missing" THEN @ ELSE "terminating"]
  <2>1. claims1 \in [Archs -> {"missing", "bound", "terminating"}]
    OBVIOUS
  <2>2. claim' = Kubernetes!Settle(claims1, pod) /\ UNCHANGED pod
    BY <1>7 DEF Kubernetes!DeleteClaim
  <2> HIDE DEF claims1
  <2>3. /\ claim' \in [Archs -> {"missing", "bound", "terminating"}]
        /\ \A a1 \in Archs : claim'[a1] = "terminating" => Kubernetes!Scheduled(pod', a1) # {}
    BY <2>1, <2>2, SettledClaims
  <2> QED
    BY <1>7, <2>3 DEF Kubernetes!DeleteClaim
<1>8. CASE Kubernetes!FailSweep
  BY <1>8 DEF Kubernetes!FailSweep
<1> QED
  BY <1>1, <1>2, <1>3, <1>4, <1>5, <1>6, <1>7, <1>8 DEF Kubernetes!Sweep

(* A pod that is not checked or counted stays so, and one that is takes    *)
(* its job, or ends, while the sweep works on what it has read.            *)
LEMMA KubernetesMemory ==
  ASSUME KubernetesInv, Kubernetes!Next
  PROVE  CheckedInv' /\ ClaimsInv'
<1> USE RuntimesAssumption DEF CheckedInv, ClaimsInv, Kubernetes!Pods, Kubernetes!In,
        Kubernetes!Uses, Kubernetes!pods, Kubernetes!sweep
<1>1. ASSUME NEW p \in Ids, Kubernetes!MovePod(p)
      PROVE  CheckedInv' /\ ClaimsInv'
  <2>1. PICK s \in Kubernetes!Moves(p) :
          /\ pod' = [pod EXCEPT ![p].status = s]
          /\ took' = (took \/ (p = checked /\ s = "busy"))
    BY <1>1 DEF Kubernetes!MovePod
  <2>2. /\ pod[p] \in Kubernetes!PodRecords
        /\ pod \in [Ids -> Kubernetes!PodRecords \cup {None}]
        /\ UNCHANGED <<sweepPc, todo, checked, counted>>
    BY <1>1 DEF Kubernetes!MovePod, KubernetesInv, KubernetesTypeInv, Kubernetes!TypeOK
  <2>3. pod'[p].status = s /\ pod'[p].arch = pod[p].arch /\ \A q \in Ids \ {p} : pod'[q] = pod[q]
    BY <2>1, <2>2 DEF Kubernetes!PodRecords
  <2>4. ClaimsInv'
    BY <1>1, <2>2, <2>3 DEF KubernetesInv, Kubernetes!MovePod
  <2>5. CheckedInv'
    <3>1. CASE checked # p
      BY <1>1, <2>1, <2>2, <2>3, <3>1 DEF KubernetesInv
    <3>2. CASE checked = p
      <4>1. took \in BOOLEAN /\ pod[p].status \in Kubernetes!Statuses /\ p \in Kubernetes!Pods
        BY <1>1, <2>2 DEF KubernetesInv, KubernetesTypeInv, Kubernetes!TypeOK,
           Kubernetes!PodRecords, Kubernetes!MovePod
      <4>2. CASE took
        <5>1. took'
          BY <2>1, <4>2
        <5> QED
          BY <5>1
      <4>3. CASE ~took
        <5>1. pod[p].status \in {"listening", "done"} \cup Kubernetes!Ended
          BY <3>2, <4>1, <4>3 DEF KubernetesInv
        <5>2. s \in Kubernetes!Ended \/ s = "busy"
          BY <2>1, <5>1 DEF Kubernetes!Moves, Kubernetes!Ended
        <5>3. CASE s = "busy"
          <6>1. took'
            BY <2>1, <3>2, <5>3
          <6> QED
            BY <6>1
        <5>4. CASE s \in Kubernetes!Ended
          BY <2>2, <2>3, <3>2, <5>4
        <5> QED
          BY <5>2, <5>3, <5>4
      <4> QED
        BY <4>2, <4>3
    <3> QED
      BY <3>1, <3>2
  <2> QED
    BY <2>4, <2>5
<1>2. ASSUME NEW p \in Ids, Kubernetes!Vanish(p)
      PROVE  CheckedInv' /\ ClaimsInv'
  BY <1>2 DEF Kubernetes!Vanish, KubernetesInv, KubernetesTypeInv, Kubernetes!TypeOK
<1>3. ASSUME NEW p \in Ids, Kubernetes!CreatePod(p)
      PROVE  CheckedInv' /\ ClaimsInv'
  BY <1>3 DEF Kubernetes!CreatePod, Kubernetes!Fresh, KubernetesInv, KubernetesTypeInv,
     Kubernetes!TypeOK
<1>4. ASSUME UNCHANGED <<pod, Kubernetes!sweep>>
      PROVE  CheckedInv' /\ ClaimsInv'
  BY <1>4 DEF KubernetesInv
<1>5. CASE Kubernetes!ListPods
  BY <1>5 DEF Kubernetes!ListPods, Kubernetes!UnusedClaims, KubernetesInv
<1>6. ASSUME NEW p \in Ids, Kubernetes!CheckRunner(p)
      PROVE  CheckedInv' /\ ClaimsInv'
  BY <1>6 DEF Kubernetes!CheckRunner, Kubernetes!isRunnerIdle, KubernetesInv
<1>7. CASE Kubernetes!CleanupOldRunner
  BY <1>7 DEF Kubernetes!CleanupOldRunner, KubernetesInv
<1>8. ASSUME NEW a \in Archs, Kubernetes!DeleteClaim(a)
      PROVE  CheckedInv' /\ ClaimsInv'
  BY <1>8 DEF Kubernetes!DeleteClaim, KubernetesInv
<1>9. CASE Kubernetes!FailSweep
  BY <1>9 DEF Kubernetes!FailSweep, KubernetesInv
<1>10. CASE \/ Kubernetes!ListCompleted \/ Kubernetes!EndCompleted \/ Kubernetes!ListOldRunners
            \/ Kubernetes!EndOldRunners \/ Kubernetes!ListClaims \/ Kubernetes!EndClaims
            \/ \E p \in Ids : Kubernetes!CleanupCompletedRunner(p)
  BY <1>10 DEF Kubernetes!ListCompleted, Kubernetes!EndCompleted, Kubernetes!ListOldRunners,
     Kubernetes!EndOldRunners, Kubernetes!ListClaims, Kubernetes!EndClaims,
     Kubernetes!CleanupCompletedRunner, KubernetesInv
<1>11. CASE \/ \E p \in Ids : Kubernetes!GrowOld(p) \/ Kubernetes!StopListed(p)
            \/ \E a \in Archs : Kubernetes!ClaimGrowsOld(a) \/ Kubernetes!DetectArchitecture(a)
            \/ Kubernetes!ensurePersistentVolumesForArchitecture \/ Kubernetes!BreakCreate
  <2>1. UNCHANGED <<pod, Kubernetes!sweep>>
    BY <1>11 DEF Kubernetes!GrowOld, Kubernetes!StopListed, Kubernetes!ClaimGrowsOld,
       Kubernetes!DetectArchitecture, Kubernetes!ensurePersistentVolumesForArchitecture,
       Kubernetes!BreakCreate
  <2> QED
    BY <1>4, <2>1
<1> HIDE DEF CheckedInv, ClaimsInv
<1>12. CASE Kubernetes!Sweep
  BY <1>5, <1>6, <1>7, <1>8, <1>10, <1>12, Zenon DEF Kubernetes!Sweep
<1> QED
  BY <1>1, <1>2, <1>3, <1>9, <1>11, <1>12, Zenon DEF Kubernetes!Next

LEMMA KubernetesSteps ==
  ASSUME KubernetesInv, Kubernetes!Next
  PROVE  KubernetesInv'
<1>1. KubernetesTypeInv'
  BY KubernetesHostSteps, KubernetesSweepSteps DEF Kubernetes!Next
<1> QED
  BY <1>1, KubernetesMemory DEF KubernetesInv
------------------------------------------------------------------------------
(***************************************************************************)
(* Both                                                                    *)
(***************************************************************************)
LEMMA Initially == NewContainerRuntime => RuntimesInv
<1> SUFFICES ASSUME NewContainerRuntime PROVE RuntimesInv
  OBVIOUS
<1>1. DockerInv /\ ImagesInUseStay
  BY RuntimesAssumption DEF NewContainerRuntime, Docker!Init, DockerInv, DockerTypeInv,
     Docker!TypeOK, ListsInOrder, StartInOrder, Removing, AgedInv, ExcessInv, ImagesInUseStay,
     Docker!ImagesInUseStay, Docker!Used, Docker!Exists
<1>2. KubernetesInv
  BY RuntimesAssumption DEF NewContainerRuntime, Kubernetes!Init, KubernetesInv, KubernetesTypeInv,
     Kubernetes!TypeOK, PodsInOrder, PodLists, ClaimLists, CheckedInv, ClaimsInv,
     Kubernetes!Pods, Kubernetes!In
<1> QED
  BY <1>1, <1>2 DEF NewContainerRuntime, RuntimesInv

LEMMA Inductive == RuntimesInv /\ [Next]_vars => RuntimesInv'
<1> SUFFICES ASSUME RuntimesInv, [Next]_vars PROVE RuntimesInv'
  OBVIOUS
<1>1. CASE kind = "docker" /\ Docker!Next /\ UNCHANGED <<kind, kubernetes>>
  BY <1>1, DockerSteps DEF RuntimesInv
<1>2. CASE kind = "kubernetes" /\ Kubernetes!Next /\ UNCHANGED <<kind, docker>>
  <2>1. ImagesInUseStay'
    BY <1>2 DEF RuntimesInv, docker, ImagesInUseStay, Docker!ImagesInUseStay, Docker!Used,
       Docker!Exists
  <2> QED
    BY <1>2, <2>1, KubernetesSteps DEF RuntimesInv
<1>3. CASE UNCHANGED vars
  <2>1. UNCHANGED <<kind, old, startPc, sweepPc, todo>>
    BY <1>3 DEF vars, shared
  <2>2. UNCHANGED <<keep, box, images, starting, unused, removed, failed>>
    BY <1>3 DEF vars, docker
  <2>3. UNCHANGED <<pod, deleting, claim, oldClaims, arch, checked, took, counted>>
    BY <1>3 DEF vars, kubernetes
  <2>4. DockerInv => DockerInv'
    BY <2>1, <2>2 DEF DockerInv, DockerTypeInv, Docker!TypeOK, ListsInOrder, StartInOrder,
       AgedInv, ExcessInv, Tried, Docker!Finals, Docker!Exists
  <2>5. KubernetesInv => KubernetesInv'
    BY <2>1, <2>3 DEF KubernetesInv, KubernetesTypeInv, Kubernetes!TypeOK, PodsInOrder, CheckedInv,
       ClaimsInv, Kubernetes!Pods, Kubernetes!In, Kubernetes!Uses
  <2>6. ImagesInUseStay => ImagesInUseStay'
    BY <2>2 DEF ImagesInUseStay, Docker!ImagesInUseStay, Docker!Used, Docker!Exists
  <2> QED
    BY <2>1, <2>4, <2>5, <2>6 DEF RuntimesInv
<1> QED
  BY <1>1, <1>2, <1>3 DEF Next, OnDocker, OnKubernetes

(* The types of Runtimes, of the runtime that is chosen.                   *)
THEOREM TypeCorrect == Spec => []TypeOK
<1>1. RuntimesInv => TypeOK
  BY DEF RuntimesInv, DockerInv, DockerTypeInv, KubernetesInv, KubernetesTypeInv, TypeOK
<1> QED
  BY <1>1, Initially, Inductive, PTL DEF Spec

(* No container ever loses its image to CleanupImages (docker.go), however *)
(* old the lists are that it works on, and whichever calls fail.           *)
THEOREM ContainersKeepImages == Spec => []ImagesInUseStay
<1>1. RuntimesInv => ImagesInUseStay
  BY DEF RuntimesInv
<1> QED
  BY <1>1, Initially, Inductive, PTL DEF Spec
------------------------------------------------------------------------------
(***************************************************************************)
(* What no step does                                                       *)
(***************************************************************************)
(* CleanupImages (docker.go) removes a final image younger than            *)
(* ImageMaxAge only beyond the limit, and after every older final one has  *)
(* been tried.                                                             *)
THEOREM YoungestGoLast == Spec => YoungImagesGoLast
<1> DEFINE A == \A i \in ((images \ images') \cap Tagged) \ Aged :
                  /\ Docker!Cardinality(unused) > MaxUnusedImages
                  /\ \A j \in Docker!Finals : Created[j] < Created[i] => j \in removed \cup failed
<1>1. ASSUME RuntimesInv, [Next]_vars
      PROVE  A
  <2> SUFFICES ASSUME NEW i \in ((images \ images') \cap Tagged) \ Aged
               PROVE  /\ Docker!Cardinality(unused) > MaxUnusedImages
                      /\ \A j \in Docker!Finals :
                           Created[j] < Created[i] => j \in removed \cup failed
    OBVIOUS
  <2>1. kind = "docker" /\ Docker!Next
    BY <1>1 DEF Next, OnDocker, OnKubernetes, vars, docker
  <2>2. i \in Images
    BY <1>1, <2>1 DEF RuntimesInv, DockerInv, DockerTypeInv, Docker!TypeOK
  <2>3. \E j \in Images : Docker!RemoveAged(j) \/ Docker!RemoveExcess(j)
    BY <2>1 DEF Docker!Next, Docker!Sweep, Docker!FailSweep, Docker!GrowOld, Docker!ExitContainer,
       Docker!AutoRemove, Docker!ContainerCreate, Docker!StopListed, Docker!RunOther,
       Docker!BuildImage, Docker!ensureImage, Docker!BreakCreate, Docker!ContainerStart,
       Docker!BreakStart, Docker!CleanupCompletedRunners, Docker!ListOldRunners,
       Docker!EndOldRunners, Docker!SkipImages, Docker!ImageList, Docker!ContainerList,
       Docker!EndFinals, Docker!EndIntermediates, Docker!EndImages, Docker!CleanupOldRunner
  <2>4. PICK j \in Images : Docker!RemoveAged(j) \/ Docker!RemoveExcess(j)
    BY <2>3
  <2>5. i = j /\ i \in todo
    BY <2>4 DEF Docker!RemoveAged, Docker!RemoveExcess, Docker!removeImage
  <2>6. Docker!RemoveExcess(i)
    BY <1>1, <2>1, <2>4, <2>5 DEF RuntimesInv, DockerInv, AgedInv, Docker!RemoveAged
  <2>7. sweepPc = "excess" /\ \A k \in todo : Created[i] <= Created[k]
    BY <2>6 DEF Docker!RemoveExcess
  <2>8. todo \subseteq Images /\ \A k \in Images : Created[k] \in Nat
    BY <1>1, <2>1, <2>7, RuntimesAssumption
       DEF RuntimesInv, DockerInv, DockerTypeInv, Docker!TypeOK, ListsInOrder, Removing
  <2>9. Cardinality(unused) > MaxUnusedImages
    BY <1>1, <2>1, <2>5, <2>7 DEF RuntimesInv, DockerInv, ExcessInv
  <2>10. ASSUME NEW k \in Docker!Finals, Created[k] < Created[i]
         PROVE  k \in removed \cup failed
    <3>1. k \in todo \cup Tried
      BY <1>1, <2>1, <2>5, <2>7, <2>10 DEF RuntimesInv, DockerInv, ExcessInv
    <3>2. k \notin todo
      BY <2>2, <2>7, <2>8, <2>10
    <3> QED
      BY <3>1, <3>2 DEF Tried
  <2> QED
    BY <2>9, <2>10, DockerCardinality
<1> QED
  BY <1>1, Initially, Inductive, PTL DEF Spec, YoungImagesGoLast, Docker!YoungImagesGoLast

(* A run of CleanupImages (docker.go) that failed to remove no final image *)
(* leaves at most MaxUnusedImages of the final images that it found        *)
(* unused.                                                                 *)
THEOREM FewImagesLeft == Spec => FewUnusedImagesLeft
<1> DEFINE A == sweepPc = "excess" /\ sweepPc' = "idle" /\ failed \cap Tagged \subseteq removed
                  => Docker!Cardinality(Docker!Finals \ removed) <= MaxUnusedImages
<1>1. ASSUME RuntimesInv, [Next]_vars
      PROVE  A
  <2> SUFFICES ASSUME sweepPc = "excess", sweepPc' = "idle", failed \cap Tagged \subseteq removed
               PROVE  Docker!Cardinality(Docker!Finals \ removed) <= MaxUnusedImages
    OBVIOUS
  <2>1. kind = "docker" /\ Docker!Next
    BY <1>1 DEF RuntimesInv, KubernetesInv, KubernetesTypeInv, Kubernetes!TypeOK, Next, OnDocker,
       OnKubernetes, vars, shared
  <2>2. Docker!EndImages
    BY <2>1 DEF Docker!Next, Docker!Sweep, Docker!FailSweep, Docker!GrowOld, Docker!ExitContainer,
       Docker!AutoRemove, Docker!ContainerCreate, Docker!StopListed, Docker!RunOther,
       Docker!BuildImage, Docker!ensureImage, Docker!BreakCreate, Docker!ContainerStart,
       Docker!BreakStart, Docker!CleanupCompletedRunners, Docker!ListOldRunners,
       Docker!EndOldRunners, Docker!SkipImages, Docker!ImageList, Docker!ContainerList,
       Docker!EndFinals, Docker!EndIntermediates, Docker!CleanupOldRunner, Docker!RemoveAged,
       Docker!RemoveExcess, Docker!SweepOn, Docker!sweep
  <2>3. Docker!Finals \ (todo \cup Tried) = Docker!Finals \ removed
    BY <2>2 DEF Docker!EndImages, Docker!Finals, Tried
  <2>4. Cardinality(Docker!Finals \ (todo \cup Tried)) <= MaxUnusedImages
    BY <1>1, <2>1 DEF RuntimesInv, DockerInv, ExcessInv
  <2> QED
    BY <2>3, <2>4, DockerCardinality
<1> QED
  BY <1>1, Initially, Inductive, PTL DEF Spec, FewUnusedImagesLeft, Docker!FewUnusedImagesLeft

(* The cleanup of old runners (kubernetes.go) deletes a pod that works     *)
(* only when it has taken its job since its logs were read.                *)
THEOREM OnlyIdlePodsCleaned == Spec => OldCleanupSparesWork
<1> DEFINE A == \A p \in deleting' \ deleting : p = checked /\ checked' = None =>
                  p \in Kubernetes!In({"listening", "done"} \cup Kubernetes!Ended) \/ took
<1>1. ASSUME RuntimesInv, [Next]_vars
      PROVE  A
  <2> SUFFICES ASSUME NEW p \in deleting' \ deleting, p = checked, checked' = None
               PROVE  p \in Kubernetes!In({"listening", "done"} \cup Kubernetes!Ended) \/ took
    OBVIOUS
  <2>1. kind = "kubernetes" /\ Kubernetes!Next
    BY <1>1 DEF Next, OnDocker, OnKubernetes, vars, kubernetes
  <2>2. KubernetesInv
    BY <1>1, <2>1 DEF RuntimesInv
  <2>3. p \in Kubernetes!Pods
    BY <2>1, <2>2 DEF Kubernetes!Next, Kubernetes!Sweep, Kubernetes!FailSweep, Kubernetes!MovePod,
       Kubernetes!Vanish, Kubernetes!GrowOld, Kubernetes!CreatePod, Kubernetes!StopListed,
       Kubernetes!ClaimGrowsOld, Kubernetes!DetectArchitecture,
       Kubernetes!ensurePersistentVolumesForArchitecture, Kubernetes!BreakCreate,
       Kubernetes!ListCompleted, Kubernetes!EndCompleted, Kubernetes!ListOldRunners,
       Kubernetes!CleanupOldRunner, Kubernetes!EndOldRunners, Kubernetes!ListClaims,
       Kubernetes!ListPods, Kubernetes!EndClaims, Kubernetes!CleanupCompletedRunner,
       Kubernetes!CheckRunner, Kubernetes!DeleteClaim, Kubernetes!StopRunner, Kubernetes!pods
  <2>4. pod[p].status \in Kubernetes!Statuses /\ took \in BOOLEAN
    BY <2>2, <2>3 DEF KubernetesInv, KubernetesTypeInv, Kubernetes!TypeOK, Kubernetes!Pods,
       Kubernetes!PodRecords
  <2> QED
    BY <2>2, <2>3, <2>4 DEF KubernetesInv, CheckedInv, Kubernetes!In
<1> QED
  BY <1>1, Initially, Inductive, PTL DEF Spec, OldCleanupSparesWork, Kubernetes!OldCleanupSparesWork

(* cleanupUnusedPVCs (kubernetes.go) deletes no claim that a pod uses which*)
(* was there when it listed the pods.                                      *)
THEOREM UsedClaimsStay == Spec => ClaimsInUseStay
<1> DEFINE A == \A a \in Archs : claim[a] = "bound" /\ claim'[a] # "bound" =>
                  \A p \in counted \cap Kubernetes!Pods : ~Kubernetes!Uses(p, a)
<1>1. ASSUME RuntimesInv, [Next]_vars
      PROVE  A
  <2> SUFFICES ASSUME NEW a \in Archs, claim[a] = "bound", claim'[a] # "bound"
               PROVE  \A p \in counted \cap Kubernetes!Pods : ~Kubernetes!Uses(p, a)
    OBVIOUS
  <2>1. kind = "kubernetes" /\ Kubernetes!Next
    BY <1>1 DEF Next, OnDocker, OnKubernetes, vars, kubernetes
  <2>2. KubernetesInv
    BY <1>1, <2>1 DEF RuntimesInv
  <2>3. claim' # claim /\ claim' # Kubernetes!Settle(claim, pod')
    BY <2>2, SettledClaims DEF KubernetesInv, KubernetesTypeInv, Kubernetes!TypeOK
  <2>4. claim' = [claim EXCEPT ![arch] = "bound"] => FALSE
    BY <2>2 DEF KubernetesInv, KubernetesTypeInv, Kubernetes!TypeOK
  <2>5. PICK b \in Archs : Kubernetes!DeleteClaim(b)
    BY <2>1, <2>3, <2>4 DEF Kubernetes!Next, Kubernetes!Sweep, Kubernetes!FailSweep,
       Kubernetes!MovePod,
       Kubernetes!Vanish, Kubernetes!GrowOld, Kubernetes!CreatePod, Kubernetes!StopListed,
       Kubernetes!ClaimGrowsOld, Kubernetes!DetectArchitecture,
       Kubernetes!ensurePersistentVolumesForArchitecture, Kubernetes!BreakCreate,
       Kubernetes!ListCompleted, Kubernetes!EndCompleted, Kubernetes!ListOldRunners,
       Kubernetes!CleanupOldRunner, Kubernetes!EndOldRunners, Kubernetes!ListClaims,
       Kubernetes!ListPods, Kubernetes!EndClaims, Kubernetes!CleanupCompletedRunner,
       Kubernetes!CheckRunner, Kubernetes!claims
  <2>6. a = b
    <3> DEFINE claims1 == [claim EXCEPT ![b] = IF @ = "missing" THEN @ ELSE "terminating"]
    <3>1. claims1 \in [Archs -> {"missing", "bound", "terminating"}]
      BY <2>2 DEF KubernetesInv, KubernetesTypeInv, Kubernetes!TypeOK
    <3>2. claim' = Kubernetes!Settle(claims1, pod)
      BY <2>5 DEF Kubernetes!DeleteClaim
    <3>3. a # b => claims1[a] = "bound"
      BY <2>2 DEF KubernetesInv, KubernetesTypeInv, Kubernetes!TypeOK
    <3> HIDE DEF claims1
    <3> QED
      BY <3>1, <3>2, <3>3, SettledClaims
  <2> QED
    BY <2>2, <2>5, <2>6 DEF KubernetesInv, ClaimsInv, Kubernetes!DeleteClaim
<1> QED
  BY <1>1, Initially, Inductive, PTL DEF Spec, ClaimsInUseStay, Kubernetes!ClaimsInUseStay
===============================================================================
