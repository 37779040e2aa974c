---------------------------- MODULE DockerRuntime ----------------------------
(***************************************************************************)
(* The Docker runtime (internal/runtime/docker.go) and the goroutines that *)
(* use it: a scale-up, one at a time because of rm.mu; the cleanup ticker; *)
(* and those that stop a runner, when a workflow completes or at shutdown. *)
(* Nothing keeps them apart, so each works on lists that the others make   *)
(* stale.  A step is one call of the Docker daemon, which is external and  *)
(* may fail any call; it refuses to remove an image that a container uses, *)
(* and removes a runner that exits (AutoRemove).  Jobs have the Docker     *)
(* socket, so they run containers and build images.                        *)
(***************************************************************************)
EXTENDS Integers, FiniteSets

CONSTANTS
  Ids,             \* identifiers of runners, those of the host's other containers included
  None,            \* no container
  Images,          \* images
  RunnerImage,     \* config.RunnerImage
  Created,         \* [Images -> Nat], when an image was built
  Tagged,          \* images with a tag, the others are intermediate
  Aged,            \* images older than ImageMaxAge
  MaxUnusedImages  \* config.MaxUnusedImages

VARIABLES
  keep,      \* config.KeepIntermediateImages
  box,       \* [Ids -> containers or None]
  old,       \* runners older than RunnerTimeout
  images,    \* images on the host
  startPc,   \* where the scale-up is
  starting,  \* the container that it has created, or None
  sweepPc,   \* where cleanupOldRunners is
  todo,      \* what is left of its list
  unused,    \* unusedImages
  removed,   \* images that it has removed, removedCount of them
  failed     \* images that it failed to remove

start == <<startPc, starting>>
sweep == <<sweepPc, todo, unused, removed, failed>>
vars  == <<keep, box, old, images, startPc, starting, sweepPc, todo, unused,
           removed, failed>>

Containers == [image : Images, state : {"created", "running", "exited"}, runner : BOOLEAN]
Exists     == {c \in Ids : box[c] # None}
Used       == {box[c].image : c \in Exists}
Runners    == {c \in Exists : box[c].runner /\ box[c].state = "running"}
Fresh      == Ids \ (Exists \cup todo)
Finals     == unused \cap Tagged

Init ==
  /\ keep \in BOOLEAN
  /\ box = [c \in Ids |-> None] /\ old = {} /\ images = {RunnerImage}
  /\ startPc = "idle" /\ starting = None
  /\ sweepPc = "idle" /\ todo = {} /\ unused = {} /\ removed = {} /\ failed = {}
------------------------------------------------------------------------------
(***************************************************************************)
(* The host                                                                *)
(***************************************************************************)
RunOther(c, i) ==
  /\ c \in Fresh /\ i \in images \ {RunnerImage}
  /\ box' = [box EXCEPT ![c] = [image |-> i, state |-> "running", runner |-> FALSE]]
  /\ UNCHANGED <<keep, old, images, start, sweep>>

BuildImage(i) ==
  /\ i \notin images
  /\ images' = images \cup {i}
  /\ UNCHANGED <<keep, box, old, start, sweep>>

GrowOld(c) ==
  /\ c \in Runners \ old
  /\ old' = old \cup {c}
  /\ UNCHANGED <<keep, box, images, start, sweep>>

ExitContainer(c) ==
  /\ c \in Exists /\ box[c].state = "running"
  /\ box' = [box EXCEPT ![c].state = "exited"]
  /\ UNCHANGED <<keep, old, images, start, sweep>>

Remove(c) ==
  /\ box' = [box EXCEPT ![c] = None]
  /\ old' = old \ {c}

AutoRemove(c) ==
  /\ c \in Exists /\ box[c].state = "exited"
  /\ Remove(c)
  /\ UNCHANGED <<keep, images, start, sweep>>
------------------------------------------------------------------------------
(***************************************************************************)
(* StartRunnerWithLabelsForOwner                                           *)
(***************************************************************************)
(* The image is inspected and pulled if it is missing.                     *)
ensureImage ==
  /\ startPc = "idle"
  /\ images' = images \cup {RunnerImage}
  /\ startPc' = "create"
  /\ UNCHANGED <<keep, box, old, starting, sweep>>

ContainerCreate(c) ==
  /\ startPc = "create"
  /\ RunnerImage \in images /\ c \in Fresh
  /\ box' = [box EXCEPT ![c] = [image |-> RunnerImage, state |-> "created", runner |-> TRUE]]
  /\ starting' = c
  /\ startPc' = "start"
  /\ UNCHANGED <<keep, old, images, sweep>>

(* For instance because the image has been removed since it was ensured.   *)
BreakCreate ==
  /\ startPc = "create"
  /\ startPc' = "idle"
  /\ UNCHANGED <<keep, box, old, images, starting, sweep>>

EndStart == startPc' = "idle" /\ starting' = None

ContainerStart ==
  /\ startPc = "start"
  /\ box' = [box EXCEPT ![starting].state = "running"]
  /\ EndStart
  /\ UNCHANGED <<keep, old, images, sweep>>

(* The container is removed, unless that fails as well.                    *)
BreakStart ==
  /\ startPc = "start"
  /\ Remove(starting) \/ UNCHANGED <<box, old>>
  /\ EndStart
  /\ UNCHANGED <<keep, images, sweep>>
------------------------------------------------------------------------------
(***************************************************************************)
(* cleanupOldRunners: CleanupCompletedRunners, CleanupOldRunners and       *)
(* CleanupImages one after the other.                                      *)
(***************************************************************************)
(* StopRunner stops the container and then removes it by force, whether it *)
(* has stopped or not.  The stop is an ExitContainer, and the container    *)
(* may be gone before its removal; an error is only logged.                *)
StopRunner(c) == Remove(c)

(* StopAllRunners, and the cleanup after a workflow: any listed runner.    *)
StopListed(c) ==
  /\ c \in Runners
  /\ StopRunner(c)
  /\ UNCHANGED <<keep, images, start, sweep>>

SweepOn(point) == sweepPc' = point

(* CleanupCompletedRunners asks for a label that no start sets, so it      *)
(* finds no runner.                                                        *)
CleanupCompletedRunners ==
  /\ sweepPc = "idle"
  /\ SweepOn("list")
  /\ UNCHANGED <<keep, box, old, images, start, todo, unused, removed, failed>>

(* Mutant: only containers that have exited are listed.                    *)
ListExitedRunners ==
  /\ sweepPc = "list"
  /\ todo' = {c \in old : box[c].state = "exited"}
  /\ SweepOn("stop")
  /\ UNCHANGED <<keep, box, old, images, start, unused, removed, failed>>

ListOldRunners ==
  /\ sweepPc = "list"
  /\ todo' = Runners \cap old
  /\ SweepOn("stop")
  /\ UNCHANGED <<keep, box, old, images, start, unused, removed, failed>>

CleanupOldRunner(c) ==
  /\ sweepPc = "stop" /\ c \in todo
  /\ todo' = todo \ {c}
  /\ IF c \in Exists THEN StopRunner(c) ELSE UNCHANGED <<box, old>>
  /\ UNCHANGED <<keep, images, start, sweepPc, unused, removed, failed>>

(* The list of the runners, or both calls that stop one, fail.             *)
FailSweep ==
  /\ \/ sweepPc = "list" /\ SweepOn("images") /\ UNCHANGED todo
     \/ sweepPc = "stop" /\ (\E c \in todo : todo' = todo \ {c}) /\ UNCHANGED sweepPc
  /\ UNCHANGED <<keep, box, old, images, start, unused, removed, failed>>

EndOldRunners ==
  /\ sweepPc = "stop" /\ todo = {}
  /\ SweepOn("images")
  /\ UNCHANGED <<keep, box, old, images, start, todo, unused, removed, failed>>

(* CleanupImages is disabled or fails to list the images.                  *)
SkipImages ==
  /\ sweepPc = "images"
  /\ SweepOn("idle")
  /\ UNCHANGED <<keep, box, old, images, start, todo, unused, removed, failed>>

ImageList ==
  /\ sweepPc = "images"
  /\ unused' = images
  /\ SweepOn("used")
  /\ UNCHANGED <<keep, box, old, images, start, todo, removed, failed>>

(* A failure counts as no container in use.                                *)
ContainerList ==
  /\ sweepPc = "used"
  /\ \E used \in {Used, {}} : unused' = unused \ used
  /\ todo' = unused' \cap Tagged \cap Aged
  /\ SweepOn("finals")
  /\ UNCHANGED <<keep, box, old, images, start, removed, failed>>

(* Mutant: images are removed by force, with their containers' consent or  *)
(* without.                                                                *)
removeImageForced(i) ==
  /\ todo' = todo \ {i}
  /\ images' = images \ {i} /\ removed' = removed \cup {i} /\ UNCHANGED failed

(* The daemon also removes parents of the image that have no tag and that  *)
(* nothing else uses (PruneChildren); which ones these are is left open.   *)
removeImage(i) ==
  /\ todo' = todo \ {i}
  /\ \/ /\ i \in images \ Used
        /\ \E parents \in SUBSET (images \ (Tagged \cup Used)) :
             images' = images \ ({i} \cup parents)
        /\ removed' = removed \cup {i} /\ UNCHANGED failed
     \/ failed' = failed \cup {i} /\ UNCHANGED <<images, removed>>

(* The final images and, unless they are kept, the intermediate images     *)
(* that are too old, no more than MaxUnusedImages of them.                 *)
RemoveAged(i) ==
  /\ sweepPc \in {"finals", "intermediates"}
  /\ i \in todo /\ Cardinality(removed) < MaxUnusedImages
  /\ removeImage(i)
  /\ UNCHANGED <<keep, box, old, start, sweepPc, unused>>

AgedDone == todo = {} \/ Cardinality(removed) >= MaxUnusedImages

(* Mutant: the intermediate images are looked for among all images.        *)
EndFinalsOfAll ==
  /\ sweepPc = "finals" /\ AgedDone
  /\ todo' = IF keep THEN {} ELSE (images \ Tagged) \cap Aged
  /\ SweepOn("intermediates")
  /\ UNCHANGED <<keep, box, old, images, start, unused, removed, failed>>

EndFinals ==
  /\ sweepPc = "finals" /\ AgedDone
  /\ todo' = IF keep THEN {} ELSE (unused \ Tagged) \cap Aged
  /\ SweepOn("intermediates")
  /\ UNCHANGED <<keep, box, old, images, start, unused, removed, failed>>

(* Mutant: the images that have been removed are deducted twice.           *)
ExcessLeft ==
  Cardinality(Finals) - MaxUnusedImages - Cardinality(removed)

(* The excess is counted from the lists, removed images included.          *)
ExcessFinalImages ==
  LET all == Cardinality(Finals) - (MaxUnusedImages - Cardinality(unused \ Tagged))
  IN  IF all > 0 /\ ~keep THEN Cardinality(Finals) - MaxUnusedImages ELSE all

(* Mutant: the newest images go first.                                     *)
NewestFinals(n) ==
  {i \in Finals : Cardinality({j \in Finals : Created[j] > Created[i]}) < n}

OldestFinals(n) ==
  {i \in Finals : Cardinality({j \in Finals : Created[j] < Created[i]}) < n}

EndIntermediates ==
  /\ sweepPc = "intermediates" /\ AgedDone
  /\ todo' = IF Cardinality(unused) > MaxUnusedImages
             THEN OldestFinals(ExcessFinalImages) ELSE {}
  /\ SweepOn("excess")
  /\ UNCHANGED <<keep, box, old, images, start, unused, removed, failed>>

(* Oldest first; one that has been removed already fails.                  *)
RemoveExcess(i) ==
  /\ sweepPc = "excess"
  /\ i \in todo /\ \A j \in todo : Created[i] <= Created[j]
  /\ removeImage(i)
  /\ UNCHANGED <<keep, box, old, start, sweepPc, unused>>

EndImages ==
  /\ sweepPc = "excess" /\ todo = {}
  /\ SweepOn("idle")
  /\ unused' = {} /\ removed' = {} /\ failed' = {}
  /\ UNCHANGED <<keep, box, old, images, start, todo>>
------------------------------------------------------------------------------
(* One pass of the ticker, calls that succeed.                             *)
Sweep ==
  \/ CleanupCompletedRunners \/ ListOldRunners \/ EndOldRunners
  \/ SkipImages \/ ImageList \/ ContainerList
  \/ EndFinals \/ EndIntermediates \/ EndImages
  \/ \E c \in Ids : CleanupOldRunner(c)
  \/ \E i \in Images : RemoveAged(i) \/ RemoveExcess(i)

Next ==
  \/ \E c \in Ids : GrowOld(c) \/ ExitContainer(c) \/ AutoRemove(c)
                    \/ ContainerCreate(c) \/ StopListed(c)
  \/ \E c \in Ids, i \in Images : RunOther(c, i)
  \/ \E i \in Images : BuildImage(i)
  \/ ensureImage \/ BreakCreate \/ ContainerStart \/ BreakStart
  \/ Sweep \/ FailSweep
------------------------------------------------------------------------------
TypeOK ==
  /\ keep \in BOOLEAN
  /\ box \in [Ids -> Containers \cup {None}]
  /\ old \subseteq Exists /\ images \subseteq Images
  /\ startPc \in {"idle", "create", "start"}
  /\ starting # None => box[starting] # None /\ box[starting].state = "created"
  /\ sweepPc \in {"idle", "list", "stop", "images", "used", "finals", "intermediates", "excess"}
  /\ todo \subseteq Ids \cup unused /\ unused \subseteq Images
  /\ removed \cup failed \subseteq unused

(* No container ever loses its image, although CleanupImages works on      *)
(* lists that are older than the container: images are removed without     *)
(* force, and a start that has lost its image creates no container.        *)
ImagesInUseStay == Used \subseteq images

(* When a cleanup ends that failed to remove no final image, at most       *)
(* MaxUnusedImages of the unused final images that it found are left,      *)
(* although the excess is counted before and removed after the old ones.   *)
FewUnusedImagesLeft ==
  [][sweepPc = "excess" /\ sweepPc' = "idle" /\ failed \cap Tagged \subseteq removed
       => Cardinality(Finals \ removed) <= MaxUnusedImages]_vars

(* A final image younger than ImageMaxAge is removed only when more than   *)
(* MaxUnusedImages are unused, and after all older final images have been  *)
(* removed or could not be.                                                *)
YoungImagesGoLast ==
  [][\A i \in ((images \ images') \cap Tagged) \ Aged :
       /\ Cardinality(unused) > MaxUnusedImages
       /\ \A j \in Finals : Created[j] < Created[i] => j \in removed \cup failed]_vars
==============================================================================
