---------------------------- MODULE Provisioning ----------------------------
(***************************************************************************)
(* From queued jobs to runners: what the job scanner                       *)
(* (internal/scanner/job_scanner.go) and the other callers of              *)
(* ScaleUpWithLabels read of GitHub's runs and jobs                        *)
(* (internal/github/client.go), which runners they start for them, and     *)
(* what becomes of the runners.  RunnerManager models the same function    *)
(* with its locking, limits and retries; here it is its answers about jobs *)
(* and labels that matter, so that one owner is enough and a request that  *)
(* finds no room is not remembered.                                        *)
(*                                                                         *)
(* GitHub is external: it gives a queued job to an idle runner of its      *)
(* repository that has all of the job's labels.  Every answer may be out   *)
(* of date when it is used.                                                *)
(*                                                                         *)
(* Labels are validated as for the Docker runtime.  With ArchLabels = {},  *)
(* nothing is dropped or added, as for Kubernetes.  A job names at most    *)
(* one architecture, so that the order of its labels does not matter.      *)
(***************************************************************************)
EXTENDS Integers, FiniteSets

CONSTANTS
  Jobs,          \* jobs of workflow runs
  RunIds,        \* workflow runs
  Repos,         \* repositories of the owner
  RunOf,         \* [Jobs -> RunIds]
  RepoOf,        \* [RunIds -> Repos]
  LabelsOf,      \* [Jobs -> sets of labels]
  Protected,     \* jobs that wait, for an approval say, before they are queued
  SelfHosted,    \* the label "self-hosted"
  ArchLabels,    \* the labels that name an architecture
  HostLabels,    \* those of them that fit the host
  OtherArch,     \* those that extractArchitecture takes for another architecture
  DefaultLabels, \* config.RunnerLabels
  OwnerLabels,   \* the owner's RunnerLabels
  RunnerIds,     \* identifiers of runners
  MaxRunners,    \* the owner's limit
  Scanner,       \* the goroutine of the job scanner
  Callers,       \* goroutines of events and of the workflow monitor
  MaxCalls,      \* bound on their calls
  NoJob,         \* no job
  NoRunner,      \* no runner
  NoRepo         \* no repository

(* The labels that runners can be started with, and the runners.           *)
AllLabels ==
  (UNION {LabelsOf[j] : j \in Jobs}) \cup HostLabels \cup DefaultLabels \cup OwnerLabels

Runners == [repo : Repos, labels : SUBSET AllLabels]

ASSUME ProvisioningAssumption ==
  /\ RunOf \in [Jobs -> RunIds] /\ RepoOf \in [RunIds -> Repos]
  /\ HostLabels \subseteq ArchLabels /\ OtherArch \subseteq ArchLabels \ HostLabels
  /\ \A j \in DOMAIN LabelsOf : LabelsOf[j] \cap HostLabels = {} \/ LabelsOf[j] \cap OtherArch = {}
  /\ IsFiniteSet(RunnerIds) /\ MaxRunners \in Nat /\ MaxCalls \in Nat
  /\ Scanner \notin Callers /\ NoJob \notin Jobs /\ NoRepo \notin Repos
  /\ NoRunner \notin Runners \cup Callers \cup {Scanner}

VARIABLES
  (* GitHub *)
  job,     \* [Jobs -> Statuses]
  told,    \* the runs whose completed event has been sent
  (* runners *)
  runner,  \* [RunnerIds -> runners or NoRunner]: their repository and labels
  on,      \* [RunnerIds -> Jobs or NoJob], the job that a runner has
  (* ScaleUpWithLabels, by goroutine *)
  rm,      \* the holder of rm.mu, or NoRunner
  pc,      \* where each goroutine is
  repo,    \* the repository it works for
  want,    \* customLabels, then the labels of the runners it starts
  seen,    \* runs of GetQueuedWorkflowRuns whose jobs it has not asked for yet
  count,   \* jobCount of getQueuedJobCount
  left,    \* availableSlots, then the runners that it still starts
  found,   \* queuedJobs of the scanner that it has not asked a runner for
  calls,   \* calls made so far
  (* cleanupRunnersForRepository *)
  listed   \* listed runners of the repository, not stopped yet

jobs    == <<job, told>>
fleet   == <<runner, on>>
scale   == <<rm, pc, repo, want, seen, count, left, found, calls>>
vars    == <<job, told, runner, on, rm, pc, repo, want, seen, count, left,
             found, calls, listed>>

Threads  == Callers \cup {Scanner}
(* A job fails when a cleanup stops its runner and expires with a runner   *)
(* that is too old.                                                        *)
Statuses == {"none", "waiting", "queued", "in_progress", "completed", "failed", "expired"}
Ended    == {"completed", "failed", "expired"}
Points   == {"idle", "scan", "jobs", "next", "lock", "labels", "list", "count", "start"}

Live        == {i \in RunnerIds : runner[i] # NoRunner}
LiveIn(r)   == {i \in Live : runner[i].repo = r}
JobsOf(r)   == {j \in Jobs : RepoOf[RunOf[j]] = r}
NeedsOurs(j) == SelfHosted \in LabelsOf[j]

(* Jobs that getQueuedJobCount counts, whether they have a runner or not.  *)
Active == {j \in Jobs : job[j] \in {"queued", "waiting", "in_progress"} /\ NeedsOurs(j)}

(* GitHub reports a run as queued while jobs wait and none is in progress. *)
Queued(u) ==
  /\ \E j \in Jobs : RunOf[j] = u /\ job[j] = "queued"
  /\ \A j \in Jobs : RunOf[j] = u => job[j] # "in_progress"

(* GetQueuedWorkflowRuns: of the queued runs those with active jobs.  It   *)
(* asks for the jobs of each run and leaves out those for which that fails *)
(* so that it may return any of these.  Its callers ask for the jobs once  *)
(* more; a run for which that fails is as good as left out here.           *)
QueuedRuns(r) ==
  {u \in RunIds : RepoOf[u] = r /\ Queued(u) /\ \E j \in Active : RunOf[j] = u}

Done(u) ==
  /\ \E j \in Jobs : RunOf[j] = u /\ job[j] # "none"
  /\ \A j \in Jobs : RunOf[j] = u => job[j] \in Ended \cup {"none"}

Goto(t, point) == pc' = [pc EXCEPT ![t] = point]

Init ==
  /\ job    = [j \in Jobs |-> "none"]
  /\ told   = {}
  /\ runner = [i \in RunnerIds |-> NoRunner]
  /\ on     = [i \in RunnerIds |-> NoJob]
  /\ rm     = NoRunner
  /\ pc     = [t \in Threads |-> "idle"]
  /\ repo   = [t \in Threads |-> NoRepo]
  /\ want   = [t \in Threads |-> {}]
  /\ seen   = [t \in Threads |-> {}]
  /\ count  = [t \in Threads |-> 0]
  /\ left   = [t \in Threads |-> 0]
  /\ found  = {}
  /\ calls  = 0
  /\ listed = {}
------------------------------------------------------------------------------
(***************************************************************************)
(* GitHub and its runners                                                  *)
(***************************************************************************)
Enqueue(j) ==
  /\ job[j] = "none"
  /\ RunOf[j] \notin told
  /\ job' = [job EXCEPT ![j] = IF j \in Protected THEN "waiting" ELSE "queued"]
  /\ UNCHANGED <<told, fleet, scale, listed>>

Approve(j) ==
  /\ job[j] = "waiting"
  /\ job' = [job EXCEPT ![j] = "queued"]
  /\ UNCHANGED <<told, fleet, scale, listed>>

Take(i, j) ==
  /\ i \in LiveIn(RepoOf[RunOf[j]]) /\ on[i] = NoJob
  /\ job[j] = "queued" /\ LabelsOf[j] \subseteq runner[i].labels
  /\ job' = [job EXCEPT ![j] = "in_progress"]
  /\ on'  = [on EXCEPT ![i] = j]
  /\ UNCHANGED <<told, runner, scale, listed>>

(* A runner is ephemeral: it ends with its job.                            *)
Finish(i) ==
  /\ on[i] # NoJob
  /\ job'    = [job EXCEPT ![on[i]] = "completed"]
  /\ on'     = [on EXCEPT ![i] = NoJob]
  /\ runner' = [runner EXCEPT ![i] = NoRunner]
  /\ UNCHANGED <<told, scale, listed>>

(* Somebody cancels a job that waits, or a hosted one runs.                *)
Leave(j) ==
  /\ job[j] \in {"waiting", "queued"}
  /\ job' = [job EXCEPT ![j] = "completed"]
  /\ UNCHANGED <<told, fleet, scale, listed>>

(* A runner is stopped, and the job that it has ends.                      *)
StopRunner(i, ending) ==
  /\ runner' = [runner EXCEPT ![i] = NoRunner]
  /\ on'     = [on EXCEPT ![i] = NoJob]
  /\ job'    = [j \in Jobs |-> IF j = on[i] THEN ending ELSE job[j]]

(* CleanupOldRunners removes a runner that is too old, busy or not.        *)
ExpireRunner(i) ==
  /\ i \in Live
  /\ StopRunner(i, "expired")
  /\ UNCHANGED <<told, scale, listed>>
------------------------------------------------------------------------------
(***************************************************************************)
(* The workflow completed event: the goroutine of                          *)
(* cleanupRunnersForRepository lists the repository's runners and stops    *)
(* them one by one, whatever they do by then.                              *)
(***************************************************************************)
(* Mutant: an in_progress event starts the cleanup as well.                *)
CompleteStartedRun(u) ==
  /\ Done(u) \/ \E j \in Jobs : RunOf[j] = u /\ job[j] = "in_progress"
  /\ u \notin told
  /\ listed = {}
  /\ told'   = told \cup {u}
  /\ listed' = LiveIn(RepoOf[u])
  /\ UNCHANGED <<job, fleet, scale>>

CompleteRun(u) ==
  /\ Done(u) /\ u \notin told
  /\ listed = {}
  /\ told'   = told \cup {u}
  /\ listed' = LiveIn(RepoOf[u])
  /\ UNCHANGED <<job, fleet, scale>>

CleanRunner(i) ==
  /\ i \in listed
  /\ listed' = listed \ {i}
  /\ StopRunner(i, "failed")
  /\ UNCHANGED <<told, scale>>
------------------------------------------------------------------------------
(***************************************************************************)
(* The job scanner                                                         *)
(***************************************************************************)
(* performScan and scanAllReposForOwner visit the repositories, unless the *)
(* rate limit is low.                                                      *)
Scan(r) ==
  /\ pc[Scanner] = "idle"
  /\ Goto(Scanner, "scan")
  /\ repo' = [repo EXCEPT ![Scanner] = r]
  /\ UNCHANGED <<jobs, fleet, rm, want, seen, count, left, found, calls, listed>>

(* scanRepository: the queued runs.  A failure ends the scan of the        *)
(* repository, and so does a list without runs.                            *)
ScanRuns ==
  /\ pc[Scanner] = "scan"
  /\ \E some \in SUBSET QueuedRuns(repo[Scanner]) : seen' = [seen EXCEPT ![Scanner] = some]
  /\ Goto(Scanner, IF seen'[Scanner] = {} THEN "idle" ELSE "jobs")
  /\ UNCHANGED <<jobs, fleet, rm, repo, want, count, left, found, calls, listed>>

(* Mutant: the scanner looks for self-hosted and not for the architecture. *)
AnyCompatible(j) == NeedsOurs(j)

isJobCompatible(j) == NeedsOurs(j) /\ LabelsOf[j] \cap OtherArch = {}

(* scanRepository: the queued compatible jobs of one of those runs.        *)
ScanJobs(u) ==
  /\ pc[Scanner] = "jobs" /\ u \in seen[Scanner]
  /\ found' = found \cup {j \in Jobs : RunOf[j] = u /\ job[j] = "queued" /\ isJobCompatible(j)}
  /\ seen' = [seen EXCEPT ![Scanner] = @ \ {u}]
  /\ Goto(Scanner, IF seen'[Scanner] # {} THEN "jobs" ELSE IF found' = {} THEN "idle" ELSE "next")
  /\ UNCHANGED <<jobs, fleet, rm, repo, want, count, left, calls, listed>>

(* considerCreatingRunners: one scale-up with the labels of each job.      *)
ConsiderJob(j) ==
  /\ pc[Scanner] = "next" /\ j \in found
  /\ found' = found \ {j}
  /\ want' = [want EXCEPT ![Scanner] = LabelsOf[j]]
  /\ Goto(Scanner, "lock")
  /\ UNCHANGED <<jobs, fleet, rm, repo, seen, count, left, calls, listed>>

(* A queued job event and a poll of the workflow monitor bring the labels  *)
(* of a job, a queued workflow none.                                       *)
Call(t, r) ==
  /\ pc[t] = "idle" /\ t \in Callers
  /\ calls < MaxCalls
  /\ calls' = calls + 1
  /\ Goto(t, "lock")
  /\ repo' = [repo EXCEPT ![t] = r]
  /\ \E labels \in {LabelsOf[j] : j \in Active \cap JobsOf(r)} \cup {{}} :
       want' = [want EXCEPT ![t] = labels]
  /\ UNCHANGED <<jobs, fleet, rm, seen, count, left, found, listed>>
------------------------------------------------------------------------------
(***************************************************************************)
(* ScaleUpWithLabels                                                       *)
(***************************************************************************)
(* Mutant: a return that forgets to unlock rm.mu.                          *)
ReturnLocked(t, rest) ==
  /\ found' = rest
  /\ rm'   = rm
  /\ want' = [want EXCEPT ![t] = {}]
  /\ seen' = [seen EXCEPT ![t] = {}]
  /\ count' = [count EXCEPT ![t] = 0]
  /\ left' = [left EXCEPT ![t] = 0]
  /\ Goto(t, IF t = Scanner /\ rest # {} THEN "next" ELSE "idle")

(* The scanner goes on with its next job, any other caller is done.        *)
Return(t, rest) ==
  /\ found' = rest
  /\ rm'   = NoRunner
  /\ want' = [want EXCEPT ![t] = {}]
  /\ seen' = [seen EXCEPT ![t] = {}]
  /\ count' = [count EXCEPT ![t] = 0]
  /\ left' = [left EXCEPT ![t] = 0]
  /\ Goto(t, IF t = Scanner /\ rest # {} THEN "next" ELSE "idle")

Slots == MaxRunners - Cardinality(Live)

(* There is no room: "max runners reached" also ends the loop of           *)
(* considerCreatingRunners.                                                *)
ReachMaxRunners(t) ==
  /\ pc[t] = "lock" /\ rm = NoRunner
  /\ Slots <= 0
  /\ Return(t, IF t = Scanner THEN {} ELSE found)
  /\ UNCHANGED <<jobs, fleet, repo, calls, listed>>

(* Mutant: the slots are counted without rm.mu.                            *)
CountUnlocked(t) ==
  /\ pc[t] = "lock"
  /\ Slots > 0
  /\ rm' = t
  /\ left' = [left EXCEPT ![t] = Slots]
  /\ Goto(t, "labels")
  /\ UNCHANGED <<jobs, fleet, repo, want, seen, count, found, calls, listed>>

CountSlots(t) ==
  /\ pc[t] = "lock" /\ rm = NoRunner
  /\ Slots > 0
  /\ rm' = t
  /\ left' = [left EXCEPT ![t] = Slots]
  /\ Goto(t, "labels")
  /\ UNCHANGED <<jobs, fleet, repo, want, seen, count, found, calls, listed>>

(* Labels of another architecture are dropped; if none is left, those of   *)
(* the host are added.                                                     *)
validateArchitectureLabels(labels) ==
  LET kept == labels \ (ArchLabels \ HostLabels)
  IN  IF kept \cap ArchLabels = {} THEN kept \cup HostLabels ELSE kept

(* GetQueuedJobLabels: all labels of all queued jobs, hosted ones too, of  *)
(* some runs.                                                              *)
QueuedJobLabels(some) ==
  UNION {LabelsOf[j] : j \in {k \in Jobs : RunOf[k] \in some /\ job[k] = "queued"}}

(* The labels of the request, or those found, or the default ones when     *)
(* there are none or GitHub fails.  The runs whose jobs GitHub does not    *)
(* give are left out.                                                      *)
ChooseLabels(t) ==
  /\ pc[t] = "labels"
  /\ \E detected \in {QueuedJobLabels(some) : some \in SUBSET QueuedRuns(repo[t])} :
       LET labels == IF want[t] # {} THEN want[t]
                     ELSE IF detected # {} THEN detected ELSE DefaultLabels
       IN  want' = [want EXCEPT ![t] = validateArchitectureLabels(labels) \cup OwnerLabels]
  /\ Goto(t, "list")
  /\ UNCHANGED <<jobs, fleet, rm, repo, seen, count, left, found, calls, listed>>

(* getQueuedJobCount asks for the queued runs, and then for the jobs of    *)
(* each; a failure counts as no jobs.                                      *)
ListRuns(t) ==
  /\ pc[t] = "list"
  /\ \E some \in SUBSET QueuedRuns(repo[t]) : seen' = [seen EXCEPT ![t] = some]
  /\ Goto(t, "count")
  /\ UNCHANGED <<jobs, fleet, rm, repo, want, count, left, found, calls, listed>>

CountJobs(t, u) ==
  /\ pc[t] = "count" /\ u \in seen[t]
  /\ count' = [count EXCEPT ![t] = @ + Cardinality({j \in Active : RunOf[j] = u})]
  /\ seen' = [seen EXCEPT ![t] = @ \ {u}]
  /\ UNCHANGED <<jobs, fleet, rm, pc, repo, want, left, found, calls, listed>>

SkipScaleUp(t) ==
  /\ pc[t] = "count" /\ seen[t] = {}
  /\ count[t] = 0
  /\ Return(t, found)
  /\ UNCHANGED <<jobs, fleet, repo, calls, listed>>

(* Mutant: a runner for every job, whatever the room.                      *)
PlanForEveryJob(t) ==
  /\ pc[t] = "count" /\ seen[t] = {}
  /\ count[t] > 0
  /\ left' = [left EXCEPT ![t] = count[t]]
  /\ count' = [count EXCEPT ![t] = 0]
  /\ Goto(t, "start")
  /\ UNCHANGED <<jobs, fleet, rm, repo, want, seen, found, calls, listed>>

PlanRunners(t) ==
  /\ pc[t] = "count" /\ seen[t] = {}
  /\ count[t] > 0
  /\ left' = [left EXCEPT ![t] = IF count[t] < @ THEN count[t] ELSE @]
  /\ count' = [count EXCEPT ![t] = 0]
  /\ Goto(t, "start")
  /\ UNCHANGED <<jobs, fleet, rm, repo, want, seen, found, calls, listed>>

StartRunner(t, i) ==
  /\ pc[t] = "start" /\ i \notin Live \cup listed
  /\ runner' = [runner EXCEPT ![i] = [repo |-> repo[t], labels |-> want[t]]]
  /\ IF left[t] = 1
     THEN Return(t, found)
     ELSE left' = [left EXCEPT ![t] = @ - 1] /\ UNCHANGED <<rm, pc, want, seen, count, found>>
  /\ UNCHANGED <<jobs, on, repo, calls, listed>>

(* The runtime fails to start a runner: the rest is left for a retry.      *)
BreakStart(t) ==
  /\ pc[t] = "start"
  /\ Return(t, found)
  /\ UNCHANGED <<jobs, fleet, repo, calls, listed>>
------------------------------------------------------------------------------
ScaleUp(t) ==
  \/ ReachMaxRunners(t) \/ CountSlots(t) \/ ChooseLabels(t) \/ ListRuns(t)
  \/ \E u \in RunIds : CountJobs(t, u)
  \/ SkipScaleUp(t) \/ PlanRunners(t) \/ BreakStart(t)
  \/ \E i \in RunnerIds : StartRunner(t, i)

ScanSteps ==
  \/ \E r \in Repos : Scan(r)
  \/ ScanRuns
  \/ \E u \in RunIds : ScanJobs(u)
  \/ \E j \in Jobs : ConsiderJob(j)

Next ==
  \/ \E j \in Jobs : Enqueue(j) \/ Approve(j) \/ Leave(j)
  \/ \E i \in RunnerIds, j \in Jobs : Take(i, j)
  \/ \E i \in RunnerIds : Finish(i) \/ ExpireRunner(i) \/ CleanRunner(i)
  \/ \E u \in RunIds : CompleteRun(u)
  \/ ScanSteps
  \/ \E t \in Callers, r \in Repos : Call(t, r)
  \/ \E t \in Threads : ScaleUp(t)

Spec == Init /\ [][Next]_vars

(* Calls of GitHub and of the runtime return, and do not fail for ever.    *)
(* GitHub gives a job to a fitting runner long before the runner is old;   *)
(* jobs end and idle runners expire.  Calls of others are finitely many,   *)
(* so that the scanner gets rm.mu.                                         *)
Fairness ==
  /\ \A r \in Repos : WF_vars(Scan(r))
  /\ WF_vars(ScanSteps)
  /\ SF_vars(ScanRuns /\ seen'[Scanner] = QueuedRuns(repo[Scanner]))
  /\ \A t \in Threads : WF_vars(ScaleUp(t))
  /\ SF_vars(ListRuns(Scanner) /\ seen'[Scanner] = QueuedRuns(repo[Scanner]))
  /\ SF_vars(\E i \in RunnerIds : StartRunner(Scanner, i))
  /\ \A j \in Jobs : SF_vars(\E i \in RunnerIds : Take(i, j))
  /\ \A i \in RunnerIds : WF_vars(Finish(i)) /\ WF_vars(CleanRunner(i)) /\ WF_vars(ExpireRunner(i))

FairSpec == Spec /\ Fairness
------------------------------------------------------------------------------
TypeOK ==
  /\ job \in [Jobs -> Statuses]
  /\ told \subseteq RunIds
  /\ runner \in [RunnerIds -> Runners \cup {NoRunner}]
  /\ on \in [RunnerIds -> Jobs \cup {NoJob}]
  /\ \A i \in RunnerIds : on[i] # NoJob => i \in Live /\ job[on[i]] = "in_progress"
  /\ rm \in Threads \cup {NoRunner}
  /\ pc \in [Threads -> Points]
  /\ repo \in [Threads -> Repos \cup {NoRepo}]
  /\ want \in [Threads -> SUBSET AllLabels]
  /\ seen \in [Threads -> SUBSET RunIds]
  /\ count \in [Threads -> Nat]
  /\ left \in [Threads -> 0..MaxRunners]
  /\ found \subseteq Jobs
  /\ calls \in 0..MaxCalls
  /\ listed \subseteq RunnerIds

(* The owner never has more runners than its limit, although callers count *)
(* jobs that have runners already and each starts one for every job.       *)
Capacity == Cardinality(Live) <= MaxRunners

(* The same promise that RunnerManager keeps for all owners, for the one   *)
(* of this module: seen as the owner's pool, the runners are admitted one  *)
(* by one and below the limit, by whoever holds rm.mu, and leave at any    *)
(* time.                                                                   *)
Pool == INSTANCE OwnerPool WITH
  Owners     <- {"owner"},
  MaxRunners <- [o \in {"owner"} |-> MaxRunners],
  pool       <- [o \in {"owner"} |-> Live]

ImplementsOwnerPool == Pool!Spec

(* A job fails under the cleanup of a completed workflow only when another *)
(* run of its repository completed: the cleanup of a run never hits a job  *)
(* of that run, and hits others because it stops whatever it has listed.   *)
FailuresNeedAnotherRun ==
  \A j \in Jobs : job[j] = "failed" =>
    \E u \in told \ {RunOf[j]} : RepoOf[u] = RepoOf[RunOf[j]]

(* Labels of another architecture that extractArchitecture does not know   *)
(* (aarch64, x86_64): validateArchitectureLabels drops them all the same.  *)
Unrecognised == ArchLabels \ (HostLabels \cup OtherArch)

(* The scanner and the manager agree about architectures, but for such     *)
(* labels: all others of a job that the scanner takes for compatible       *)
(* survive the validation, so the runner started for it can have it.       *)
ScannerKeepsLabels ==
  [][pc[Scanner] = "labels" /\ pc'[Scanner] = "list"
       => want[Scanner] \ Unrecognised \subseteq want'[Scanner]]_vars

(* A queued compatible job is run or leaves the queue, whatever events are *)
(* lost, however many runners with other labels other calls start, and     *)
(* although GitHub and the runtime fail now and then.  With a job that has *)
(* an unrecognised label, the scanner goes on starting runners that no job *)
(* fits, and they may take the room of all others.                         *)
CompatibleJobsRun ==
  (\A j \in Jobs : LabelsOf[j] \cap Unrecognised = {}) =>
    \A j \in Jobs : isJobCompatible(j) => (job[j] = "queued" ~> job[j] # "queued")

(* manager.go:149 says that no more runners are started than needed: when  *)
(* a call has counted the jobs of the last run, the runners that it will   *)
(* start and the idle ones that could have one of the repository's jobs    *)
(* are no more than the jobs that have no runner yet.                      *)
NoMoreThanNeeded ==
  [][\A t \in Threads : pc[t] = "count" /\ seen[t] # {} /\ seen'[t] = {} =>
       LET waiting == {j \in JobsOf(repo[t]) \cap Active : job[j] # "in_progress"}
           spare   == {i \in LiveIn(repo[t]) :
                         on[i] = NoJob /\ \E j \in waiting : LabelsOf[j] \subseteq runner[i].labels}
           starts  == IF count'[t] < left[t] THEN count'[t] ELSE left[t]
       IN  starts + Cardinality(spare) <= Cardinality(waiting)]_vars
==============================================================================
