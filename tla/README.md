# Verification of gha-webhook-scaler

The program is an autoscaler for self-hosted GitHub Actions runners, written in
Go.  It receives GitHub webhooks, polls workflow runs and scans repositories,
and starts ephemeral runners (Docker containers or Kubernetes pods) for every
configured owner, up to a limit per owner.  This directory holds TLA+ models of
it, the TLC runs that check them and TLAPS proofs about them.

All paths below are relative to the root of the repository.

## 1. Inventory

| Component | Source | State it keeps | Operations |
|---|---|---|---|
| Runner manager | `internal/runner/manager.go` | `rm.mu`, metrics, a limiter of one start per second | ScaleUpWithLabels, ProcessPendingRequests, HandleWorkflowCompleted, cleanupOldRunners, cleanupRunnersForRepository, generateRunnerName, getOwnerFromRunnerName |
| Queue memory | `internal/runner/queue_memory.go` | at most one pending request per repository, `qm.mu` | Add, Remove, Get, ShouldRetry, UpdateRetryCount |
| Configuration | `internal/config` | owners (a map), limits, labels; constant after start | GetOwnerForRepo, IsRepoAllowed, GetEffectiveMaxRunners |
| Runtimes | `internal/runtime` | none of their own: containers, pods, images, volumes | start, list, stop, clean up old / completed / images |
| Webhook handler, debouncer | `internal/webhook/handler.go` | grouped events with a timer each, `wd.mu` | HandleWebhook, debounceEvent, handlers per event |
| Workflow monitor | `internal/webhook/workflow_monitor.go` | monitored runs with poll counts, `wm.mu` | StartMonitoring, StopMonitoring, UpdateWorkflowStatus, pollActiveWorkflows |
| Job scanner | `internal/scanner/job_scanner.go` | metrics, `js.mu` held for a whole scan | performScan, considerCreatingRunners |
| GitHub client | `internal/github/client.go` | remaining calls, reset time, time of the last call | one method per endpoint, checkRateLimit, MakeRequestWithBackoff |
| Webhook manager | `internal/webhook/manager.go` | none; GitHub's hooks | EnsureWebhook, CleanupOldWebhooks, set-up of all repositories |
| Webhook endpoints | `internal/webhook/endpoints.go` | none | request handlers, none of them routed |
| Application | `cmd/autoscaler/main.go` | the goroutines | Start, Shutdown |

**How they interact.**  Webhook handlers, the monitor's poll and the scanner's
scan call `ScaleUpWithLabels`, which holds `rm.mu` from its list of the runners
to its last start, GitHub and runtime calls included.  When an owner is full or
a start fails, the request goes to the queue memory.  A completed workflow stops
the runners of its repository in a goroutine of its own; a ticker sweeps
completed and old runners every five minutes.  A cleanup that saw runners go
starts `ProcessPendingRequests` in another goroutine, which calls
`ScaleUpWithLabels` again.  None of the cleanups takes `rm.mu`.  Lock order:
`wd.mu`, `js.mu` before `rm.mu`, `rm.mu` before `qm.mu` and the client's mutex.
When an instance starts it sets up the webhooks of every owner, with a client of
its own, next to other instances that do the same.  GitHub, the container daemon
and the API server of the cluster are shared by all of this and by others.

**What is hard.**  The number of runners is read from the runtime and changes
while it is used; the owner of a runner is read back from a shortened name; the
queue memory is updated in three steps that other goroutines can separate;
every API call can fail; everything but the runners is lost in a restart.

**What makes each part correct.**

- Runner manager: no owner exceeds its limit; every call returns; a start that
  fails leaves its remainder behind for a retry.
- Queue memory: a request whose owner is full is not lost; a request that is
  ready is retried; a request is retried at most five times; it is seen when its
  owner has room.
- Names: each runner is attributed to its owner.
- Runtimes: a pod at work is not stopped by housekeeping; images and claims in
  use stay; runners that nobody needs go.
- Debouncer: a group of events closes once, and every request is answered.
- Monitor: a run is forgotten for a reason, and a completed one is forgotten.
- Scanner and job counting: a job that the host can run gets a runner.
- GitHub client: the reserve of the quota is left alone.
- Webhook manager: a repository that was set up has an active hook with the
  configured events, it never loses it again, and there is one of it, whoever
  sets it up.  The secret of a hook is written with it and never compared
  afterwards (finding 5).

The hazards behind these properties are listed in `PROJECT.json`, each at its
line, with the properties that cover it or the reason why none does.

## 2. Plan

| Module | Models | Composes or uses |
|---|---|---|
| `OwnerPool` | what the scaler promises about capacity | |
| `RunnerManager` | manager and queue memory, all goroutines, crashes | implements `OwnerPool` |
| `RetryHistory` | the number of retries of a request | extends `RunnerManager` |
| `RunnerNames` | writing the owner into a name and reading it back | with `RunnerManager` in `NamedOwners` |
| `NamedOwners` | the manager with the attribution that the names give | extends `RunnerManager`, uses `RunnerNames` |
| `EventGroups` | what the debouncer promises | |
| `WebhookIntake` | requests, debouncer, handlers, monitor and `rm.mu` between them | implements `EventGroups` |
| `Provisioning` | scanner, scale-ups and the jobs, runs and runners of GitHub | implements `OwnerPool` |
| `DockerRuntime`, `KubernetesRuntime` | starts, stops and sweeps, call by call | |
| `Runtimes` | the runtime that is configured, under the manager's goroutines | both of them |
| `GitHubClient` | the quota of a token and what its clients know of it | |
| `WebhookSetup` | the set-up of webhooks by several instances | extends `GitHubClient` |
| `RunnerManagerProofs`, `WebhookIntakeProofs`, `ProvisioningProofs`, `RuntimesProofs`, `WebhookSetupProofs`, `RunnerNamesProofs`, `NamedOwnersProofs` | invariants, action properties and refinements, proved | each extends the module it is named after |

What is left: a shared GitHub client with several callers (order of answers,
the two minutes' wait under its mutex); the shutdown of the application next to
scale-ups in flight; a second attempt of a run in the instance of
`WebhookIntake`.  The instance of `RunnerNames` for TLC is inside that of
`NamedOwners`: the configuration is loaded first, and the manager runs with it.

## 3. What is modelled

### RunnerManager

Each goroutine has a program counter whose values are the points between two
actions: outside the manager (`"idle"`), waiting for `rm.mu` (`"lock"`), inside
`ScaleUpWithLabels` (`"list"`, `"count"`, `"start"`), inside
`ProcessPendingRequests` (`"snapshot"`, `"next"`, `"update"`, `"remove"`,
`"readd"`), or inside a cleanup (`"cleanup"`; `"completed"`, `"old"`,
`"after"`).  One action is one call to the runtime or to GitHub, or one critical
section of `qm.mu`, together with the local computation that follows it.

| Variables | In the code |
|---|---|
| `runner`, `done` | what `GetRunningRunners` lists; `done` are listed runners that have ended (failed pods, pods in their grace period) |
| `pending` | `qm.pendingRequests`: job count, retry count, and whether thirty seconds have passed since `LastRetryAt` |
| `mu` | the holder of `rm.mu` |
| `repo`, `slots`, `queued`, `started` | `repoFullName`, `availableSlots`, `queuedJobCount`, `startedCount` |
| `retry`, `batch` | whether `ProcessPendingRequests` made the call; the requests of its snapshot that are left |
| `listed`, `tally` | the list of a cleanup; `cleanedCount` or `countBefore` |

`ScaleUpWithLabels`: `CallScaleUp`, `Lock`, `FailScaleUp`, `CountRunners`,
`ReachMaxRunners`, `SkipScaleUp`, `PlanScaleUp`, `StartRunner`,
`BreakScaleUp`; `Return` is the common return.  `ProcessPendingRequests`:
`GetPendingRequests`, `SkipRequest`, `TakeRequest`, `UpdateRetryCount`,
`RemovePendingRequest`, `ReAddRequest`, `EndProcessing`.  Cleanups:
`CallWorkflowCompleted`, `CleanRunner`, `MissRunner`, `EndCleanup`;
`StartSweep`, `CleanupCompletedRunners`, `CleanupOldRunners`, `EndSweep`.
Environment: `ExitRunner`, `LingerRunner`, `CoolDown`, `Restart`.

The number of jobs is whatever GitHub answers, 0 when it fails.  Old runners are
runners of any age, as there is no clock.  `AttributedTo` says which owners
`getOwnerFromRunnerName` may answer for a runner of an owner; when there are
several, the count of an owner is any number that the possible answers give.
A restart may happen anywhere and leaves only the runners.

Left out: labels, names, metrics and log lines, which no condition here reads;
`GetStatus` and the other read-only calls; `ScaleDown`, which nobody calls; a
start that the runtime completes after the autoscaler crashed during the call,
or completes although it reported an error (such a runner is not counted against
the limit at that instant, so capacity below is about calls that say what they
did).  `OwnerOf` may be `NoOwner` in the model; every caller has checked
`IsRepoAllowed` or takes the owner from the configuration, so the instances have
no such repository.

### OwnerPool

Every owner has a pool; a runner is admitted only while the pool is below the
limit; runners leave at any time.  `RunnerManager` implements it with
`pool[o]` as the runners of the repositories of `o`, and `Provisioning` with one
owner whose pool are the live runners.

### RunnerNames

Names are sequences of characters, `TruncatedOwner` is what
`generateRunnerName` writes (`owner[:6]` in lower case), `SecondPart` is
`parts[1]` of the split name, `Matches` are the configured owners that the
prefix search over the Go map may return.  `LoadOwner` is the loop of
`loadOwnerConfig`, so every configuration is reached.

### NamedOwners

`RunnerManager` with owners that have names: `AttributedByName` is what
`RunnerNames` reads back for the runners of each owner, and `NoOwner` when no
configured owner matches.  `OwnersDiffer` is the condition on the configured
names under which the limits are proved.

### RetryHistory

`RunnerManager` with one more variable, the number of retries of a repository's
request since anybody asked for runners for it.

### EventGroups and WebhookIntake

`EventGroups` is the debouncer without timers: an event joins the open group of
its key or opens one, a group closes once, by the handling of its first event.

`WebhookIntake` has a goroutine for every request, for every timer callback and
for the monitor.

| Variables | In the code |
|---|---|
| `phase`, `attempt`, `at` | the runs of GitHub; how far the request of each event is |
| `group` | `wd.events`: the event whose handler it keeps and the one that set its timer |
| `timer` | the timer of each debounced event: armed, stopped, its callback waiting for `wd.mu`, done |
| `handling`, `step` | the handler that runs under `wd.mu` and where it is |
| `rm` | the holder of `rm.mu`, for whom a scale-up only takes time |
| `entry`, `polls` | `activeWorkflows`, each entry named by the event that added it, and `pollCount` |
| `todo`, `found`, `mpc` | the copied list of a poll; the jobs that a poll found and has still to scale up for; where the monitor is |

`Receive` is `HandleWebhook` up to the check of the signature; it waits for
`rm.mu` because of `IncrementWebhookCount`.  `Debounce` is `debounceEvent`,
`Callback` the function of its timer, which takes whatever group it finds.
`HandleEvent` is the handler of the kept event up to its call of the manager;
the events of one group are of one key and not of one run, so the run that is
started or stopped may not be the one of the latest event.
`UpdateWorkflowStatus` goes by the status in the payload, which `Final` gives
for each event, and not by its action.  `Tick`, `Poll`, `GiveUp` and `EndPolls`
are `pollActiveWorkflows`; a poll finds any number of jobs up to `MaxJobs`,
queued, waiting and running ones alike, and scales up for one after the other.
`StopMonitoring` names a run and not an entry, so a stale poll may end the
monitoring of a re-run.  GitHub sends events in the order of the run and may
lose or reorder them.

### Provisioning

One owner, whose scanner, event handlers and monitor call `ScaleUpWithLabels`
for jobs that GitHub gives to fitting runners meanwhile.  `job`, `told` are
GitHub's; `runner`, `on` the runners, their labels and jobs; `rm`, `pc`, `repo`,
`want`, `seen`, `count`, `left` the state of each goroutine in `ScaleUpWithLabels`
(`want` are its labels, `seen` the runs that `GetQueuedWorkflowRuns` has
returned and whose jobs have still to be asked for, `count` the jobs counted so
far, `left` the slots and then the starts to come); `found` are the jobs
that the scan has still to ask runners for; `listed` the runners that
`cleanupRunnersForRepository` has still to stop.  The list of runs and the jobs
of each run are separate steps, as in the code (`ScanRuns` and `ScanJobs`,
`ListRuns` and `CountJobs`).  A run for which a call fails is skipped by the
code; the model leaves it out of the list, which may thus be any part of the
queued runs, or none.  Jobs in `Protected` are `"waiting"` until they are
approved: they count as active, but no runner can take them.  Requests that find
no room are dropped: the queue memory is in `RunnerManager`.

### DockerRuntime, KubernetesRuntime, Runtimes

A step is one call of the daemon or of the API server.  A scale-up
(`startPc`), the cleanup ticker (`sweepPc`, with `todo`, the list it works on)
and those that stop a runner share containers or pods, images or claims.
`Runtimes` chooses one of the two and states fairness and `StaleRunnersRemoved`
for both.

Docker: `box` are the containers, jobs' ones included, `images` the images;
`unused`, `removed`, `failed` are `unusedImages` of `CleanupImages`, what it has
removed and what it could not remove.  The list of containers may fail and then
no image counts as used; the daemon itself refuses to remove one that is, and
prunes untagged parents of one that it removes (`removeImage`, docker.go:560);
which ones is left open.
`ExcessFinalImages` is the arithmetic of docker.go:480-497.  Kubernetes: a pod
carries its phase together with the last line its runner logged, as that is what
`isRunnerIdle` reads; `checked` is the pod whose logs were read, `claim` the
cache claims by architecture, with the protection of claims that scheduled pods
use; `took` and `counted` record what happened since the logs and the list of
pods were read.

### GitHubClient and WebhookSetup

`GitHubClient` keeps what the clients of a token have taken from the last ten
requests of its quota (`taken`), and which of them have been told (`low`).
`WebhookSetup` is `AutoSetupWebhookForOwner` of several instances: `pc` is the
call that an instance makes next, `todo` and `repo` the repositories to come and
at hand, `doomed` and `found` what `CleanupOldWebhooks` and `EnsureWebhook` have
read from GitHub's `hooks`.  A hook of ours is `"bad"` (inactive or with other
events), or it is accepted by `EnsureWebhook` and has no secret (`"unset"`), that
of an earlier configuration (`"stale"`) or the owner's (`"good"`).
The owner has a secret, so that only the last kind is as configured.  Any call
may be refused or fail (`FailCall`), also because its requests exhaust the quota
(`Exhaust`), or be performed and lose its answer (`LoseCall`).  A creation, an
update or a deletion whose caller has given up may be performed later, or never
(`late` and `stray`, `CreateLate` and `ChangeLate`).  `HasSelfHostedRunners`
reads one or two workflow files, and goes on after one that it could not read.
`AfterFailure` says where the code goes on.  `served`, `tidy` and `overlap` are
history for the properties.

## 4. Runs

| Run | Shows |
|---|---|
| `runner_manager` | `TypeOK`, `OwnerCapacity`, `CapacityInv`, `RetriesInFlight`, `FullOwnersKeepRequests`, `ImplementsOwnerPool` hold |
| `runner_manager_live` | `CallsReturn`, `PassesTakeReadyRequests` hold under `Fairness` |
| `named_owners` | `OwnRunnersMatch`, `ExactUnlessAlike` hold for all configurations of two short names, and `OwnerCapacity` and `ImplementsOwnerPool` for two owners, with the attribution computed from their names |
| `capital_owner` | `OwnerCapacity` is violated for the owner `Octocat` |
| `retry_limit` | `RetryLimit` is violated |
| `pending_checked` | `PendingCheckedWhenRoom` is violated |
| `webhook_intake` | `TypeOK`, `OpenGroupsHaveTimers`, `OneScaleUp`, `ImplementsEventGroups`, `DroppedOnlyAfterMaxPolls` hold, and `RequestsAnswered`, `GroupsClose`, `CompletedRunsForgotten` under `Fairness` |
| `provisioning` | `TypeOK`, `Capacity`, `FailuresNeedAnotherRun`, `ImplementsOwnerPool`, `ScannerKeepsLabels` hold, and `CompatibleJobsRun` under `Fairness` |
| `no_more_than_needed` | `NoMoreThanNeeded` is violated |
| `runtimes` | `TypeOK`, `ImagesInUseStay`, `FewUnusedImagesLeft`, `YoungImagesGoLast`, `OldCleanupSparesWork`, `ClaimsInUseStay` hold for both runtimes, and `StaleRunnersRemoved` under `Fairness` |
| `webhook_setup` | `TypeOK`, `SuccessMeansHook`, `OneHook`, `ReserveKept`, `HookNeverLost` hold, and `SetupsEnd` under `Fairness` |
| `stale_secret` | `UpdatedIfChanged` is violated |

**Bounds.**  Two goroutines are enough for every pair of operations to overlap
(a third would only wait for `rm.mu` or repeat a pass).  Three identifiers with
a limit of two make the limit reachable and passable: a fault would have an
identifier to break it with.  `MaxJobs` of two lets a start loop break in the
middle and lets jobs exceed or fall short of the slots.  Two repositories of one
owner compete for its slots and give a pass two requests.  The liveness run
needs a state graph that TLC can search for cycles, hence one identifier and one
job.  The names are up to three characters cut at two, with a capital and a dash
among them, so that names agree or differ within and beyond the cut and before
and after a dash.  The manager then runs with two of these owners, which differ
in the second character only, the last that is kept; `capital_owner` uses the
code's cut of six.

`webhook_intake` sends five events: a run is queued, announces a job, starts and
completes, and a push to another repository has a wrong signature; each is sent
once, in the order of the run, received in any order, or lost.  One poll per
entry lets the limit be reached while another poll's list is stale, and two jobs
per poll let others take `rm.mu` between its scale-ups.  A second
attempt of the run makes the instance too large for the liveness properties; the
safety properties are proved for any number of attempts.

`provisioning` has two jobs that need the same labels and one of another
architecture, for which an event or the monitor starts a useless runner that
takes the only slot.  With two identifiers and one slot a limit that is passed
shows.  One of the first two jobs waits for an approval before it is queued.
`no_more_than_needed` has only the run of these two, and two slots.

`runtimes` has two runners (one may be any other container of the host), four
images (old, aged runner image, new, and an intermediate one) with room for one
unused, and one architecture.  Two of everything are enough for one to be
listed and another to appear before the list is used.  Both values of
`KeepIntermediateImages` are initial states.

`webhook_setup` has two instances, three starts, one lost answer (the request may
be performed at once, late or never) and one repository, since nothing but the
quota connects repositories.  The reserve is four requests, so that the quota's
end is met, and a check of the scopes takes at most two: the three unchecked
requests of the code are one.  A hook of another service, one of ours with
another secret, and one of ours with other events followed by a duplicate
without a secret are the initial hooks.  A classic token sets up all
repositories, with the cleanup or without, a fine-grained one a single
repository with the cleanup.  `stale_secret` needs one instance and one start.

**Symmetry** is used in the safety runs of `RunnerManager` only.  The deadlock
check is off where the system may stop: a configuration that is loaded and that
the manager does not run with stays as it is (`named_owners`); events, jobs,
calls and starts are finitely many
(`webhook_intake`, `provisioning`, `no_more_than_needed`, `webhook_setup`,
`stale_secret`); in `runtimes` the sweep repeats and nothing else has to.

**Fairness.**  `Proceed(g)` is weakly fair because the calls inside the manager
return (the HTTP client has a timeout and the runtime clients return).  `Lock(g)`
is strongly fair because `sync.RWMutex` hands itself to a waiting goroutine when
others keep taking it.  `StartSweep` and `CoolDown` are weakly fair because the
ticker and the clock go on.  No fairness is given to events, to jobs, to runners
that end or to a particular outcome of a call.

`WebhookIntake`: calls return and timers fire (weak); `TakeManager` is strongly
fair as a whole, so that somebody gets `rm.mu`, and everybody in the end because
requests, callbacks and polls are finitely many.  Nothing makes GitHub send or
deliver an event.

`Provisioning`: the scans go on, calls return, jobs end and runners expire
(weak).  The scanner's list of runs, the list of its scale-ups and its start are
strongly fair with their good outcome, in which no run is left out: GitHub and
the runtime do not fail for ever.  So is the job
that GitHub gives to a fitting runner that is offered to it again and again,
which is what GitHub does within seconds, while runners are too old after an
hour.  That the scans go on assumes that the scanner is enabled, and it is off by
default (`JOB_SCAN_INTERVAL_SECONDS`, config.go:86, job_scanner.go:61): without
it, a job whose events find no room or a failing call gets no runner.
`CompatibleJobsRun` also assumes that no other job names an architecture that
`extractArchitecture` does not know; runners for such a job could take the room
of all others.

`Runtimes`: the ticker goes on and pods that are deleted vanish (weak), and
failures of the sweep's calls end at some point.  `WebhookSetup`: an instance
goes on until it crashes (weak).

## 5. Findings

1. *An owner with a capital letter has no limit* (`capital_owner`).  Names carry
   the owner in lower case, the lookup compares with the configured spelling, so
   no runner counts for the owner.  README.md:281 promises the limit.
   `ExactUnlessAlike` says precisely which configurations are affected.
2. *The limit of five retries does not exist* (`retry_limit`).  A retry removes
   the request and whoever adds it back starts from zero (queue_memory.go:48
   against the comment at queue_memory.go:96).  `RetriesInFlight`, proved below,
   says why: the count is at most the number of passes in flight.
3. *Room alone does not get a pending request retried* (`pending_checked`).
   Passes follow only a cleanup that itself saw runners go (manager.go:402,
   manager.go:440), so a request that waits because a start failed, with an
   empty pool, waits for ever, against manager.go:769 and the log line "(will
   retry)" at manager.go:199.
4. *More runners are planned than jobs wait* (`no_more_than_needed`).
   `getQueuedJobCount` counts jobs that wait, that are queued and that runners
   have already (manager.go:751), and nobody deducts the idle runners of the
   repository, against the comment at manager.go:149.  In the run one job is
   queued and an idle runner that fits it is there when a second scale-up plans
   one more.  `Capacity` bounds the damage.
5. *A hook with another secret is not updated* (`stale_secret`).  GitHub shows
   asterisks for a secret and nothing for none, and `EnsureWebhook` accepts both
   (manager.go:332-335 of `internal/webhook`), so that a hook keeps the secret of
   an earlier configuration and the repository counts as set up, against
   README.md:98 ("Updates existing webhooks if configuration changes").  The
   handler then answers every delivery with 401 (handler.go:105).  What a success
   does mean is `SuccessMeansHook`.

Two more observations, for which there is no run.  A completed event that joins
a group opened by an earlier event is never handled (handler.go:145), so the
monitor goes on polling for jobs of a run that has ended until its polls are
used up, and the cleanup of that run is not made; `CompletedRunsForgotten` shows
that the limit of polls is what ends it.  `cleanupUnusedPVCs` announces a second
check ("Double-check: wait a bit and check again", kubernetes.go:1108) and makes
none; `ClaimsInUseStay` says what can still not go wrong.

## 6. Proofs

Every invariant that a passing run checks, every action property without
liveness and the refinements are theorems of the specification.  They
hold for all values of the constants that satisfy the assumptions of the
modules, which TLC evaluates in the runs.  `NamesAssumption`, about the names of
owners, is a hypothesis of the theorems that need it.

| Module | Theorem | Statement |
|---|---|---|
| `RunnerManagerProofs` | `TypeCorrect` | `Spec => []TypeOK` |
| | `Control` | `Spec => []ControlInv` |
| | `Capacity` | `ExactAttribution` implies `Spec => []CapacityInv` |
| | `LimitsHold` | `ExactAttribution` implies `Spec => []OwnerCapacity` |
| | `Refinement` | `ExactAttribution` implies `Spec => ImplementsOwnerPool` |
| | `RetriesBounded` | `Spec => []RetriesInFlight` |
| | `RequestsNotLost` | `Spec => FullOwnersKeepRequests` |
| `WebhookIntakeProofs` | `TypeCorrect` | `Spec => []TypeOK` |
| | `OpenGroupsAlwaysHaveTimers` | `Spec => []OpenGroupsHaveTimers` |
| | `ScaleUpsExclude` | `Spec => []OneScaleUp` |
| | `DroppedForAReason` | `Spec => DroppedOnlyAfterMaxPolls` |
| | `DebouncerImplementsEventGroups` | `Spec => ImplementsEventGroups` |
| `ProvisioningProofs` | `TypeCorrect` | `Spec => []TypeOK` |
| | `LimitHolds` | `Spec => []Capacity` |
| | `Refinement` | `Spec => ImplementsOwnerPool` |
| | `OnlyOthersFail` | `Spec => []FailuresNeedAnotherRun` |
| | `LabelsSurvive` | `Spec => ScannerKeepsLabels` |
| `RuntimesProofs` | `TypeCorrect` | `Spec => []TypeOK` |
| | `ContainersKeepImages` | `Spec => []ImagesInUseStay` |
| | `YoungestGoLast` | `Spec => YoungImagesGoLast` |
| | `FewImagesLeft` | `Spec => FewUnusedImagesLeft` |
| | `OnlyIdlePodsCleaned` | `Spec => OldCleanupSparesWork` |
| | `UsedClaimsStay` | `Spec => ClaimsInUseStay` |
| `WebhookSetupProofs` | `TypeCorrect` | `Spec => []TypeOK` |
| | `SuccessLasts` | `Spec => []SuccessMeansHook` |
| | `OurHookStays` | `Spec => HookNeverLost` |
| | `OneHookRemains` | `Spec => []OneHook` |
| | `ReserveIsKept` | `Spec => []ReserveKept` |
| `RunnerNamesProofs` | `OwnRunnersFound` | `NamesAssumption` implies `Spec => []OwnRunnersMatch` |
| | `AttributionExact` | `NamesAssumption` implies `Spec => []ExactUnlessAlike` |
| `NamedOwnersProofs` | `NamedOwnersKeepLimits` | `OwnersDiffer` implies `Spec => []OwnerCapacity` |
| | `NamedOwnersArePools` | `OwnersDiffer` implies `Spec => ImplementsOwnerPool` |

### RunnerManager

Assumed are `ConstantsAssumption` (the constants have their types, goroutines
and identifiers are finitely many) and `NoRequestAssumption`.

*Types and control.*  `TypeOK` is not inductive: the remainder that
`BreakScaleUp` remembers is a job count only because a goroutine in the start
loop has a job left, and a re-added request has one only because it is still in
its pass's snapshot.  `ControlInv` adds exactly these facts (`StartsPlanned`,
`CarriedInBatch`), that a goroutine inside `ScaleUpWithLabels` holds the lock
(`InsideHoldsLock`), and that one at work has a repository (`WorksForRepo`).

*Capacity.*  `OwnerCapacity` alone says nothing about what was counted.
`ReservedCapacity` does: the runners of the owner plus the slots not yet used
stay within the limit while the lock is held.  The lemmas split all steps into
three kinds: the count, which reserves exactly what is left (`ExactCounts`,
`CountingKeepsCapacity`); a start, which uses one reservation
(`StartingBelowLimit`, `StartingKeepsCapacity`); and all the others, which only
end runners and reserve nothing (`RunnersEnd`, `ReservationsKept`,
`EndingKeepsCapacity`).  The same split gives the refinement: a start admits,
every other step retires.

`ExactAttribution` is a real assumption, not a technicality: `capital_owner`
violates the limit without it, and `AttributionExact` says when it holds.

*Retries.*  A step either keeps the retry count and the set of passes that are
about to remove the request, or sets the count to zero, or is `UpdateRetryCount`,
which adds one to both.

*Requests.*  `FullOwnersKeepRequests` follows from `ControlInv` step by step
(`RequestsKept`).  A removal is made by a pass that carries the request from
then on; a pass lets go of what it carries when it has put it back, or returns
from `ScaleUpWithLabels` where the property allows it.  Whoever else adds,
updates or removes a request of the same repository meanwhile, it is at each
step pending or carried.  No exact attribution is needed.

### WebhookIntake

Assumed is `IntakeAssumption`; runs, repositories, events, attempts and limits
are arbitrary.

*Groups and timers.*  `OpenGroupsHaveTimers` is not inductive: a timer of one
key must not close the group of another (`GroupsAreOfOneKey`), a timer exists
only for an event whose request was answered, so that no event is debounced
twice (`TimersOfAnswered`), and a handled event had its timer
(`HandledHadTimers`).  Together with the types these are `DebouncerInv`, kept by
every action of requests and timers and untouched by the rest.  The refinement
follows from it: `Debounce` is an `Accept`, `Callback` a `Handle` if it finds a
group, and everything else leaves `leader`, `joined` and `handled` alone.

*The lock.*  `OneScaleUp` needs that a handler in a step of its own is one whose
event is being handled (`HandlerIsBusy`), with which `HolderInv` is inductive.

### Provisioning

Assumed is `ProvisioningAssumption`: identifiers of runners are finitely many, a
job names no two architectures of which one fits the host, the null values are
no values.  Jobs, runs, labels and goroutines may be infinitely many.

*Types.*  `count` is a number because only finitely many jobs exist
at a time, and a runner's job is in progress because no job has two runners
(`JobsInOrder`); a goroutine past the count holds `rm.mu` and has something left
to start (`Working`).

*Capacity and refinement.*  `RoomInv`: the live runners plus what the holder of
`rm.mu` still starts stay within the limit.  A start is thus an admission to the
pool of `OwnerPool` that has room, and every other step a retirement.

*Failed jobs.*  A cleanup stops whatever it has listed, and the run it was made
for has no job left when it lists.  `FailInv` says so of all told runs, and that
the listed runners that are still live are of the repository of one told run.
A job of that run is over, so the job that fails belongs to another one.

*Labels.*  What the scanner wants when it asks for a scale-up are the labels of
a compatible job (`ScannerInv`), which has no label of `OtherArch`.  What
`validateArchitectureLabels` then drops is of `Unrecognised`.

### Runtimes

Assumed is `RuntimesAssumption`: a host has finitely many images, each built at
a time of its own.  Containers, pods and architectures may be infinitely many.
The invariant `RuntimesInv` has one part per runtime and `ImagesInUseStay`.

*Images.*  Lists are empty before they are made, and what a sweep removes it
listed (`ListsInOrder`); a container that is about to start is not on the list
of old ones (`StartInOrder`).  Before the excess is counted only aged images are
on the list (`AgedInv`).  After that the excess list is, but for what was tried
already, closed under older final images, and the images outside of both are at
most `MaxUnusedImages` (`ExcessInv`).  That the count at docker.go:480 gives
this needs an argument about sorted lists: the oldest image outside the `n`
oldest ones has all of these before it (`OldestEnough`).

*Pods and claims.*  The pod whose logs were idle is idle still or took a job
since (`CheckedInv`).  A pod that was counted uses no claim on the list to
delete (`ClaimsInv`), and a pod's claim does not change.

### WebhookSetup and GitHubClient

Assumed are `SetupAssumption` and `ClientAssumption` (instances are finitely
many).  In the beginning the repositories have any hooks.

*Success.*  The argument is about the first hook of ours of a repository, the
one that `EnsureWebhook` finds.  Deletions spare it, updates make it good, and
creations add behind it, so it stays the first and, once accepted, accepted
(`FirstStays`, `AcceptedStays`).  `SetupInv` says what an instance at each call
knows of it: it is not on the list of hooks to delete, it is the one to be
updated, and an instance that is about to create finds none or one that is
accepted.  `StrayInv` says the same of the requests whose callers have given up:
a late update is one of the first hook, a late deletion is not.  Together they
are `HookInv`.  Accepted is what `EnsureWebhook` takes for properly configured,
active and with the configured events; the theorem is silent about the secret,
of which `stale_secret` shows that a success says nothing.

*One hook.*  While an instance is undisturbed it is the only active one and no
late creation waits for the repositories to come (`OnlyOne`).  `CleanSoFar` then
follows its calls for the repository at hand: what is superfluous is on the list
to delete, it creates only if there is no hook, and leaves one (`Single`).  What
other instances did before or do later is covered as they are not active.

*Quota.*  A client that knows of the reserve takes nothing more.  `QuotaInv`
counts for every active client that does not know what its next request will
take, one or the cost of a check of the scopes.  This, with what is taken,
stays within one such check per start and the lost answers: an answer moves the
cost of a client from one side to the other, as it then knows.

### RunnerNames

`NamesAssumption` is a hypothesis of the lemmas and theorems: names are made of characters that have a lower
case, start with no dash, and a dash has no case.  The second part of a runner's
name is the longest prefix without a dash of the owner, cut and in lower case
(`SecondPartOf`), hence a prefix of an owner without capitals (`OwnMatch`).  It
is a prefix of another owner only if that one agrees with it up to the cut or
the first dash, and then the owners are not `Distinguishable` (`NoOtherMatch`).

### NamedOwners

Assumed are `NamedOwnersAssumption` (`AttributedTo` is `AttributedByName`, every
owner has a name of its own, and `NamesAssumption`) and the assumptions of
`RunnerManager`.  `OwnersDiffer` gives `ExactAttribution` by the lemmas behind
`AttributionExact` (`NamesAttributeExactly`), and the limits and the refinement
follow from those of `RunnerManagerProofs`.  This is README.md:281 as far as it
is true: `capital_owner` shows the limit broken for a name that `OwnersDiffer`
excludes, and the names with which the manager runs in `named_owners` satisfy
it.

### Only model-checked

Liveness and `ENABLED` are out of the prover's reach: `CallsReturn`,
`PassesTakeReadyRequests`, `RequestsAnswered`, `GroupsClose`,
`CompletedRunsForgotten`, `CompatibleJobsRun`, `StaleRunnersRemoved` and
`SetupsEnd` hold on the instances of section 4.  So are inductions whose
statement would be a parameter; the proofs take the least number of a set
instead (`LeastNat`, from the well-foundedness of the natural numbers).

## 7. Not modelled

- *Webhook endpoints* (`internal/webhook/endpoints.go`): no route leads to them.
- *Steps taken as one*: `GetQueuedWorkflowRuns` reads the list of runs and then
  the jobs of each to filter it, and is one step; the jobs are read again, run by
  run, by its callers.  `isRunnerIdle` gets the pod and reads its logs in one
  step; the race that matters, between the logs and the deletion, is kept.
  Docker's `StopRunner` removes a container by force after its stop; a stop
  alone is the step `ExitContainer`, after which `StopRunner` may come, fail, or
  never come.  A check of the scopes is one step for all of its requests.
- *Clocks*: `checkRateLimit` lets a request pass if the reset seems an hour or
  more away (client.go:123).  GitHub's quota is one of an hour, so this needs
  clocks that disagree, which `MaySend` leaves out.  A wait for the reset is a
  step that takes arbitrarily long.
- *Instances with different settings*: all instances that set up webhooks have
  one URL, one list of events and one secret; hooks of an earlier configuration
  are among the initial ones.
- *Clients of GitHub with several callers*: the manager, the scanner and the
  monitor share a client per owner.  Their answers may arrive out of order and
  a caller may wait two minutes under the client's mutex; the models take any
  answer, and a call that takes long, instead.
- *Shutdown*: `WorkflowMonitor.Stop` waits for the poll in progress, runners are
  stopped once, then the server is closed.  What is started meanwhile stays, as
  after a crash (`Restart`, `Crash`).
- *Races that a property permits rather than excludes*, since the code does not
  exclude them: a pod that takes a job after its logs were read
  (`OldCleanupSparesWork`), a pod created after the list that a cleanup of claims
  uses (`ClaimsInUseStay`), an old entry whose last poll ends the monitoring of a
  re-run (`DroppedOnlyAfterMaxPolls`, `CompletedRunsForgotten`), jobs with an
  architecture label that only the manager knows (`ScannerKeepsLabels`,
  `CompatibleJobsRun`).  The removal of the runner image between `ensureImage` and
  the create only makes the create fail (`BreakCreate`).  The unsynchronised
  write of `pollCount` next to the status call is not in `WebhookIntake`, where
  every access is an action.
- *Data*: payloads beyond what the handlers tell apart, specs of pods and
  containers, YAML of workflows, the text of secrets, metrics, log lines and
  delays.
- *Pages*: only the first page of repositories, hooks, runs and jobs is read;
  the models have no more than one page.
- *Code that nobody calls*: `ScaleDown`, `handleWorkflowRun`,
  `ensurePersistentVolumes`, `SpacedRepositoryProcessing`,
  `estimateAPICallsNeeded`, and the calls of the client for issues, releases,
  branches and commits.
