---------------------------- MODULE RunnerManager ----------------------------
(***************************************************************************)
(* The runner manager of the autoscaler (internal/runner/manager.go) with  *)
(* its queue memory (internal/runner/queue_memory.go).                     *)
(*                                                                         *)
(* Goroutines enter the manager from webhook handlers, the workflow        *)
(* monitor, the job scanner and the cleanup ticker.  ScaleUpWithLabels     *)
(* runs under rm.mu; every operation of the queue memory runs under its    *)
(* own qm.mu and is one action here; the cleanup code runs under no lock.  *)
(* The container runtime and GitHub are external: what they answer is      *)
(* chosen by the environment.  Labels, names, metrics and log lines are    *)
(* abstracted: no condition of this code reads them.                       *)
(***************************************************************************)
EXTENDS Integers, FiniteSets

CONSTANTS
  Owners,       \* owners of the configuration
  Repos,        \* full names of the repositories that events name
  OwnerOf,      \* [Repos -> Owners \cup {NoOwner}], what GetOwnerForRepo finds:
                \* every caller has asked it before, so NoOwner is never met
  NoOwner,      \* no owner
  MaxRunners,   \* [Owners -> Nat], GetEffectiveMaxRunners of each owner
  AttributedTo, \* [Owners -> SUBSET (Owners \cup {NoOwner})], the answers that
                \* getOwnerFromRunnerName may give for a runner of the owner
  Goroutines,   \* goroutines that call the manager (bounds the concurrency)
  RunnerIds,    \* container and pod identifiers (bounds the live runners)
  MaxJobs,      \* bound on the jobs GitHub reports for a repository
  Free,         \* rm.mu is not held
  NoRepo,       \* the repository of an identifier that names no runner
  NoRequest     \* no pending request

ASSUME ConstantsAssumption ==
  /\ OwnerOf \in [Repos -> Owners \cup {NoOwner}]
  /\ NoOwner \notin Owners
  /\ MaxRunners \in [Owners -> Nat]
  /\ AttributedTo \in [Owners -> SUBSET (Owners \cup {NoOwner}) \ {{}}]
  /\ IsFiniteSet(Goroutines)
  /\ IsFiniteSet(RunnerIds)
  /\ MaxJobs \in Nat \ {0}
  /\ Free \notin Goroutines
  /\ NoRepo \notin Repos

MaxRetries == 5   \* the literal of ShouldRetry

Requests == [jobCount : 1..MaxJobs, retryCount : Nat, cooled : BOOLEAN]

ASSUME NoRequestAssumption == NoRequest \notin Requests

(* Points of the code at which a goroutine may be between two actions.     *)
(* "list", "count" and "start" are inside ScaleUpWithLabels.               *)
Critical == {"list", "count", "start"}
Points   == Critical \cup
            {"idle", "lock", "snapshot", "next", "update", "remove", "readd",
             "cleanup", "completed", "old", "after"}

VARIABLES
  runner,   \* [RunnerIds -> Repos \cup {NoRepo}], the runners GetRunningRunners lists
  done,     \* the listed runners that have ended or are being stopped
  pending,  \* qm.pendingRequests, by repository
  mu,       \* the holder of rm.mu
  pc,       \* where each goroutine is
  repo,     \* the repository a goroutine works for
  retry,    \* was its ScaleUpWithLabels called by ProcessPendingRequests?
  slots,    \* availableSlots, or 0 when there are none
  queued,   \* queuedJobCount
  started,  \* startedCount
  batch,    \* requests of the snapshot still to be processed, as job counts
  listed,   \* runners of the list a cleanup still has to visit
  tally     \* cleanedCount of a repository cleanup, countBefore of a sweep

env    == <<runner, done>>
scale  == <<slots, queued, started>>
sweep  == <<listed, tally>>
vars   == <<runner, done, pending, mu, pc, repo, retry, slots, queued,
            started, batch, listed, tally>>
------------------------------------------------------------------------------
Live == {i \in RunnerIds : runner[i] # NoRepo}

RunnersOf(o) == {i \in Live : OwnerOf[runner[i]] = o}

Goto(g, point) == pc' = [pc EXCEPT ![g] = point]

Least(m, n) == IF m <= n THEN m ELSE n

(* AddPendingRequest: replaces whatever is pending for the repository.     *)
AddPendingRequest(r, jobs) ==
  pending' = [pending EXCEPT
    ![r] = [jobCount |-> jobs, retryCount |-> 0, cooled |-> FALSE]]

ShouldRetry(r) ==
  /\ pending[r] # NoRequest
  /\ pending[r].cooled
  /\ pending[r].retryCount < MaxRetries

Init ==
  /\ runner  = [i \in RunnerIds |-> NoRepo]
  /\ done    = {}
  /\ pending = [r \in Repos |-> NoRequest]
  /\ mu      = Free
  /\ pc      = [g \in Goroutines |-> "idle"]
  /\ repo    = [g \in Goroutines |-> NoRepo]
  /\ retry   = [g \in Goroutines |-> FALSE]
  /\ slots   = [g \in Goroutines |-> 0]
  /\ queued  = [g \in Goroutines |-> 0]
  /\ started = [g \in Goroutines |-> 0]
  /\ batch   = [g \in Goroutines |-> [r \in Repos |-> 0]]
  /\ listed  = [g \in Goroutines |-> {}]
  /\ tally   = [g \in Goroutines |-> 0]
------------------------------------------------------------------------------
(***************************************************************************)
(* ScaleUpWithLabels                                                       *)
(***************************************************************************)

(* An event, the workflow monitor or the job scanner asks for runners.     *)
CallScaleUp(g, r) ==
  /\ pc[g] = "idle"
  /\ Goto(g, "lock")
  /\ repo' = [repo EXCEPT ![g] = r]
  /\ UNCHANGED <<env, pending, mu, retry, scale, batch, sweep>>

(* Mutant: ScaleUpWithLabels takes the lock without waiting for it.        *)
EnterUnlocked(g) ==
  /\ pc[g] = "lock"
  /\ mu' = g
  /\ Goto(g, "list")
  /\ UNCHANGED <<env, pending, repo, retry, scale, batch, sweep>>

Lock(g) ==
  /\ pc[g] = "lock"
  /\ mu = Free
  /\ mu' = g
  /\ Goto(g, "list")
  /\ UNCHANGED <<env, pending, repo, retry, scale, batch, sweep>>

(* The local variables of ScaleUpWithLabels are gone.                      *)
EndScaleUp(g) ==
  /\ retry'   = [retry EXCEPT ![g] = FALSE]
  /\ slots'   = [slots EXCEPT ![g] = 0]
  /\ queued'  = [queued EXCEPT ![g] = 0]
  /\ started' = [started EXCEPT ![g] = 0]

(* Mutant: the deferred unlock is missing.                                 *)
ReturnLocked(g, outcome) ==
  LET readd == retry[g] /\ outcome = "max runners reached" IN
  /\ Goto(g, IF ~retry[g] THEN "idle" ELSE IF readd THEN "readd" ELSE "next")
  /\ repo'  = IF readd THEN repo ELSE [repo EXCEPT ![g] = NoRepo]
  /\ batch' = IF retry[g] /\ ~readd THEN [batch EXCEPT ![g][repo[g]] = 0] ELSE batch
  /\ EndScaleUp(g)
  /\ UNCHANGED mu

(* Mutant: ProcessPendingRequests does not look at the error, and adds     *)
(* nothing back.                                                           *)
ReturnUnchecked(g, outcome) ==
  /\ mu' = Free
  /\ Goto(g, IF retry[g] THEN "next" ELSE "idle")
  /\ repo'  = [repo EXCEPT ![g] = NoRepo]
  /\ batch' = IF retry[g] THEN [batch EXCEPT ![g][repo[g]] = 0] ELSE batch
  /\ EndScaleUp(g)

(* The function returns and rm.mu is released.  An external caller is done *)
(* with it; ProcessPendingRequests re-adds its request after "max runners  *)
(* reached" and goes on to its next request after anything else.           *)
Return(g, outcome) ==
  LET readd == retry[g] /\ outcome = "max runners reached" IN
  /\ mu' = Free
  /\ Goto(g, IF ~retry[g] THEN "idle" ELSE IF readd THEN "readd" ELSE "next")
  /\ repo'  = IF readd THEN repo ELSE [repo EXCEPT ![g] = NoRepo]
  /\ batch' = IF retry[g] /\ ~readd THEN [batch EXCEPT ![g][repo[g]] = 0] ELSE batch
  /\ EndScaleUp(g)

(* No owner is configured for the repository, or the runtime cannot list.  *)
FailScaleUp(g) ==
  /\ pc[g] = "list"
  /\ Return(g, "error")
  /\ UNCHANGED <<env, pending, sweep>>

(* The number of runners that the loop over the list attributes to owner o *)
(* when it may attribute a runner of owner p to any member of              *)
(* AttributedTo[p]: the lookup ranges over a Go map, anew for each runner. *)
OwnerRunnerCounts(o) ==
  LET Attributed(i) == AttributedTo[OwnerOf[runner[i]]]
  IN  Cardinality({i \in Live : Attributed(i) = {o}}) ..
        Cardinality({i \in Live : o \in Attributed(i)})

(* Mutant: the comparison with the limit is off by one.                    *)
SlotsAtLimit(o, count) ==
  IF count <= MaxRunners[o] THEN MaxRunners[o] - count + 1 ELSE 0

AvailableSlots(o, count) ==
  IF count < MaxRunners[o] THEN MaxRunners[o] - count ELSE 0

CountRunners(g) ==
  /\ pc[g] = "list"
  /\ OwnerOf[repo[g]] \in Owners
  /\ \E n \in OwnerRunnerCounts(OwnerOf[repo[g]]) :
       slots' = [slots EXCEPT ![g] = AvailableSlots(OwnerOf[repo[g]], n)]
  /\ Goto(g, "count")
  /\ UNCHANGED <<env, pending, mu, repo, retry, queued, started, batch, sweep>>

(* No slot: the request is remembered if GitHub reports jobs.              *)
ReachMaxRunners(g, jobs) ==
  /\ pc[g] = "count"
  /\ slots[g] = 0
  /\ IF jobs > 0 THEN AddPendingRequest(repo[g], jobs) ELSE UNCHANGED pending
  /\ Return(g, "max runners reached")
  /\ UNCHANGED <<env, sweep>>

(* getQueuedJobCount found no job; it answers 0 too when GitHub fails.     *)
SkipScaleUp(g) ==
  /\ pc[g] = "count"
  /\ slots[g] > 0
  /\ Return(g, "ok")
  /\ UNCHANGED <<env, pending, sweep>>

PlanScaleUp(g, jobs) ==
  /\ pc[g] = "count"
  /\ slots[g] > 0
  /\ jobs > 0
  /\ queued' = [queued EXCEPT ![g] = jobs]
  /\ Goto(g, "start")
  /\ UNCHANGED <<env, pending, mu, repo, retry, slots, started, batch, sweep>>

(* Mutant: one runner for each job, however many slots there are.          *)
RunnerPerJob(g) == queued[g]

RunnersToStart(g) == Least(slots[g], queued[g])

(* Identifiers are unique: a new runner's is not in any list still held.   *)
Fresh == {i \in RunnerIds \ Live : \A g \in Goroutines : i \notin listed[g]}

(* One turn of the start loop, and the return after the last one.          *)
StartRunner(g, i) ==
  /\ pc[g] = "start"
  /\ runner' = [runner EXCEPT ![i] = repo[g]]
  /\ IF started[g] + 1 < RunnersToStart(g)
     THEN /\ started' = [started EXCEPT ![g] = @ + 1]
          /\ UNCHANGED <<mu, pc, repo, retry, slots, queued, batch>>
     ELSE Return(g, "ok")
  /\ UNCHANGED <<done, pending, sweep>>

(* Mutant: only the jobs beyond the plan are remembered, perhaps none.     *)
BreakRememberingUnplanned(g) ==
  /\ pc[g] = "start"
  /\ AddPendingRequest(repo[g], queued[g] - RunnersToStart(g))
  /\ Return(g, "ok")
  /\ UNCHANGED <<env, sweep>>

(* A start fails: the loop breaks, and the jobs that are left are          *)
(* remembered for a retry.                                                 *)
BreakScaleUp(g) ==
  /\ pc[g] = "start"
  /\ AddPendingRequest(repo[g], queued[g] - started[g])
  /\ Return(g, "ok")
  /\ UNCHANGED <<env, sweep>>

ScaleUp(g) ==
  \/ \E r \in Repos : CallScaleUp(g, r)
  \/ Lock(g)
  \/ FailScaleUp(g)
  \/ CountRunners(g)
  \/ \E jobs \in 0..MaxJobs : ReachMaxRunners(g, jobs)
  \/ SkipScaleUp(g)
  \/ \E jobs \in 1..MaxJobs : PlanScaleUp(g, jobs)
  \/ \E i \in Fresh : StartRunner(g, i)
  \/ BreakScaleUp(g)
------------------------------------------------------------------------------
(***************************************************************************)
(* ProcessPendingRequests                                                  *)
(***************************************************************************)

(* GetPendingRequests copies the requests; their labels and job counts do  *)
(* not change afterwards.                                                  *)
GetPendingRequests(g) ==
  /\ pc[g] = "snapshot"
  /\ batch' = [batch EXCEPT ![g] = [r \in Repos |->
                IF pending[r] = NoRequest THEN 0 ELSE pending[r].jobCount]]
  /\ Goto(g, "next")
  /\ UNCHANGED <<env, pending, mu, repo, retry, scale, sweep>>

(* Mutant: the first request that is not ready ends the pass.              *)
SkipAllRequests(g, r) ==
  /\ pc[g] = "next"
  /\ batch[g][r] > 0
  /\ ~ShouldRetry(r)
  /\ batch' = [batch EXCEPT ![g] = [q \in Repos |-> 0]]
  /\ UNCHANGED <<env, pending, mu, pc, repo, retry, scale, sweep>>

(* The loop takes the requests of the snapshot in map order.               *)
SkipRequest(g, r) ==
  /\ pc[g] = "next"
  /\ batch[g][r] > 0
  /\ ~ShouldRetry(r)
  /\ batch' = [batch EXCEPT ![g][r] = 0]
  /\ UNCHANGED <<env, pending, mu, pc, repo, retry, scale, sweep>>

TakeRequest(g, r) ==
  /\ pc[g] = "next"
  /\ batch[g][r] > 0
  /\ ShouldRetry(r)
  /\ repo' = [repo EXCEPT ![g] = r]
  /\ Goto(g, "update")
  /\ UNCHANGED <<env, pending, mu, retry, scale, batch, sweep>>

UpdateRetryCount(g) ==
  LET r == repo[g] IN
  /\ pc[g] = "update"
  /\ IF pending[r] = NoRequest
     THEN UNCHANGED pending
     ELSE pending' = [pending EXCEPT ![r].retryCount = @ + 1, ![r].cooled = FALSE]
  /\ Goto(g, "remove")
  /\ UNCHANGED <<env, mu, repo, retry, scale, batch, sweep>>

(* Mutant: the request stays in the queue memory while it is retried.      *)
RetryWithoutRemoving(g) ==
  /\ pc[g] = "remove"
  /\ retry' = [retry EXCEPT ![g] = TRUE]
  /\ Goto(g, "lock")
  /\ UNCHANGED <<env, pending, mu, repo, scale, batch, sweep>>

(* The request leaves the queue memory and ScaleUpWithLabels is called.    *)
RemovePendingRequest(g) ==
  /\ pc[g] = "remove"
  /\ pending' = [pending EXCEPT ![repo[g]] = NoRequest]
  /\ retry' = [retry EXCEPT ![g] = TRUE]
  /\ Goto(g, "lock")
  /\ UNCHANGED <<env, mu, repo, scale, batch, sweep>>

(* Still at the limit: the request of the snapshot is added back.          *)
ReAddRequest(g) ==
  /\ pc[g] = "readd"
  /\ AddPendingRequest(repo[g], batch[g][repo[g]])
  /\ batch' = [batch EXCEPT ![g][repo[g]] = 0]
  /\ repo'  = [repo EXCEPT ![g] = NoRepo]
  /\ Goto(g, "next")
  /\ UNCHANGED <<env, mu, retry, scale, sweep>>

EndProcessing(g) ==
  /\ pc[g] = "next"
  /\ \A r \in Repos : batch[g][r] = 0
  /\ Goto(g, "idle")
  /\ UNCHANGED <<env, pending, mu, repo, retry, scale, batch, sweep>>

ProcessPendingRequests(g) ==
  \/ GetPendingRequests(g)
  \/ \E r \in Repos : SkipRequest(g, r) \/ TakeRequest(g, r)
  \/ UpdateRetryCount(g)
  \/ RemovePendingRequest(g)
  \/ ReAddRequest(g)
  \/ EndProcessing(g)
------------------------------------------------------------------------------
(***************************************************************************)
(* Cleanup.  The goroutine that ends a cleanup stands for the one that     *)
(* `go rm.ProcessPendingRequests()` starts: the cleanup itself is over.    *)
(***************************************************************************)

(* StopRunner on the runners of gone and of ending.  The runtime still     *)
(* lists a runner of ending: a pod within its grace period.                *)
StopRunners(gone, ending) ==
  /\ runner' = [i \in RunnerIds |-> IF i \in gone THEN NoRepo ELSE runner[i]]
  /\ done'   = (done \cup ending) \ gone

(* A workflow of repository r completed: cleanupRunnersForRepository lists *)
(* the runners.  Only those of r matter below, and a runner never changes  *)
(* its repository.  A list that fails ends the goroutine without effect.   *)
CallWorkflowCompleted(g, r) ==
  /\ pc[g] = "idle"
  /\ repo'   = [repo EXCEPT ![g] = r]
  /\ listed' = [listed EXCEPT ![g] = {i \in Live : runner[i] = r}]
  /\ Goto(g, "cleanup")
  /\ UNCHANGED <<env, pending, mu, retry, scale, batch, tally>>

(* A listed runner is stopped, idle or at work.                            *)
CleanRunner(g, i) ==
  /\ pc[g] = "cleanup"
  /\ i \in listed[g] \cap Live
  /\ StopRunners({i}, {}) \/ StopRunners({}, {i})
  /\ listed' = [listed EXCEPT ![g] = @ \ {i}]
  /\ tally'  = [tally EXCEPT ![g] = 1]
  /\ UNCHANGED <<pending, mu, pc, repo, retry, scale, batch>>

(* A listed runner is not stopped: its repository cannot be read, the stop *)
(* fails, or it is gone.  Kubernetes reports a pod that is gone as stopped.*)
MissRunner(g, i) ==
  /\ pc[g] = "cleanup"
  /\ i \in listed[g]
  /\ listed' = [listed EXCEPT ![g] = @ \ {i}]
  /\ tally' \in {tally} \cup {[tally EXCEPT ![g] = 1] : dead \in {i} \ Live}
  /\ UNCHANGED <<env, pending, mu, pc, repo, retry, scale, batch>>

EndCleanup(g) ==
  /\ pc[g] = "cleanup"
  /\ listed[g] = {}
  /\ repo'  = [repo EXCEPT ![g] = NoRepo]
  /\ tally' = [tally EXCEPT ![g] = 0]
  /\ Goto(g, IF tally[g] > 0 THEN "snapshot" ELSE "idle")
  /\ UNCHANGED <<env, pending, mu, retry, scale, batch, listed>>

Sweeping == {"completed", "old", "after"}

(* A list of the runners for the sake of its length, which is 0 on errors. *)
RunnerCounts == {0, Cardinality(Live)}

(* The ticker of StartCleanupRoutine runs one cleanupOldRunners at a time. *)
StartSweep(g) ==
  /\ pc[g] = "idle"
  /\ \A h \in Goroutines : pc[h] \notin Sweeping
  /\ \E before \in RunnerCounts : tally' = [tally EXCEPT ![g] = before]
  /\ Goto(g, "completed")
  /\ UNCHANGED <<env, pending, mu, repo, retry, scale, batch, listed>>

(* Any of the removals may fail.                                           *)
CleanupCompletedRunners(g) ==
  /\ pc[g] = "completed"
  /\ \E gone \in SUBSET done : StopRunners(gone, {})
  /\ Goto(g, "old")
  /\ UNCHANGED <<pending, mu, repo, retry, scale, batch, sweep>>

(* Runners older than the timeout are stopped.  There is no clock here: a  *)
(* runner of any age is looked at.  Docker stops busy ones too, Kubernetes *)
(* those that were idle when their logs were read.                         *)
CleanupOldRunners(g) ==
  /\ pc[g] = "old"
  /\ \E gone \in SUBSET Live : \E ending \in SUBSET (Live \ gone) :
       StopRunners(gone, ending)
  /\ Goto(g, "after")
  /\ UNCHANGED <<pending, mu, repo, retry, scale, batch, sweep>>

EndSweep(g) ==
  /\ pc[g] = "after"
  /\ \E count \in RunnerCounts :
       Goto(g, IF count < tally[g] THEN "snapshot" ELSE "idle")
  /\ tally' = [tally EXCEPT ![g] = 0]
  /\ UNCHANGED <<env, pending, mu, repo, retry, scale, batch, listed>>

Cleanup(g) ==
  \/ \E r \in Repos : CallWorkflowCompleted(g, r)
  \/ \E i \in RunnerIds : CleanRunner(g, i) \/ MissRunner(g, i)
  \/ EndCleanup(g)
  \/ StartSweep(g)
  \/ CleanupCompletedRunners(g)
  \/ CleanupOldRunners(g)
  \/ EndSweep(g)
------------------------------------------------------------------------------
(***************************************************************************)
(* The environment: runners, time, and crashes of the autoscaler           *)
(***************************************************************************)

(* The runner ends and the runtime no longer lists it: AutoRemove, a pod   *)
(* that succeeded, the end of a grace period.                              *)
ExitRunner(i) ==
  /\ runner[i] # NoRepo
  /\ StopRunners({i}, {})
  /\ UNCHANGED <<pending, mu, pc, repo, retry, scale, batch, sweep>>

(* The runner ends but is still listed: its pod failed, or its Docker      *)
(* sidecar runs on.                                                        *)
LingerRunner(i) ==
  /\ runner[i] # NoRepo
  /\ i \notin done
  /\ StopRunners({}, {i})
  /\ UNCHANGED <<pending, mu, pc, repo, retry, scale, batch, sweep>>

(* Thirty seconds have passed since the last retry of the request.         *)
CoolDown(r) ==
  /\ pending[r] # NoRequest
  /\ ~pending[r].cooled
  /\ pending' = [pending EXCEPT ![r].cooled = TRUE]
  /\ UNCHANGED <<env, mu, pc, repo, retry, scale, batch, sweep>>

(* The process dies and starts again: only the runners survive.            *)
Restart ==
  /\ pending' = [r \in Repos |-> NoRequest]
  /\ mu'      = Free
  /\ pc'      = [g \in Goroutines |-> "idle"]
  /\ repo'    = [g \in Goroutines |-> NoRepo]
  /\ retry'   = [g \in Goroutines |-> FALSE]
  /\ slots'   = [g \in Goroutines |-> 0]
  /\ queued'  = [g \in Goroutines |-> 0]
  /\ started' = [g \in Goroutines |-> 0]
  /\ batch'   = [g \in Goroutines |-> [r \in Repos |-> 0]]
  /\ listed'  = [g \in Goroutines |-> {}]
  /\ tally'   = [g \in Goroutines |-> 0]
  /\ UNCHANGED env

Environment ==
  \/ \E i \in RunnerIds : ExitRunner(i) \/ LingerRunner(i)
  \/ \E r \in Repos : CoolDown(r)
  \/ Restart

Next ==
  \/ \E g \in Goroutines : ScaleUp(g) \/ ProcessPendingRequests(g) \/ Cleanup(g)
  \/ Environment

Spec == Init /\ [][Next]_vars
------------------------------------------------------------------------------
TypeOK ==
  /\ runner  \in [RunnerIds -> Repos \cup {NoRepo}]
  /\ done    \in SUBSET RunnerIds
  /\ pending \in [Repos -> Requests \cup {NoRequest}]
  /\ mu      \in Goroutines \cup {Free}
  /\ pc      \in [Goroutines -> Points]
  /\ repo    \in [Goroutines -> Repos \cup {NoRepo}]
  /\ retry   \in [Goroutines -> BOOLEAN]
  /\ slots   \in [Goroutines -> Nat]
  /\ queued  \in [Goroutines -> 0..MaxJobs]
  /\ started \in [Goroutines -> Nat]
  /\ batch   \in [Goroutines -> [Repos -> 0..MaxJobs]]
  /\ listed  \in [Goroutines -> SUBSET RunnerIds]
  /\ tally   \in [Goroutines -> Nat]

(* getOwnerFromRunnerName finds the owner of every runner.                 *)
ExactAttribution == \A o \in Owners : AttributedTo[o] = {o}

(* No owner ever has more runners than its limit, whatever goroutines run  *)
(* ScaleUpWithLabels, whatever runners end or are stopped between its list *)
(* and its starts, and wherever the autoscaler crashes.                    *)
OwnerCapacity ==
  \A o \in Owners : Cardinality(RunnersOf(o)) <= MaxRunners[o]

(* Between plan and return there is always a planned runner left to start  *)
(* and a queued job left for it, so the remainder that BreakScaleUp        *)
(* remembers is never empty.                                               *)
StartsPlanned ==
  \A g \in Goroutines :
    IF pc[g] = "start" THEN started[g] < slots[g] /\ started[g] < queued[g]
                       ELSE started[g] = 0

InsideHoldsLock == \A g \in Goroutines : pc[g] \in Critical => mu = g

WorksForRepo ==
  \A g \in Goroutines :
    pc[g] \in Critical \cup {"lock", "update", "remove", "readd", "cleanup"} => repo[g] \in Repos

(* A pass of ProcessPendingRequests holds the request of repository r.     *)
Carries(g, r) == repo[g] = r /\ (pc[g] \in {"update", "remove", "readd"} \/ retry[g])

(* While it holds one, its snapshot still has the job count to add back.   *)
CarriedInBatch ==
  \A g \in Goroutines :
    /\ retry[g] => pc[g] \in Critical \cup {"lock"}
    /\ \A r \in Repos : Carries(g, r) => batch[g][r] > 0

ControlInv ==
  /\ TypeOK
  /\ StartsPlanned
  /\ InsideHoldsLock
  /\ WorksForRepo
  /\ CarriedInBatch

RunnersHaveOwners == \A i \in Live : OwnerOf[runner[i]] \in Owners

(* Room is reserved by the holder of rm.mu: the runners of its owner and   *)
(* the starts it still has slots for never exceed the limit together.      *)
ReservedCapacity ==
  \A g \in Goroutines : pc[g] \in {"count", "start"} =>
    /\ OwnerOf[repo[g]] \in Owners
    /\ Cardinality(RunnersOf(OwnerOf[repo[g]])) + slots[g] - started[g]
         <= MaxRunners[OwnerOf[repo[g]]]

(* OwnerCapacity made inductive: only the holder of rm.mu is between its   *)
(* list and its starts, so what it counted can only have become an         *)
(* overestimate when it starts a runner.                                   *)
CapacityInv ==
  /\ ControlInv
  /\ RunnersHaveOwners
  /\ OwnerCapacity
  /\ ReservedCapacity

(* The passes that have updated the request of r and not yet removed it.    *)
Retrying(r) == {g \in Goroutines : pc[g] = "remove" /\ repo[g] = r}

(* The retry count of a pending request never exceeds the number of passes *)
(* of ProcessPendingRequests that are between their update and their       *)
(* remove of it: a retry takes the request away and whoever adds it back   *)
(* counts from zero, so the limit of five in ShouldRetry is out of reach   *)
(* unless five passes overlap.                                             *)
RetriesInFlight ==
  \A r \in Repos : pending[r] # NoRequest =>
    pending[r].retryCount <= Cardinality(Retrying(r))

Tracked(r) == pending[r] # NoRequest \/ \E g \in Goroutines : Carries(g, r)

(* A request that is pending or being retried is forgotten only when its   *)
(* retry failed before the count or found a slot, or in a crash; overlap-  *)
(* ping passes and GitHub failures never lose one whose owner is full.     *)
FullOwnersKeepRequests ==
  [][\A r \in Repos : Tracked(r) /\ ~Tracked(r)' =>
       \/ \E g \in Goroutines : /\ retry[g] /\ repo[g] = r /\ mu = g
                                /\ pc[g] = "list" \/ slots[g] > 0
       \/ \A g \in Goroutines : pc'[g] = "idle"]_vars

(* Every start and every stop is one that the capacity promise of          *)
(* OwnerPool allows: a runner is admitted only below the limit of its      *)
(* owner at that instant.                                                  *)
Pool == INSTANCE OwnerPool WITH pool <- [o \in Owners |-> RunnersOf(o)]

ImplementsOwnerPool == Pool!Spec
------------------------------------------------------------------------------
(***************************************************************************)
(* Liveness.  API calls return, so a goroutine inside the manager goes on; *)
(* a sync.RWMutex hands itself to a waiting writer after a while, so a     *)
(* waiting goroutine gets rm.mu although others keep taking it; the ticker *)
(* and the clock do not stop.  Nothing forces events, jobs or the end of a *)
(* runner.                                                                 *)
(***************************************************************************)
Proceed(g) ==
  \/ FailScaleUp(g)
  \/ CountRunners(g)
  \/ \E jobs \in 0..MaxJobs : ReachMaxRunners(g, jobs)
  \/ SkipScaleUp(g)
  \/ \E jobs \in 1..MaxJobs : PlanScaleUp(g, jobs)
  \/ \E i \in Fresh : StartRunner(g, i)
  \/ BreakScaleUp(g)
  \/ ProcessPendingRequests(g)
  \/ \E i \in RunnerIds : CleanRunner(g, i) \/ MissRunner(g, i)
  \/ EndCleanup(g)
  \/ CleanupCompletedRunners(g)
  \/ CleanupOldRunners(g)
  \/ EndSweep(g)

Fairness ==
  /\ \A g \in Goroutines : WF_vars(Proceed(g)) /\ SF_vars(Lock(g))
  /\ WF_vars(\E g \in Goroutines : StartSweep(g))
  /\ \A r \in Repos : WF_vars(CoolDown(r))

FairSpec == Spec /\ Fairness

(* Every call ends: no goroutine is stuck behind rm.mu, in the start loop, *)
(* in a cleanup, or in a pass over requests that others keep adding.       *)
CallsReturn == \A g \in Goroutines : pc[g] # "idle" ~> pc[g] = "idle"

(* A pass that begins while a request is ready for a retry never leaves it *)
(* behind, even when other passes and callers replace it meanwhile.        *)
PassesTakeReadyRequests ==
  \A g \in Goroutines, r \in Repos :
    pc[g] = "snapshot" /\ ShouldRetry(r) ~> ~ShouldRetry(r)

HasRoom(r) ==
  OwnerOf[r] \in Owners /\ Cardinality(RunnersOf(OwnerOf[r])) < MaxRunners[OwnerOf[r]]

(* manager.go:769 says that pending requests are checked when capacity     *)
(* becomes available: a request whose owner has room is seen by a pass.    *)
PendingCheckedWhenRoom ==
  \A r \in Repos :
    pending[r] # NoRequest /\ HasRoom(r)
      ~> \/ pending[r] = NoRequest
         \/ ~HasRoom(r)
         \/ \E g \in Goroutines : pc[g] = "snapshot"
==============================================================================
