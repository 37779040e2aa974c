---------------------------- MODULE WebhookIntake ----------------------------
(***************************************************************************)
(* From GitHub's events to the runner manager: the webhook handler and its *)
(* debouncer (internal/webhook/handler.go) and the workflow monitor        *)
(* (internal/webhook/workflow_monitor.go).                                 *)
(*                                                                         *)
(* Every HTTP request, every timer callback and the monitor is a goroutine *)
(* of its own.  They share wd.mu, which a callback keeps while it runs its *)
(* handler, the map of the monitor (every access to it is one action), and *)
(* rm.mu of the manager, which a scale-up keeps while it calls GitHub and  *)
(* the container runtime.  RunnerManager is the model of what a scale-up   *)
(* does; here it only takes time.  Payloads are reduced to what the        *)
(* handler tells apart, and the two seconds of a timer to its firing.      *)
(***************************************************************************)
EXTENDS Integers, FiniteSets

CONSTANTS
  Runs,         \* workflow runs
  Repos,        \* repositories
  RepoOf,       \* [Runs -> Repos]
  Signed,       \* repositories whose events pass verifySignature
  Allowed,      \* repositories for which IsRepoAllowed holds
  Events,       \* events that GitHub may send, each at most once
  RunOf,        \* [Events -> Runs]
  AttemptOf,    \* [Events -> 1..MaxAttempts], a re-run keeps the id of its run
  ActionOf,     \* [Events -> Actions]
  Final,        \* events whose payload says completed, failed or cancelled
  MaxAttempts,  \* bound on the attempts of a run
  MaxPolls,     \* maxPolls, 60 in the code
  MaxJobs,      \* bound on the jobs that a poll finds
  NoEvent,      \* no event
  Free,         \* rm.mu is not held
  Handler,      \* the debounced handler, as a holder of rm.mu
  Monitor,      \* the workflow monitor, as a holder of rm.mu
  Outside       \* the job scanner, a retry or /metrics, as a holder of rm.mu

(* Actions of workflow_run, where "queued" also stands for a requested run *)
(* whose status is queued and "waiting" for one whose status is another;   *)
(* "job" is a queued workflow_job, "push" a push.                          *)
Actions == {"queued", "waiting", "in_progress", "completed", "job", "push"}

Attempts == 1..MaxAttempts

ASSUME IntakeAssumption ==
  /\ RepoOf \in [Runs -> Repos]
  /\ RunOf \in [Events -> Runs]
  /\ MaxAttempts \in Nat
  /\ AttemptOf \in [Events -> Attempts]
  /\ ActionOf \in [Events -> Actions]
  /\ Final \subseteq Events
  /\ MaxPolls \in Nat /\ MaxJobs \in Nat
  /\ NoEvent \notin Events
  /\ {Free, Handler, Monitor, Outside} \cap Events = {}
  /\ Free \notin {Handler, Monitor, Outside}
  /\ Outside \notin {Handler, Monitor} /\ Handler # Monitor

VARIABLES
  (* GitHub *)
  phase,    \* [Runs -> Phases], the state of each run
  attempt,  \* [Runs -> 0..MaxAttempts], its attempt
  (* webhook requests *)
  at,       \* [Events -> Places], how far the request of each event is
  (* debouncer *)
  group,    \* wd.events: [first |-> event, last |-> event with the timer] of each key
  timer,    \* [Events -> Timers], the timer set when the event was debounced
  handling, \* the event whose handler runs under wd.mu
  step,     \* where that handler is
  handled,  \* the events whose handler has been called (history)
  (* manager *)
  rm,       \* the holder of rm.mu
  (* workflow monitor *)
  entry,    \* activeWorkflows: the event that added the entry of each run, or NoEvent
  polls,    \* [Events -> 0..MaxPolls], pollCount of the entry that an event added
  todo,     \* entries of the copied list that are still to be polled, by these events
  found,    \* jobs found by the poll that are still to be scaled up for
  mpc       \* where the monitor is

github    == <<phase, attempt>>
debouncer == <<group, timer, handling, step, handled>>
monitor   == <<entry, polls, todo, found, mpc>>
vars      == <<phase, attempt, at, group, timer, handling, step, handled, rm,
               entry, polls, todo, found, mpc>>

Phases  == {"none", "waiting", "queued", "in_progress", "completed"}
Places  == {"unsent", "sent", "counted", "scale", "answered", "lost"}
Timers  == {"none", "armed", "stopped", "fired", "done"}
Keys    == {"workflow_run", "push"} \X Repos
NoGroup == [first |-> NoEvent, last |-> NoEvent]

EventType(e) ==
  CASE ActionOf[e] = "push" -> "push"
    [] ActionOf[e] = "job"  -> "workflow_job"
    [] OTHER                -> "workflow_run"

Repo(e) == RepoOf[RunOf[e]]

(* Events that are grouped; a workflow_job is handled at once.             *)
Grouped == {e \in Events : EventType(e) # "workflow_job"}

KeyOf == [e \in Grouped |-> <<EventType(e), Repo(e)>>]

Init ==
  /\ phase    = [r \in Runs |-> "none"]
  /\ attempt  = [r \in Runs |-> 0]
  /\ at       = [e \in Events |-> "unsent"]
  /\ group    = [k \in Keys |-> NoGroup]
  /\ timer    = [e \in Events |-> "none"]
  /\ handling = NoEvent
  /\ step     = "idle"
  /\ handled  = {}
  /\ rm       = Free
  /\ entry    = [r \in Runs |-> NoEvent]
  /\ polls    = [e \in Events |-> 0]
  /\ todo     = {}
  /\ found    = 0
  /\ mpc      = "idle"
------------------------------------------------------------------------------
(***************************************************************************)
(* GitHub: a run moves on and an event tells about it.  Deliveries may be  *)
(* reordered and lost.                                                     *)
(***************************************************************************)
Moves(from, action) ==
  CASE action \in {"queued", "waiting"} -> from \in {"none", "completed"}
    [] action = "in_progress"           -> from \in {"queued", "waiting"}
    [] action = "completed"             -> from \in {"queued", "waiting", "in_progress"}
    [] action = "job"                   -> from = "queued"

Send(e) ==
  LET r == RunOf[e] IN
  /\ at[e] = "unsent"
  /\ at' = [at EXCEPT ![e] = "sent"]
  /\ IF ActionOf[e] = "push"
     THEN UNCHANGED github
     ELSE /\ Moves(phase[r], ActionOf[e])
          /\ attempt[r] = IF phase[r] \in {"none", "completed"}
                          THEN AttemptOf[e] - 1 ELSE AttemptOf[e]
          /\ attempt' = [attempt EXCEPT ![r] = AttemptOf[e]]
          /\ phase' = [phase EXCEPT ![r] = IF ActionOf[e] = "job" THEN @ ELSE ActionOf[e]]
  /\ UNCHANGED <<debouncer, rm, monitor>>

Lose(e) ==
  /\ at[e] = "sent"
  /\ at' = [at EXCEPT ![e] = "lost"]
  /\ UNCHANGED <<github, debouncer, rm, monitor>>
------------------------------------------------------------------------------
(***************************************************************************)
(* HandleWebhook                                                           *)
(***************************************************************************)
(* Every request takes rm.mu for a moment in IncrementWebhookCount.  One   *)
(* with a wrong signature, and a job of a repository that is not allowed,  *)
(* are answered and have no other effect.                                  *)
Receive(e) ==
  /\ at[e] = "sent"
  /\ rm = Free
  /\ at' = [at EXCEPT ![e] =
       IF Repo(e) \in Signed /\ (e \in Grouped \/ Repo(e) \in Allowed)
       THEN "counted" ELSE "answered"]
  /\ UNCHANGED <<github, debouncer, rm, monitor>>

(* Mutant: an event that joins a group stops its timer and sets none.      *)
DebounceWithoutTimer(e) ==
  LET k == KeyOf[e] IN
  /\ at[e] = "counted"
  /\ e \in Grouped
  /\ handling = NoEvent
  /\ timer' = [f \in Events |->
       IF f = group[k].last /\ timer[f] = "armed" THEN "stopped"
       ELSE IF f = e /\ group[k] = NoGroup THEN "armed" ELSE timer[f]]
  /\ group' = [group EXCEPT
       ![k] = [first |-> IF @ = NoGroup THEN e ELSE @.first, last |-> e]]
  /\ at' = [at EXCEPT ![e] = "answered"]
  /\ UNCHANGED <<github, handling, step, handled, rm, monitor>>

(* debounceEvent: the group keeps the handler of the event that opened it, *)
(* and a new timer replaces the one of the event before.  Stop does not    *)
(* help against a callback that already waits for wd.mu.                   *)
Debounce(e) ==
  LET k == KeyOf[e] IN
  /\ at[e] = "counted"
  /\ e \in Grouped
  /\ handling = NoEvent
  /\ timer' = [f \in Events |->
       IF f = e THEN "armed"
       ELSE IF f = group[k].last /\ timer[f] = "armed" THEN "stopped" ELSE timer[f]]
  /\ group' = [group EXCEPT
       ![k] = [first |-> IF @ = NoGroup THEN e ELSE @.first, last |-> e]]
  /\ at' = [at EXCEPT ![e] = "answered"]
  /\ UNCHANGED <<github, handling, step, handled, rm, monitor>>

(* handleWorkflowJobEvent: the request itself runs the scale-up.           *)
HandleJobQueued(e) ==
  /\ at[e] = "counted"
  /\ e \notin Grouped
  /\ rm = Free
  /\ rm' = e
  /\ at' = [at EXCEPT ![e] = "scale"]
  /\ UNCHANGED <<github, debouncer, monitor>>

AnswerJob(e) ==
  /\ at[e] = "scale"
  /\ rm' = Free
  /\ at' = [at EXCEPT ![e] = "answered"]
  /\ UNCHANGED <<github, debouncer, monitor>>
------------------------------------------------------------------------------
(***************************************************************************)
(* Timer callbacks and the handlers that they run under wd.mu.             *)
(***************************************************************************)
Fire(e) ==
  /\ timer[e] = "armed"
  /\ timer' = [timer EXCEPT ![e] = "fired"]
  /\ UNCHANGED <<github, at, group, handling, step, handled, rm, monitor>>

(* Mutant: the callback leaves the group in the map.                       *)
CallbackKeepingGroup(e) ==
  LET k == KeyOf[e] IN
  /\ timer[e] = "fired"
  /\ handling = NoEvent
  /\ timer' = [timer EXCEPT ![e] = "done"]
  /\ handling' = group[k].first
  /\ step' = IF group[k] = NoGroup THEN "idle" ELSE "dispatch"
  /\ handled' = handled \cup ({group[k].first} \ {NoEvent})
  /\ UNCHANGED <<github, at, group, rm, monitor>>

(* The callback of any timer of the key takes whatever group it finds.     *)
Callback(e) ==
  LET k == KeyOf[e] IN
  /\ timer[e] = "fired"
  /\ handling = NoEvent
  /\ timer' = [timer EXCEPT ![e] = "done"]
  /\ group' = [group EXCEPT ![k] = NoGroup]
  /\ handling' = group[k].first
  /\ step' = IF group[k] = NoGroup THEN "idle" ELSE "dispatch"
  /\ handled' = handled \cup ({group[k].first} \ {NoEvent})
  /\ UNCHANGED <<github, at, rm, monitor>>

EndHandler == handling' = NoEvent /\ step' = "idle"

(* StartMonitoring: nothing happens when the run is being monitored.  An   *)
(* event is handled once, so that its entry is new and has had no polls.   *)
StartMonitoring(e) ==
  entry' = [entry EXCEPT ![RunOf[e]] = IF @ = NoEvent THEN e ELSE @]

(* StopMonitoring names the run, not the entry.                            *)
StopMonitoring(r) == entry' = [entry EXCEPT ![r] = NoEvent]

(* Mutant: every update of the status ends the monitoring.                 *)
UpdateAndForget(e) == entry' = [entry EXCEPT ![RunOf[e]] = NoEvent]

(* UpdateWorkflowStatus goes by the status that the payload has.           *)
UpdateWorkflowStatus(e) ==
  entry' = IF e \in Final THEN [entry EXCEPT ![RunOf[e]] = NoEvent] ELSE entry

(* handleWorkflowRunDirect and handlePushEvent up to the call of the       *)
(* manager.  A completed run has its runners cleaned by a goroutine of its *)
(* own, which takes no lock: see RunnerManager and Provisioning.           *)
HandleEvent ==
  LET e == handling IN
  /\ step = "dispatch"
  /\ IF Repo(e) \in Allowed
     THEN CASE ActionOf[e] = "queued" ->
                 StartMonitoring(e) /\ step' = "lock" /\ UNCHANGED handling
            [] ActionOf[e] = "completed"   -> StopMonitoring(RunOf[e]) /\ EndHandler
            [] ActionOf[e] = "in_progress" -> UpdateWorkflowStatus(e) /\ EndHandler
            [] OTHER                       -> EndHandler /\ UNCHANGED entry
     ELSE EndHandler /\ UNCHANGED entry
  /\ UNCHANGED <<github, at, group, timer, handled, rm, polls, todo, found, mpc>>

HandleWorkflowQueued ==
  /\ step = "lock"
  /\ rm = Free
  /\ rm' = Handler
  /\ step' = "scale"
  /\ UNCHANGED <<github, at, group, timer, handling, handled, monitor>>

(* Mutant: the handler ends without unlocking wd.mu.                       *)
DoneWithoutUnlock ==
  /\ step = "scale"
  /\ rm' = Free
  /\ step' = "idle"
  /\ UNCHANGED <<github, at, group, timer, handling, handled, monitor>>

WorkflowQueuedDone ==
  /\ step = "scale"
  /\ rm' = Free
  /\ EndHandler
  /\ UNCHANGED <<github, at, group, timer, handled, monitor>>
------------------------------------------------------------------------------
(***************************************************************************)
(* The workflow monitor                                                    *)
(***************************************************************************)
(* pollActiveWorkflows copies the list, then polls without the lock.       *)
Tick ==
  /\ mpc = "idle"
  /\ \E r \in Runs : entry[r] # NoEvent
  /\ todo' = {entry[r] : r \in {s \in Runs : entry[s] # NoEvent}}
  /\ mpc' = "next"
  /\ UNCHANGED <<github, at, debouncer, rm, entry, polls, found>>

(* Mutant: an exhausted workflow is skipped and stays in the map.          *)
SkipExhausted(w) ==
  /\ mpc = "next" /\ found = 0 /\ w \in todo
  /\ polls[w] >= MaxPolls
  /\ todo' = todo \ {w}
  /\ UNCHANGED <<github, at, debouncer, rm, entry, polls, found, mpc>>

(* pollWorkflow of an entry that has had its polls: whatever is monitored  *)
(* under the run by now is dropped.                                        *)
GiveUp(w) ==
  /\ mpc = "next" /\ found = 0 /\ w \in todo
  /\ polls[w] >= MaxPolls
  /\ todo' = todo \ {w}
  /\ StopMonitoring(RunOf[w])
  /\ UNCHANGED <<github, at, debouncer, rm, polls, found, mpc>>

(* GetWorkflowJobs may fail, list no job for self-hosted runners, or       *)
(* several that are queued, waiting or in progress, which count alike.     *)
JobsFound(r) ==
  IF phase[r] \in {"queued", "waiting", "in_progress"} THEN 0..MaxJobs ELSE {0}

(* Mutant: the polls are counted and never compared with maxPolls.         *)
PollWithoutLimit(w) ==
  /\ mpc = "next" /\ found = 0 /\ w \in todo
  /\ polls' = [polls EXCEPT ![w] = @ + 1]
  /\ todo' = todo \ {w}
  /\ found' \in JobsFound(RunOf[w])
  /\ UNCHANGED <<github, at, debouncer, rm, entry, mpc>>

Poll(w) ==
  /\ mpc = "next" /\ found = 0 /\ w \in todo
  /\ polls[w] < MaxPolls
  /\ polls' = [polls EXCEPT ![w] = @ + 1]
  /\ todo' = todo \ {w}
  /\ found' \in JobsFound(RunOf[w])
  /\ UNCHANGED <<github, at, debouncer, rm, entry, mpc>>

(* Mutant: the scale-up of the monitor does not wait for rm.mu.            *)
ScaleUpUnlocked ==
  /\ mpc = "next" /\ found > 0
  /\ rm' = Monitor
  /\ mpc' = "scale" /\ found' = found - 1
  /\ UNCHANGED <<github, at, debouncer, entry, polls, todo>>

(* handleJobFound for the jobs found, one after the other.                 *)
ScaleUpForJob ==
  /\ mpc = "next" /\ found > 0
  /\ rm = Free
  /\ rm' = Monitor
  /\ mpc' = "scale" /\ found' = found - 1
  /\ UNCHANGED <<github, at, debouncer, entry, polls, todo>>

ScaledUpForJob ==
  /\ mpc = "scale"
  /\ rm' = Free
  /\ mpc' = "next"
  /\ UNCHANGED <<github, at, debouncer, entry, polls, todo, found>>

EndPolls ==
  /\ mpc = "next" /\ found = 0
  /\ todo = {}
  /\ mpc' = "idle"
  /\ UNCHANGED <<github, at, debouncer, rm, entry, polls, todo, found>>

(* Other goroutines take rm.mu as well.                                    *)
OutsideLocks ==
  /\ rm = Free
  /\ rm' = Outside
  /\ UNCHANGED <<github, at, debouncer, monitor>>

OutsideUnlocks ==
  /\ rm = Outside
  /\ rm' = Free
  /\ UNCHANGED <<github, at, debouncer, monitor>>
------------------------------------------------------------------------------
Request(e) == Receive(e) \/ Debounce(e) \/ HandleJobQueued(e) \/ AnswerJob(e)

TimerSteps(e) == Fire(e) \/ Callback(e)

HandlerSteps == HandleEvent \/ HandleWorkflowQueued \/ WorkflowQueuedDone

MonitorSteps ==
  \/ Tick
  \/ \E w \in todo : GiveUp(w) \/ Poll(w)
  \/ ScaleUpForJob
  \/ ScaledUpForJob
  \/ EndPolls

Next ==
  \/ \E e \in Events : Send(e) \/ Lose(e) \/ Request(e) \/ TimerSteps(e)
  \/ HandlerSteps
  \/ MonitorSteps
  \/ OutsideLocks
  \/ OutsideUnlocks

Spec == Init /\ [][Next]_vars

(* API calls return and timers fire; a sync.RWMutex hands over to a        *)
(* goroutine that has waited for it, so some waiter gets rm.mu although    *)
(* others keep taking it.  Requests, callbacks and polls are finitely many *)
(* here, so that each of them gets its turn.  Nothing makes GitHub send an *)
(* event; one that is sent arrives or is lost.                             *)
TakeManager ==
  \/ \E e \in Events : Receive(e) \/ HandleJobQueued(e)
  \/ HandleWorkflowQueued
  \/ ScaleUpForJob

Fairness ==
  /\ SF_vars(TakeManager)
  /\ \A e \in Events : /\ WF_vars(Debounce(e)) /\ WF_vars(AnswerJob(e))
                      /\ WF_vars(Fire(e)) /\ WF_vars(Callback(e))
  /\ WF_vars(HandleEvent) /\ WF_vars(WorkflowQueuedDone)
  /\ WF_vars(Tick \/ (\E w \in todo : GiveUp(w) \/ Poll(w)) \/ ScaledUpForJob \/ EndPolls)
  /\ WF_vars(OutsideUnlocks)

FairSpec == Spec /\ Fairness
------------------------------------------------------------------------------
TypeOK ==
  /\ phase \in [Runs -> Phases]
  /\ attempt \in [Runs -> 0..MaxAttempts]
  /\ at \in [Events -> Places]
  /\ group \in [Keys -> [first : Grouped \cup {NoEvent}, last : Grouped \cup {NoEvent}]]
  /\ timer \in [Events -> Timers]
  /\ handling \in Events \cup {NoEvent}
  /\ step \in {"idle", "dispatch", "lock", "scale"}
  /\ handled \subseteq Grouped
  /\ rm \in Events \cup {Free, Handler, Monitor, Outside}
  /\ entry \in [Runs -> Events \cup {NoEvent}]
  /\ polls \in [Events -> 0..MaxPolls]
  /\ todo \subseteq Events
  /\ found \in 0..MaxJobs
  /\ mpc \in {"idle", "next", "scale"}

(* An open group always has a timer that will close it: the newest one is  *)
(* armed or its callback waits for wd.mu, although timers are stopped,     *)
(* callbacks of stopped timers run and groups are taken by older timers.   *)
OpenGroupsHaveTimers ==
  \A k \in Keys : group[k] # NoGroup =>
    /\ group[k].first \notin handled
    /\ timer[group[k].last] \in {"armed", "fired"}

(* rm.mu is held exactly by the goroutine that is in a scale-up, so that   *)
(* handlers, job requests and the monitor scale up one at a time.          *)
OneScaleUp ==
  /\ step = "scale" <=> rm = Handler
  /\ mpc = "scale" <=> rm = Monitor
  /\ \A e \in Events : at[e] = "scale" <=> rm = e

(* Groups open, take events in and close as EventGroups promises: once,    *)
(* by the handling of the event that opened them, however the timers of    *)
(* a group race with events and with each other.                           *)
Groups == INSTANCE EventGroups WITH
  Events <- Grouped,
  leader <- [k \in Keys |-> group[k].first],
  joined <- {e \in Grouped : timer[e] # "none"}

ImplementsEventGroups == Groups!Spec

SaysEnded(e) == ActionOf[e] = "completed" \/ e \in Final

(* A run is forgotten by the monitor only when an event is handled that    *)
(* says that it has ended, or one of its entries has had all its polls: no *)
(* other event and no poll of another run ends the monitoring of a run     *)
(* that needs it.  An old entry may end that of a re-run.                  *)
DroppedOnlyAfterMaxPolls ==
  [][\A r \in Runs : entry[r] # NoEvent /\ entry'[r] = NoEvent =>
       \/ handling # NoEvent /\ RunOf[handling] = r /\ SaysEnded(handling)
       \/ \E e \in Events : RunOf[e] = r /\ polls[e] = MaxPolls]_vars

(* A request is answered, although it waits for rm.mu twice or for wd.mu,  *)
(* which a handler keeps while it waits for rm.mu itself.                  *)
RequestsAnswered == \A e \in Events : at[e] = "counted" ~> at[e] = "answered"

(* An open group is handled in the end.                                    *)
GroupsClose == \A k \in Keys : group[k] # NoGroup ~> group[k] = NoGroup

(* A run that has completed is not monitored for ever, even when its last  *)
(* event is lost, overtaken or swallowed by a group, and several jobs of   *)
(* each poll wait for rm.mu in turn.                                       *)
CompletedRunsForgotten ==
  \A r \in Runs : <>[](phase[r] = "completed") => <>[](entry[r] = NoEvent)
==============================================================================
