------------------------- MODULE WebhookIntakeProofs -------------------------
(***************************************************************************)
(* Proofs about WebhookIntake, for every set of runs, repositories and     *)
(* events, every attempt and every number of polls.                        *)
(***************************************************************************)
EXTENDS WebhookIntake, TLAPS

(* A group consists of events of its key; an event gets its timer when it  *)
(* is answered, and is handled later than that.                            *)
GroupsAreOfOneKey ==
  \A k \in Keys :
    /\ group[k].first = NoEvent <=> group[k].last = NoEvent
    /\ group[k].first # NoEvent => KeyOf[group[k].first] = k /\ timer[group[k].first] # "none"
    /\ group[k].last # NoEvent => KeyOf[group[k].last] = k

TimersOfAnswered ==
  \A e \in Events : timer[e] # "none" => e \in Grouped /\ at[e] = "answered"

HandledHadTimers == \A e \in handled : timer[e] # "none"

HandlerIsBusy == step = "idle" <=> handling = NoEvent

DebouncerInv ==
  /\ TypeOK
  /\ GroupsAreOfOneKey
  /\ TimersOfAnswered
  /\ HandledHadTimers
  /\ OpenGroupsHaveTimers

HolderInv == TypeOK /\ HandlerIsBusy /\ OneScaleUp
------------------------------------------------------------------------------
(* Events that are grouped have a key.                                     *)
LEMMA GroupedHaveKeys ==
  ASSUME NEW e \in Grouped
  PROVE  KeyOf[e] \in Keys
<1>1. EventType(e) \in {"workflow_run", "push"}
  BY IntakeAssumption DEF Grouped, EventType, Actions
<1>2. Repo(e) \in Repos
  BY IntakeAssumption DEF Grouped, Repo
<1>3. KeyOf[e] = <<EventType(e), Repo(e)>>
  BY DEF KeyOf
<1> QED
  BY <1>1, <1>2, <1>3 DEF Keys

(* What GitHub's step does to its own state.                               *)
LEMMA SendType ==
  ASSUME TypeOK, NEW e \in Events, Send(e)
  PROVE  TypeOK'
<1> USE IntakeAssumption DEF TypeOK, debouncer, monitor, github
<1>1. at' \in [Events -> Places]
  BY DEF Send, Places
<1>2. attempt' \in [Runs -> 0..MaxAttempts]
  <2>1. RunOf[e] \in Runs /\ AttemptOf[e] \in 0..MaxAttempts
    BY DEF Attempts
  <2>2. CASE ActionOf[e] = "push"
    BY <2>2 DEF Send
  <2>3. CASE ActionOf[e] # "push"
    <3>1. attempt' = [attempt EXCEPT ![RunOf[e]] = AttemptOf[e]]
      BY <2>3 DEF Send
    <3> QED
      BY <2>1, <3>1
  <2> QED
    BY <2>2, <2>3
<1>3. phase' \in [Runs -> Phases]
  <2>1. CASE ActionOf[e] = "push"
    BY <2>1 DEF Send
  <2>2. CASE ActionOf[e] = "job"
    BY <2>2 DEF Send
  <2>3. CASE ActionOf[e] \notin {"push", "job"}
    <3>1. ActionOf[e] \in Phases
      BY <2>3 DEF Actions, Phases
    <3> QED
      BY <2>3, <3>1 DEF Send
  <2> QED
    BY <2>1, <2>2, <2>3
<1> QED
  BY <1>1, <1>2, <1>3 DEF Send
------------------------------------------------------------------------------
(* Requests keep the types.                                                *)
LEMMA RequestType ==
  ASSUME TypeOK, NEW e \in Events, Request(e)
  PROVE  TypeOK'
<1> USE IntakeAssumption DEF TypeOK, debouncer, monitor, github, Places
<1>1. CASE Receive(e)
  BY <1>1 DEF Receive
<1>2. CASE Debounce(e)
  <2> DEFINE k == KeyOf[e]
  <2>1. k \in Keys /\ e \in Grouped
    BY <1>2, GroupedHaveKeys DEF Debounce
  <2>2. group' \in [Keys -> [first : Grouped \cup {NoEvent}, last : Grouped \cup {NoEvent}]]
    <3>1. [first |-> IF group[k] = NoGroup THEN e ELSE group[k].first, last |-> e]
            \in [first : Grouped \cup {NoEvent}, last : Grouped \cup {NoEvent}]
      BY <2>1
    <3> QED
      BY <1>2, <2>1, <3>1 DEF Debounce
  <2>3. timer' \in [Events -> Timers]
    BY <1>2 DEF Debounce, Timers
  <2> QED
    BY <1>2, <2>2, <2>3 DEF Debounce
<1>3. CASE HandleJobQueued(e)
  BY <1>3 DEF HandleJobQueued
<1>4. CASE AnswerJob(e)
  BY <1>4 DEF AnswerJob
<1> QED
  BY <1>1, <1>2, <1>3, <1>4 DEF Request

(* A callback belongs to an event that has been grouped, and so has a key. *)
LEMMA TimerType ==
  ASSUME TypeOK, TimersOfAnswered, NEW e \in Events, TimerSteps(e)
  PROVE  TypeOK'
<1> USE IntakeAssumption DEF TypeOK, debouncer, monitor, github
<1>1. CASE Fire(e)
  BY <1>1 DEF Fire, Timers
<1>2. CASE Callback(e)
  <2> DEFINE k == KeyOf[e]
  <2>1. k \in Keys
    BY <1>2, GroupedHaveKeys DEF Callback, TimersOfAnswered
  <2>2. group' \in [Keys -> [first : Grouped \cup {NoEvent}, last : Grouped \cup {NoEvent}]]
    BY <1>2, <2>1 DEF Callback, NoGroup
  <2>3. group[k].first \in Grouped \cup {NoEvent}
    BY <2>1
  <2>4. handling' \in Events \cup {NoEvent} /\ handled' \subseteq Grouped
    BY <1>2, <2>3 DEF Callback, Grouped
  <2>5. timer' \in [Events -> Timers] /\ step' \in {"idle", "dispatch", "lock", "scale"}
    BY <1>2 DEF Callback, Timers
  <2> QED
    BY <1>2, <2>2, <2>4, <2>5 DEF Callback
<1> QED
  BY <1>1, <1>2 DEF TimerSteps

(* The handler names a run that there is.                                  *)
LEMMA HandlerType ==
  ASSUME TypeOK, HandlerIsBusy, HandlerSteps
  PROVE  TypeOK'
<1> USE IntakeAssumption DEF TypeOK, debouncer, monitor, github
<1>1. CASE HandleEvent
  <2>1. handling \in Events
    BY <1>1 DEF HandleEvent, HandlerIsBusy
  <2>2. RunOf[handling] \in Runs
    BY <2>1
  <2>3. entry' \in [Runs -> Events \cup {NoEvent}]
    BY <1>1, <2>1, <2>2 DEF HandleEvent, StartMonitoring, StopMonitoring, UpdateWorkflowStatus
  <2>4. handling' \in Events \cup {NoEvent} /\ step' \in {"idle", "dispatch", "lock", "scale"}
    BY <1>1 DEF HandleEvent, EndHandler
  <2> QED
    BY <1>1, <2>3, <2>4 DEF HandleEvent
<1>2. CASE HandleWorkflowQueued
  BY <1>2 DEF HandleWorkflowQueued
<1>3. CASE WorkflowQueuedDone
  BY <1>3 DEF WorkflowQueuedDone, EndHandler
<1> QED
  BY <1>1, <1>2, <1>3 DEF HandlerSteps

(* The monitor counts polls up to the maximum.                             *)
LEMMA MonitorType ==
  ASSUME TypeOK, MonitorSteps
  PROVE  TypeOK'
<1> USE IntakeAssumption DEF TypeOK, debouncer, monitor, github
<1>1. CASE Tick
  <2>1. todo' \subseteq Events
    BY <1>1 DEF Tick
  <2> QED
    BY <1>1, <2>1 DEF Tick
<1>2. ASSUME NEW w \in todo, GiveUp(w)
      PROVE  TypeOK'
  BY <1>2 DEF GiveUp, StopMonitoring
<1>3. ASSUME NEW w \in todo, Poll(w)
      PROVE  TypeOK'
  <2>1. polls' \in [Events -> 0..MaxPolls]
    BY <1>3 DEF Poll
  <2>2. found' \in 0..MaxJobs
    BY <1>3 DEF Poll, JobsFound
  <2> QED
    BY <1>3, <2>1, <2>2 DEF Poll
<1>4. CASE ScaleUpForJob \/ ScaledUpForJob \/ EndPolls
  BY <1>4 DEF ScaleUpForJob, ScaledUpForJob, EndPolls
<1> QED
  BY <1>1, <1>2, <1>3, <1>4 DEF MonitorSteps

(* Every step keeps the types.                                             *)
LEMMA NextType ==
  ASSUME TypeOK, TimersOfAnswered, HandlerIsBusy, Next
  PROVE  TypeOK'
<1>1. ASSUME NEW e \in Events, Lose(e)
      PROVE  TypeOK'
  BY <1>1 DEF TypeOK, Lose, Places, github, debouncer, monitor
<1>2. CASE OutsideLocks \/ OutsideUnlocks
  BY <1>2 DEF TypeOK, OutsideLocks, OutsideUnlocks, github, debouncer, monitor
<1> QED
  BY <1>1, <1>2, SendType, RequestType, TimerType, HandlerType, MonitorType DEF Next
------------------------------------------------------------------------------
(***************************************************************************)
(* The debouncer                                                           *)
(***************************************************************************)
(* An event that is debounced joins its group, or opens it.                *)
LEMMA DebounceGroups ==
  ASSUME DebouncerInv, NEW e \in Events, Debounce(e)
  PROVE  /\ GroupsAreOfOneKey'
         /\ TimersOfAnswered'
         /\ HandledHadTimers'
         /\ OpenGroupsHaveTimers'
<1> DEFINE k == KeyOf[e]
<1> USE IntakeAssumption DEF DebouncerInv
<1>1. e \in Grouped /\ k \in Keys /\ e # NoEvent
  BY GroupedHaveKeys DEF Debounce
<1>2. timer[e] = "none" /\ at[e] = "counted"
  BY DEF Debounce, TimersOfAnswered
<1>3. /\ timer' \in [Events -> Timers]
      /\ timer'[e] = "armed"
      /\ \A f \in Events : timer[f] # "none" => timer'[f] # "none"
      /\ \A f \in Events \ {e} : timer'[f] # "none" => timer[f] # "none"
      /\ \A f \in Events \ {e, group[k].last} : timer'[f] = timer[f]
  BY <1>1, <1>2 DEF Debounce, TypeOK, Timers
<1>4. /\ group'[k] = [first |-> IF group[k] = NoGroup THEN e ELSE group[k].first, last |-> e]
      /\ \A j \in Keys \ {k} : group'[j] = group[j]
  BY <1>1 DEF Debounce, TypeOK
<1>5. \A j \in Keys : /\ group[j].first \in Events \cup {NoEvent}
                      /\ group[j].last \in Events \cup {NoEvent}
                      /\ group[j] = NoGroup <=> group[j].first = NoEvent
  BY DEF TypeOK, Grouped, GroupsAreOfOneKey, NoGroup
<1>6. GroupsAreOfOneKey'
  <2> SUFFICES ASSUME NEW j \in Keys
               PROVE  /\ group'[j].first = NoEvent <=> group'[j].last = NoEvent
                      /\ group'[j].first # NoEvent =>
                           KeyOf[group'[j].first] = j /\ timer'[group'[j].first] # "none"
                      /\ group'[j].last # NoEvent => KeyOf[group'[j].last] = j
    BY DEF GroupsAreOfOneKey
  <2>1. CASE j = k
    BY <2>1, <1>1, <1>3, <1>4, <1>5 DEF GroupsAreOfOneKey
  <2>2. CASE j # k
    BY <2>2, <1>3, <1>4, <1>5 DEF GroupsAreOfOneKey
  <2> QED
    BY <2>1, <2>2
<1>7. TimersOfAnswered'
  BY <1>1, <1>3 DEF TimersOfAnswered, Debounce, TypeOK
<1>8. HandledHadTimers' /\ e \notin handled
  BY <1>2, <1>3 DEF HandledHadTimers, Debounce, TypeOK, Grouped
<1>9. OpenGroupsHaveTimers'
  <2> SUFFICES ASSUME NEW j \in Keys, group'[j] # NoGroup
               PROVE  group'[j].first \notin handled /\ timer'[group'[j].last] \in {"armed", "fired"}
    BY DEF OpenGroupsHaveTimers, Debounce
  <2>1. CASE j = k
    BY <2>1, <1>3, <1>4, <1>8 DEF OpenGroupsHaveTimers
  <2>2. CASE j # k
    <3>1. group[j] # NoGroup /\ group'[j] = group[j]
      BY <2>2, <1>4
    <3>2. /\ group[j].last \in Events /\ KeyOf[group[j].last] = j
          /\ group[j].first \notin handled /\ timer[group[j].last] \in {"armed", "fired"}
      BY <3>1, <1>5 DEF OpenGroupsHaveTimers, GroupsAreOfOneKey, TypeOK
    <3>3. group[k].last # group[j].last
      BY <3>2, <2>2, <1>1, <1>5 DEF GroupsAreOfOneKey
    <3> QED
      BY <3>1, <3>2, <3>3, <2>2, <1>3
  <2> QED
    BY <2>1, <2>2
<1> QED
  BY <1>6, <1>7, <1>8, <1>9

(* A callback takes a group of its own key, and no other.                  *)
LEMMA CallbackGroups ==
  ASSUME DebouncerInv, NEW e \in Events, Callback(e)
  PROVE  /\ GroupsAreOfOneKey'
         /\ TimersOfAnswered'
         /\ HandledHadTimers'
         /\ OpenGroupsHaveTimers'
<1> DEFINE k == KeyOf[e]
<1> USE IntakeAssumption DEF DebouncerInv
<1>1. e \in Grouped /\ k \in Keys
  BY GroupedHaveKeys DEF Callback, TimersOfAnswered
<1>2. /\ timer[e] = "fired" /\ timer'[e] = "done"
      /\ \A f \in Events \ {e} : timer'[f] = timer[f]
  BY DEF Callback, TypeOK
<1>3. /\ group'[k] = NoGroup
      /\ \A j \in Keys \ {k} : group'[j] = group[j]
  BY <1>1 DEF Callback, TypeOK
<1>4. \A j \in Keys : /\ group[j].first \in Events \cup {NoEvent}
                      /\ group[j].last \in Events \cup {NoEvent}
                      /\ group[j] = NoGroup <=> group[j].first = NoEvent
  BY DEF TypeOK, Grouped, GroupsAreOfOneKey, NoGroup
<1>5. \A f \in Events : timer'[f] # "none" <=> timer[f] # "none"
  BY <1>2
<1>6. GroupsAreOfOneKey'
  <2> SUFFICES ASSUME NEW j \in Keys
               PROVE  /\ group'[j].first = NoEvent <=> group'[j].last = NoEvent
                      /\ group'[j].first # NoEvent =>
                           KeyOf[group'[j].first] = j /\ timer'[group'[j].first] # "none"
                      /\ group'[j].last # NoEvent => KeyOf[group'[j].last] = j
    BY DEF GroupsAreOfOneKey
  <2>1. CASE j = k
    BY <2>1, <1>3 DEF NoGroup
  <2>2. CASE j # k
    BY <2>2, <1>3, <1>4, <1>5 DEF GroupsAreOfOneKey
  <2> QED
    BY <2>1, <2>2
<1>7. TimersOfAnswered'
  BY <1>5 DEF TimersOfAnswered, Callback
<1>8. HandledHadTimers'
  BY <1>1, <1>4, <1>5 DEF HandledHadTimers, Callback, GroupsAreOfOneKey, TypeOK, Grouped
<1>9. OpenGroupsHaveTimers'
  <2> SUFFICES ASSUME NEW j \in Keys, group'[j] # NoGroup
               PROVE  group'[j].first \notin handled' /\ timer'[group'[j].last] \in {"armed", "fired"}
    BY DEF OpenGroupsHaveTimers
  <2>1. j # k /\ group[j] # NoGroup /\ group'[j] = group[j]
    BY <1>3
  <2>2. /\ group[j].last \in Events /\ KeyOf[group[j].last] = j
        /\ group[j].first # NoEvent /\ KeyOf[group[j].first] = j
        /\ group[j].first \notin handled /\ timer[group[j].last] \in {"armed", "fired"}
    BY <2>1, <1>4 DEF OpenGroupsHaveTimers, GroupsAreOfOneKey
  <2>3. group[j].first # group[k].first
    BY <2>1, <2>2, <1>1, <1>4 DEF GroupsAreOfOneKey
  <2>4. handled' = handled \cup ({group[k].first} \ {NoEvent})
    BY DEF Callback
  <2>5. timer'[group[j].last] = timer[group[j].last]
    BY <1>2, <2>1, <2>2
  <2> QED
    BY <2>1, <2>2, <2>3, <2>4, <2>5
<1> QED
  BY <1>6, <1>7, <1>8, <1>9

(* A timer that fires has its callback still to come.                      *)
LEMMA FireGroups ==
  ASSUME DebouncerInv, NEW e \in Events, Fire(e)
  PROVE  /\ GroupsAreOfOneKey'
         /\ TimersOfAnswered'
         /\ HandledHadTimers'
         /\ OpenGroupsHaveTimers'
<1> USE IntakeAssumption DEF DebouncerInv
<1>1. /\ timer[e] = "armed" /\ timer'[e] = "fired" /\ group' = group /\ handled' = handled
      /\ \A f \in Events \ {e} : timer'[f] = timer[f]
  BY DEF Fire, TypeOK
<1>2. \A k \in Keys : /\ group[k].first \in Events \cup {NoEvent}
                      /\ group[k].last \in Events \cup {NoEvent}
                      /\ group[k] = NoGroup <=> group[k].last = NoEvent
  BY DEF TypeOK, Grouped, GroupsAreOfOneKey, NoGroup
<1>3. GroupsAreOfOneKey' /\ OpenGroupsHaveTimers'
  BY <1>1, <1>2 DEF GroupsAreOfOneKey, OpenGroupsHaveTimers
<1>4. TimersOfAnswered' /\ HandledHadTimers'
  BY <1>1 DEF TimersOfAnswered, HandledHadTimers, Fire
<1> QED
  BY <1>3, <1>4

(* The other steps neither touch the debouncer nor take back an answer.    *)
LEMMA OtherGroups ==
  ASSUME DebouncerInv, group' = group, timer' = timer, handled' = handled,
         \A e \in Events : at[e] = "answered" => at'[e] = "answered"
  PROVE  /\ GroupsAreOfOneKey'
         /\ TimersOfAnswered'
         /\ HandledHadTimers'
         /\ OpenGroupsHaveTimers'
BY DEF DebouncerInv, GroupsAreOfOneKey, TimersOfAnswered, HandledHadTimers, OpenGroupsHaveTimers

(* Every step keeps what the debouncer relies on.                          *)
LEMMA NextGroups ==
  ASSUME DebouncerInv, Next
  PROVE  /\ GroupsAreOfOneKey'
         /\ TimersOfAnswered'
         /\ HandledHadTimers'
         /\ OpenGroupsHaveTimers'
<1>1. ASSUME NEW e \in Events, Send(e) \/ Lose(e) \/ Receive(e) \/ HandleJobQueued(e) \/ AnswerJob(e)
      PROVE  /\ group' = group /\ timer' = timer /\ handled' = handled
             /\ \A f \in Events : at[f] = "answered" => at'[f] = "answered"
  BY <1>1 DEF DebouncerInv, TypeOK, Send, Lose, Receive, HandleJobQueued, AnswerJob, debouncer
<1>2. CASE HandlerSteps \/ MonitorSteps \/ OutsideLocks \/ OutsideUnlocks
  <2>1. group' = group /\ timer' = timer /\ handled' = handled /\ at' = at
    BY <1>2 DEF HandlerSteps, HandleEvent, HandleWorkflowQueued, WorkflowQueuedDone,
                MonitorSteps, Tick, GiveUp, Poll, ScaleUpForJob, ScaledUpForJob, EndPolls,
                OutsideLocks, OutsideUnlocks, debouncer
  <2> QED
    BY <2>1, OtherGroups
<1>3. ASSUME NEW e \in Events, Request(e) \/ TimerSteps(e) \/ Send(e) \/ Lose(e)
      PROVE  /\ GroupsAreOfOneKey'
             /\ TimersOfAnswered'
             /\ HandledHadTimers'
             /\ OpenGroupsHaveTimers'
  <2>1. CASE Debounce(e)
    BY <2>1, DebounceGroups
  <2>2. CASE Callback(e)
    BY <2>2, CallbackGroups
  <2>3. CASE Fire(e)
    BY <2>3, FireGroups
  <2>4. CASE Send(e) \/ Lose(e) \/ Receive(e) \/ HandleJobQueued(e) \/ AnswerJob(e)
    BY <2>4, <1>1, OtherGroups
  <2> QED
    BY <1>3, <2>1, <2>2, <2>3, <2>4 DEF Request, TimerSteps
<1> QED
  BY <1>2, <1>3 DEF Next
------------------------------------------------------------------------------
(***************************************************************************)
(* The locks                                                               *)
(***************************************************************************)
(* A request takes rm.mu when it is free and gives back its own.           *)
LEMMA RequestHolder ==
  ASSUME HolderInv, NEW e \in Events, Request(e)
  PROVE  HandlerIsBusy' /\ OneScaleUp'
<1> USE IntakeAssumption DEF HolderInv, TypeOK, HandlerIsBusy, OneScaleUp, Request, debouncer, monitor
<1>1. CASE Receive(e)
  BY <1>1 DEF Receive
<1>2. CASE Debounce(e)
  BY <1>2 DEF Debounce
<1>3. CASE HandleJobQueued(e)
  BY <1>3 DEF HandleJobQueued
<1>4. CASE AnswerJob(e)
  BY <1>4 DEF AnswerJob
<1> QED
  BY <1>1, <1>2, <1>3, <1>4

(* So does the debounced handler, which runs while wd.mu is held.          *)
LEMMA HandlerHolder ==
  ASSUME HolderInv, HandlerSteps
  PROVE  HandlerIsBusy' /\ OneScaleUp'
<1> USE IntakeAssumption DEF HolderInv, TypeOK, HandlerIsBusy, OneScaleUp, debouncer, monitor
<1>1. CASE HandleEvent
  BY <1>1 DEF HandleEvent, EndHandler
<1>2. CASE HandleWorkflowQueued
  BY <1>2 DEF HandleWorkflowQueued
<1>3. CASE WorkflowQueuedDone
  BY <1>3 DEF WorkflowQueuedDone, EndHandler
<1> QED
  BY <1>1, <1>2, <1>3 DEF HandlerSteps

(* And the monitor.                                                        *)
LEMMA MonitorHolder ==
  ASSUME HolderInv, MonitorSteps
  PROVE  HandlerIsBusy' /\ OneScaleUp'
<1> USE IntakeAssumption DEF HolderInv, TypeOK, HandlerIsBusy, OneScaleUp, debouncer
<1>1. CASE Tick
  BY <1>1 DEF Tick
<1>2. ASSUME NEW w \in todo, GiveUp(w) \/ Poll(w)
      PROVE  HandlerIsBusy' /\ OneScaleUp'
  BY <1>2 DEF GiveUp, Poll
<1>3. CASE ScaleUpForJob
  BY <1>3 DEF ScaleUpForJob
<1>4. CASE ScaledUpForJob
  BY <1>4 DEF ScaledUpForJob
<1>5. CASE EndPolls
  BY <1>5 DEF EndPolls
<1> QED
  BY <1>1, <1>2, <1>3, <1>4, <1>5 DEF MonitorSteps

(* Nobody else takes it away from its holder.                              *)
LEMMA NextHolder ==
  ASSUME HolderInv, DebouncerInv, Next
  PROVE  HandlerIsBusy' /\ OneScaleUp'
<1>1. ASSUME NEW e \in Events, Send(e) \/ Lose(e)
      PROVE  HandlerIsBusy' /\ OneScaleUp'
  BY <1>1, IntakeAssumption
     DEF HolderInv, TypeOK, HandlerIsBusy, OneScaleUp, Send, Lose, debouncer, monitor
<1>2. ASSUME NEW e \in Events, TimerSteps(e)
      PROVE  HandlerIsBusy' /\ OneScaleUp'
  <2>1. CASE Fire(e)
    BY <2>1 DEF HolderInv, HandlerIsBusy, OneScaleUp, Fire, monitor
  <2>2. CASE Callback(e)
    <3> DEFINE k == KeyOf[e]
    <3>1. k \in Keys
      BY <2>2, GroupedHaveKeys DEF Callback, DebouncerInv, TimersOfAnswered
    <3>2. group[k] = NoGroup <=> group[k].first = NoEvent
      BY <3>1 DEF DebouncerInv, TypeOK, GroupsAreOfOneKey, NoGroup
    <3>3. HandlerIsBusy'
      BY <2>2, <3>2 DEF HandlerIsBusy, Callback
    <3>4. OneScaleUp'
      BY <2>2, IntakeAssumption DEF HolderInv, HandlerIsBusy, OneScaleUp, Callback, monitor
    <3> QED
      BY <3>3, <3>4
  <2> QED
    BY <1>2, <2>1, <2>2 DEF TimerSteps
<1>3. CASE OutsideLocks \/ OutsideUnlocks
  BY <1>3, IntakeAssumption
     DEF HolderInv, TypeOK, HandlerIsBusy, OneScaleUp, OutsideLocks, OutsideUnlocks, debouncer, monitor
<1> QED
  BY <1>1, <1>2, <1>3, RequestHolder, HandlerHolder, MonitorHolder DEF Next
------------------------------------------------------------------------------
(***************************************************************************)
(* The specification                                                       *)
(***************************************************************************)
IInv == DebouncerInv /\ HolderInv

(* The first state satisfies the invariant.                                *)
LEMMA InitInv == Init => IInv
<1> SUFFICES ASSUME Init
             PROVE  IInv
  OBVIOUS
<1>1. TypeOK
  BY IntakeAssumption DEF Init, TypeOK, Phases, Places, Timers, NoGroup
<1>2. GroupsAreOfOneKey /\ TimersOfAnswered /\ HandledHadTimers /\ OpenGroupsHaveTimers
  BY DEF Init, GroupsAreOfOneKey, TimersOfAnswered, HandledHadTimers, OpenGroupsHaveTimers, NoGroup
<1>3. HandlerIsBusy /\ OneScaleUp
  BY IntakeAssumption DEF Init, HandlerIsBusy, OneScaleUp
<1> QED
  BY <1>1, <1>2, <1>3 DEF IInv, DebouncerInv, HolderInv

(* And every step keeps it.                                                *)
LEMMA NextInv == IInv /\ [Next]_vars => IInv'
<1> SUFFICES ASSUME IInv, [Next]_vars
             PROVE  IInv'
  OBVIOUS
<1>1. CASE Next
  BY <1>1, NextType, NextGroups, NextHolder DEF IInv, DebouncerInv, HolderInv
<1>2. CASE UNCHANGED vars
  BY <1>2 DEF vars, IInv, DebouncerInv, HolderInv, TypeOK, GroupsAreOfOneKey, TimersOfAnswered,
              HandledHadTimers, OpenGroupsHaveTimers, HandlerIsBusy, OneScaleUp
<1> QED
  BY <1>1, <1>2

(* Therefore all states do.                                                *)
LEMMA Invariant == Spec => []IInv
BY InitInv, NextInv, PTL DEF Spec

(* The state of the intake has its types: polls stay within maxPolls and   *)
(* the debouncer handles only events that it groups.                       *)
THEOREM TypeCorrect == Spec => []TypeOK
<1>1. IInv => TypeOK
  BY DEF IInv, HolderInv
<1> QED
  BY <1>1, Invariant, PTL

(* An open group of the debouncer never lacks the timer that will close    *)
(* it, whichever callbacks run early, late or for a group that is gone.    *)
THEOREM OpenGroupsAlwaysHaveTimers == Spec => []OpenGroupsHaveTimers
<1>1. IInv => OpenGroupsHaveTimers
  BY DEF IInv, DebouncerInv
<1> QED
  BY <1>1, Invariant, PTL

(* Requests, debounced handlers and the monitor scale up one at a time.    *)
THEOREM ScaleUpsExclude == Spec => []OneScaleUp
<1>1. IInv => OneScaleUp
  BY DEF IInv, HolderInv
<1> QED
  BY <1>1, Invariant, PTL
------------------------------------------------------------------------------
(* The monitoring of a run ends with an event that says so or after all    *)
(* the polls of one of its entries, whatever happens to other runs.        *)
LEMMA DroppedStep ==
  ASSUME IInv, Next, NEW r \in Runs, entry[r] # NoEvent, entry'[r] = NoEvent
  PROVE  \/ handling # NoEvent /\ RunOf[handling] = r /\ SaysEnded(handling)
         \/ \E e \in Events : RunOf[e] = r /\ polls[e] = MaxPolls
<1>0. \A e \in Events : polls[e] \in 0..MaxPolls /\ polls[e] >= MaxPolls => polls[e] = MaxPolls
  BY IntakeAssumption, SMT
<1> USE IntakeAssumption DEF IInv, HolderInv, TypeOK
<1>1. CASE HandleEvent
  <2>1. handling \in Events
    BY <1>1 DEF HandleEvent, HandlerIsBusy
  <2>2. handling # NoEvent /\ RunOf[handling] \in Runs
    BY <2>1
  <2>3. SaysEnded(handling) /\ RunOf[handling] = r
    BY <1>1, <2>2
    DEF HandleEvent, StartMonitoring, StopMonitoring, UpdateWorkflowStatus, SaysEnded
  <2> QED
    BY <2>2, <2>3
<1>2. ASSUME NEW w \in todo, GiveUp(w)
      PROVE  \E e \in Events : RunOf[e] = r /\ polls[e] = MaxPolls
  <2>1. RunOf[w] = r
    BY <1>2 DEF GiveUp, StopMonitoring
  <2>2. w \in Events /\ polls[w] >= MaxPolls /\ polls[w] \in 0..MaxPolls
    BY <1>2 DEF GiveUp
  <2>3. polls[w] = MaxPolls
    BY ONLY <1>0, <2>2
  <2> QED
    BY <2>1, <2>2, <2>3
<1>3. ASSUME NEW w \in todo, Poll(w)
      PROVE  FALSE
  BY <1>3 DEF Poll
<1>4. ASSUME NEW e \in Events, Send(e) \/ Lose(e) \/ Request(e) \/ TimerSteps(e)
      PROVE  FALSE
  BY <1>4 DEF Send, Lose, Request, Receive, Debounce, HandleJobQueued, AnswerJob, TimerSteps,
              Fire, Callback, monitor
<1>5. ASSUME \/ HandleWorkflowQueued \/ WorkflowQueuedDone \/ OutsideLocks \/ OutsideUnlocks
             \/ Tick \/ ScaleUpForJob \/ ScaledUpForJob \/ EndPolls
      PROVE  FALSE
  BY <1>5 DEF HandleWorkflowQueued, WorkflowQueuedDone, OutsideLocks, OutsideUnlocks,
              Tick, ScaleUpForJob, ScaledUpForJob, EndPolls, monitor
<1> QED
  BY <1>1, <1>2, <1>3, <1>4, <1>5 DEF Next, HandlerSteps, MonitorSteps

(* The property of the run about it, for every number of polls.            *)
THEOREM DroppedForAReason == Spec => DroppedOnlyAfterMaxPolls
<1> DEFINE Reason(r) ==
      \/ handling # NoEvent /\ RunOf[handling] = r /\ SaysEnded(handling)
      \/ \E e \in Events : RunOf[e] = r /\ polls[e] = MaxPolls
           Drop == \A r \in Runs : entry[r] # NoEvent /\ entry'[r] = NoEvent => Reason(r)
<1>1. IInv /\ [Next]_vars => [Drop]_vars
  BY DroppedStep
<1> QED
  BY <1>1, Invariant, PTL DEF Spec, DroppedOnlyAfterMaxPolls
------------------------------------------------------------------------------
(* A step of the debouncer is one of EventGroups or is not seen there.     *)
LEMMA NextImplements ==
  ASSUME IInv, Next
  PROVE  Groups!Next \/ UNCHANGED Groups!vars
<1> DEFINE Joined == {e \in Grouped : timer[e] # "none"}
           leader == [k \in Keys |-> group[k].first]
<1> USE IntakeAssumption DEF IInv, DebouncerInv
<1>1. ASSUME NEW e \in Events, Debounce(e)
      PROVE  Groups!Accept(e) /\ e \in Grouped
  <2> DEFINE k == KeyOf[e]
  <2>1. e \in Grouped /\ k \in Keys
    BY <1>1, GroupedHaveKeys DEF Debounce
  <2>2. timer[e] = "none" /\ handled' = handled
    BY <1>1 DEF Debounce, TimersOfAnswered
  <2>3. /\ timer'[e] = "armed"
        /\ \A f \in Events \ {e} : timer'[f] # "none" <=> timer[f] # "none"
    BY <1>1, <2>1 DEF Debounce, TypeOK, Timers
  <2>4. Joined' = Joined \cup {e}
    BY <2>1, <2>3 DEF Grouped
  <2>5. group[k] = NoGroup <=> group[k].first = NoEvent
    BY <2>1 DEF TypeOK, GroupsAreOfOneKey, NoGroup
  <2>6. /\ group'[k].first = IF group[k].first = NoEvent THEN e ELSE group[k].first
        /\ \A j \in Keys \ {k} : group'[j].first = group[j].first
    BY <1>1, <2>1, <2>5 DEF Debounce, TypeOK
  <2>7. leader' = [leader EXCEPT ![k] = IF @ = NoEvent THEN e ELSE @]
    BY <2>1, <2>6
  <2> QED
    BY <2>1, <2>2, <2>4, <2>7 DEF Groups!Accept
<1>2. ASSUME NEW e \in Events, Callback(e)
      PROVE  Groups!Next \/ UNCHANGED Groups!vars
  <2> DEFINE k == KeyOf[e]
  <2>1. k \in Keys
    BY <1>2, GroupedHaveKeys DEF Callback, TimersOfAnswered
  <2>2. \A f \in Events : timer'[f] # "none" <=> timer[f] # "none"
    BY <1>2 DEF Callback, TypeOK
  <2>3. Joined' = Joined
    BY <2>2 DEF Grouped
  <2>4. /\ group'[k].first = NoEvent
        /\ \A j \in Keys \ {k} : group'[j].first = group[j].first
        /\ handled' = handled \cup ({group[k].first} \ {NoEvent})
    BY <1>2, <2>1 DEF Callback, TypeOK, NoGroup
  <2>5. leader' = [leader EXCEPT ![k] = NoEvent]
    BY <2>1, <2>4
  <2>6. CASE group[k].first = NoEvent
    <3>1. leader' = leader /\ handled' = handled
      BY <2>1, <2>4, <2>6
    <3> QED
      BY <2>3, <3>1 DEF Groups!vars
  <2>7. CASE group[k].first # NoEvent
    <3>1. group[k].first \in Grouped \ handled
      BY <2>1, <2>7 DEF TypeOK, OpenGroupsHaveTimers, NoGroup
    <3>2. Groups!Handle(k)
      BY <2>1, <2>3, <2>4, <2>5, <2>7, <3>1 DEF Groups!Handle
    <3> QED
      BY <2>1, <3>2 DEF Groups!Next
  <2> QED
    BY <2>6, <2>7
<1>3. ASSUME NEW e \in Events, Fire(e)
      PROVE  UNCHANGED Groups!vars
  <2>1. \A f \in Events : timer'[f] # "none" <=> timer[f] # "none"
    BY <1>3 DEF Fire, TypeOK
  <2>2. Joined' = Joined /\ group' = group /\ handled' = handled
    BY <1>3, <2>1 DEF Grouped, Fire
  <2> QED
    BY <2>2 DEF Groups!vars
<1>4. ASSUME NEW e \in Events, Send(e) \/ Lose(e) \/ Receive(e) \/ HandleJobQueued(e) \/ AnswerJob(e)
      PROVE  UNCHANGED Groups!vars
  BY <1>4 DEF Send, Lose, Receive, HandleJobQueued, AnswerJob, debouncer, Groups!vars
<1>5. CASE HandlerSteps \/ MonitorSteps \/ OutsideLocks \/ OutsideUnlocks
  BY <1>5 DEF HandlerSteps, HandleEvent, HandleWorkflowQueued, WorkflowQueuedDone,
              MonitorSteps, Tick, GiveUp, Poll, ScaleUpForJob, ScaledUpForJob, EndPolls,
              OutsideLocks, OutsideUnlocks, debouncer, Groups!vars
<1> QED
  BY <1>1, <1>2, <1>3, <1>4, <1>5 DEF Next, Request, TimerSteps, Groups!Next

(* The debouncer with its timers, locks and goroutines implements groups   *)
(* that close once, by the handling of the event that opened them.         *)
THEOREM DebouncerImplementsEventGroups == Spec => ImplementsEventGroups
<1>1. ASSUME Init
      PROVE  Groups!Init
  <2>1. \A k \in Keys : group[k].first = NoEvent
    BY <1>1 DEF Init, NoGroup
  <2>2. \A e \in Grouped : timer[e] = "none"
    BY <1>1 DEF Init, Grouped
  <2> QED
    BY <1>1, <2>1, <2>2 DEF Init, Groups!Init
<1>2. IInv /\ [Next]_vars => [Groups!Next]_(Groups!vars)
  <2>1. ASSUME UNCHANGED vars
        PROVE  UNCHANGED Groups!vars
    BY <2>1 DEF vars, Groups!vars
  <2> QED
    BY <2>1, NextImplements
<1> QED
  BY <1>1, <1>2, Invariant, PTL DEF Spec, ImplementsEventGroups, Groups!Spec
=============================================================================
