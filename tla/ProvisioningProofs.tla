-------------------------- MODULE ProvisioningProofs --------------------------
(***************************************************************************)
(* Proofs about Provisioning, for every number of jobs, runs, repositories,*)
(* labels, runners and goroutines.                                         *)
(***************************************************************************)
EXTENDS Provisioning, FiniteSetTheorems, TLAPS

(* Between the count of the slots and the return.                          *)
Locked == {"labels", "list", "count", "start"}

(* A goroutine at work has a repository, and holds rm.mu with something    *)
(* left to start once it has counted the slots.                            *)
Working ==
  \A t \in Threads :
    /\ pc[t] # "idle" => repo[t] \in Repos
    /\ pc[t] \in Locked => rm = t /\ left[t] >= 1

(* No job has two runners, and only finitely many jobs exist at any time.  *)
JobsInOrder ==
  /\ \A i, k \in RunnerIds : on[i] = on[k] /\ on[i] # NoJob => i = k
  /\ IsFiniteSet({j \in Jobs : job[j] # "none"})

TypeInv == TypeOK /\ Working /\ JobsInOrder

(* The jobs that are counted can be counted.                               *)
LEMMA JobCount ==
  ASSUME TypeInv, NEW u
  PROVE  Cardinality({j \in Active : RunOf[j] = u}) \in Nat
<1>1. {j \in Active : RunOf[j] = u} \subseteq {j \in Jobs : job[j] # "none"}
  BY DEF Active
<1> QED
  BY <1>1, FS_Subset, FS_CardinalityType DEF TypeInv, JobsInOrder

LEMMA LiveCount ==
  /\ IsFiniteSet(Live) /\ Cardinality(Live) \in Nat
  /\ IsFiniteSet(Live') /\ Cardinality(Live') \in Nat
<1>1. Live \in SUBSET RunnerIds /\ Live' \in SUBSET RunnerIds /\ IsFiniteSet(RunnerIds)
  BY ProvisioningAssumption DEF Live
<1> QED
  BY <1>1, FS_Subset, FS_CardinalityType
------------------------------------------------------------------------------
(* Steps of GitHub, of the runners and of the cleanup.                     *)
LEMMA StopType ==
  ASSUME TypeInv, NEW i \in RunnerIds, NEW ending \in Ended, StopRunner(i, ending),
         UNCHANGED <<told, scale>>, listed' \subseteq RunnerIds
  PROVE  TypeInv'
<1> USE ProvisioningAssumption DEF TypeInv, TypeOK, scale
<1>1. job' \in [Jobs -> Statuses]
  BY DEF StopRunner, Statuses, Ended
<1>2. runner' = [runner EXCEPT ![i] = NoRunner] /\ on' = [on EXCEPT ![i] = NoJob]
  BY DEF StopRunner
<1>3. ASSUME NEW k \in RunnerIds, on'[k] # NoJob
      PROVE  k \in Live' /\ job'[on'[k]] = "in_progress"
  <2>1. k # i /\ on'[k] = on[k] /\ runner'[k] = runner[k] /\ on[k] # on[i]
    BY <1>2, <1>3 DEF JobsInOrder
  <2> QED
    BY <1>3, <2>1 DEF StopRunner, Live
<1>4. \A j \in Jobs : job'[j] # "none" => job[j] # "none"
  BY DEF StopRunner
<1>5. IsFiniteSet({j \in Jobs : job[j] # "none"}')
  <2>1. {j \in Jobs : job[j] # "none"}' \subseteq {j \in Jobs : job[j] # "none"}
    BY <1>4
  <2> QED
    BY <2>1, FS_Subset DEF JobsInOrder
<1> QED
  BY <1>1, <1>2, <1>3, <1>5 DEF Working, JobsInOrder

LEMMA FleetType ==
  ASSUME TypeInv,
         \/ \E j \in Jobs : Enqueue(j) \/ Approve(j) \/ Leave(j)
         \/ \E i \in RunnerIds, j \in Jobs : Take(i, j)
         \/ \E i \in RunnerIds : Finish(i) \/ ExpireRunner(i) \/ CleanRunner(i)
  PROVE  TypeInv'
<1> USE ProvisioningAssumption
<1>1. ASSUME NEW j \in Jobs, Enqueue(j) \/ Approve(j) \/ Leave(j) PROVE TypeInv'
  <2>1. job' \in [Jobs -> Statuses]
        /\ \A k \in Jobs : job[k] = "in_progress" => job'[k] = "in_progress"
    BY <1>1 DEF Enqueue, Approve, Leave, TypeInv, TypeOK, Statuses
  <2>2. IsFiniteSet({k \in Jobs : job[k] # "none"}')
    <3>1. {k \in Jobs : job[k] # "none"}' \subseteq {k \in Jobs : job[k] # "none"} \cup {j}
      BY <1>1 DEF Enqueue, Approve, Leave, TypeInv, TypeOK
    <3>2. IsFiniteSet({k \in Jobs : job[k] # "none"} \cup {j})
      BY FS_AddElement DEF TypeInv, JobsInOrder
    <3> QED
      BY <3>1, <3>2, FS_Subset
  <2>3. UNCHANGED <<told, fleet, scale, listed>>
    BY <1>1 DEF Enqueue, Approve, Leave
  <2> QED
    BY <2>1, <2>2, <2>3 DEF TypeInv, TypeOK, Working, JobsInOrder, fleet, scale, Live
<1>2. ASSUME NEW i \in RunnerIds, NEW j \in Jobs, Take(i, j) PROVE TypeInv'
  <2>1. /\ i \in Live /\ on[i] = NoJob /\ job[j] = "queued"
        /\ job' = [job EXCEPT ![j] = "in_progress"] /\ on' = [on EXCEPT ![i] = j]
        /\ UNCHANGED <<told, runner, scale, listed>>
    BY <1>2 DEF Take, LiveIn
  <2>2. \A k \in RunnerIds : on[k] # j
    BY <2>1 DEF TypeInv, TypeOK
  <2>3. IsFiniteSet({k \in Jobs : job[k] # "none"}')
    <3>1. {k \in Jobs : job[k] # "none"}' = {k \in Jobs : job[k] # "none"}
      BY <2>1 DEF TypeInv, TypeOK
    <3> QED
      BY <3>1 DEF TypeInv, JobsInOrder
  <2>4. TypeOK'
    BY <2>1, <2>2 DEF TypeInv, TypeOK, Statuses, scale, Live
  <2> QED
    BY <2>1, <2>2, <2>3, <2>4 DEF TypeInv, TypeOK, Working, JobsInOrder, scale
<1>3. ASSUME NEW i \in RunnerIds, Finish(i) PROVE TypeInv'
  <2>1. /\ on[i] \in Jobs /\ UNCHANGED <<told, scale>> /\ listed' \subseteq RunnerIds
    BY <1>3 DEF Finish, TypeInv, TypeOK
  <2>2. StopRunner(i, "completed")
    BY <1>3, <2>1 DEF Finish, StopRunner, TypeInv, TypeOK
  <2> QED
    BY <2>1, <2>2, StopType DEF Ended
<1>4. ASSUME NEW i \in RunnerIds, ExpireRunner(i) \/ CleanRunner(i) PROVE TypeInv'
  <2>1. UNCHANGED <<told, scale>> /\ listed' \subseteq RunnerIds
    BY <1>4 DEF ExpireRunner, CleanRunner, TypeInv, TypeOK
  <2>2. StopRunner(i, "expired") \/ StopRunner(i, "failed")
    BY <1>4 DEF ExpireRunner, CleanRunner
  <2> QED
    BY <2>1, <2>2, StopType DEF Ended
<1> QED
  BY <1>1, <1>2, <1>3, <1>4
------------------------------------------------------------------------------
(* Steps of the scanner and of the other callers.                          *)
LEMMA ThreadNames == NoRunner \notin Threads /\ Scanner \in Threads /\ Callers \subseteq Threads
BY ProvisioningAssumption DEF Threads

LEMMA RunsAreIds == ASSUME NEW r PROVE QueuedRuns(r) \subseteq RunIds
BY DEF QueuedRuns

LEMMA ScanType ==
  ASSUME TypeInv, ScanSteps
  PROVE  TypeInv'
<1> USE ThreadNames
    DEF TypeInv, TypeOK, Working, JobsInOrder, jobs, fleet, Goto, Points, Locked, Live
<1>1. ASSUME NEW r \in Repos, Scan(r) PROVE TypeInv'
  BY <1>1 DEF Scan
<1>2. CASE ScanRuns
  <2>1. PICK some \in SUBSET RunIds : seen' = [seen EXCEPT ![Scanner] = some]
    BY <1>2, RunsAreIds DEF ScanRuns
  <2>2. \E point \in {"idle", "jobs"} : Goto(Scanner, point)
    BY <1>2 DEF ScanRuns
  <2>3. /\ UNCHANGED <<jobs, fleet, rm, repo, want, count, left, found, calls, listed>>
        /\ pc[Scanner] = "scan"
    BY <1>2 DEF ScanRuns
  <2> QED
    BY <2>1, <2>2, <2>3
<1>3. ASSUME NEW u \in RunIds, ScanJobs(u) PROVE TypeInv'
  <2>1. found' \subseteq Jobs
    BY <1>3 DEF ScanJobs
  <2>2. \E point \in {"idle", "jobs", "next"} : Goto(Scanner, point)
    BY <1>3 DEF ScanJobs
  <2>3. /\ seen' = [seen EXCEPT ![Scanner] = @ \ {u}] /\ pc[Scanner] = "jobs"
        /\ UNCHANGED <<jobs, fleet, rm, repo, want, count, left, calls, listed>>
    BY <1>3 DEF ScanJobs
  <2> QED
    BY <2>1, <2>2, <2>3
<1>4. ASSUME NEW j \in Jobs, ConsiderJob(j) PROVE TypeInv'
  <2>1. LabelsOf[j] \subseteq AllLabels
    BY DEF AllLabels
  <2> QED
    BY <1>4, <2>1 DEF ConsiderJob
<1> QED
  BY <1>1, <1>2, <1>3, <1>4 DEF ScanSteps

LEMMA CallType ==
  ASSUME TypeInv, NEW t \in Callers, NEW r \in Repos, Call(t, r)
  PROVE  TypeInv'
<1> USE ThreadNames, ProvisioningAssumption
    DEF TypeInv, TypeOK, Working, JobsInOrder, jobs, fleet, Goto, Points, Locked, Live
<1>1. PICK labels \in {LabelsOf[j] : j \in Active \cap JobsOf(r)} \cup {{}} :
        want' = [want EXCEPT ![t] = labels]
  BY DEF Call
<1>2. labels \subseteq AllLabels
  BY DEF AllLabels, Active
<1>3. calls' \in 0..MaxCalls
  BY DEF Call
<1> QED
  BY <1>1, <1>2, <1>3 DEF Call

(* A goroutine that returns leaves nothing behind.                         *)
LEMMA ReturnType ==
  ASSUME TypeInv, NEW t \in Threads, NEW rest \in SUBSET Jobs, Return(t, rest),
         rm \in {NoRunner, t}, pc[t] # "idle",
         UNCHANGED <<jobs, on, repo, calls, listed>>,
         runner' \in [RunnerIds -> Runners \cup {NoRunner}], Live \subseteq Live'
  PROVE  TypeInv'
<1> USE ThreadNames, ProvisioningAssumption
    DEF TypeInv, TypeOK, Working, JobsInOrder, jobs, Goto, Points, Locked
<1>1. \E point \in {"idle", "next"} : Goto(t, point)
  BY DEF Return
<1>2. /\ found' = rest /\ rm' = NoRunner /\ want' = [want EXCEPT ![t] = {}]
      /\ seen' = [seen EXCEPT ![t] = {}] /\ count' = [count EXCEPT ![t] = 0]
      /\ left' = [left EXCEPT ![t] = 0]
  BY DEF Return
<1> QED
  BY <1>1, <1>2

LEMMA ValidatedLabels ==
  ASSUME NEW labels \in SUBSET AllLabels
  PROVE  validateArchitectureLabels(labels) \in SUBSET AllLabels
<1> DEFINE kept == labels \ (ArchLabels \ HostLabels)
<1>1. kept \in SUBSET AllLabels /\ kept \cup HostLabels \in SUBSET AllLabels
  BY DEF AllLabels
<1>2. \/ validateArchitectureLabels(labels) = kept
      \/ validateArchitectureLabels(labels) = kept \cup HostLabels
  BY Zenon DEF validateArchitectureLabels
<1> QED
  BY <1>1, <1>2

LEMMA LabelsType ==
  ASSUME TypeInv, NEW t \in Threads, ChooseLabels(t)
  PROVE  want' \in [Threads -> SUBSET AllLabels]
<1>1. /\ \A some \in SUBSET QueuedRuns(repo[t]) : QueuedJobLabels(some) \in SUBSET AllLabels
      /\ want[t] \in SUBSET AllLabels /\ DefaultLabels \in SUBSET AllLabels
  <2>1. ASSUME NEW some, NEW label \in QueuedJobLabels(some) PROVE label \in AllLabels
    <3>1. PICK j \in Jobs : label \in LabelsOf[j]
      BY <2>1 DEF QueuedJobLabels
    <3> QED
      BY <3>1 DEF AllLabels
  <2>2. want[t] \in SUBSET AllLabels /\ DefaultLabels \in SUBSET AllLabels
    BY DEF AllLabels, TypeInv, TypeOK
  <2> QED
    BY <2>1, <2>2
<1>2. PICK detected \in SUBSET AllLabels :
        LET labels == IF want[t] # {} THEN want[t]
                      ELSE IF detected # {} THEN detected ELSE DefaultLabels
        IN  want' = [want EXCEPT ![t] = validateArchitectureLabels(labels) \cup OwnerLabels]
  BY <1>1 DEF ChooseLabels
<1>3. PICK labels \in SUBSET AllLabels :
        want' = [want EXCEPT ![t] = validateArchitectureLabels(labels) \cup OwnerLabels]
  <2> DEFINE labels == IF want[t] # {} THEN want[t]
                       ELSE IF detected # {} THEN detected ELSE DefaultLabels
  <2>1. labels \in SUBSET AllLabels
    BY <1>1
  <2>2. want' = [want EXCEPT ![t] = validateArchitectureLabels(labels) \cup OwnerLabels]
    BY <1>2, Zenon
  <2> HIDE DEF labels
  <2> QED
    BY <2>1, <2>2
<1>4. validateArchitectureLabels(labels) \cup OwnerLabels \in SUBSET AllLabels
  BY ValidatedLabels DEF AllLabels
<1> QED
  BY <1>3, <1>4 DEF TypeInv, TypeOK

LEMMA ScaleType ==
  ASSUME TypeInv, NEW t \in Threads, ScaleUp(t)
  PROVE  TypeInv'
<1> USE ThreadNames, ProvisioningAssumption
<1>0. TypeOK /\ left[t] \in 0..MaxRunners
  BY DEF TypeInv, TypeOK
<1>1. CASE ReachMaxRunners(t)
  <2>1. PICK rest \in SUBSET Jobs : Return(t, rest)
    BY <1>0, <1>1 DEF ReachMaxRunners, TypeOK
  <2> QED
    BY <1>0, <1>1, <2>1, ReturnType DEF ReachMaxRunners, fleet, TypeOK, Live
<1>2. CASE CountSlots(t)
  <2>1. Slots \in 1..MaxRunners
    BY <1>2, LiveCount DEF CountSlots, Slots
  <2> HIDE DEF Slots
  <2> QED
    BY <1>2, <2>1
    DEF CountSlots, TypeInv, TypeOK, Working, JobsInOrder, jobs, fleet, Goto, Points, Locked, Live
<1>3. CASE ChooseLabels(t)
  <2>1. want' \in [Threads -> SUBSET AllLabels]
    BY <1>3, LabelsType
  <2>2. /\ Goto(t, "list") /\ pc[t] = "labels"
        /\ UNCHANGED <<jobs, fleet, rm, repo, seen, count, left, found, calls, listed>>
    BY <1>3 DEF ChooseLabels
  <2> QED
    BY <2>1, <2>2
    DEF TypeInv, TypeOK, Working, JobsInOrder, jobs, fleet, Goto, Points, Locked, Live
<1>4. CASE ListRuns(t)
  <2>1. PICK some \in SUBSET RunIds : seen' = [seen EXCEPT ![t] = some]
    BY <1>4, RunsAreIds DEF ListRuns
  <2>2. Goto(t, "count") /\ pc[t] = "list"
        /\ UNCHANGED <<jobs, fleet, rm, repo, want, count, left, found, calls, listed>>
    BY <1>4 DEF ListRuns
  <2> QED
    BY <2>1, <2>2
    DEF TypeInv, TypeOK, Working, JobsInOrder, jobs, fleet, Goto, Points, Locked, Live
<1>8. ASSUME NEW u \in RunIds, CountJobs(t, u) PROVE TypeInv'
  <2>1. PICK n \in Nat : count' = [count EXCEPT ![t] = @ + n]
    BY <1>8, JobCount DEF CountJobs
  <2>2. count' \in [Threads -> Nat]
    BY <1>0, <2>1 DEF TypeOK
  <2>3. /\ seen' = [seen EXCEPT ![t] = @ \ {u}]
        /\ UNCHANGED <<jobs, fleet, rm, pc, repo, want, left, found, calls, listed>>
    BY <1>8 DEF CountJobs
  <2> QED
    BY <2>2, <2>3
    DEF TypeInv, TypeOK, Working, JobsInOrder, jobs, fleet, Points, Locked, Live
<1>5. CASE SkipScaleUp(t) \/ BreakStart(t)
  <2>1. Return(t, found) /\ found \in SUBSET Jobs /\ pc[t] \in Locked
        /\ UNCHANGED <<jobs, fleet, repo, calls, listed>>
    BY <1>0, <1>5 DEF SkipScaleUp, BreakStart, TypeOK, Locked
  <2>2. rm = t
    BY <2>1 DEF TypeInv, Working
  <2> QED
    BY <1>0, <2>1, <2>2, ReturnType DEF fleet, TypeOK, Live, Locked
<1>6. CASE PlanRunners(t)
  <2>1. PICK n \in Nat : n = count[t]
    BY <1>0 DEF TypeOK
  <2>2. PICK m \in 1..MaxRunners : left' = [left EXCEPT ![t] = m]
    <3>1. left[t] >= 1 /\ n > 0
      BY <1>6, <2>1 DEF PlanRunners, TypeInv, Working, Locked
    <3>2. (IF n < left[t] THEN n ELSE left[t]) \in 1..MaxRunners
      BY <1>0, <2>1, <3>1
    <3>3. left' = [left EXCEPT ![t] = IF n < left[t] THEN n ELSE left[t]]
      BY <1>6, <2>1 DEF PlanRunners
    <3> QED
      BY <3>2, <3>3
  <2>3. Goto(t, "start") /\ UNCHANGED <<jobs, fleet, rm, repo, want, seen, found, calls, listed>>
        /\ pc[t] = "count" /\ count' = [count EXCEPT ![t] = 0]
    BY <1>6 DEF PlanRunners
  <2> QED
    BY <2>2, <2>3
    DEF TypeInv, TypeOK, Working, JobsInOrder, jobs, fleet, Goto, Points, Locked, Live
<1>7. ASSUME NEW i \in RunnerIds, StartRunner(t, i) PROVE TypeInv'
  <2>1. /\ pc[t] = "start" /\ rm = t /\ left[t] >= 1
        /\ repo[t] \in Repos /\ want[t] \in SUBSET AllLabels
    BY <1>0, <1>7 DEF StartRunner, TypeInv, Working, Locked, TypeOK
  <2>2. [repo |-> repo[t], labels |-> want[t]] \in Runners
    BY <2>1 DEF Runners
  <2>3. runner' \in [RunnerIds -> Runners \cup {NoRunner}] /\ Live \subseteq Live'
    BY <1>0, <1>7, <2>2 DEF StartRunner, TypeOK, Live
  <2>4. UNCHANGED <<jobs, on, repo, calls, listed>>
    BY <1>7 DEF StartRunner
  <2>5. CASE Return(t, found)
    BY <1>0, <2>1, <2>3, <2>4, <2>5, ReturnType DEF TypeOK
  <2>6. CASE left[t] # 1 /\ left' = [left EXCEPT ![t] = @ - 1]
             /\ UNCHANGED <<rm, pc, want, seen, count, found>>
    BY <2>1, <2>3, <2>4, <2>6 DEF TypeInv, TypeOK, Working, JobsInOrder, jobs, Locked
  <2> QED
    BY <1>7, <2>5, <2>6 DEF StartRunner
<1> QED
  BY <1>1, <1>2, <1>3, <1>4, <1>5, <1>6, <1>7, <1>8 DEF ScaleUp

LEMMA CompleteType ==
  ASSUME TypeInv, NEW u \in RunIds, CompleteRun(u)
  PROVE  TypeInv'
BY DEF CompleteRun, LiveIn, Live, fleet, scale, TypeInv, TypeOK, Working, JobsInOrder

LEMMA NextType == TypeInv /\ [Next]_vars => TypeInv'
<1> SUFFICES ASSUME TypeInv, [Next]_vars PROVE TypeInv'
  OBVIOUS
<1>1. CASE UNCHANGED vars
  BY <1>1 DEF vars, TypeInv, TypeOK, Working, JobsInOrder, Live
<1>2. CASE Next
  BY <1>2, FleetType, CompleteType, ScanType, CallType, ScaleType DEF Next
<1> QED
  BY <1>1, <1>2

LEMMA TypeInvariance == Spec => []TypeInv
<1>1. Init => TypeInv
  <2> SUFFICES ASSUME Init PROVE TypeInv
    OBVIOUS
  <2>1. {j \in Jobs : job[j] # "none"} = {}
    BY DEF Init
  <2>2. IsFiniteSet({j \in Jobs : job[j] # "none"})
    BY <2>1, FS_EmptySet
  <2>3. TypeOK /\ Working
    BY ProvisioningAssumption, ThreadNames
    DEF Init, TypeOK, Working, Statuses, Points, Locked, Live
  <2>4. \A i, k \in RunnerIds : on[i] = on[k] /\ on[i] # NoJob => i = k
    BY DEF Init
  <2> QED
    BY <2>2, <2>3, <2>4 DEF TypeInv, JobsInOrder
<1> QED
  BY <1>1, NextType, PTL DEF Spec

(* Every variable keeps its type, and a runner that has a job is live and  *)
(* its job in progress, however runners are stopped (TypeOK).              *)
THEOREM TypeCorrect == Spec => []TypeOK
<1>1. TypeInv => TypeOK
  BY DEF TypeInv
<1> QED
  BY <1>1, TypeInvariance, PTL
------------------------------------------------------------------------------
(***************************************************************************)
(* The owner's limit                                                       *)
(***************************************************************************)
(* The holder of rm.mu has room for all the runners that it still starts.  *)
RoomInv ==
  /\ Cardinality(Live) <= MaxRunners
  /\ \A t \in Threads : pc[t] \in Locked => Cardinality(Live) + left[t] <= MaxRunners

(* Steps that start no runner leave at least the room that they found.     *)
LEMMA RoomStays ==
  ASSUME TypeInv, RoomInv, [Next]_vars, Live' \subseteq Live,
         \A t \in Threads : pc'[t] \in Locked =>
           left'[t] + Cardinality(Live) <= MaxRunners
  PROVE  RoomInv'
<1>1. Cardinality(Live') <= Cardinality(Live) /\ Cardinality(Live) \in Nat
      /\ Cardinality(Live') \in Nat
  BY LiveCount, FS_Subset
<1>2. \A t \in Threads : left'[t] \in Nat
  BY NextType, ProvisioningAssumption DEF TypeInv, TypeOK
<1>3. Cardinality(Live') <= MaxRunners
  BY <1>1, ProvisioningAssumption DEF RoomInv
<1>4. ASSUME NEW t \in Threads, pc'[t] \in Locked
      PROVE  Cardinality(Live') + left'[t] <= MaxRunners
  BY <1>1, <1>2, <1>4, ProvisioningAssumption
<1> QED
  BY <1>3, <1>4 DEF RoomInv

LEMMA NextRoom == TypeInv /\ RoomInv /\ [Next]_vars => RoomInv'
<1> SUFFICES ASSUME TypeInv, RoomInv, [Next]_vars PROVE RoomInv'
  OBVIOUS
<1>0. TypeOK /\ \A t \in Threads : left[t] \in Nat
  BY ProvisioningAssumption DEF TypeInv, TypeOK
<1> USE ThreadNames DEF Goto
<1>1. CASE UNCHANGED vars
  <2>1. UNCHANGED <<runner, pc, left>>
    BY <1>1 DEF vars
  <2> QED
    BY <1>0, <2>1 DEF RoomInv, Live
<1>2. ASSUME Live' \subseteq Live, UNCHANGED <<pc, left>> PROVE RoomInv'
  <2>1. Cardinality(Live) \in Nat
    BY LiveCount
  <2> QED
    BY <1>0, <1>2, <2>1, RoomStays DEF RoomInv
<1>3. ASSUME NEW j \in Jobs, Enqueue(j) \/ Approve(j) \/ Leave(j) PROVE RoomInv'
  BY <1>2, <1>3 DEF Enqueue, Approve, Leave, fleet, scale, Live
<1>4. ASSUME NEW i \in RunnerIds, NEW j \in Jobs, Take(i, j) PROVE RoomInv'
  BY <1>2, <1>4 DEF Take, scale, Live
<1>5. ASSUME NEW i \in RunnerIds, Finish(i) \/ ExpireRunner(i) \/ CleanRunner(i) PROVE RoomInv'
  <2>1. UNCHANGED <<pc, left>> /\ runner' = [runner EXCEPT ![i] = NoRunner]
    BY <1>5 DEF Finish, ExpireRunner, CleanRunner, StopRunner, scale
  <2> QED
    BY <1>0, <1>2, <2>1 DEF Live, TypeOK
<1>6. ASSUME NEW u \in RunIds, CompleteRun(u) PROVE RoomInv'
  BY <1>2, <1>6 DEF CompleteRun, fleet, scale, Live
<1>7. ASSUME NEW t \in Threads, NEW point \in Points \ Locked, Goto(t, point), Live' \subseteq Live,
             \A s \in Threads \ {t} : left'[s] = left[s]
      PROVE  RoomInv'
  <2>1. \A s \in Threads : pc'[s] \in Locked => s # t /\ pc[s] \in Locked
    BY <1>0, <1>7 DEF TypeOK
  <2>2. Cardinality(Live) \in Nat
    BY LiveCount
  <2> QED
    BY <1>0, <1>7, <2>1, <2>2, RoomStays DEF RoomInv
<1>8. CASE ScanSteps
  <2>1. \E point \in Points \ Locked : Goto(Scanner, point)
    BY <1>8 DEF ScanSteps, Scan, ScanRuns, ScanJobs, ConsiderJob, Points, Locked
  <2>2. UNCHANGED <<runner, left>>
    BY <1>8 DEF ScanSteps, Scan, ScanRuns, ScanJobs, ConsiderJob, fleet
  <2> QED
    BY <1>7, <2>1, <2>2 DEF Live
<1>9. ASSUME NEW t \in Callers, NEW r \in Repos, Call(t, r) PROVE RoomInv'
  BY <1>7, <1>9 DEF Call, fleet, Points, Locked, Live
<1>10. ASSUME NEW t \in Threads, NEW rest, Return(t, rest), Live' \subseteq Live PROVE RoomInv'
  <2>1. \E point \in {"idle", "next"} : Goto(t, point)
    BY <1>10 DEF Return
  <2>2. left' = [left EXCEPT ![t] = 0]
    BY <1>10 DEF Return
  <2> QED
    BY <1>0, <1>7, <1>10, <2>1, <2>2 DEF Points, Locked, TypeOK
<1>11. ASSUME NEW t \in Threads, ScaleUp(t) PROVE RoomInv'
  <2>0. Cardinality(Live) \in Nat /\ Cardinality(Live) <= MaxRunners
    BY LiveCount DEF RoomInv
  <2>1. CASE ReachMaxRunners(t) \/ SkipScaleUp(t) \/ BreakStart(t)
    <3>1. UNCHANGED runner
      BY <2>1 DEF ReachMaxRunners, SkipScaleUp, BreakStart, fleet
    <3>2. \E rest : Return(t, rest)
      BY <2>1 DEF ReachMaxRunners, SkipScaleUp, BreakStart
    <3> QED
      BY <1>10, <3>1, <3>2 DEF Live
  <2>2. CASE CountSlots(t)
    <3>1. \A s \in Threads \ {t} : pc'[s] = pc[s] /\ pc[s] \notin Locked
      BY <1>0, <2>2 DEF CountSlots, TypeInv, Working, TypeOK
    <3>2. left'[t] = MaxRunners - Cardinality(Live) /\ UNCHANGED runner
      BY <1>0, <2>2 DEF CountSlots, Slots, TypeOK, fleet
    <3>3. left'[t] + Cardinality(Live) <= MaxRunners
      BY <2>0, <3>2, ProvisioningAssumption
    <3> QED
      BY <3>1, <3>2, <3>3, RoomStays DEF Live
  <2>3. CASE \/ ChooseLabels(t) \/ ListRuns(t) \/ PlanRunners(t)
             \/ \E u \in RunIds : CountJobs(t, u)
    <3>1. UNCHANGED runner /\ pc[t] \in Locked /\ \A s \in Threads \ {t} : pc'[s] = pc[s]
      BY <1>0, <2>3 DEF ChooseLabels, ListRuns, CountJobs, PlanRunners, fleet, TypeOK, Locked
    <3>2. \A s \in Threads : left'[s] <= left[s] /\ left'[s] \in Nat
      <4>1. CASE UNCHANGED left
        BY <1>0, <4>1
      <4>2. CASE PlanRunners(t)
        <5>1. PICK n \in Nat : n = count[t]
          BY <1>0 DEF TypeOK
        <5>2. left' = [left EXCEPT ![t] = IF n < left[t] THEN n ELSE left[t]]
          BY <4>2, <5>1 DEF PlanRunners
        <5> QED
          BY <1>0, <5>2 DEF TypeOK
      <4> QED
        BY <2>3, <4>1, <4>2 DEF ChooseLabels, ListRuns, CountJobs
    <3>3. ASSUME NEW s \in Threads, pc'[s] \in Locked
          PROVE  left'[s] + Cardinality(Live) <= MaxRunners
      <4>1. Cardinality(Live) + left[s] <= MaxRunners
        BY <3>1, <3>3 DEF RoomInv
      <4> QED
        BY <1>0, <2>0, <3>2, <4>1, ProvisioningAssumption
    <3> QED
      BY <3>1, <3>3, RoomStays DEF Live
  <2>4. ASSUME NEW i \in RunnerIds, StartRunner(t, i) PROVE RoomInv'
    <3>1. pc[t] = "start" /\ left[t] >= 1 /\ Cardinality(Live) + left[t] <= MaxRunners
          /\ \A s \in Threads \ {t} : pc[s] \notin Locked
      BY <2>4 DEF StartRunner, RoomInv, TypeInv, Working, Locked
    <3>2. Live' \subseteq Live \cup {i}
      BY <1>0, <2>4 DEF StartRunner, Live, TypeOK
    <3>3. Cardinality(Live') <= Cardinality(Live) + 1 /\ Cardinality(Live') \in Nat
      <4>0. IsFiniteSet(Live \cup {i}) /\ Cardinality(Live \cup {i}) =
              IF i \in Live THEN Cardinality(Live) ELSE Cardinality(Live) + 1
        BY LiveCount, FS_AddElement
      <4>1. IsFiniteSet(Live \cup {i}) /\ Cardinality(Live \cup {i}) <= Cardinality(Live) + 1
            /\ Cardinality(Live \cup {i}) \in Nat
        BY <2>0, <4>0
      <4>2. Cardinality(Live') <= Cardinality(Live \cup {i})
        BY <3>2, <4>1, FS_Subset
      <4> QED
        BY <2>0, <4>1, <4>2, LiveCount
    <3>4. /\ \A s \in Threads \ {t} : pc'[s] = pc[s]
          /\ pc'[t] \in Locked => left'[t] = left[t] - 1
      <4>1. CASE Return(t, found)
        <5>1. \E point \in {"idle", "next"} : Goto(t, point)
          BY <4>1 DEF Return
        <5> QED
          BY <1>0, <5>1 DEF Locked, TypeOK
      <4>2. CASE left' = [left EXCEPT ![t] = @ - 1] /\ UNCHANGED pc
        BY <1>0, <4>2 DEF TypeOK
      <4> QED
        BY <2>4, <4>1, <4>2 DEF StartRunner
    <3>5. Cardinality(Live') <= MaxRunners
      BY <1>0, <2>0, <3>1, <3>3, ProvisioningAssumption
    <3>6. pc'[t] \in Locked => Cardinality(Live') + left'[t] <= MaxRunners
      BY <1>0, <2>0, <3>1, <3>3, <3>4, ProvisioningAssumption
    <3> QED
      BY <3>1, <3>4, <3>5, <3>6 DEF RoomInv
  <2> QED
    BY <1>11, <2>1, <2>2, <2>3, <2>4 DEF ScaleUp
<1> QED
  BY <1>1, <1>3, <1>4, <1>5, <1>6, <1>8, <1>9, <1>11 DEF Next

LEMMA RoomInvariance == Spec => []RoomInv
<1>1. Init => RoomInv
  <2> SUFFICES ASSUME Init PROVE RoomInv
    OBVIOUS
  <2>1. Cardinality(Live) = 0
    <3>1. Live = {}
      BY DEF Init, Live
    <3> QED
      BY <3>1, FS_EmptySet
  <2>2. \A t \in Threads : pc[t] = "idle"
    BY DEF Init
  <2> QED
    BY <2>1, <2>2, ProvisioningAssumption DEF RoomInv, Locked
<1> QED
  BY <1>1, NextRoom, TypeInvariance, PTL DEF Spec

(* The owner never has more runners than its limit (Capacity).             *)
THEOREM LimitHolds == Spec => []Capacity
<1>1. RoomInv => Capacity
  BY DEF RoomInv, Capacity
<1> QED
  BY <1>1, RoomInvariance, PTL

(* A start admits one runner, while there is room for it.                  *)
LEMMA StartAdmits ==
  ASSUME TypeInv, RoomInv, NEW t \in Threads, NEW i \in RunnerIds, StartRunner(t, i)
  PROVE  Pool!Next
<1> DEFINE pool == [o \in {"owner"} |-> Live]
<1>1. i \notin Live /\ Live' = Live \cup {i}
  <2>1. /\ repo[t] \in Repos /\ want[t] \in SUBSET AllLabels
    BY DEF TypeInv, TypeOK, Working, StartRunner
  <2>2. [repo |-> repo[t], labels |-> want[t]] # NoRunner
    BY <2>1, ProvisioningAssumption DEF Runners
  <2> QED
    BY <2>2 DEF StartRunner, Live, TypeInv, TypeOK
<1>2. Cardinality(Live) < MaxRunners
  <2>1. left[t] \in Nat /\ left[t] >= 1 /\ Cardinality(Live) + left[t] <= MaxRunners
    BY ProvisioningAssumption DEF StartRunner, RoomInv, TypeInv, TypeOK, Working, Locked
  <2> QED
    BY <2>1, LiveCount, ProvisioningAssumption
<1>3. Pool!Cardinality(Live) = Cardinality(Live)
  BY DEF Pool!Cardinality, Cardinality
<1>4. pool' = [pool EXCEPT !["owner"] = @ \cup {i}]
  BY <1>1
<1>5. Pool!Admit("owner", i)
  BY <1>1, <1>2, <1>3, <1>4 DEF Pool!Admit
<1> QED
  BY <1>5 DEF Pool!Next

LEMMA PoolStep == TypeInv /\ RoomInv /\ [Next]_vars => [Pool!Next]_[o \in {"owner"} |-> Live]
<1> SUFFICES ASSUME TypeInv, RoomInv, [Next]_vars PROVE Pool!Next
  OBVIOUS
<1>1. ASSUME Live' \subseteq Live PROVE Pool!Next
  <2>1. Pool!Retire
    BY <1>1 DEF Pool!Retire, Live
  <2> QED
    BY <2>1 DEF Pool!Next
<1>2. CASE \E t \in Threads, i \in RunnerIds : StartRunner(t, i)
  BY <1>2, StartAdmits
<1>3. CASE UNCHANGED runner
  BY <1>1, <1>3 DEF Live
<1>4. CASE \E i \in RunnerIds : runner' = [runner EXCEPT ![i] = NoRunner]
  BY <1>1, <1>4 DEF Live, TypeInv, TypeOK
<1>5. CASE UNCHANGED vars
  BY <1>3, <1>5 DEF vars
<1>6. CASE \E i \in RunnerIds : Finish(i) \/ ExpireRunner(i) \/ CleanRunner(i)
  BY <1>4, <1>6 DEF Finish, ExpireRunner, CleanRunner, StopRunner
<1>7. CASE ScanSteps
  BY <1>3, <1>7 DEF ScanSteps, Scan, ScanRuns, ScanJobs, ConsiderJob, fleet
<1>8. ASSUME NEW t \in Threads, ScaleUp(t) PROVE Pool!Next
  <2>1. CASE \E i \in RunnerIds : StartRunner(t, i)
    BY <1>2, <2>1
  <2>2. CASE \/ ReachMaxRunners(t) \/ CountSlots(t) \/ ChooseLabels(t) \/ ListRuns(t)
             \/ \E u \in RunIds : CountJobs(t, u)
             \/ SkipScaleUp(t) \/ PlanRunners(t) \/ BreakStart(t)
    BY <1>3, <2>2
    DEF ReachMaxRunners, CountSlots, ChooseLabels, ListRuns, CountJobs, SkipScaleUp, PlanRunners,
        BreakStart, fleet
  <2> QED
    BY <1>8, <2>1, <2>2 DEF ScaleUp
<1>9. CASE \/ \E j \in Jobs : Enqueue(j) \/ Approve(j) \/ Leave(j)
           \/ \E i \in RunnerIds, j \in Jobs : Take(i, j)
           \/ \E u \in RunIds : CompleteRun(u)
           \/ \E t \in Callers, r \in Repos : Call(t, r)
  BY <1>3, <1>9 DEF Enqueue, Approve, Leave, Take, CompleteRun, Call, fleet
<1> QED
  BY <1>5, <1>6, <1>7, <1>8, <1>9 DEF Next

(* The owner's runners, whichever goroutine starts or stops them, are a    *)
(* pool of OwnerPool (ImplementsOwnerPool).                                *)
THEOREM Refinement == Spec => ImplementsOwnerPool
<1>1. Init => Pool!Init
  BY DEF Init, Live, Pool!Init
<1> QED
  BY <1>1, TypeInvariance, RoomInvariance, PoolStep, PTL
  DEF Spec, ImplementsOwnerPool, Pool!Spec
------------------------------------------------------------------------------
(***************************************************************************)
(* The jobs that a cleanup hits                                            *)
(***************************************************************************)
(* All that is listed was of the repository of a completed run, and such a *)
(* run has no job left that a runner could have.                           *)
ListedFor(u) == \A i \in listed \cap Live : runner[i].repo = RepoOf[u]

FailInv ==
  /\ \A j \in Jobs : RunOf[j] \in told => job[j] \in Ended \cup {"none"}
  /\ \A i \in RunnerIds : on[i] # NoJob => runner[i].repo = RepoOf[RunOf[on[i]]]
  /\ listed # {} => \E u \in told : ListedFor(u)
  /\ FailuresNeedAnotherRun

(* What all runs and repositories are is known.                            *)
LEMMA RunsOfJobs == \A j \in Jobs : RunOf[j] \in RunIds /\ RepoOf[RunOf[j]] \in Repos
BY ProvisioningAssumption

(* Steps that change no runner and list none.                              *)
LEMMA FailKept ==
  ASSUME TypeInv, FailInv, UNCHANGED <<told, on, listed>>,
         \A i \in RunnerIds : runner'[i] = runner[i] \/ (i \notin Live \cup listed),
         \A j \in Jobs : \/ job'[j] = job[j]
                         \/ job[j] = "none" /\ job'[j] \in {"waiting", "queued"}
                              /\ RunOf[j] \notin told
                         \/ job[j] = "waiting" /\ job'[j] = "queued"
                         \/ job[j] \in {"waiting", "queued"} /\ job'[j] = "completed"
  PROVE  FailInv'
<1>1. \A j \in Jobs : RunOf[j] \in told => job'[j] \in Ended \cup {"none"}
  BY DEF FailInv, Ended
<1>2. ASSUME NEW i \in RunnerIds, on[i] # NoJob
      PROVE  runner'[i].repo = RepoOf[RunOf[on[i]]]
  BY <1>2 DEF FailInv, TypeInv, TypeOK
<1>3. ASSUME listed # {} PROVE \E u \in told : ListedFor(u)'
  <2>1. PICK u \in told : ListedFor(u)
    BY <1>3 DEF FailInv
  <2>2. ASSUME NEW i \in listed, runner'[i] # NoRunner PROVE runner'[i].repo = RepoOf[u]
    BY <2>1, <2>2 DEF ListedFor, Live, TypeInv, TypeOK
  <2>3. ListedFor(u)'
    BY <2>2 DEF ListedFor, Live
  <2> QED
    BY <2>3
<1>4. FailuresNeedAnotherRun'
  BY DEF FailInv, FailuresNeedAnotherRun
<1> QED
  BY <1>1, <1>2, <1>3, <1>4 DEF FailInv

(* A runner that stops takes its job along, and may have failed it.        *)
LEMMA FailStopped ==
  ASSUME TypeInv, FailInv, NEW i \in RunnerIds, NEW ending \in Ended,
         StopRunner(i, ending), UNCHANGED told, listed' \subseteq listed,
         ending = "failed" => i \in listed
  PROVE  FailInv'
<1>0. TypeOK
  BY DEF TypeInv
<1>1. \A j \in Jobs : RunOf[j] \in told => job'[j] \in Ended \cup {"none"}
  BY DEF FailInv, StopRunner
<1>2. ASSUME NEW k \in RunnerIds, on'[k] # NoJob
      PROVE  runner'[k].repo = RepoOf[RunOf[on'[k]]]
  BY <1>0, <1>2 DEF FailInv, StopRunner, TypeOK
<1>3. ASSUME listed' # {} PROVE \E u \in told : ListedFor(u)'
  <2>1. PICK u \in told : ListedFor(u)
    BY <1>3 DEF FailInv
  <2>2. ASSUME NEW k \in listed', runner'[k] # NoRunner PROVE runner'[k].repo = RepoOf[u]
    <3>1. k # i /\ runner'[k] = runner[k] /\ k \in listed /\ k \in RunnerIds
      BY <1>0, <2>2 DEF StopRunner, TypeOK
    <3> QED
      BY <2>1, <2>2, <3>1 DEF ListedFor, Live
  <2>3. ListedFor(u)'
    BY <2>2 DEF ListedFor, Live
  <2> QED
    BY <2>3
<1>4. ASSUME NEW j \in Jobs, job'[j] = "failed"
      PROVE  \E u \in told \ {RunOf[j]} : RepoOf[u] = RepoOf[RunOf[j]]
  <2>1. CASE job[j] = "failed"
    BY <2>1 DEF FailInv, FailuresNeedAnotherRun
  <2>2. CASE job[j] # "failed"
    <3>1. on[i] = j /\ ending = "failed" /\ i \in listed /\ on[i] # NoJob
      BY <1>4, <2>2, ProvisioningAssumption DEF StopRunner
    <3>2. PICK u \in told : ListedFor(u)
      BY <3>1 DEF FailInv
    <3>3. RepoOf[u] = RepoOf[RunOf[j]]
      BY <1>0, <3>1, <3>2 DEF ListedFor, FailInv, TypeOK
    <3>4. u # RunOf[j]
      <4>1. job[j] = "in_progress"
        BY <1>0, <3>1 DEF TypeOK
      <4> QED
        BY <4>1 DEF FailInv, Ended
    <3> QED
      BY <3>3, <3>4
  <2> QED
    BY <2>1, <2>2
<1> QED
  BY <1>1, <1>2, <1>3, <1>4 DEF FailInv, FailuresNeedAnotherRun

LEMMA NextFail == TypeInv /\ FailInv /\ [Next]_vars => FailInv'
<1> SUFFICES ASSUME TypeInv, FailInv, [Next]_vars PROVE FailInv'
  OBVIOUS
<1>0. TypeOK
  BY DEF TypeInv
<1>1. CASE UNCHANGED vars
  BY <1>1, FailKept DEF vars
<1>2. ASSUME NEW j \in Jobs, Enqueue(j) \/ Approve(j) \/ Leave(j) PROVE FailInv'
  BY <1>0, <1>2, FailKept DEF Enqueue, Approve, Leave, fleet, TypeOK
<1>3. ASSUME NEW i \in RunnerIds, NEW j \in Jobs, Take(i, j) PROVE FailInv'
  <2>1. /\ runner[i].repo = RepoOf[RunOf[j]] /\ job[j] = "queued" /\ i \in Live
        /\ job' = [job EXCEPT ![j] = "in_progress"] /\ on' = [on EXCEPT ![i] = j]
        /\ UNCHANGED <<told, runner, listed>>
    BY <1>3 DEF Take, LiveIn
  <2>2. \A k \in Jobs : RunOf[k] \in told => job'[k] \in Ended \cup {"none"}
    BY <1>0, <2>1 DEF FailInv, TypeOK, Ended
  <2>3. ASSUME NEW k \in RunnerIds, on'[k] # NoJob
        PROVE  runner'[k].repo = RepoOf[RunOf[on'[k]]]
    BY <1>0, <2>1, <2>3 DEF FailInv, TypeOK
  <2>4. \A u \in told : ListedFor(u)' <=> ListedFor(u)
    BY <2>1 DEF ListedFor, Live
  <2>5. FailuresNeedAnotherRun'
    BY <1>0, <2>1 DEF FailInv, FailuresNeedAnotherRun, TypeOK
  <2> QED
    BY <2>1, <2>2, <2>3, <2>4, <2>5 DEF FailInv
<1>4. ASSUME NEW i \in RunnerIds, Finish(i) PROVE FailInv'
  <2>1. StopRunner(i, "completed") /\ UNCHANGED <<told, listed>>
    BY <1>0, <1>4 DEF Finish, StopRunner, TypeOK
  <2> QED
    BY <2>1, FailStopped DEF Ended
<1>5. ASSUME NEW i \in RunnerIds, ExpireRunner(i) \/ CleanRunner(i) PROVE FailInv'
  BY <1>5, FailStopped DEF ExpireRunner, CleanRunner, Ended
<1>6. ASSUME NEW u \in RunIds, CompleteRun(u) PROVE FailInv'
  <2>1. /\ Done(u) /\ told' = told \cup {u} /\ listed' = LiveIn(RepoOf[u])
        /\ UNCHANGED <<job, runner, on>>
    BY <1>6 DEF CompleteRun, fleet
  <2>2. \A j \in Jobs : RunOf[j] \in told' => job'[j] \in Ended \cup {"none"}
    BY <2>1 DEF FailInv, Done
  <2>3. ListedFor(u)' /\ u \in told'
    BY <2>1 DEF ListedFor, LiveIn, Live
  <2>4. FailuresNeedAnotherRun'
    BY <2>1 DEF FailInv, FailuresNeedAnotherRun
  <2> QED
    BY <2>1, <2>2, <2>3, <2>4 DEF FailInv
<1>7. CASE ScanSteps
  BY <1>7, FailKept DEF ScanSteps, Scan, ScanRuns, ScanJobs, ConsiderJob, jobs, fleet
<1>8. ASSUME NEW t \in Callers, NEW r \in Repos, Call(t, r) PROVE FailInv'
  BY <1>8, FailKept DEF Call, jobs, fleet
<1>9. ASSUME NEW t \in Threads, ScaleUp(t) PROVE FailInv'
  <2>1. CASE \/ ReachMaxRunners(t) \/ CountSlots(t) \/ ChooseLabels(t) \/ ListRuns(t)
             \/ \E u \in RunIds : CountJobs(t, u)
             \/ SkipScaleUp(t) \/ PlanRunners(t) \/ BreakStart(t)
    BY <2>1, FailKept
    DEF ReachMaxRunners, CountSlots, ChooseLabels, ListRuns, CountJobs, SkipScaleUp,
        PlanRunners, BreakStart, jobs, fleet
  <2>2. ASSUME NEW i \in RunnerIds, StartRunner(t, i) PROVE FailInv'
    BY <1>0, <2>2, FailKept DEF StartRunner, jobs, TypeOK
  <2> QED
    BY <1>9, <2>1, <2>2 DEF ScaleUp
<1> QED
  BY <1>1, <1>2, <1>3, <1>4, <1>5, <1>6, <1>7, <1>8, <1>9 DEF Next

(* A job that a cleanup fails belongs to another run of the repository     *)
(* than the one that completed (FailuresNeedAnotherRun).                   *)
THEOREM OnlyOthersFail == Spec => []FailuresNeedAnotherRun
<1>1. Init => FailInv
  BY DEF Init, FailInv, FailuresNeedAnotherRun
<1>2. FailInv => FailuresNeedAnotherRun
  BY DEF FailInv
<1> QED
  BY <1>1, <1>2, NextFail, TypeInvariance, PTL DEF Spec
------------------------------------------------------------------------------
(***************************************************************************)
(* The scanner's labels                                                    *)
(***************************************************************************)
(* The scanner asks for no label that it takes for another architecture.   *)
ScannerInv ==
  /\ \A j \in found : isJobCompatible(j)
  /\ pc[Scanner] \in {"lock", "labels"} => want[Scanner] \cap OtherArch = {}

LEMMA NextScanner == TypeInv /\ ScannerInv /\ [Next]_vars => ScannerInv'
<1> SUFFICES ASSUME TypeInv, ScannerInv, [Next]_vars PROVE ScannerInv'
  OBVIOUS
<1>0. TypeOK
  BY DEF TypeInv
<1> USE ThreadNames, ProvisioningAssumption DEF Goto, isJobCompatible
<1>1. ASSUME found' \subseteq found,
             \/ pc'[Scanner] = pc[Scanner] /\ want'[Scanner] = want[Scanner]
             \/ pc'[Scanner] \notin {"lock", "labels"}
      PROVE  ScannerInv'
  BY <1>1 DEF ScannerInv
<1>2. CASE UNCHANGED scale
  BY <1>1, <1>2 DEF scale
<1>3. CASE ScanSteps
  <2>1. ASSUME NEW r \in Repos, Scan(r) PROVE ScannerInv'
    BY <1>0, <1>1, <2>1 DEF Scan, TypeOK
  <2>2. CASE ScanRuns
    BY <1>0, <1>1, <2>2 DEF ScanRuns, TypeOK
  <2>3. ASSUME NEW u \in RunIds, ScanJobs(u) PROVE ScannerInv'
    <3>1. pc'[Scanner] \in {"idle", "jobs", "next"}
      BY <1>0, <2>3 DEF ScanJobs, TypeOK
    <3>2. \A j \in found' : isJobCompatible(j)
      BY <2>3 DEF ScanJobs, ScannerInv
    <3> QED
      BY <3>1, <3>2 DEF ScannerInv
  <2>4. ASSUME NEW j \in Jobs, ConsiderJob(j) PROVE ScannerInv'
    BY <1>0, <2>4 DEF ConsiderJob, ScannerInv, TypeOK
  <2> QED
    BY <1>3, <2>1, <2>2, <2>3, <2>4 DEF ScanSteps
<1>4. ASSUME NEW t \in Callers, NEW r \in Repos, Call(t, r) PROVE ScannerInv'
  <2>1. t # Scanner /\ found' = found
    BY <1>4 DEF Call
  <2>2. pc'[Scanner] = pc[Scanner] /\ want'[Scanner] = want[Scanner]
    BY <1>0, <1>4, <2>1 DEF Call, TypeOK
  <2> QED
    BY <1>1, <2>1, <2>2
<1>5. ASSUME NEW t \in Threads, NEW rest, Return(t, rest), rest \subseteq found PROVE ScannerInv'
  <2>1. CASE t = Scanner
    BY <1>0, <1>1, <1>5, <2>1 DEF Return, TypeOK
  <2>2. CASE t # Scanner
    BY <1>0, <1>1, <1>5, <2>2 DEF Return, TypeOK
  <2> QED
    BY <2>1, <2>2
<1>6. ASSUME NEW t \in Threads, ScaleUp(t) PROVE ScannerInv'
  <2>1. CASE ReachMaxRunners(t) \/ SkipScaleUp(t) \/ BreakStart(t)
    BY <1>5, <2>1 DEF ReachMaxRunners, SkipScaleUp, BreakStart
  <2>2. CASE CountSlots(t)
    <3>1. found' = found /\ want' = want /\ pc[t] = "lock" /\ pc' = [pc EXCEPT ![t] = "labels"]
      BY <2>2 DEF CountSlots
    <3> QED
      BY <1>0, <3>1 DEF ScannerInv, TypeOK
  <2>3. CASE ChooseLabels(t)
    <3>1. found' = found /\ pc'[t] = "list" /\ \A s \in Threads \ {t} :
            pc'[s] = pc[s] /\ want'[s] = want[s]
      BY <1>0, <2>3 DEF ChooseLabels, TypeOK
    <3> QED
      BY <1>1, <3>1
  <2>4. CASE ListRuns(t) \/ PlanRunners(t) \/ \E u \in RunIds : CountJobs(t, u)
    BY <1>0, <1>1, <2>4 DEF ListRuns, CountJobs, PlanRunners, TypeOK
  <2>5. ASSUME NEW i \in RunnerIds, StartRunner(t, i) PROVE ScannerInv'
    BY <1>1, <1>5, <2>5 DEF StartRunner
  <2> QED
    BY <1>6, <2>1, <2>2, <2>3, <2>4, <2>5 DEF ScaleUp
<1> QED
  BY <1>2, <1>3, <1>4, <1>6
  DEF Next, Enqueue, Approve, Leave, Take, Finish, ExpireRunner, CleanRunner, CompleteRun, vars,
      scale

(* What the scanner takes for compatible keeps its labels, but for those   *)
(* that it does not recognise (ScannerKeepsLabels).                        *)
THEOREM LabelsSurvive == Spec => ScannerKeepsLabels
<1>1. ASSUME TypeInv, ScannerInv, [Next]_vars, pc[Scanner] = "labels", pc'[Scanner] = "list"
      PROVE  want[Scanner] \ Unrecognised \subseteq want'[Scanner]
  <2> USE <1>1, ThreadNames, ProvisioningAssumption DEF Goto
  <2>0. TypeOK
    BY DEF TypeInv
  <2>1. \E t \in Threads : ScaleUp(t) /\ pc'[t] # pc[t] /\ t = Scanner
    <3>1. ~ UNCHANGED pc
      OBVIOUS
    <3>2. ~ ScanSteps
      BY <2>0 DEF ScanSteps, Scan, ScanRuns, ScanJobs, ConsiderJob
    <3>3. ASSUME NEW t \in Callers, NEW r \in Repos, Call(t, r) PROVE FALSE
      BY <2>0, <3>3 DEF Call, TypeOK
    <3>4. \E t \in Threads : ScaleUp(t)
      BY <3>1, <3>2, <3>3
      DEF Next, Enqueue, Approve, Leave, Take, Finish, ExpireRunner, CleanRunner, CompleteRun, vars,
          scale
    <3>5. ASSUME NEW t \in Threads, ScaleUp(t), t # Scanner PROVE FALSE
      <4>1. \A s \in Threads \ {t} : pc'[s] = pc[s]
        BY <2>0, <3>5
        DEF ScaleUp, ReachMaxRunners, CountSlots, ChooseLabels, ListRuns, CountJobs,
            SkipScaleUp, PlanRunners, BreakStart, StartRunner, Return, TypeOK
      <4> QED
        BY <3>5, <4>1
    <3> QED
      BY <3>4, <3>5
  <2>2. ChooseLabels(Scanner)
    BY <2>1
    DEF ScaleUp, ReachMaxRunners, CountSlots, ListRuns, CountJobs, SkipScaleUp, PlanRunners,
        BreakStart, StartRunner
  <2> DEFINE W == want[Scanner]
  <2>3. CASE W = {}
    BY <2>3
  <2>4. CASE W # {}
    <3>1. want'[Scanner] = validateArchitectureLabels(W) \cup OwnerLabels
      <4>1. want' = [want EXCEPT ![Scanner] = validateArchitectureLabels(W) \cup OwnerLabels]
        BY <2>2, <2>4, Zenon DEF ChooseLabels
      <4> QED
        BY <2>0, <4>1 DEF TypeOK
    <3>2. W \ (ArchLabels \ HostLabels) \subseteq validateArchitectureLabels(W)
      BY Zenon DEF validateArchitectureLabels
    <3>3. W \cap OtherArch = {}
      BY DEF ScannerInv
    <3> HIDE DEF W
    <3> QED
      BY <3>1, <3>2, <3>3 DEF Unrecognised, W
  <2> QED
    BY <2>3, <2>4
<1>2. TypeInv /\ ScannerInv /\ [Next]_vars
        => [pc[Scanner] = "labels" /\ pc'[Scanner] = "list"
              => want[Scanner] \ Unrecognised \subseteq want'[Scanner]]_vars
  BY <1>1
<1>3. Init => ScannerInv
  BY ThreadNames DEF Init, ScannerInv
<1> QED
  BY <1>2, <1>3, NextScanner, TypeInvariance, PTL DEF Spec, ScannerKeepsLabels
===============================================================================
