------------------------- MODULE RunnerManagerProofs -------------------------
(***************************************************************************)
(* Proofs about RunnerManager, for every set of owners, repositories,      *)
(* goroutines and runners and all limits.                                  *)
(***************************************************************************)
EXTENDS RunnerManager, FiniteSetTheorems, TLAPS

------------------------------------------------------------------------------
(* The runners that the runtime lists can be counted.                      *)
LEMMA LiveIsFinite ==
  /\ IsFiniteSet(Live)
  /\ Cardinality(Live) \in Nat
<1>1. IsFiniteSet(RunnerIds) /\ Live \in SUBSET RunnerIds
  BY ConstantsAssumption DEF Live
<1> QED
  BY <1>1, FS_Subset, FS_CardinalityType

(* So can the runners of an owner.                                         *)
LEMMA OwnerIsFinite ==
  ASSUME NEW o
  PROVE  /\ IsFiniteSet(RunnersOf(o))
         /\ Cardinality(RunnersOf(o)) \in Nat
<1>1. RunnersOf(o) \in SUBSET Live
  BY DEF RunnersOf
<1> QED
  BY <1>1, LiveIsFinite, FS_Subset, FS_CardinalityType

(* Whatever the attribution of names does, the loop counts a natural       *)
(* number of runners.                                                      *)
LEMMA OwnerCountsAreNaturals ==
  ASSUME NEW o
  PROVE  OwnerRunnerCounts(o) \subseteq Nat
<1> DEFINE Attributed(i) == AttributedTo[OwnerOf[runner[i]]]
           Certain  == {i \in Live : Attributed(i) = {o}}
           Possible == {i \in Live : o \in Attributed(i)}
<1>1. Certain \in SUBSET Live /\ Possible \in SUBSET Live
  OBVIOUS
<1>2. Cardinality(Certain) \in Nat /\ Cardinality(Possible) \in Nat
  BY <1>1, LiveIsFinite, FS_Subset, FS_CardinalityType
<1>3. OwnerRunnerCounts(o) = Cardinality(Certain) .. Cardinality(Possible)
  BY DEF OwnerRunnerCounts
<1> HIDE DEF Certain, Possible
<1> QED
  BY <1>2, <1>3
------------------------------------------------------------------------------
(* ScaleUpWithLabels keeps the control invariant.                          *)
LEMMA ScaleUpControl ==
  ASSUME ControlInv, NEW g \in Goroutines, ScaleUp(g)
  PROVE  ControlInv'
<1> USE ConstantsAssumption, NoRequestAssumption
    DEF ControlInv, TypeOK, StartsPlanned, InsideHoldsLock, WorksForRepo,
        CarriedInBatch, Carries, Points, Critical, Goto, env, scale, sweep
<1>1. ASSUME NEW r \in Repos, CallScaleUp(g, r)
      PROVE  ControlInv'
  BY <1>1 DEF CallScaleUp
<1>2. ASSUME Lock(g)
      PROVE  ControlInv'
  BY <1>2 DEF Lock
<1>3. ASSUME FailScaleUp(g)
      PROVE  ControlInv'
  BY <1>3 DEF FailScaleUp, Return, EndScaleUp
<1>4. ASSUME CountRunners(g)
      PROVE  ControlInv'
  <2>1. PICK n \in OwnerRunnerCounts(OwnerOf[repo[g]]) :
          slots' = [slots EXCEPT ![g] = AvailableSlots(OwnerOf[repo[g]], n)]
    BY <1>4 DEF CountRunners
  <2>2. n \in Nat
    BY <1>4, OwnerCountsAreNaturals DEF CountRunners
  <2>3. AvailableSlots(OwnerOf[repo[g]], n) \in Nat
    BY <1>4, <2>2 DEF CountRunners, AvailableSlots
  <2> QED
    BY <1>4, <2>1, <2>3 DEF CountRunners
<1>5. ASSUME NEW jobs \in 0..MaxJobs, ReachMaxRunners(g, jobs)
      PROVE  ControlInv'
  <2>1. pending' \in [Repos -> Requests \cup {NoRequest}]
    <3>1. CASE jobs > 0
      <4>1. [jobCount |-> jobs, retryCount |-> 0, cooled |-> FALSE] \in Requests
        BY <1>5, <3>1 DEF Requests
      <4> QED
        BY <1>5, <3>1, <4>1 DEF ReachMaxRunners, AddPendingRequest
    <3>2. CASE ~(jobs > 0)
      BY <1>5, <3>2 DEF ReachMaxRunners
    <3> QED
      BY <3>1, <3>2
  <2> QED
    BY <1>5, <2>1 DEF ReachMaxRunners, Return, EndScaleUp
<1>6. ASSUME SkipScaleUp(g)
      PROVE  ControlInv'
  BY <1>6 DEF SkipScaleUp, Return, EndScaleUp
<1>7. ASSUME NEW jobs \in 1..MaxJobs, PlanScaleUp(g, jobs)
      PROVE  ControlInv'
  BY <1>7 DEF PlanScaleUp
<1>8. ASSUME NEW i \in Fresh, StartRunner(g, i)
      PROVE  ControlInv'
  <2>1. i \in RunnerIds /\ repo[g] \in Repos
    BY <1>8 DEF StartRunner, Fresh
  <2>2. CASE started[g] + 1 < RunnersToStart(g)
    BY <1>8, <2>1, <2>2 DEF StartRunner, RunnersToStart, Least
  <2>3. CASE ~(started[g] + 1 < RunnersToStart(g))
    <3>1. /\ pc[g] = "start"
          /\ runner' = [runner EXCEPT ![i] = repo[g]]
          /\ Return(g, "ok")
          /\ UNCHANGED <<done, pending, listed, tally>>
      BY <1>8, <2>3 DEF StartRunner
    <3>2. TypeOK'
      BY <2>1, <3>1 DEF Return, EndScaleUp
    <3>3. StartsPlanned' /\ InsideHoldsLock' /\ WorksForRepo'
      BY <3>1 DEF Return, EndScaleUp
    <3>4. CarriedInBatch'
      BY <3>1 DEF Return, EndScaleUp
    <3> QED
      BY <3>2, <3>3, <3>4
  <2> QED
    BY <2>2, <2>3
<1>9. ASSUME BreakScaleUp(g)
      PROVE  ControlInv'
  BY <1>9 DEF BreakScaleUp, Return, EndScaleUp, AddPendingRequest, Requests
<1> QED BY <1>1, <1>2, <1>3, <1>4, <1>5, <1>6, <1>7, <1>8, <1>9 DEF ScaleUp

(* So does a pass of ProcessPendingRequests.                               *)
LEMMA ProcessPendingRequestsControl ==
  ASSUME ControlInv, NEW g \in Goroutines, ProcessPendingRequests(g)
  PROVE  ControlInv'
<1> USE ConstantsAssumption, NoRequestAssumption
    DEF ControlInv, TypeOK, StartsPlanned, InsideHoldsLock, WorksForRepo,
        CarriedInBatch, Carries, Points, Critical, Goto, env, scale, sweep
<1>1. ASSUME GetPendingRequests(g)
      PROVE  ControlInv'
  BY <1>1 DEF GetPendingRequests, Requests
<1>2. ASSUME NEW r \in Repos, SkipRequest(g, r)
      PROVE  ControlInv'
  BY <1>2 DEF SkipRequest, ShouldRetry
<1>3. ASSUME NEW r \in Repos, TakeRequest(g, r)
      PROVE  ControlInv'
  BY <1>3 DEF TakeRequest, ShouldRetry
<1>4. ASSUME UpdateRetryCount(g)
      PROVE  ControlInv'
  <2>1. pending' \in [Repos -> Requests \cup {NoRequest}]
    <3>1. CASE pending[repo[g]] = NoRequest
      BY <1>4, <3>1 DEF UpdateRetryCount
    <3>2. CASE pending[repo[g]] # NoRequest
      <4>1. pending[repo[g]] \in Requests
        BY <1>4, <3>2 DEF UpdateRetryCount
      <4> QED
        <5>1. pending'[repo[g]]
                = [pending[repo[g]] EXCEPT !.retryCount = @ + 1, !.cooled = FALSE]
          BY <1>4, <3>2 DEF UpdateRetryCount
        <5>2. pending'[repo[g]] \in Requests
          <6> DEFINE p == pending[repo[g]]
          <6>1. /\ p.jobCount \in 1..MaxJobs
                /\ p.retryCount \in Nat
                /\ p = [jobCount |-> p.jobCount, retryCount |-> p.retryCount,
                         cooled |-> p.cooled]
            BY <4>1 DEF Requests
          <6>2. pending'[repo[g]] = [jobCount |-> p.jobCount,
                                     retryCount |-> p.retryCount + 1, cooled |-> FALSE]
            BY <5>1, <6>1
          <6> QED
            BY <6>1, <6>2 DEF Requests
        <5> QED
          BY <1>4, <3>2, <5>2 DEF UpdateRetryCount
    <3> QED
      BY <3>1, <3>2
  <2> QED
    BY <1>4, <2>1 DEF UpdateRetryCount
<1>5. ASSUME RemovePendingRequest(g)
      PROVE  ControlInv'
  BY <1>5 DEF RemovePendingRequest
<1>6. ASSUME ReAddRequest(g)
      PROVE  ControlInv'
  BY <1>6 DEF ReAddRequest, AddPendingRequest, Requests
<1>7. ASSUME EndProcessing(g)
      PROVE  ControlInv'
  BY <1>7 DEF EndProcessing
<1> QED BY <1>1, <1>2, <1>3, <1>4, <1>5, <1>6, <1>7 DEF ProcessPendingRequests

(* So do the cleanups.                                                     *)
LEMMA CleanupControl ==
  ASSUME ControlInv, NEW g \in Goroutines, Cleanup(g)
  PROVE  ControlInv'
<1> USE ConstantsAssumption, NoRequestAssumption
    DEF ControlInv, TypeOK, StartsPlanned, InsideHoldsLock, WorksForRepo,
        CarriedInBatch, Carries, Points, Critical, Goto, env, scale, sweep
<1>1. ASSUME NEW r \in Repos, CallWorkflowCompleted(g, r)
      PROVE  ControlInv'
  BY <1>1 DEF CallWorkflowCompleted, Live
<1>2. ASSUME NEW i \in RunnerIds, CleanRunner(g, i)
      PROVE  ControlInv'
  BY <1>2 DEF CleanRunner, StopRunners, Live
<1>3. ASSUME NEW i \in RunnerIds, MissRunner(g, i)
      PROVE  ControlInv'
  <2>1. tally' \in [Goroutines -> Nat]
    BY <1>3 DEF MissRunner
  <2> QED
    BY <1>3, <2>1 DEF MissRunner
<1>4. ASSUME EndCleanup(g)
      PROVE  ControlInv'
  BY <1>4 DEF EndCleanup
<1>5. ASSUME StartSweep(g)
      PROVE  ControlInv'
  <2>1. RunnerCounts \subseteq Nat
    BY LiveIsFinite DEF RunnerCounts
  <2> QED
    BY <1>5, <2>1 DEF StartSweep
<1>6. ASSUME CleanupCompletedRunners(g)
      PROVE  ControlInv'
  BY <1>6 DEF CleanupCompletedRunners, StopRunners
<1>7. ASSUME CleanupOldRunners(g)
      PROVE  ControlInv'
  BY <1>7 DEF CleanupOldRunners, StopRunners, Live
<1>8. ASSUME EndSweep(g)
      PROVE  ControlInv'
  BY <1>8 DEF EndSweep
<1> QED BY <1>1, <1>2, <1>3, <1>4, <1>5, <1>6, <1>7, <1>8 DEF Cleanup

(* So do the runners, the clock and a restart.                             *)
LEMMA EnvironmentControl ==
  ASSUME ControlInv, Environment
  PROVE  ControlInv'
<1> USE ConstantsAssumption, NoRequestAssumption
    DEF ControlInv, TypeOK, StartsPlanned, InsideHoldsLock, WorksForRepo,
        CarriedInBatch, Carries, Points, Critical, Goto, env, scale, sweep
<1>1. ASSUME NEW i \in RunnerIds, ExitRunner(i)
      PROVE  ControlInv'
  BY <1>1 DEF ExitRunner, StopRunners
<1>2. ASSUME NEW i \in RunnerIds, LingerRunner(i)
      PROVE  ControlInv'
  BY <1>2 DEF LingerRunner, StopRunners
<1>3. ASSUME NEW r \in Repos, CoolDown(r)
      PROVE  ControlInv'
  BY <1>3 DEF CoolDown, Requests
<1>4. ASSUME Restart
      PROVE  ControlInv'
  BY <1>4 DEF Restart
<1> QED BY <1>1, <1>2, <1>3, <1>4 DEF Environment

------------------------------------------------------------------------------
(* The control invariant holds initially and survives every step.          *)
LEMMA ControlInit == Init => ControlInv
BY ConstantsAssumption
   DEF Init, ControlInv, TypeOK, StartsPlanned, InsideHoldsLock, WorksForRepo,
       CarriedInBatch, Carries, Points, Critical

LEMMA ControlStep == ControlInv /\ [Next]_vars => ControlInv'
<1> SUFFICES ASSUME ControlInv, [Next]_vars
             PROVE  ControlInv'
  OBVIOUS
<1>1. CASE Next
  BY <1>1, ScaleUpControl, ProcessPendingRequestsControl, CleanupControl,
     EnvironmentControl DEF Next
<1>2. CASE UNCHANGED vars
  BY <1>2 DEF vars, ControlInv, TypeOK, StartsPlanned, InsideHoldsLock, WorksForRepo,
              CarriedInBatch, Carries
<1> QED
  BY <1>1, <1>2

(* Only the holder of rm.mu is inside ScaleUpWithLabels, a planned start   *)
(* always has a slot and a job, and a retried request stays in the         *)
(* snapshot of its pass, so the remainders and re-adds are never empty.    *)
THEOREM Control == Spec => []ControlInv
BY ControlInit, ControlStep, PTL DEF Spec

(* Every variable keeps its type; above all, every pending request has a   *)
(* job count between 1 and MaxJobs.                                        *)
THEOREM TypeCorrect == Spec => []TypeOK
<1>1. ControlInv => TypeOK
  BY DEF ControlInv
<1> QED
  BY <1>1, Control, PTL
------------------------------------------------------------------------------
(* With an exact attribution the loop counts the runners of the owner.     *)
LEMMA ExactCounts ==
  ASSUME ExactAttribution, RunnersHaveOwners, NEW o \in Owners
  PROVE  OwnerRunnerCounts(o) = {Cardinality(RunnersOf(o))}
<1> DEFINE Attributed(i) == AttributedTo[OwnerOf[runner[i]]]
<1>1. \A i \in Live : Attributed(i) = {OwnerOf[runner[i]]}
  BY DEF ExactAttribution, RunnersHaveOwners
<1>2. /\ {i \in Live : Attributed(i) = {o}} = RunnersOf(o)
      /\ {i \in Live : o \in Attributed(i)} = RunnersOf(o)
  BY <1>1 DEF RunnersOf
<1>3. OwnerRunnerCounts(o) = Cardinality(RunnersOf(o)) .. Cardinality(RunnersOf(o))
  BY <1>2 DEF OwnerRunnerCounts
<1> QED
  BY <1>3, OwnerIsFinite

(* The step starts no runner.                                              *)
RunnersEnd == \A i \in RunnerIds : runner'[i] \in {runner[i], NoRepo}

(* It starts no reservation either.                                        *)
ReservationsKept ==
  \A h \in Goroutines : pc'[h] \in {"count", "start"} =>
    /\ pc[h] \in {"count", "start"}
    /\ repo'[h] = repo[h] /\ slots'[h] = slots[h] /\ started'[h] = started[h]

(* The pools of a step that starts no runner only shrink.                  *)
LEMMA PoolsShrink ==
  ASSUME RunnersEnd, NEW o
  PROVE  /\ RunnersOf(o)' \subseteq RunnersOf(o)
         /\ Cardinality(RunnersOf(o))' <= Cardinality(RunnersOf(o))
         /\ Cardinality(RunnersOf(o))' \in Nat
<1>1. RunnersOf(o)' \in SUBSET RunnersOf(o)
  BY DEF RunnersEnd, RunnersOf, Live
<1>2. /\ IsFiniteSet(RunnersOf(o)')
      /\ Cardinality(RunnersOf(o)') <= Cardinality(RunnersOf(o))
  BY <1>1, OwnerIsFinite, FS_Subset
<1> QED
  BY <1>1, <1>2, FS_CardinalityType

(* Such a step, when it reserves nothing, keeps the capacity.              *)
LEMMA EndingKeepsCapacity ==
  ASSUME CapacityInv, ControlInv', RunnersEnd, ReservationsKept
  PROVE  CapacityInv'
<1>1. RunnersHaveOwners'
  BY DEF CapacityInv, RunnersHaveOwners, RunnersEnd, Live
<1>2. OwnerCapacity'
  <2> SUFFICES ASSUME NEW o \in Owners
               PROVE  Cardinality(RunnersOf(o))' <= MaxRunners[o]
    BY DEF OwnerCapacity
  <2> QED
    BY PoolsShrink, OwnerIsFinite, ConstantsAssumption DEF CapacityInv, OwnerCapacity
<1>3. ReservedCapacity'
  <2> SUFFICES ASSUME NEW h \in Goroutines, pc'[h] \in {"count", "start"},
                      NEW o, o = OwnerOf[repo'[h]]
               PROVE  /\ o \in Owners
                      /\ Cardinality(RunnersOf(o)') + slots'[h] - started'[h] <= MaxRunners[o]
    BY DEF ReservedCapacity, RunnersOf, Live
  <2>1. /\ repo'[h] = repo[h] /\ slots'[h] = slots[h] /\ started'[h] = started[h]
        /\ o \in Owners
        /\ Cardinality(RunnersOf(o)) + slots[h] - started[h] <= MaxRunners[o]
    BY DEF ReservationsKept, CapacityInv, ReservedCapacity
  <2>2. slots[h] \in Nat /\ started[h] \in Nat /\ MaxRunners[o] \in Nat
    BY <2>1, ConstantsAssumption DEF CapacityInv, ControlInv, TypeOK
  <2>3. /\ Cardinality(RunnersOf(o)') <= Cardinality(RunnersOf(o))
        /\ Cardinality(RunnersOf(o)') \in Nat
        /\ Cardinality(RunnersOf(o)) \in Nat
    BY PoolsShrink, OwnerIsFinite
  <2> QED
    BY <2>1, <2>2, <2>3
<1> QED
  BY <1>1, <1>2, <1>3 DEF CapacityInv

(* The list under rm.mu reserves exactly the room that is left.            *)
LEMMA CountingKeepsCapacity ==
  ASSUME ExactAttribution, CapacityInv, ControlInv', NEW g \in Goroutines, CountRunners(g)
  PROVE  CapacityInv'
<1> SUFFICES ASSUME NEW p, p = OwnerOf[repo[g]], NEW n, n = Cardinality(RunnersOf(p))
             PROVE  CapacityInv'
  OBVIOUS
<1>1. RunnersEnd /\ UNCHANGED runner
  BY DEF CountRunners, RunnersEnd, env
<1>2. RunnersHaveOwners' /\ OwnerCapacity'
  BY <1>1 DEF CapacityInv, RunnersHaveOwners, OwnerCapacity, RunnersOf, Live
<1>3. p \in Owners /\ slots'[g] = AvailableSlots(p, n) /\ started'[g] = started[g]
        /\ repo'[g] = repo[g]
  BY ExactCounts DEF CountRunners, CapacityInv, ControlInv, TypeOK
<1>4. started[g] = 0
  BY DEF CountRunners, CapacityInv, ControlInv, StartsPlanned
<1>5. n \in Nat /\ MaxRunners[p] \in Nat /\ n <= MaxRunners[p]
  BY <1>3, OwnerIsFinite, ConstantsAssumption DEF CapacityInv, OwnerCapacity
<1>6. n + slots'[g] - started'[g] <= MaxRunners[p]
  BY <1>3, <1>4, <1>5 DEF AvailableSlots
<1>7. ReservedCapacity'
  <2> SUFFICES ASSUME NEW h \in Goroutines, pc'[h] \in {"count", "start"},
                      NEW o, o = OwnerOf[repo'[h]]
               PROVE  /\ o \in Owners
                      /\ Cardinality(RunnersOf(o)') + slots'[h] - started'[h] <= MaxRunners[o]
    BY DEF ReservedCapacity, RunnersOf, Live
  <2>1. RunnersOf(o)' = RunnersOf(o)
    BY <1>1 DEF RunnersOf, Live
  <2>2. CASE h = g
    BY <1>3, <1>6, <2>1, <2>2
  <2>3. CASE h # g
    <3>1. pc'[h] = pc[h] /\ repo'[h] = repo[h] /\ slots'[h] = slots[h]
            /\ started'[h] = started[h]
      BY <2>3 DEF CountRunners, Goto, CapacityInv, ControlInv, TypeOK
    <3> QED
      BY <2>1, <3>1 DEF CapacityInv, ReservedCapacity
  <2> QED
    BY <2>2, <2>3
<1> QED
  BY <1>2, <1>7 DEF CapacityInv

(* A start uses one of the reserved places: its owner was below the limit. *)
LEMMA StartingBelowLimit ==
  ASSUME CapacityInv, NEW g \in Goroutines, NEW i \in Fresh, StartRunner(g, i),
         NEW o, o = OwnerOf[repo[g]]
  PROVE  /\ o \in Owners
         /\ Cardinality(RunnersOf(o)) < MaxRunners[o]
         /\ i \in RunnerIds \ Live
         /\ RunnersOf(o)' = RunnersOf(o) \cup {i}
         /\ \A p \in Owners : p # o => RunnersOf(p)' = RunnersOf(p)
<1>1. pc[g] = "start" /\ runner' = [runner EXCEPT ![i] = repo[g]]
  BY DEF StartRunner
<1>2. /\ o \in Owners
      /\ Cardinality(RunnersOf(o)) + slots[g] - started[g] <= MaxRunners[o]
      /\ started[g] < slots[g]
  BY <1>1 DEF CapacityInv, ReservedCapacity, ControlInv, StartsPlanned
<1>3. /\ slots[g] \in Nat /\ started[g] \in Nat /\ MaxRunners[o] \in Nat
      /\ Cardinality(RunnersOf(o)) \in Nat
  BY <1>2, OwnerIsFinite, ConstantsAssumption DEF CapacityInv, ControlInv, TypeOK
<1>4. Cardinality(RunnersOf(o)) < MaxRunners[o]
  BY <1>2, <1>3
<1>5. i \in RunnerIds /\ i \notin Live /\ repo[g] \in Repos /\ repo[g] # NoRepo
  BY <1>1, ConstantsAssumption
     DEF Fresh, CapacityInv, ControlInv, WorksForRepo, Critical
<1>6. Live' = Live \cup {i} /\ \A j \in Live : runner'[j] = runner[j]
  BY <1>1, <1>5 DEF Live, CapacityInv, ControlInv, TypeOK
<1>7. runner'[i] = repo[g]
  BY <1>1, <1>5 DEF CapacityInv, ControlInv, TypeOK
<1>8. RunnersOf(o)' = RunnersOf(o) \cup {i}
  BY <1>6, <1>7 DEF RunnersOf
<1>9. \A p \in Owners : p # o => RunnersOf(p)' = RunnersOf(p)
  BY <1>6, <1>7 DEF RunnersOf
<1> QED
  BY <1>2, <1>4, <1>5, <1>8, <1>9

(* The capacity survives a start.                                          *)
LEMMA StartingKeepsCapacity ==
  ASSUME CapacityInv, ControlInv', NEW g \in Goroutines, NEW i \in Fresh, StartRunner(g, i)
  PROVE  CapacityInv'
<1> SUFFICES ASSUME NEW q, q = OwnerOf[repo[g]]
             PROVE  CapacityInv'
  OBVIOUS
<1>1. /\ q \in Owners
      /\ i \in RunnerIds \ Live
      /\ Cardinality(RunnersOf(q)) < MaxRunners[q]
      /\ RunnersOf(q)' = RunnersOf(q) \cup {i}
      /\ \A p \in Owners : p # q => RunnersOf(p)' = RunnersOf(p)
  BY StartingBelowLimit
<1>2. pc[g] = "start" /\ runner' = [runner EXCEPT ![i] = repo[g]]
  BY DEF StartRunner
<1>3. /\ Cardinality(RunnersOf(q)') = Cardinality(RunnersOf(q)) + 1
      /\ Cardinality(RunnersOf(q)) \in Nat
      /\ MaxRunners[q] \in Nat
  <2>1. i \notin RunnersOf(q)
    BY <1>1 DEF RunnersOf
  <2> QED
    BY <1>1, <2>1, OwnerIsFinite, FS_AddElement, ConstantsAssumption
<1>4. RunnersHaveOwners'
  BY <1>1, <1>2 DEF CapacityInv, RunnersHaveOwners, Live, ControlInv, TypeOK
<1>5. OwnerCapacity'
  <2> SUFFICES ASSUME NEW p \in Owners
               PROVE  Cardinality(RunnersOf(p)') <= MaxRunners[p]
    BY DEF OwnerCapacity
  <2>1. CASE p = q
    <3>1. Cardinality(RunnersOf(q)') <= MaxRunners[q]
      BY <1>1, <1>3
    <3>2. RunnersOf(p)' = RunnersOf(q)'
      BY <2>1 DEF RunnersOf
    <3> QED
      BY <2>1, <3>1, <3>2
  <2>2. CASE p # q
    BY <1>1, <2>2 DEF CapacityInv, OwnerCapacity
  <2> QED
    BY <2>1, <2>2
<1>6. ReservedCapacity'
  <2> SUFFICES ASSUME NEW h \in Goroutines, pc'[h] \in {"count", "start"},
                      NEW o, o = OwnerOf[repo'[h]]
               PROVE  /\ o \in Owners
                      /\ Cardinality(RunnersOf(o)') + slots'[h] - started'[h] <= MaxRunners[o]
    BY DEF ReservedCapacity, RunnersOf, Live
  <2>1. h = g
    <3> SUFFICES ASSUME h # g
                 PROVE  FALSE
      OBVIOUS
    <3>1. pc'[h] = pc[h]
      BY DEF StartRunner, Return, EndScaleUp, Goto, CapacityInv, ControlInv, TypeOK
    <3>2. mu = h /\ mu = g
      BY <1>2, <3>1 DEF CapacityInv, ControlInv, InsideHoldsLock, Critical
    <3> QED
      BY <3>2
  <2>2. started[g] + 1 < RunnersToStart(g)
    <3> SUFFICES ASSUME ~(started[g] + 1 < RunnersToStart(g))
                 PROVE  FALSE
      OBVIOUS
    <3>1. pc'[g] \in {"idle", "readd", "next"}
      BY DEF StartRunner, Return, EndScaleUp, Goto, CapacityInv, ControlInv, TypeOK
    <3> QED
      BY <2>1, <3>1
  <2>3. /\ started'[g] = started[g] + 1 /\ slots'[g] = slots[g] /\ repo'[g] = repo[g]
        /\ slots[g] \in Nat /\ started[g] \in Nat
    BY <2>2 DEF StartRunner, CapacityInv, ControlInv, TypeOK
  <2>4. Cardinality(RunnersOf(q)) + slots[g] - started[g] <= MaxRunners[q]
    BY <1>2 DEF CapacityInv, ReservedCapacity
  <2>5. Cardinality(RunnersOf(q)') + slots'[g] - started'[g] <= MaxRunners[q]
    BY <1>3, <2>3, <2>4
  <2>6. o = q
    BY <2>1, <2>3
  <2> QED
    BY <1>1, <2>1, <2>5, <2>6
<1> QED
  BY <1>4, <1>5, <1>6 DEF CapacityInv

(* The other steps of ScaleUpWithLabels start and reserve nothing.         *)
LEMMA ScaleUpEnding ==
  ASSUME ControlInv, NEW g \in Goroutines, ScaleUp(g)
  PROVE  \/ CountRunners(g)
         \/ \E i \in Fresh : StartRunner(g, i)
         \/ RunnersEnd /\ ReservationsKept
<1> USE DEF ControlInv, TypeOK, RunnersEnd, ReservationsKept, Goto, env, scale
<1>1. ASSUME NEW r \in Repos, CallScaleUp(g, r)
      PROVE  RunnersEnd /\ ReservationsKept
  BY <1>1 DEF CallScaleUp
<1>2. ASSUME Lock(g)
      PROVE  RunnersEnd /\ ReservationsKept
  BY <1>2 DEF Lock
<1>3. ASSUME FailScaleUp(g)
      PROVE  RunnersEnd /\ ReservationsKept
  BY <1>3 DEF FailScaleUp, Return, EndScaleUp
<1>4. ASSUME NEW jobs \in 0..MaxJobs, ReachMaxRunners(g, jobs)
      PROVE  RunnersEnd /\ ReservationsKept
  BY <1>4 DEF ReachMaxRunners, Return, EndScaleUp
<1>5. ASSUME SkipScaleUp(g)
      PROVE  RunnersEnd /\ ReservationsKept
  BY <1>5 DEF SkipScaleUp, Return, EndScaleUp
<1>6. ASSUME NEW jobs \in 1..MaxJobs, PlanScaleUp(g, jobs)
      PROVE  RunnersEnd /\ ReservationsKept
  BY <1>6 DEF PlanScaleUp
<1>7. ASSUME BreakScaleUp(g)
      PROVE  RunnersEnd /\ ReservationsKept
  BY <1>7 DEF BreakScaleUp, Return, EndScaleUp
<1> QED BY <1>1, <1>2, <1>3, <1>4, <1>5, <1>6, <1>7 DEF ScaleUp

(* Nor does a pass over the pending requests.                              *)
LEMMA ProcessPendingRequestsEnding ==
  ASSUME ControlInv, NEW g \in Goroutines, ProcessPendingRequests(g)
  PROVE  RunnersEnd /\ ReservationsKept
<1> USE DEF ControlInv, TypeOK, RunnersEnd, ReservationsKept, Goto, env, scale
<1>1. CASE GetPendingRequests(g)
  BY <1>1 DEF GetPendingRequests
<1>2. ASSUME NEW r \in Repos, SkipRequest(g, r)
      PROVE  RunnersEnd /\ ReservationsKept
  BY <1>2 DEF SkipRequest
<1>3. ASSUME NEW r \in Repos, TakeRequest(g, r)
      PROVE  RunnersEnd /\ ReservationsKept
  BY <1>3 DEF TakeRequest
<1>4. CASE UpdateRetryCount(g)
  BY <1>4 DEF UpdateRetryCount
<1>5. CASE RemovePendingRequest(g)
  BY <1>5 DEF RemovePendingRequest
<1>6. CASE ReAddRequest(g)
  BY <1>6 DEF ReAddRequest
<1>7. CASE EndProcessing(g)
  BY <1>7 DEF EndProcessing
<1> QED BY <1>1, <1>2, <1>3, <1>4, <1>5, <1>6, <1>7 DEF ProcessPendingRequests

(* Nor does a cleanup, which may end runners at any time.                  *)
LEMMA CleanupEnding ==
  ASSUME ControlInv, NEW g \in Goroutines, Cleanup(g)
  PROVE  RunnersEnd /\ ReservationsKept
<1> USE DEF ControlInv, TypeOK, RunnersEnd, ReservationsKept, Goto, env, scale
<1>1. ASSUME NEW r \in Repos, CallWorkflowCompleted(g, r)
      PROVE  RunnersEnd /\ ReservationsKept
  BY <1>1 DEF CallWorkflowCompleted
<1>2. ASSUME NEW i \in RunnerIds, CleanRunner(g, i)
      PROVE  RunnersEnd /\ ReservationsKept
  BY <1>2 DEF CleanRunner, StopRunners
<1>3. ASSUME NEW i \in RunnerIds, MissRunner(g, i)
      PROVE  RunnersEnd /\ ReservationsKept
  BY <1>3 DEF MissRunner
<1>4. CASE EndCleanup(g)
  BY <1>4 DEF EndCleanup
<1>5. CASE StartSweep(g)
  BY <1>5 DEF StartSweep
<1>6. CASE CleanupCompletedRunners(g)
  BY <1>6 DEF CleanupCompletedRunners, StopRunners
<1>7. CASE CleanupOldRunners(g)
  BY <1>7 DEF CleanupOldRunners, StopRunners
<1>8. CASE EndSweep(g)
  BY <1>8 DEF EndSweep
<1> QED BY <1>1, <1>2, <1>3, <1>4, <1>5, <1>6, <1>7, <1>8 DEF Cleanup

(* Nor do the runners themselves, the clock or a crash.                    *)
LEMMA EnvironmentEnding ==
  ASSUME ControlInv, Environment
  PROVE  RunnersEnd /\ ReservationsKept
<1> USE DEF ControlInv, TypeOK, RunnersEnd, ReservationsKept, env, scale
<1>1. ASSUME NEW i \in RunnerIds, ExitRunner(i)
      PROVE  RunnersEnd /\ ReservationsKept
  BY <1>1 DEF ExitRunner, StopRunners
<1>2. ASSUME NEW i \in RunnerIds, LingerRunner(i)
      PROVE  RunnersEnd /\ ReservationsKept
  BY <1>2 DEF LingerRunner, StopRunners
<1>3. ASSUME NEW r \in Repos, CoolDown(r)
      PROVE  RunnersEnd /\ ReservationsKept
  BY <1>3 DEF CoolDown
<1>4. CASE Restart
  BY <1>4 DEF Restart
<1> QED BY <1>1, <1>2, <1>3, <1>4 DEF Environment

(* Every step counts, starts one runner, or only ends runners.             *)
LEMMA StepKinds ==
  ASSUME ControlInv, [Next]_vars
  PROVE  \/ \E g \in Goroutines : CountRunners(g)
         \/ \E g \in Goroutines : \E i \in Fresh : StartRunner(g, i)
         \/ RunnersEnd /\ ReservationsKept
<1>1. CASE \E g \in Goroutines : ScaleUp(g)
  BY <1>1, ScaleUpEnding
<1>2. CASE \E g \in Goroutines : ProcessPendingRequests(g)
  BY <1>2, ProcessPendingRequestsEnding
<1>3. CASE \E g \in Goroutines : Cleanup(g)
  BY <1>3, CleanupEnding
<1>4. CASE Environment
  BY <1>4, EnvironmentEnding
<1>5. CASE UNCHANGED vars
  BY <1>5 DEF vars, RunnersEnd, ReservationsKept
<1> QED
  BY <1>1, <1>2, <1>3, <1>4, <1>5 DEF Next

(* At the start there is no runner.                                        *)
LEMMA NoRunnersAtFirst ==
  ASSUME Init, NEW o
  PROVE  Live = {} /\ RunnersOf(o) = {}
BY DEF Init, Live, RunnersOf

(* The capacity invariant holds initially and, when names are attributed   *)
(* exactly, survives every step.                                           *)
LEMMA CapacityInit == Init => CapacityInv
<1> SUFFICES ASSUME Init
             PROVE  CapacityInv
  OBVIOUS
<1>1. RunnersHaveOwners
  BY NoRunnersAtFirst DEF RunnersHaveOwners
<1>2. OwnerCapacity
  <2> SUFFICES ASSUME NEW o \in Owners
               PROVE  Cardinality(RunnersOf(o)) <= MaxRunners[o]
    BY DEF OwnerCapacity
  <2> QED
    <3>1. Cardinality(RunnersOf(o)) = 0
      BY NoRunnersAtFirst, FS_EmptySet, Zenon
    <3> QED
      BY <3>1, ConstantsAssumption
<1>3. ReservedCapacity
  BY DEF Init, ReservedCapacity
<1> QED
  BY <1>1, <1>2, <1>3, ControlInit DEF CapacityInv

LEMMA CapacityStep ==
  ASSUME ExactAttribution
  PROVE  CapacityInv /\ [Next]_vars => CapacityInv'
<1> SUFFICES ASSUME CapacityInv, [Next]_vars
             PROVE  CapacityInv'
  OBVIOUS
<1>1. ControlInv /\ ControlInv'
  BY ControlStep DEF CapacityInv
<1> QED
  BY <1>1, StepKinds, CountingKeepsCapacity, StartingKeepsCapacity, EndingKeepsCapacity

(* The locking discipline of ScaleUpWithLabels is enough for the capacity, *)
(* whatever else runs meanwhile, provided that getOwnerFromRunnerName      *)
(* finds the owner of every runner.                                        *)
THEOREM Capacity ==
  ASSUME ExactAttribution
  PROVE  Spec => []CapacityInv
BY CapacityInit, CapacityStep, PTL DEF Spec

(* No owner ever has more runners than its limit.                          *)
THEOREM LimitsHold ==
  ASSUME ExactAttribution
  PROVE  Spec => []OwnerCapacity
<1>1. CapacityInv => OwnerCapacity
  BY DEF CapacityInv
<1> QED
  BY <1>1, Capacity, PTL
------------------------------------------------------------------------------
(* The pools of the refinement mapping are sets of runners.                *)
LEMMA PoolType ==
  [o \in Owners |-> RunnersOf(o)] \in [Owners -> SUBSET RunnerIds]
BY DEF RunnersOf, Live

(* A start admits one runner to the pool of an owner below its limit.      *)
LEMMA StartAdmits ==
  ASSUME CapacityInv, NEW g \in Goroutines, NEW i \in Fresh, StartRunner(g, i)
  PROVE  Pool!Next
<1> SUFFICES ASSUME NEW o, o = OwnerOf[repo[g]]
             PROVE  Pool!Next
  OBVIOUS
<1> DEFINE pool == [p \in Owners |-> RunnersOf(p)]
<1>1. /\ o \in Owners
      /\ Cardinality(RunnersOf(o)) < MaxRunners[o]
      /\ i \in RunnerIds \ Live
      /\ RunnersOf(o)' = RunnersOf(o) \cup {i}
      /\ \A p \in Owners : p # o => RunnersOf(p)' = RunnersOf(p)
  BY StartingBelowLimit
<1>2. \A p \in Owners : i \notin pool[p]
  BY <1>1 DEF RunnersOf
<1>3. Cardinality(pool[o]) < MaxRunners[o]
  BY <1>1
<1>4. pool' = [pool EXCEPT ![o] = @ \cup {i}]
  <2>1. \A p \in Owners : RunnersOf(p)' = IF p = o THEN RunnersOf(p) \cup {i} ELSE RunnersOf(p)
    <3> SUFFICES ASSUME NEW p \in Owners
                 PROVE  RunnersOf(p)' = IF p = o THEN RunnersOf(p) \cup {i} ELSE RunnersOf(p)
      OBVIOUS
    <3>1. CASE p = o
      <4>1. RunnersOf(p)' = RunnersOf(o)' /\ RunnersOf(p) = RunnersOf(o)
        BY <3>1 DEF RunnersOf
      <4> QED
        BY <1>1, <3>1, <4>1
    <3>2. CASE p # o
      BY <1>1, <3>2
    <3> QED
      BY <3>1, <3>2
  <2>2. pool' = [p \in Owners |-> RunnersOf(p)']
    OBVIOUS
  <2> QED
    BY <1>1, <2>1, <2>2
<1>5. Pool!Cardinality(pool[o]) = Cardinality(pool[o])
  BY DEF Pool!Cardinality, Cardinality
<1>6. Pool!Admit(o, i)
  BY <1>2, <1>3, <1>4, <1>5 DEF Pool!Admit
<1> QED
  BY <1>1, <1>6 DEF Pool!Next

(* A step that starts no runner retires the ones that it ends.             *)
LEMMA EndingRetires ==
  ASSUME RunnersEnd
  PROVE  Pool!Next
<1>1. \A o \in Owners : RunnersOf(o)' \subseteq RunnersOf(o)
  BY PoolsShrink
<1>2. [o \in Owners |-> RunnersOf(o)]' \in [Owners -> SUBSET RunnerIds]
  BY DEF RunnersOf, Live
<1>3. Pool!Retire
  BY <1>1, <1>2 DEF Pool!Retire
<1> QED
  BY <1>3 DEF Pool!Next

LEMMA PoolInit == Init => Pool!Init
BY NoRunnersAtFirst DEF Pool!Init

(* Every step maps to an admission or a retirement.                        *)
LEMMA PoolStep ==
  ASSUME ExactAttribution
  PROVE  CapacityInv /\ [Next]_vars => [Pool!Next]_[o \in Owners |-> RunnersOf(o)]
<1> SUFFICES ASSUME CapacityInv, [Next]_vars
             PROVE  Pool!Next
  OBVIOUS
<1>1. ASSUME NEW g \in Goroutines, CountRunners(g)
      PROVE  RunnersEnd
  BY <1>1 DEF CountRunners, RunnersEnd, env
<1> QED
  BY <1>1, StepKinds, StartAdmits, EndingRetires DEF CapacityInv

(* The autoscaler, with its lock, lists, retries, cleanups and crashes,    *)
(* implements the capacity promise of OwnerPool.                           *)
THEOREM Refinement ==
  ASSUME ExactAttribution
  PROVE  Spec => ImplementsOwnerPool
BY Capacity, PoolInit, PoolStep, PTL DEF Spec, ImplementsOwnerPool, Pool!Spec
------------------------------------------------------------------------------
(* The passes between their update and their remove can be counted.        *)
LEMMA RetryingIsFinite ==
  ASSUME NEW r
  PROVE  /\ IsFiniteSet(Retrying(r))
         /\ Cardinality(Retrying(r)) \in Nat
<1>1. Retrying(r) \in SUBSET Goroutines /\ IsFiniteSet(Goroutines)
  BY ConstantsAssumption DEF Retrying
<1> QED
  BY <1>1, FS_Subset, FS_CardinalityType

(* The step counts no retry of a request, and no pass moves towards or     *)
(* past its remove.                                                        *)
RetriesKept ==
  \A r \in Repos :
    \/ pending'[r] = NoRequest
    \/ pending'[r].retryCount = 0
    \/ /\ pending[r] # NoRequest
       /\ pending'[r].retryCount = pending[r].retryCount
       /\ Retrying(r)' = Retrying(r)

(* Such a step keeps the bound on the retry counts.                        *)
LEMMA KeptRetriesInFlight ==
  ASSUME RetriesInFlight, RetriesKept
  PROVE  RetriesInFlight'
<1> SUFFICES ASSUME NEW r \in Repos, pending'[r] # NoRequest
             PROVE  pending'[r].retryCount <= Cardinality(Retrying(r)')
  BY DEF RetriesInFlight
<1>1. Cardinality(Retrying(r)') \in Nat
  <2>1. Retrying(r)' \in SUBSET Goroutines /\ IsFiniteSet(Goroutines)
    BY ConstantsAssumption DEF Retrying
  <2> QED
    BY <2>1, FS_Subset, FS_CardinalityType
<1>2. CASE pending'[r].retryCount = 0
  BY <1>1, <1>2
<1>3. CASE pending'[r].retryCount # 0
  BY <1>3 DEF RetriesKept, RetriesInFlight
<1> QED
  BY <1>2, <1>3

(* A pass that counts a retry joins the passes that are about to remove    *)
(* the request.                                                            *)
LEMMA UpdateCountsInFlight ==
  ASSUME ControlInv, RetriesInFlight, NEW g \in Goroutines, UpdateRetryCount(g)
  PROVE  RetriesInFlight'
<1> SUFFICES ASSUME NEW r \in Repos, pending'[r] # NoRequest
             PROVE  pending'[r].retryCount <= Cardinality(Retrying(r)')
  BY DEF RetriesInFlight
<1>1. /\ pc[g] = "update" /\ pc' = [pc EXCEPT ![g] = "remove"] /\ repo' = repo
      /\ pc \in [Goroutines -> Points] /\ repo[g] \in Repos
  BY DEF UpdateRetryCount, Goto, ControlInv, TypeOK, WorksForRepo
<1>2. CASE r = repo[g]
  <2>1. Retrying(r)' = Retrying(r) \cup {g} /\ g \notin Retrying(r)
    BY <1>1, <1>2 DEF Retrying
  <2>2. Cardinality(Retrying(r)') = Cardinality(Retrying(r)) + 1
    BY <2>1, RetryingIsFinite, FS_AddElement
  <2>3. pending[r] # NoRequest
    BY <1>2 DEF UpdateRetryCount
  <2>4. pending'[r].retryCount = pending[r].retryCount + 1 /\ pending[r].retryCount \in Nat
    <3>1. pending[r] \in Requests
      BY <2>3 DEF ControlInv, TypeOK
    <3>2. pending'[r] = [pending[r] EXCEPT !.retryCount = @ + 1, !.cooled = FALSE]
      BY <1>2, <2>3 DEF UpdateRetryCount, ControlInv, TypeOK
    <3> QED
      BY <3>1, <3>2 DEF Requests
  <2> QED
    BY <2>2, <2>3, <2>4, RetryingIsFinite DEF RetriesInFlight
<1>3. CASE r # repo[g]
  <2>1. Retrying(r)' = Retrying(r)
    BY <1>1, <1>3 DEF Retrying
  <2>2. pending'[r] = pending[r]
    BY <1>1, <1>3 DEF UpdateRetryCount, ControlInv, TypeOK
  <2> QED
    BY <2>1, <2>2 DEF RetriesInFlight
<1> QED
  BY <1>2, <1>3

(* ScaleUpWithLabels counts no retry.                                      *)
LEMMA ScaleUpKeepsRetries ==
  ASSUME ControlInv, NEW g \in Goroutines, ScaleUp(g)
  PROVE  RetriesKept
<1> USE DEF ControlInv, TypeOK, RetriesKept, Retrying, Goto, env, scale, sweep
<1>1. ASSUME NEW r \in Repos, CallScaleUp(g, r)
      PROVE  RetriesKept
  BY <1>1 DEF CallScaleUp
<1>2. CASE Lock(g)
  BY <1>2 DEF Lock
<1>3. CASE FailScaleUp(g)
  BY <1>3 DEF FailScaleUp, Return, EndScaleUp
<1>4. CASE CountRunners(g)
  BY <1>4 DEF CountRunners
<1>5. ASSUME NEW jobs \in 0..MaxJobs, ReachMaxRunners(g, jobs)
      PROVE  RetriesKept
  <2>1. \A r \in Repos : Retrying(r)' = Retrying(r)
    BY <1>5 DEF ReachMaxRunners, Return, EndScaleUp
  <2>2. \A r \in Repos :
          \/ pending'[r] = pending[r]
          \/ pending'[r].retryCount = 0
    <3> SUFFICES ASSUME NEW r \in Repos
                 PROVE  \/ pending'[r] = pending[r]
                        \/ pending'[r].retryCount = 0
      OBVIOUS
    <3>1. CASE jobs > 0
      <4> DEFINE fresh == [jobCount |-> jobs, retryCount |-> 0, cooled |-> FALSE]
      <4>1. pending' = [pending EXCEPT ![repo[g]] = fresh] /\ fresh.retryCount = 0
        BY <1>5, <3>1 DEF ReachMaxRunners, AddPendingRequest
      <4> HIDE DEF fresh
      <4> QED
        BY <4>1
    <3>2. CASE ~(jobs > 0)
      BY <1>5, <3>2 DEF ReachMaxRunners
    <3> QED
      BY <3>1, <3>2
  <2> QED
    BY <2>1, <2>2
<1>6. CASE SkipScaleUp(g)
  BY <1>6 DEF SkipScaleUp, Return, EndScaleUp
<1>7. ASSUME NEW jobs \in 1..MaxJobs, PlanScaleUp(g, jobs)
      PROVE  RetriesKept
  BY <1>7 DEF PlanScaleUp
<1>8. ASSUME NEW i \in Fresh, StartRunner(g, i)
      PROVE  RetriesKept
  BY <1>8 DEF StartRunner, Return, EndScaleUp
<1>9. CASE BreakScaleUp(g)
  BY <1>9 DEF BreakScaleUp, Return, EndScaleUp, AddPendingRequest
<1> QED BY <1>1, <1>2, <1>3, <1>4, <1>5, <1>6, <1>7, <1>8, <1>9 DEF ScaleUp

(* A pass counts one only in its update.                                   *)
LEMMA ProcessPendingRequestsKeepsRetries ==
  ASSUME ControlInv, NEW g \in Goroutines, ProcessPendingRequests(g)
  PROVE  UpdateRetryCount(g) \/ RetriesKept
<1> USE DEF ControlInv, TypeOK, RetriesKept, Retrying, Goto, env, scale, sweep
<1>1. CASE GetPendingRequests(g)
  BY <1>1 DEF GetPendingRequests
<1>2. ASSUME NEW r \in Repos, SkipRequest(g, r)
      PROVE  RetriesKept
  BY <1>2 DEF SkipRequest
<1>3. ASSUME NEW r \in Repos, TakeRequest(g, r)
      PROVE  RetriesKept
  BY <1>3 DEF TakeRequest
<1>4. ASSUME RemovePendingRequest(g)
      PROVE  RetriesKept
  <2> SUFFICES ASSUME NEW r \in Repos, pending'[r] # NoRequest
               PROVE  /\ pending[r] # NoRequest
                      /\ pending'[r].retryCount = pending[r].retryCount
                      /\ Retrying(r)' = Retrying(r)
    OBVIOUS
  <2>1. /\ pending' = [pending EXCEPT ![repo[g]] = NoRequest]
        /\ repo' = repo /\ pc' = [pc EXCEPT ![g] = "lock"]
    BY <1>4 DEF RemovePendingRequest
  <2>2. r # repo[g] /\ pending'[r] = pending[r]
    BY <2>1
  <2>3. Retrying(r)' = Retrying(r)
    BY <2>1, <2>2
  <2> QED
    BY <2>2, <2>3
<1>5. CASE ReAddRequest(g)
  BY <1>5 DEF ReAddRequest, AddPendingRequest
<1>6. CASE EndProcessing(g)
  BY <1>6 DEF EndProcessing
<1> QED BY <1>1, <1>2, <1>3, <1>4, <1>5, <1>6 DEF ProcessPendingRequests

(* The cleanups count none.                                                *)
LEMMA CleanupKeepsRetries ==
  ASSUME ControlInv, NEW g \in Goroutines, Cleanup(g)
  PROVE  RetriesKept
<1> USE DEF ControlInv, TypeOK, RetriesKept, Retrying, Goto, env, scale, sweep
<1>1. ASSUME NEW r \in Repos, CallWorkflowCompleted(g, r)
      PROVE  RetriesKept
  BY <1>1 DEF CallWorkflowCompleted
<1>2. ASSUME NEW i \in RunnerIds, CleanRunner(g, i)
      PROVE  RetriesKept
  BY <1>2 DEF CleanRunner
<1>3. ASSUME NEW i \in RunnerIds, MissRunner(g, i)
      PROVE  RetriesKept
  BY <1>3 DEF MissRunner
<1>4. CASE EndCleanup(g)
  BY <1>4 DEF EndCleanup
<1>5. CASE StartSweep(g)
  BY <1>5 DEF StartSweep
<1>6. CASE CleanupCompletedRunners(g)
  BY <1>6 DEF CleanupCompletedRunners
<1>7. CASE CleanupOldRunners(g)
  BY <1>7 DEF CleanupOldRunners
<1>8. CASE EndSweep(g)
  BY <1>8 DEF EndSweep
<1> QED BY <1>1, <1>2, <1>3, <1>4, <1>5, <1>6, <1>7, <1>8 DEF Cleanup

(* Nor do the runners, the clock and a crash, which forgets them all.      *)
LEMMA EnvironmentKeepsRetries ==
  ASSUME ControlInv, Environment
  PROVE  RetriesKept
<1> USE DEF ControlInv, TypeOK, RetriesKept, Retrying, env, scale, sweep
<1>1. ASSUME NEW i \in RunnerIds, ExitRunner(i)
      PROVE  RetriesKept
  BY <1>1 DEF ExitRunner
<1>2. ASSUME NEW i \in RunnerIds, LingerRunner(i)
      PROVE  RetriesKept
  BY <1>2 DEF LingerRunner
<1>3. ASSUME NEW r \in Repos, CoolDown(r)
      PROVE  RetriesKept
  BY <1>3 DEF CoolDown, Requests
<1>4. CASE Restart
  BY <1>4 DEF Restart
<1> QED BY <1>1, <1>2, <1>3, <1>4 DEF Environment

(* The bound holds initially and survives every step.                      *)
LEMMA RetriesInit == Init => RetriesInFlight
BY DEF Init, RetriesInFlight

LEMMA RetriesStep == ControlInv /\ RetriesInFlight /\ [Next]_vars => RetriesInFlight'
<1> SUFFICES ASSUME ControlInv, RetriesInFlight, [Next]_vars
             PROVE  RetriesInFlight'
  OBVIOUS
<1>1. CASE \E g \in Goroutines : ScaleUp(g)
  BY <1>1, ScaleUpKeepsRetries, KeptRetriesInFlight
<1>2. CASE \E g \in Goroutines : ProcessPendingRequests(g)
  BY <1>2, ProcessPendingRequestsKeepsRetries, UpdateCountsInFlight, KeptRetriesInFlight
<1>3. CASE \E g \in Goroutines : Cleanup(g)
  BY <1>3, CleanupKeepsRetries, KeptRetriesInFlight
<1>4. CASE Environment
  BY <1>4, EnvironmentKeepsRetries, KeptRetriesInFlight
<1>5. CASE UNCHANGED vars
  BY <1>5 DEF vars, RetriesInFlight, Retrying
<1> QED
  BY <1>1, <1>2, <1>3, <1>4, <1>5 DEF Next

(* However many goroutines overlap, the retry count of a pending request   *)
(* is at most the number of passes that are about to remove it.            *)
THEOREM RetriesBounded == Spec => []RetriesInFlight
BY Control, RetriesInit, RetriesStep, PTL DEF Spec
------------------------------------------------------------------------------
(* The step forgets no request, unless a retry has got further than the    *)
(* count or failed, or everything is forgotten.                            *)
RequestsKept ==
  \A r \in Repos : Tracked(r) /\ ~Tracked(r)' =>
    \/ \E g \in Goroutines : /\ retry[g] /\ repo[g] = r /\ mu = g
                             /\ pc[g] = "list" \/ slots[g] > 0
    \/ \A g \in Goroutines : pc'[g] = "idle"

(* A request is still tracked when those that are pending are pending or   *)
(* carried, and those who carried it still do.                             *)
StillTracked(r) ==
  /\ pending[r] # NoRequest => pending'[r] # NoRequest \/ \E g \in Goroutines : Carries(g, r)'
  /\ \A g \in Goroutines : Carries(g, r) => Carries(g, r)' \/ pending'[r] # NoRequest

LEMMA TrackedStays ==
  ASSUME \A r \in Repos : StillTracked(r)
  PROVE  RequestsKept
BY DEF RequestsKept, Tracked, StillTracked

(* Counting a retry of a request, and cooling it down, leave a request.    *)
LEMMA UpdatedRequest ==
  ASSUME NEW q \in Requests, NEW r,
         \/ r = [q EXCEPT !.retryCount = @ + 1, !.cooled = FALSE]
         \/ r = [q EXCEPT !.cooled = TRUE]
  PROVE  r \in Requests
<1>1. /\ q.jobCount \in 1..MaxJobs /\ q.retryCount \in Nat
      /\ q = [jobCount |-> q.jobCount, retryCount |-> q.retryCount, cooled |-> q.cooled]
  BY DEF Requests
<1>2. CASE r = [q EXCEPT !.retryCount = @ + 1, !.cooled = FALSE]
  <2>1. r = [jobCount |-> q.jobCount, retryCount |-> q.retryCount + 1, cooled |-> FALSE]
    BY <1>1, <1>2
  <2> QED
    BY <1>1, <2>1 DEF Requests
<1>3. CASE r = [q EXCEPT !.cooled = TRUE]
  <2>1. r = [jobCount |-> q.jobCount, retryCount |-> q.retryCount, cooled |-> TRUE]
    BY <1>1, <1>3
  <2> QED
    BY <1>1, <2>1 DEF Requests
<1> QED
  BY <1>2, <1>3

(* A request that is added is pending, and no other one is forgotten.      *)
LEMMA AddedIsPending ==
  ASSUME ControlInv, NEW r \in Repos, NEW jobs \in 1..MaxJobs, AddPendingRequest(r, jobs)
  PROVE  /\ pending'[r] # NoRequest
         /\ \A q \in Repos : pending[q] # NoRequest => pending'[q] # NoRequest
<1> DEFINE new == [jobCount |-> jobs, retryCount |-> 0, cooled |-> FALSE]
<1>1. new \in Requests
  BY DEF Requests
<1>2. pending' = [pending EXCEPT ![r] = new] /\ pending \in [Repos -> Requests \cup {NoRequest}]
  BY DEF AddPendingRequest, ControlInv, TypeOK
<1>3. new # NoRequest
  BY <1>1, NoRequestAssumption
<1> HIDE DEF new
<1> QED
  BY <1>2, <1>3

(* A return to ProcessPendingRequests forgets the request of the retry     *)
(* unless the owner is full, and no other return forgets any.              *)
LEMMA ReturnKeepsRequests ==
  ASSUME ControlInv, NEW g \in Goroutines, NEW outcome, pc[g] \in Critical, Return(g, outcome),
         \A r \in Repos : pending[r] # NoRequest => pending'[r] # NoRequest,
         outcome = "max runners reached" \/ pc[g] = "list" \/ slots[g] > 0
  PROVE  RequestsKept
<1> SUFFICES ASSUME NEW r \in Repos, Tracked(r), ~Tracked(r)'
             PROVE  /\ retry[g] /\ repo[g] = r /\ mu = g
                    /\ outcome # "max runners reached"
  BY DEF RequestsKept
<1>1. PICK h \in Goroutines : Carries(h, r)
  BY DEF Tracked
<1>2. ~Carries(h, r)'
  BY DEF Tracked
<1>3. h = g
  <2>1. \A f \in Goroutines \ {g} : pc'[f] = pc[f] /\ repo'[f] = repo[f] /\ retry'[f] = retry[f]
    BY DEF Return, EndScaleUp, Goto, ControlInv, TypeOK
  <2> QED
    BY <1>1, <1>2, <2>1, Zenon DEF Carries
<1>4. retry[g] /\ repo[g] = r
  BY <1>1, <1>3 DEF Carries, Critical
<1>5. ASSUME outcome = "max runners reached"
      PROVE  FALSE
  <2>1. pc'[g] = "readd" /\ repo'[g] = r
    BY <1>4, <1>5 DEF Return, Goto, ControlInv, TypeOK
  <2> QED
    BY <1>2, <1>3, <2>1 DEF Carries
<1>6. mu = g
  BY DEF ControlInv, InsideHoldsLock
<1> QED
  BY <1>4, <1>5, <1>6

(* ScaleUpWithLabels forgets only a retry that failed or found a slot.     *)
LEMMA ScaleUpKeepsRequests ==
  ASSUME ControlInv, NEW g \in Goroutines, ScaleUp(g)
  PROVE  RequestsKept
<1>1. ASSUME NEW r \in Repos, CallScaleUp(g, r)
      PROVE  RequestsKept
  BY <1>1, TrackedStays DEF CallScaleUp, StillTracked, Carries, Goto, ControlInv, TypeOK,
     CarriedInBatch, Critical
<1>2. CASE Lock(g)
  BY <1>2, TrackedStays DEF Lock, StillTracked, Carries, Goto, ControlInv, TypeOK,
     CarriedInBatch, Critical
<1>3. CASE FailScaleUp(g)
  <2>1. pc[g] = "list" /\ pc[g] \in Critical /\ Return(g, "error") /\ pending' = pending
    BY <1>3 DEF FailScaleUp, Critical
  <2> QED
    BY <2>1, ReturnKeepsRequests
<1>4. CASE CountRunners(g)
  BY <1>4, TrackedStays DEF CountRunners, StillTracked, Carries, Goto, ControlInv, TypeOK,
     CarriedInBatch, Critical
<1>5. ASSUME NEW jobs \in 0..MaxJobs, ReachMaxRunners(g, jobs)
      PROVE  RequestsKept
  <2>1. pc[g] \in Critical /\ Return(g, "max runners reached")
    BY <1>5 DEF ReachMaxRunners, Critical
  <2>2. \A r \in Repos : pending[r] # NoRequest => pending'[r] # NoRequest
    <3>1. repo[g] \in Repos
      BY <2>1 DEF WorksForRepo, ControlInv
    <3>2. CASE jobs > 0
      <4>1. jobs \in 1..MaxJobs
        BY <3>2, ConstantsAssumption
      <4>2. AddPendingRequest(repo[g], jobs)
        BY <1>5, <3>2 DEF ReachMaxRunners
      <4> QED
        BY <3>1, <4>1, <4>2, AddedIsPending
    <3>3. CASE ~(jobs > 0)
      BY <1>5, <3>3 DEF ReachMaxRunners
    <3> QED
      BY <3>2, <3>3
  <2> QED
    BY <2>1, <2>2, ReturnKeepsRequests
<1>6. CASE SkipScaleUp(g)
  <2>1. pc[g] \in Critical /\ slots[g] > 0 /\ Return(g, "ok") /\ pending' = pending
    BY <1>6 DEF SkipScaleUp, Critical
  <2> QED
    BY <2>1, ReturnKeepsRequests
<1>7. ASSUME NEW jobs \in 1..MaxJobs, PlanScaleUp(g, jobs)
      PROVE  RequestsKept
  BY <1>7, TrackedStays DEF PlanScaleUp, StillTracked, Carries, Goto, ControlInv, TypeOK,
     CarriedInBatch, Critical
<1>8. ASSUME NEW i \in Fresh, StartRunner(g, i)
      PROVE  RequestsKept
  <2>1. pc[g] \in Critical /\ pending' = pending /\ slots[g] > 0
    BY <1>8 DEF StartRunner, StartsPlanned, ControlInv, TypeOK, Critical
  <2>2. CASE Return(g, "ok")
    BY <2>1, <2>2, ReturnKeepsRequests
  <2>3. CASE UNCHANGED <<mu, pc, repo, retry, slots, queued, batch>>
    BY <2>1, <2>3, TrackedStays DEF StillTracked, Carries
  <2> QED
    BY <1>8, <2>2, <2>3 DEF StartRunner
<1>9. CASE BreakScaleUp(g)
  <2>1. pc[g] = "start" /\ pc[g] \in Critical /\ slots[g] > 0 /\ Return(g, "ok")
    BY <1>9 DEF BreakScaleUp, StartsPlanned, ControlInv, TypeOK, Critical
  <2>2. repo[g] \in Repos /\ queued[g] - started[g] \in 1..MaxJobs
    BY <2>1, ConstantsAssumption DEF WorksForRepo, StartsPlanned, ControlInv, TypeOK
  <2>3. \A r \in Repos : pending[r] # NoRequest => pending'[r] # NoRequest
    BY <1>9, <2>2, AddedIsPending DEF BreakScaleUp
  <2> QED
    BY <2>1, <2>3, ReturnKeepsRequests
<1> QED BY <1>1, <1>2, <1>3, <1>4, <1>5, <1>6, <1>7, <1>8, <1>9 DEF ScaleUp
(* A pass carries what it takes until it hands it to a retry, and what the *)
(* retry hands back until it is added again.                               *)
LEMMA ProcessPendingRequestsKeepsRequests ==
  ASSUME ControlInv, NEW g \in Goroutines, ProcessPendingRequests(g)
  PROVE  RequestsKept
<1> USE DEF ControlInv, TypeOK, CarriedInBatch, Critical, StillTracked, Carries, Goto
<1>1. CASE GetPendingRequests(g)
  BY <1>1, TrackedStays DEF GetPendingRequests
<1>2. ASSUME NEW r \in Repos, SkipRequest(g, r)
      PROVE  RequestsKept
  BY <1>2, TrackedStays DEF SkipRequest
<1>3. ASSUME NEW r \in Repos, TakeRequest(g, r)
      PROVE  RequestsKept
  BY <1>3, TrackedStays DEF TakeRequest
<1>4. CASE UpdateRetryCount(g)
  <2>1. \A r \in Repos : pending[r] # NoRequest => pending'[r] # NoRequest
    <3>1. CASE pending[repo[g]] = NoRequest
      BY <1>4, <3>1 DEF UpdateRetryCount
    <3>2. CASE pending[repo[g]] # NoRequest
      <4>1. pending[repo[g]] \in Requests /\ repo[g] \in Repos
        BY <1>4, <3>2 DEF UpdateRetryCount, WorksForRepo
      <4>2. /\ pending'[repo[g]]
                   = [pending[repo[g]] EXCEPT !.retryCount = @ + 1, !.cooled = FALSE]
            /\ \A r \in Repos \ {repo[g]} : pending'[r] = pending[r]
        BY <1>4, <3>2, <4>1 DEF UpdateRetryCount
      <4>3. pending'[repo[g]] \in Requests
        BY <4>1, <4>2, UpdatedRequest
      <4> QED
        BY <4>2, <4>3, NoRequestAssumption
    <3> QED
      BY <3>1, <3>2
  <2>2. \A h \in Goroutines, r \in Repos : Carries(h, r) => Carries(h, r)'
    BY <1>4 DEF UpdateRetryCount
  <2> QED
    BY <2>1, <2>2, TrackedStays
<1>5. CASE RemovePendingRequest(g)
  <2>1. repo[g] \in Repos /\ Carries(g, repo[g])'
    BY <1>5 DEF RemovePendingRequest, WorksForRepo
  <2>2. \A r \in Repos \ {repo[g]} : pending'[r] = pending[r]
    BY <1>5 DEF RemovePendingRequest
  <2>3. \A h \in Goroutines, r \in Repos : Carries(h, r) => Carries(h, r)'
    BY <1>5 DEF RemovePendingRequest
  <2>4. repo' = repo
    BY <1>5 DEF RemovePendingRequest
  <2> QED
    BY <2>1, <2>2, <2>3, <2>4, TrackedStays
<1>6. CASE ReAddRequest(g)
  <2>1. repo[g] \in Repos /\ batch[g][repo[g]] \in 1..MaxJobs
    BY <1>6, ConstantsAssumption DEF ReAddRequest, WorksForRepo
  <2>2. /\ pending'[repo[g]] # NoRequest
        /\ \A r \in Repos : pending[r] # NoRequest => pending'[r] # NoRequest
    BY <1>6, <2>1, AddedIsPending DEF ReAddRequest
  <2>3. \A h \in Goroutines \ {g}, r \in Repos : Carries(h, r) => Carries(h, r)'
    BY <1>6 DEF ReAddRequest
  <2>4. \A r \in Repos : Carries(g, r) => r = repo[g]
    OBVIOUS
  <2> QED
    BY <2>2, <2>3, <2>4, TrackedStays
<1>7. CASE EndProcessing(g)
  BY <1>7, TrackedStays DEF EndProcessing
<1> QED BY <1>1, <1>2, <1>3, <1>4, <1>5, <1>6, <1>7 DEF ProcessPendingRequests

(* The cleanups do not touch what is pending or carried.                   *)
LEMMA CleanupKeepsRequests ==
  ASSUME ControlInv, NEW g \in Goroutines, Cleanup(g)
  PROVE  RequestsKept
<1> USE DEF ControlInv, TypeOK, CarriedInBatch, Critical, StillTracked, Carries, Goto
<1>1. ASSUME NEW r \in Repos, CallWorkflowCompleted(g, r)
      PROVE  RequestsKept
  BY <1>1, TrackedStays DEF CallWorkflowCompleted
<1>2. ASSUME NEW i \in RunnerIds, CleanRunner(g, i) \/ MissRunner(g, i)
      PROVE  RequestsKept
  BY <1>2, TrackedStays DEF CleanRunner, MissRunner
<1>3. CASE EndCleanup(g)
  BY <1>3, TrackedStays DEF EndCleanup
<1>4. CASE StartSweep(g) \/ EndSweep(g)
  BY <1>4, TrackedStays DEF StartSweep, EndSweep
<1>5. CASE CleanupCompletedRunners(g) \/ CleanupOldRunners(g)
  BY <1>5, TrackedStays DEF CleanupCompletedRunners, CleanupOldRunners
<1> QED BY <1>1, <1>2, <1>3, <1>4, <1>5 DEF Cleanup

(* Of the environment, only a crash forgets requests.                      *)
LEMMA EnvironmentKeepsRequests ==
  ASSUME ControlInv, Environment
  PROVE  RequestsKept
<1> USE DEF ControlInv, TypeOK, StillTracked, Carries
<1>1. ASSUME NEW i \in RunnerIds, ExitRunner(i) \/ LingerRunner(i)
      PROVE  RequestsKept
  BY <1>1, TrackedStays DEF ExitRunner, LingerRunner
<1>2. ASSUME NEW r \in Repos, CoolDown(r)
      PROVE  RequestsKept
  <2>1. pending[r] \in Requests
    BY <1>2 DEF CoolDown
  <2>2. /\ pending'[r] = [pending[r] EXCEPT !.cooled = TRUE]
        /\ \A q \in Repos \ {r} : pending'[q] = pending[q]
    BY <1>2 DEF CoolDown
  <2>3. pending'[r] \in Requests
    BY <2>1, <2>2, UpdatedRequest
  <2> QED
    BY <1>2, <2>2, <2>3, NoRequestAssumption, TrackedStays DEF CoolDown
<1>3. CASE Restart
  BY <1>3 DEF Restart, RequestsKept
<1> QED BY <1>1, <1>2, <1>3 DEF Environment

(* A request that is pending or being retried is forgotten only when its   *)
(* retry failed before the count or found a slot, or in a crash            *)
(* (ProcessPendingRequests in internal/runner/manager.go): no overlap of   *)
(* passes, callers and cleanups loses one whose owner is full.             *)
THEOREM RequestsNotLost == Spec => FullOwnersKeepRequests
<1>1. ControlInv /\ [Next]_vars => RequestsKept \/ UNCHANGED vars
  <2> SUFFICES ASSUME ControlInv, Next PROVE RequestsKept
    OBVIOUS
  <2>1. CASE \E g \in Goroutines : ScaleUp(g)
    BY <2>1, ScaleUpKeepsRequests
  <2>2. CASE \E g \in Goroutines : ProcessPendingRequests(g)
    BY <2>2, ProcessPendingRequestsKeepsRequests
  <2>3. CASE \E g \in Goroutines : Cleanup(g)
    BY <2>3, CleanupKeepsRequests
  <2>4. CASE Environment
    BY <2>4, EnvironmentKeepsRequests
  <2> QED
    BY <2>1, <2>2, <2>3, <2>4 DEF Next
<1> QED
  BY <1>1, Control, PTL DEF Spec, FullOwnersKeepRequests, RequestsKept
===============================================================================
