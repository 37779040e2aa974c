------------------------------ MODULE OwnerPool ------------------------------
(***************************************************************************)
(* What the autoscaler promises about capacity, with no lock, queue,       *)
(* goroutine or API call in it: every owner has a pool of runners, a       *)
(* runner is admitted to an owner's pool only while that pool is below the *)
(* owner's limit, and runners may leave at any time.  RunnerManager and,   *)
(* for one owner, Provisioning implement this specification.               *)
(***************************************************************************)
EXTENDS Naturals, FiniteSets

CONSTANTS
  Owners,      \* configured owners
  RunnerIds,   \* container or pod identifiers
  MaxRunners   \* [Owners -> Nat], the limit of each owner

VARIABLE pool  \* [Owners -> SUBSET RunnerIds], the runners of each owner

TypeOK == pool \in [Owners -> SUBSET RunnerIds]

Init == pool = [o \in Owners |-> {}]

(* One runner is admitted to the pool of an owner that has room for it.    *)
Admit(o, i) ==
  /\ \A p \in Owners : i \notin pool[p]
  /\ Cardinality(pool[o]) < MaxRunners[o]
  /\ pool' = [pool EXCEPT ![o] = @ \cup {i}]

(* Runners leave: they ended, or somebody stopped them.                    *)
Retire ==
  /\ pool' \in [Owners -> SUBSET RunnerIds]
  /\ \A o \in Owners : pool'[o] \subseteq pool[o]

Next ==
  \/ \E o \in Owners, i \in RunnerIds : Admit(o, i)
  \/ Retire

Spec == Init /\ [][Next]_pool
==============================================================================
