--------------------------- MODULE MCRunnerManager ---------------------------
(***************************************************************************)
(* Instances of RunnerManager for TLC: one owner and its repositories.     *)
(***************************************************************************)
EXTENDS RunnerManager, TLC

CONSTANTS o1,
  Limit   \* the owner's maximum

MCOwnerOf      == [r \in Repos |-> o1]
MCMaxRunners   == [o \in Owners |-> Limit]
MCAttributedTo == [o \in Owners |-> {o}]

(* Goroutines, identifiers and repositories are interchangeable.           *)
Symmetry ==
  Permutations(Goroutines) \cup Permutations(RunnerIds) \cup Permutations(Repos)
==============================================================================
