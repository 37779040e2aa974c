--------------------------- MODULE MCRetryHistory ----------------------------
(* The smallest instance of RetryHistory: one owner, one repository.       *)
EXTENDS RetryHistory, TLC

CONSTANTS o1, Limit

MCOwnerOf      == [r \in Repos |-> o1]
MCMaxRunners   == [o \in Owners |-> Limit]
MCAttributedTo == [o \in Owners |-> {o}]
Symmetry       == Permutations(Goroutines) \cup Permutations(RunnerIds)
==============================================================================
