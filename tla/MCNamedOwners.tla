---------------------------- MODULE MCNamedOwners ----------------------------
(***************************************************************************)
(* An instance of NamedOwners for TLC, after the loading of a              *)
(* configuration: of every set of at most two owners with names of up to   *)
(* three characters, which are cut to two, with and without capitals and   *)
(* dashes, equal and different within and beyond the cut.  The manager     *)
(* runs with one of these configurations, that of two owners whose names   *)
(* differ only in the last character that the names of runners keep.       *)
(***************************************************************************)
EXTENDS NamedOwners, TLC

CONSTANTS o1, o2, r1, r2

VARIABLE owners   \* the keys of config.Owners

Characters == {"a", "b", "A", "-"}
MCLower    == [c \in Characters |-> IF c = "A" THEN "a" ELSE c]
MCNames    ==
  {name \in UNION {[1..n -> Characters] : n \in 1..3} : name[1] # "-"}

DistinctNames == (o1 :> <<"a", "a", "b">>) @@ (o2 :> <<"a", "b", "b">>)

Loading == INSTANCE RunnerNames WITH OwnerNames <- MCNames, MaxOwners <- 2

(* The names that configurations are made of.                              *)
ASSUME MCNamesAssumption == Loading!NamesAssumption

MCOwnerOf    == [r \in Repos |-> IF r = r1 THEN o1 ELSE o2]
MCMaxRunners == [o \in Owners |-> 1]
Symmetry     == Permutations(Goroutines) \cup Permutations(RunnerIds)

(* The configuration is loaded first, and the manager runs with it.        *)
MCNext ==
  \/ Loading!Next /\ UNCHANGED vars
  \/ owners = OwnerNames /\ Next /\ UNCHANGED owners

MCSpec == Init /\ Loading!Init /\ [][MCNext]_<<vars, owners>>

(* An owner in lower case is always among the answers for its own runners, *)
(* in every configuration (OwnRunnersMatch of RunnerNames, about           *)
(* getOwnerFromRunnerName).                                                *)
OwnRunnersMatch == Loading!OwnRunnersMatch

(* In every configuration, a runner is attributed to its owner alone       *)
(* unless the owner has a capital letter or resembles another one          *)
(* (ExactUnlessAlike of RunnerNames).                                      *)
ExactUnlessAlike == Loading!ExactUnlessAlike
==============================================================================
