--------------------------- MODULE MCCapitalOwner ---------------------------
(***************************************************************************)
(* An instance of NamedOwners for TLC: one owner with a capital letter,    *)
(* and the cut of six of the code.                                         *)
(***************************************************************************)
EXTENDS NamedOwners, TLC

CONSTANTS o1, r1

CapitalName == [o \in Owners |-> <<"O", "c", "t", "o", "c", "a", "t">>]

MCLower      == [c \in {"O", "o", "c", "t", "a", "-"} |-> IF c = "O" THEN "o" ELSE c]
MCOwnerOf    == [r \in Repos |-> o1]
MCMaxRunners == [o \in Owners |-> 1]
Symmetry     == Permutations(Goroutines) \cup Permutations(RunnerIds)
==============================================================================
