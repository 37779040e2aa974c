----------------------------- MODULE NamedOwners -----------------------------
(***************************************************************************)
(* RunnerManager with the attribution that RunnerNames computes from the   *)
(* names of its owners, instead of one that is assumed.                    *)
(***************************************************************************)
EXTENDS RunnerManager

CONSTANTS
  NameOf,       \* the name of each owner, a sequence of characters
  Lower,        \* [characters -> characters], strings.ToLower of each
  Dash,         \* the character that separates the parts of a name
  MaxOwnerLen   \* characters of the owner that a runner's name keeps

OwnerNames == {NameOf[o] : o \in Owners}

Names == INSTANCE RunnerNames WITH
  MaxOwners <- Cardinality(Owners), owners <- OwnerNames

(* The answers of getOwnerFromRunnerName for the runners of each owner.    *)
AttributedByName ==
  [o \in Owners |->
    LET found == {p \in Owners : NameOf[p] \in Names!MatchesIn(OwnerNames, NameOf[o])}
    IN  IF found = {} THEN {NoOwner} ELSE found]

(* The names are the keys of config.Owners.                                *)
ASSUME NamedOwnersAssumption ==
  /\ \A o, p \in Owners : NameOf[o] = NameOf[p] => o = p
  /\ Names!NamesAssumption
  /\ AttributedTo = AttributedByName

(* No owner has a capital letter, and any two differ, within what runner   *)
(* names keep of them.                                                     *)
OwnersDiffer ==
  \A o \in Owners :
    /\ Names!Lowercase(NameOf[o])
    /\ \A p \in Owners \ {o} : Names!Distinguishable(NameOf[o], NameOf[p])
==============================================================================
