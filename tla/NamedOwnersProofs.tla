-------------------------- MODULE NamedOwnersProofs --------------------------
(***************************************************************************)
(* The limits of RunnerManager with the names of RunnerNames: what the     *)
(* proofs of the two modules say together.                                 *)
(***************************************************************************)
EXTENDS NamedOwners, RunnerManagerProofs

NamesProofs == INSTANCE RunnerNamesProofs WITH
  MaxOwners <- Cardinality(Owners), owners <- OwnerNames

(* The two instances write the same names and read them back alike.        *)
LEMMA SameCut == \A name, n : NamesProofs!Cut(name, n) = Names!Cut(name, n)
BY DEF NamesProofs!Cut, Names!Cut

LEMMA SameLowerCase == \A name : NamesProofs!InLowerCase(name) = Names!InLowerCase(name)
BY DEF NamesProofs!InLowerCase, Names!InLowerCase

LEMMA SameLowercase ==
  ASSUME NEW name
  PROVE  NamesProofs!Lowercase(name) <=> Names!Lowercase(name)
BY SameCut, SameLowerCase, Zenon DEF NamesProofs!Lowercase, Names!Lowercase

LEMMA SameDistinction ==
  ASSUME NEW o, NEW p
  PROVE  NamesProofs!Distinguishable(o, p) <=> Names!Distinguishable(o, p)
BY DEF NamesProofs!Distinguishable, Names!Distinguishable

LEMMA SameMin == \A S : NamesProofs!Min(S) = Names!Min(S)
BY Zenon DEF NamesProofs!Min, Names!Min

LEMMA SamePart ==
  ASSUME NEW name
  PROVE  NamesProofs!SecondPart(name) = Names!SecondPart(name)
<1>1. NamesProofs!TruncatedOwner(name) = Names!TruncatedOwner(name)
  BY SameCut, SameLowerCase, Zenon DEF NamesProofs!TruncatedOwner, Names!TruncatedOwner
<1> QED
  BY <1>1, SameMin, Zenon DEF NamesProofs!SecondPart, Names!SecondPart

LEMMA SameMatches ==
  ASSUME NEW configured, NEW name
  PROVE  NamesProofs!MatchesIn(configured, name) = Names!MatchesIn(configured, name)
<1>1. \A s, t : NamesProofs!IsPrefix(s, t) <=> Names!IsPrefix(s, t)
  BY Zenon DEF NamesProofs!IsPrefix, Names!IsPrefix
<1> QED
  BY <1>1, SamePart DEF NamesProofs!MatchesIn, Names!MatchesIn

(* Names that differ attribute every runner to its owner and nobody else,  *)
(* which is what the proof of the limits assumes.                          *)
LEMMA NamesAttributeExactly ==
  ASSUME OwnersDiffer
  PROVE  ExactAttribution
<1> SUFFICES ASSUME NEW o \in Owners
             PROVE  AttributedTo[o] = {o}
  BY DEF ExactAttribution
<1> DEFINE found == {p \in Owners : NameOf[p] \in Names!MatchesIn(OwnerNames, NameOf[o])}
<1>0. NamesProofs!NamesAssumption
  BY NamedOwnersAssumption DEF NamesProofs!NamesAssumption, Names!NamesAssumption
<1>1. /\ OwnerNames \in SUBSET OwnerNames /\ NameOf[o] \in OwnerNames
      /\ NamesProofs!Lowercase(NameOf[o])
  BY SameLowercase DEF OwnerNames, OwnersDiffer
<1>2. NameOf[o] \in Names!MatchesIn(OwnerNames, NameOf[o])
  BY <1>0, <1>1, NamesProofs!OwnMatch, SameMatches
<1>3. ASSUME NEW p \in Owners \ {o}
      PROVE  NameOf[p] \notin Names!MatchesIn(OwnerNames, NameOf[o])
  <2>1. NameOf[p] \in OwnerNames /\ NamesProofs!Distinguishable(NameOf[o], NameOf[p])
    BY SameDistinction DEF OwnerNames, OwnersDiffer
  <2> QED
    BY <1>0, <1>1, <2>1, NamesProofs!NoOtherMatch, SameMatches
<1>4. found = {o}
  BY <1>2, <1>3
<1> HIDE DEF found
<1> QED
  BY <1>4, NamedOwnersAssumption DEF AttributedByName, found

(* With names in lower case that differ within what runner names keep of   *)
(* them, no owner ever has more runners than its limit (OwnerCapacity),    *)
(* with the owner of each runner read back from its name.                  *)
THEOREM NamedOwnersKeepLimits ==
  ASSUME OwnersDiffer
  PROVE  Spec => []OwnerCapacity
BY NamesAttributeExactly, LimitsHold

(* And the autoscaler implements OwnerPool (ImplementsOwnerPool).          *)
THEOREM NamedOwnersArePools ==
  ASSUME OwnersDiffer
  PROVE  Spec => ImplementsOwnerPool
BY NamesAttributeExactly, Refinement
==============================================================================
