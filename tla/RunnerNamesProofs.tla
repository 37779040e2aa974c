-------------------------- MODULE RunnerNamesProofs --------------------------
(***************************************************************************)
(* Proofs about RunnerNames, for names of any length over any characters,  *)
(* every length of the cut and any owners that a configuration may list.   *)
(***************************************************************************)
EXTENDS RunnerNames, SequenceTheorems, WellFoundedInduction, TLAPS

(* A nonempty set of natural numbers has a least one.                      *)
LEMMA LeastNat ==
  ASSUME NEW T, T \subseteq Nat, T # {}
  PROVE  Min(T) \in T /\ \A n \in T : Min(T) <= n
<1>1. PICK m \in T : \A n \in T : ~(<<n, m>> \in OpToRel(<, Nat))
  BY NatLessThanWellFounded, WFMin
<1>2. \A n \in T : ~(n < m)
  BY <1>1 DEF OpToRel
<1>3. m \in T /\ \A n \in T : m <= n
  BY <1>2
<1> QED
  BY <1>3, Zenon DEF Min

Letters == DOMAIN Lower

(* The first n characters of a name that has so many.                      *)
LEMMA FirstOf ==
  ASSUME NEW s \in Seq(Letters), NEW n \in 0..Len(s)
  PROVE  /\ SubSeq(s, 1, n) \in Seq(Letters)
         /\ Len(SubSeq(s, 1, n)) = n
         /\ \A k \in 1..n : SubSeq(s, 1, n)[k] = s[k]
<1>1. n \in Int /\ \A i \in 1..n : s[i] \in Letters
  OBVIOUS
<1> QED
  BY <1>1, SubSeqProperties

LEMMA CutOf ==
  ASSUME NEW o \in Seq(Letters), NEW n \in Nat
  PROVE  /\ Cut(o, n) \in Seq(Letters)
         /\ Len(Cut(o, n)) = IF Len(o) < n THEN Len(o) ELSE n
         /\ \A k \in 1..Len(Cut(o, n)) : Cut(o, n)[k] = o[k]
<1> DEFINE m == IF Len(o) < n THEN Len(o) ELSE n
<1>1. m \in 0..Len(o)
  OBVIOUS
<1>2. Cut(o, n) = SubSeq(o, 1, m)
  BY DEF Cut
<1> HIDE DEF m
<1>3. /\ Cut(o, n) \in Seq(Letters) /\ Len(Cut(o, n)) = m
      /\ \A k \in 1..m : Cut(o, n)[k] = o[k]
  BY <1>1, <1>2, FirstOf
<1> QED
  BY <1>3 DEF m

(* For an owner in lower case, the second part of its runners' names is    *)
(* a beginning of the owner, up to the cut or the first dash.              *)
LEMMA SecondPartOf ==
  ASSUME NamesAssumption, NEW o \in OwnerNames, Lowercase(o)
  PROVE  /\ SecondPart(o) \in Seq(Letters)
         /\ Len(SecondPart(o)) <= Len(o)
         /\ \A k \in 1..Len(SecondPart(o)) : SecondPart(o)[k] = o[k]
         /\ \A k \in 1..MaxOwnerLen :
              k <= Len(o) /\ (\A j \in 1..k : o[j] # Dash) => k <= Len(SecondPart(o))
<1> DEFINE tag    == Cut(o, MaxOwnerLen)
           dashes == {k \in DOMAIN tag : tag[k] = Dash}
<1>1. o \in Seq(Letters) /\ MaxOwnerLen \in Nat \ {0}
  BY DEF NamesAssumption, Letters
<1>2. TruncatedOwner(o) = tag
  BY DEF Lowercase, TruncatedOwner
<1>3. /\ tag \in Seq(Letters) /\ DOMAIN tag = 1..Len(tag)
      /\ Len(tag) = IF Len(o) < MaxOwnerLen THEN Len(o) ELSE MaxOwnerLen
      /\ \A k \in 1..Len(tag) : tag[k] = o[k]
  BY <1>1, CutOf
<1>4. SecondPart(o) = IF dashes = {} THEN tag ELSE SubSeq(tag, 1, Min(dashes) - 1)
  BY <1>2 DEF SecondPart
<1> HIDE DEF tag
<1>5. CASE dashes = {}
  BY <1>1, <1>3, <1>4, <1>5
<1>6. CASE dashes # {}
  <2>1. dashes \subseteq Nat
    BY <1>3
  <2>2. Min(dashes) \in dashes /\ \A n \in dashes : Min(dashes) <= n
    BY <1>6, <2>1, LeastNat
  <2>3. Min(dashes) - 1 \in 0..Len(tag) /\ tag[Min(dashes)] = Dash /\ Min(dashes) \in 1..Len(tag)
    BY <1>3, <2>2
  <2> DEFINE n == Min(dashes) - 1
  <2> HIDE DEF dashes
  <2>4. /\ SubSeq(tag, 1, n) \in Seq(Letters) /\ Len(SubSeq(tag, 1, n)) = n
        /\ \A k \in 1..n : SubSeq(tag, 1, n)[k] = tag[k]
    BY <1>3, <2>3, FirstOf
  <2> QED
    BY <1>1, <1>3, <1>4, <1>6, <2>3, <2>4
<1> QED
  BY <1>5, <1>6

TypeInv == owners \subseteq OwnerNames

LEMMA OwnersConfigured == Spec => []TypeInv
<1>1. Init => TypeInv
  BY DEF Init, TypeInv
<1>2. TypeInv /\ [Next]_owners => TypeInv'
  BY DEF TypeInv, Next, LoadOwner
<1> QED
  BY <1>1, <1>2, PTL DEF Spec
------------------------------------------------------------------------------
LEMMA OwnMatch ==
  ASSUME NamesAssumption,
         NEW configured \in SUBSET OwnerNames, NEW o \in configured, Lowercase(o)
  PROVE  o \in MatchesIn(configured, o)
<1> DEFINE part == SecondPart(o)
<1>1. o \in OwnerNames /\ o \in Seq(Letters)
  BY DEF NamesAssumption, Letters
<1>2. part \in Seq(Letters) /\ Len(part) <= Len(o) /\ \A k \in 1..Len(part) : part[k] = o[k]
  BY <1>1, SecondPartOf
<1> HIDE DEF part
<1>3. Len(part) \in 0..Len(part) /\ Len(part) \in 0..Len(o)
  BY <1>1, <1>2
<1>4. /\ SubSeq(part, 1, Len(part)) \in Seq(Letters) /\ SubSeq(o, 1, Len(part)) \in Seq(Letters)
      /\ Len(SubSeq(part, 1, Len(part))) = Len(part) /\ Len(SubSeq(o, 1, Len(part))) = Len(part)
      /\ \A k \in 1..Len(part) : SubSeq(part, 1, Len(part))[k] = SubSeq(o, 1, Len(part))[k]
  BY <1>1, <1>2, <1>3, FirstOf
<1>5. SubSeq(part, 1, Len(part)) = SubSeq(o, 1, Len(part))
  BY <1>4, SeqEqual
<1>6. IsPrefix(part, o)
  BY <1>2, <1>5 DEF IsPrefix
<1> QED
  BY <1>6 DEF MatchesIn, part

LEMMA NoOtherMatch ==
  ASSUME NamesAssumption,
         NEW configured \in SUBSET OwnerNames, NEW o \in configured, Lowercase(o),
         NEW p \in configured, Distinguishable(o, p)
  PROVE  p \notin MatchesIn(configured, o)
<1> DEFINE part == SecondPart(o)
<1>1. o \in OwnerNames /\ p \in Seq(Letters) /\ MaxOwnerLen \in Nat
  BY DEF NamesAssumption, Letters
<1>2. PICK k \in 1..MaxOwnerLen :
        /\ k <= Len(o) /\ k <= Len(p) /\ o[k] # p[k]
        /\ \A j \in 1..k : o[j] # Dash
  BY DEF Distinguishable
<1>3. /\ part \in Seq(Letters) /\ k \in 1..Len(part) /\ part[k] = o[k]
  BY <1>1, <1>2, SecondPartOf
<1> HIDE DEF part
<1>4. SUFFICES ASSUME IsPrefix(part, p) PROVE FALSE
  BY DEF MatchesIn, part
<1>5. Len(part) <= Len(p) /\ SubSeq(part, 1, Len(part)) = SubSeq(p, 1, Len(part))
  BY <1>4 DEF IsPrefix
<1>6. Len(part) \in 0..Len(part) /\ Len(part) \in 0..Len(p)
  BY <1>1, <1>3, <1>5
<1>7. SubSeq(part, 1, Len(part))[k] = part[k] /\ SubSeq(p, 1, Len(part))[k] = p[k]
  BY <1>1, <1>3, <1>6, FirstOf
<1> QED
  BY <1>2, <1>3, <1>5, <1>7

(* An owner in lower case always finds its own runners                     *)
(* (getOwnerFromRunnerName in internal/runner/manager.go).                 *)
THEOREM OwnRunnersFound ==
  ASSUME NamesAssumption
  PROVE  Spec => []OwnRunnersMatch
<1>1. TypeInv => OwnRunnersMatch
  BY OwnMatch DEF OwnRunnersMatch, TypeInv, Matches
<1> QED
  BY <1>1, OwnersConfigured, PTL

(* Only a capital letter, or an owner that looks alike up to the cut or a  *)
(* dash, can make the reader attribute an owner's runner to another one.   *)
THEOREM AttributionExact ==
  ASSUME NamesAssumption
  PROVE  Spec => []ExactUnlessAlike
<1>1. TypeInv => ExactUnlessAlike
  <2> SUFFICES ASSUME TypeInv, NEW o \in owners, Lowercase(o),
                      \A p \in owners \ {o} : Distinguishable(o, p)
               PROVE  Matches(o) = {o}
    BY DEF ExactUnlessAlike
  <2>1. o \in Matches(o)
    BY OwnMatch DEF TypeInv, Matches
  <2>2. \A p \in owners \ {o} : p \notin Matches(o)
    BY NoOtherMatch DEF TypeInv, Matches
  <2> QED
    BY <2>1, <2>2 DEF Matches, MatchesIn
<1> QED
  BY <1>1, OwnersConfigured, PTL
===============================================================================
