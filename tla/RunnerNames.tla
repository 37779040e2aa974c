----------------------------- MODULE RunnerNames -----------------------------
(***************************************************************************)
(* How the owner of a runner is written into the runner's name and read    *)
(* back from it (generateRunnerName and getOwnerFromRunnerName in          *)
(* internal/runner/manager.go), over every set of configured owners.       *)
(*                                                                         *)
(* A name is "runner-<owner>-<repo>-<time>-<random>-<arch>", with the      *)
(* owner cut to MaxOwnerLen characters and in lower case.  The reader      *)
(* splits the name at its dashes, takes the second part and looks for a    *)
(* configured owner that begins with it.  The remaining parts only matter  *)
(* for their number, which is never below six.                             *)
(***************************************************************************)
EXTENDS Naturals, SequencesExt

CONSTANTS
  OwnerNames,   \* the owner names a configuration may list, as sequences
  Lower,        \* [characters -> characters], strings.ToLower of each
  Dash,         \* the character that separates the parts of a name
  MaxOwnerLen,  \* maxOwnerLen, 6 for the architectures in use
  MaxOwners     \* bound on the owners of a configuration

(* What the proofs assume of the names of a configuration.                *)
NamesAssumption ==
  /\ OwnerNames \subseteq Seq(DOMAIN Lower)
  /\ \A name \in OwnerNames : name # <<>> /\ name[1] # Dash
  /\ Lower[Dash] = Dash
  /\ \A c \in DOMAIN Lower : Lower[Lower[c]] = Lower[c]
  /\ MaxOwnerLen \in Nat \ {0}

VARIABLE owners   \* the keys of config.Owners
------------------------------------------------------------------------------
Cut(name, n) == SubSeq(name, 1, IF Len(name) < n THEN Len(name) ELSE n)

InLowerCase(name) == [k \in DOMAIN name |-> Lower[name[k]]]

(* Mutant: the cut is off by one.                                          *)
ShorterOwner(name) == InLowerCase(Cut(name, MaxOwnerLen - 1))

(* What generateRunnerName writes of the owner.                            *)
TruncatedOwner(name) == InLowerCase(Cut(name, MaxOwnerLen))

(* The second part of the split name: the truncated owner up to a dash.    *)
SecondPart(name) ==
  LET tag    == TruncatedOwner(name)
      dashes == {k \in DOMAIN tag : tag[k] = Dash}
  IN  IF dashes = {} THEN tag ELSE SubSeq(tag, 1, Min(dashes) - 1)

(* Mutant: the arguments of HasPrefix are swapped.                         *)
SwappedMatchesIn(configured, name) == {o \in configured : IsPrefix(o, SecondPart(name))}

(* The configured owners that getOwnerFromRunnerName may find for a runner *)
(* of the owner: the first match of a loop over a Go map, so any of them.  *)
(* None means that the runner counts for no owner.                         *)
MatchesIn(configured, name) == {o \in configured : IsPrefix(SecondPart(name), o)}

Matches(name) == MatchesIn(owners, name)
------------------------------------------------------------------------------
Init == owners = {}

(* loadOwnerConfig adds the owners of the environment one by one.          *)
LoadOwner(name) ==
  /\ Cardinality(owners) < MaxOwners
  /\ owners' = owners \cup {name}

Next == \E name \in OwnerNames : LoadOwner(name)

Spec == Init /\ [][Next]_owners
------------------------------------------------------------------------------
(* The cut of the name is in lower case already.                           *)
Lowercase(name) == LET cut == Cut(name, MaxOwnerLen) IN cut = InLowerCase(cut)

(* The names differ within the cut, and before a dash in either of them.   *)
Distinguishable(o, p) ==
  \E k \in 1..MaxOwnerLen :
    /\ k <= Len(o) /\ k <= Len(p)
    /\ o[k] # p[k]
    /\ \A j \in 1..k : Dash \notin {o[j], p[j]}

(* An owner in lower case is always among the answers for its own runners, *)
(* whatever its length and dashes and whatever other owners there are, so  *)
(* none of its runners can fall out of every owner's count.                *)
OwnRunnersMatch == \A o \in owners : Lowercase(o) => o \in Matches(o)

(* A runner is attributed to its owner alone unless the owner has a        *)
(* capital letter or resembles another one: only these configurations      *)
(* break the exact attribution that the capacity limit rests on.           *)
ExactUnlessAlike ==
  \A o \in owners :
    Lowercase(o) /\ (\A p \in owners \ {o} : Distinguishable(o, p)) => Matches(o) = {o}
==============================================================================
