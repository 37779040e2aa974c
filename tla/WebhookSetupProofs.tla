-------------------------- MODULE WebhookSetupProofs --------------------------
(***************************************************************************)
(* Proofs about WebhookSetup, for every number of instances, repositories, *)
(* hooks, starts and lost answers, and every configuration.                *)
(***************************************************************************)
EXTENDS WebhookSetup, SequenceTheorems, FiniteSetTheorems, TLAPS

(* The repository at hand is not on the list any more, and a set-up that   *)
(* has not listed the repositories has served none.                        *)
ListsInOrder ==
  \A p \in Clients :
    /\ repo[p] \notin todo[p]
    /\ repo[p] \in served[p] => pc[p] \in {"next", "done"}
    /\ pc[p] = "discover" => served[p] = {} /\ repo[p] = NoRepo

TypeInv == TypeOK /\ ListsInOrder

USE DEF coming
------------------------------------------------------------------------------
(* The quota's part of the types.                                          *)
LEMMA AnswerType ==
  ASSUME ClientTypeOK, NEW p \in Clients, NEW cost \in Nat, Answer(p, cost)
  PROVE  ClientTypeOK'
BY ClientAssumption DEF ClientTypeOK, Answer, Take, Learn

LEMMA FailType ==
  ASSUME ClientTypeOK, NEW p \in Clients, NEW cost \in Nat, Fail(p, cost)
  PROVE  ClientTypeOK'
<1>1. CASE UNCHANGED client
  BY <1>1 DEF ClientTypeOK, client
<1>2. CASE Answer(p, 1)
  BY <1>2, AnswerType
<1>3. CASE Exhaust(cost) /\ Learn(p)
  BY <1>3, ClientAssumption DEF ClientTypeOK, Exhaust, Learn
<1> QED
  BY <1>1, <1>2, <1>3 DEF Fail

LEMMA LossType ==
  ASSUME ClientTypeOK, NEW p \in Clients, NEW cost \in Nat,
         LoseAnswer(p, cost) \/ LoseRefusal(p, cost)
  PROVE  ClientTypeOK'
BY ClientAssumption DEF ClientTypeOK, LoseAnswer, LoseRefusal, Take, Exhaust

LEMMA ScopesCostType == ASSUME config \in Configs PROVE ScopesCost \in Nat \ {0}
BY SetupAssumption DEF ScopesCost

LEMMA CallCostType ==
  ASSUME config \in Configs, NEW p PROVE CallCost(p) \in Nat /\ CallCost(p) <= ScopesCost
BY ScopesCostType DEF CallCost

(* What the steps do to the hooks of a repository keeps their type, and    *)
(* hooks never get another index.                                          *)
LEMMA AppendHook ==
  ASSUME NEW s \in Seq(Hooks), NEW h \in Hooks
  PROVE  /\ Append(s, h) \in Seq(Hooks)
         /\ DOMAIN s = 1..Len(s) /\ Len(s) \in Nat
         /\ DOMAIN Append(s, h) = 1..(Len(s) + 1)
         /\ \A i \in DOMAIN s : Append(s, h)[i] = s[i]
         /\ Append(s, h)[Len(s) + 1] = h
BY AppendProperties, LenProperties

LEMMA SetHook ==
  ASSUME NEW s \in Seq(Hooks), NEW h \in Hooks, NEW i \in DOMAIN s
  PROVE  /\ [s EXCEPT ![i] = h] \in Seq(Hooks)
         /\ DOMAIN [s EXCEPT ![i] = h] = DOMAIN s
         /\ [s EXCEPT ![i] = h][i] = h
         /\ \A j \in DOMAIN s \ {i} : [s EXCEPT ![i] = h][j] = s[j]
BY ExceptSeq, LenProperties

(* A set of indices that is not empty has a first one.                     *)
LEMMA LessIsRelation == \A i, j \in Nat : i < j => <<i, j>> \in OpToRel(<, Nat)
BY Zenon DEF OpToRel

LEMMA FirstIsLeast ==
  ASSUME NEW set \in SUBSET Nat, set # {}
  PROVE  First(set) \in set /\ \A j \in set : First(set) <= j
<1> DEFINE Less == OpToRel(<, Nat)
<1> HIDE DEF Less
<1>1. IsWellFoundedOn(Less, Nat)
  BY NatLessThanWellFounded, Zenon DEF Less
<1>2. PICK i \in set : \A j \in set : ~ (<<j, i>> \in Less)
  BY <1>1, WFMin
<1>3. \A j, k \in Nat : j < k => <<j, k>> \in Less
  BY LessIsRelation, Zenon DEF Less
<1>4. ASSUME NEW j \in set PROVE i <= j
  <2>1. i \in Nat /\ j \in Nat
    OBVIOUS
  <2>2. ~ (j < i)
    BY <1>2, <1>3, <2>1, Zenon
  <2> QED
    BY <2>1, <2>2
<1> QED
  BY <1>4 DEF First

LEMMA FirstUnique ==
  ASSUME NEW set \in SUBSET Nat, NEW i \in set, \A j \in set : i <= j
  PROVE  First(set) = i
<1>1. First(set) \in set /\ First(set) <= i
  BY FirstIsLeast
<1>2. First(set) \in Nat /\ i \in Nat /\ i <= First(set)
  BY <1>1
<1> QED
  BY <1>1, <1>2
------------------------------------------------------------------------------
(* What a step may do to the hooks: nothing, set one, or add one.          *)
HooksGrow ==
  /\ hooks' \in [Repos -> Seq(Hooks)]
  /\ \A r \in Repos : DOMAIN hooks[r] \subseteq DOMAIN hooks'[r]

LEMMA SettingHook ==
  ASSUME hooks \in [Repos -> Seq(Hooks)], NEW r \in Repos, NEW i \in DOMAIN hooks[r],
         NEW h \in Hooks, hooks' = [hooks EXCEPT ![r][i] = h]
  PROVE  HooksGrow
<1>1. hooks' = [hooks EXCEPT ![r] = [hooks[r] EXCEPT ![i] = h]]
  OBVIOUS
<1>2. [hooks[r] EXCEPT ![i] = h] \in Seq(Hooks)
      /\ DOMAIN [hooks[r] EXCEPT ![i] = h] = DOMAIN hooks[r]
  BY SetHook
<1> QED
  BY <1>1, <1>2 DEF HooksGrow

LEMMA AddingHook ==
  ASSUME hooks \in [Repos -> Seq(Hooks)], NEW r \in Repos, NEW h \in Hooks,
         hooks' = [hooks EXCEPT ![r] = Append(@, h)]
  PROVE  HooksGrow
<1>1. Append(hooks[r], h) \in Seq(Hooks)
      /\ DOMAIN hooks[r] \subseteq DOMAIN Append(hooks[r], h)
  BY AppendHook
<1> QED
  BY <1>1 DEF HooksGrow

LEMMA KeepingHooks ==
  ASSUME hooks \in [Repos -> Seq(Hooks)], UNCHANGED hooks
  PROVE  HooksGrow
BY DEF HooksGrow

(* An instance that makes a call for a repository has one at hand.         *)
LEMMA RepoAtHand ==
  ASSUME TypeOK, NEW p \in Clients, pc[p] \notin {"off", "discover", "next", "done"}
  PROVE  repo[p] \in Repos
BY DEF TypeOK

(* Indices of hooks are natural numbers.                                   *)
LEMMA IndicesAreNaturals ==
  ASSUME hooks \in [Repos -> Seq(Hooks)], NEW r \in Repos
  PROVE  DOMAIN hooks[r] \subseteq Nat
BY LenProperties

(* The first of our hooks is one of them.                                  *)
LEMMA FirstIsOurs ==
  ASSUME hooks \in [Repos -> Seq(Hooks)], NEW r \in Repos, Ours(r) # {}
  PROVE  First(Ours(r)) \in Ours(r) /\ \A j \in Ours(r) : First(Ours(r)) <= j
<1>1. Ours(r) \subseteq Nat
  BY IndicesAreNaturals DEF Ours
<1> QED
  BY <1>1, FirstIsLeast
------------------------------------------------------------------------------
LEMMA InitTypes == Init(Configs, Seq(Hooks \ {"gone"})) => TypeInv
<1> SUFFICES ASSUME Init(Configs, Seq(Hooks \ {"gone"})) PROVE TypeInv
  OBVIOUS
<1>1. Seq(Hooks \ {"gone"}) \subseteq Seq(Hooks)
  BY SeqMonotonic
<1>2. hooks \in [Repos -> Seq(Hooks)]
  BY <1>1 DEF Init
<1>3. ClientTypeOK
  BY ClientAssumption DEF Init, ClientInit, ClientTypeOK
<1>4. starts \in 0..MaxStarts /\ lost \in 0..MaxLost
  BY SetupAssumption DEF Init
<1>5. TypeOK
  BY <1>2, <1>3, <1>4 DEF TypeOK, Init
<1>6. ListsInOrder
  BY DEF Init, ListsInOrder
<1> QED
  BY <1>5, <1>6 DEF TypeInv

(* Starts and crashes.                                                     *)
LEMMA StartType ==
  ASSUME TypeInv, NEW p \in Clients, Start(p)
  PROVE  TypeInv'
<1> USE DEF TypeInv, TypeOK, Start, GoTo, Forget
<1>1. ClientTypeOK'
  BY DEF NewClient, ClientTypeOK
<1>2. starts' \in 0..MaxStarts
  BY SetupAssumption
<1>3. todo' \in [Clients -> SUBSET Repos]
  BY SetupAssumption
<1>4. overlap' \in [Clients -> BOOLEAN]
  BY Zenon
<1>5. UNCHANGED <<config, hooks, late, stray, lost>>
  OBVIOUS
<1>6. /\ pc' = [pc EXCEPT ![p] = IF config.AllRepos THEN "discover" ELSE "next"]
      /\ todo' = [todo EXCEPT ![p] = IF config.AllRepos THEN {} ELSE {RepoName}]
      /\ repo' = [repo EXCEPT ![p] = NoRepo] /\ doomed' = [doomed EXCEPT ![p] = {}]
      /\ found' = [found EXCEPT ![p] = 0] /\ clean' = [clean EXCEPT ![p] = TRUE]
      /\ served' = [served EXCEPT ![p] = {}] /\ tidy' = [tidy EXCEPT ![p] = {}]
  BY Zenon
<1> USE DEF ListsInOrder
<1> HIDE DEF Start
<1>7. TypeOK'
  BY <1>1, <1>2, <1>3, <1>4, <1>5, <1>6, SetupAssumption DEF Calls
<1>8. ListsInOrder'
  BY <1>5, <1>6, SetupAssumption
<1> QED
  BY <1>7, <1>8

LEMMA CrashType ==
  ASSUME TypeInv, NEW p \in Clients, Crash(p)
  PROVE  TypeInv'
<1> USE DEF TypeInv, TypeOK, Crash, GoTo, Forget, history
<1>1. ClientTypeOK'
  BY DEF client, ClientTypeOK
<1>2. TypeOK'
  BY <1>1
<1>3. ListsInOrder'
  BY SetupAssumption DEF ListsInOrder
<1> QED
  BY <1>2, <1>3

(* The order of the repositories and the checks.                           *)
LEMMA ListType ==
  ASSUME TypeInv, NEW p \in Clients, NextRepo(p) \/ GetRepositories(p)
  PROVE  TypeInv'
<1> USE DEF TypeInv, TypeOK, ListsInOrder, GoTo, Forget, Calls, history
<1>1. CASE NextRepo(p)
  <2>1. ClientTypeOK'
    BY <1>1 DEF NextRepo, client, ClientTypeOK
  <2>2. CASE todo[p] = {} /\ GoTo(p, "done") /\ Forget(p) /\ UNCHANGED todo
    BY <1>1, <2>1, <2>2, SetupAssumption DEF NextRepo
  <2>3. ASSUME NEW r \in todo[p], repo' = [repo EXCEPT ![p] = r],
               todo' = [todo EXCEPT ![p] = @ \ {r}],
               found' = [found EXCEPT ![p] = 0], clean' = [clean EXCEPT ![p] = TRUE],
               GoTo(p, "workflows"), UNCHANGED doomed
        PROVE  TypeInv'
    BY <1>1, <2>1, <2>3, SetupAssumption DEF NextRepo
  <2> QED
    BY <1>1, <2>2, <2>3 DEF NextRepo
<1>2. CASE GetRepositories(p)
  <2>1. ClientTypeOK'
    BY <1>2, AnswerType DEF GetRepositories
  <2> QED
    BY <1>2, <2>1, SetupAssumption DEF GetRepositories
<1> QED
  BY <1>1, <1>2

LEMMA CheckType ==
  ASSUME TypeInv, NEW p \in Clients, Check(p) \/ HasScopeForWebhooks(p)
  PROVE  TypeInv'
<1> USE DEF TypeInv, TypeOK, ListsInOrder, GoTo, Calls, history, run
<1>1. CASE Check(p)
  <2>1. ClientTypeOK'
    BY <1>1, AnswerType DEF Check
  <2>2. /\ pc[p] \in {"workflows", "content", "lastContent", "permissions"}
        /\ \E point \in {"content", "lastContent", "permissions", "scopes", "next"} :
             GoTo(p, point)
    BY <1>1 DEF Check, Checks, CanManageWebhooks
  <2>3. UNCHANGED <<config, hooks, late, stray, run, history>>
    BY <1>1 DEF Check
  <2> QED
    BY <2>1, <2>2, <2>3
<1>2. CASE HasScopeForWebhooks(p)
  <2>1. ClientTypeOK'
    BY <1>2, AnswerType, ScopesCostType DEF HasScopeForWebhooks
  <2>2. AfterScopes(p) \in {"create", "cleanup", "find"}
    BY DEF AfterScopes
  <2> QED
    BY <1>2, <2>1, <2>2 DEF HasScopeForWebhooks
<1> QED
  BY <1>1, <1>2

(* The clean-up and the choice of the hook.                                *)
LEMMA CleanupType ==
  ASSUME TypeInv, NEW p \in Clients,
         CleanupOldWebhooks(p) \/ DeleteWebhook(p) \/ EndCleanup(p)
  PROVE  TypeInv'
<1> USE DEF TypeInv, TypeOK, ListsInOrder, GoTo, Calls, history, run
<1>1. CASE CleanupOldWebhooks(p)
  <2>1. ClientTypeOK'
    BY <1>1, AnswerType DEF CleanupOldWebhooks
  <2>2. repo[p] \in Repos
    BY <1>1, RepoAtHand DEF CleanupOldWebhooks
  <2>3. Superfluous(repo[p]) \subseteq DOMAIN hooks[repo[p]]
        /\ Superfluous(repo[p]) \subseteq Nat
    BY <2>2, IndicesAreNaturals DEF Superfluous, Present
  <2> QED
    BY <1>1, <2>1, <2>3 DEF CleanupOldWebhooks
<1>2. CASE DeleteWebhook(p)
  <2> DEFINE i == First(doomed[p])
  <2> HIDE DEF i
  <2>1. ClientTypeOK'
    BY <1>2, AnswerType DEF DeleteWebhook
  <2>2. repo[p] \in Repos
    BY <1>2, RepoAtHand DEF DeleteWebhook
  <2>3. /\ i \in Present(repo[p]) /\ hooks' = [hooks EXCEPT ![repo[p]][i] = "gone"]
        /\ doomed' = [doomed EXCEPT ![p] = @ \ {i}]
    BY <1>2 DEF DeleteWebhook, i
  <2>4. HooksGrow
    BY <2>2, <2>3, SettingHook DEF Present, Hooks
  <2>5. UNCHANGED <<config, coming, pc, todo, repo, found, clean, served, tidy, history>>
    BY <1>2 DEF DeleteWebhook
  <2> QED
    BY <2>1, <2>3, <2>4, <2>5, RepoAtHand DEF HooksGrow
<1>3. CASE EndCleanup(p)
  <2>1. ClientTypeOK'
    BY <1>3 DEF EndCleanup, client, ClientTypeOK
  <2> QED
    BY <1>3, <2>1 DEF EndCleanup
<1> QED
  BY <1>1, <1>2, <1>3

(* A set-up that succeeds counts its repository, which is not to come.     *)
LEMMA SucceedType ==
  ASSUME TypeInv, NEW p \in Clients, pc[p] \in {"find", "update", "create"}, Succeed(p),
         ClientTypeOK', HooksGrow,
         UNCHANGED <<config, coming, todo, repo, doomed, found, clean, history>>
  PROVE  TypeInv'
<1>1. repo[p] \in Repos
  BY RepoAtHand DEF TypeInv
<1> QED
  BY <1>1 DEF TypeInv, TypeOK, ListsInOrder, GoTo, Calls, history, Succeed, HooksGrow

LEMMA EnsureType ==
  ASSUME TypeInv, NEW p \in Clients,
         FindWebhookByURL(p) \/ UpdateWebhook(p) \/ CreateWebhook(p)
  PROVE  TypeInv'
<1> DEFINE r == repo[p]
<1>0. r \in Repos /\ hooks \in [Repos -> Seq(Hooks)] /\ ClientTypeOK
  BY RepoAtHand DEF TypeInv, TypeOK, FindWebhookByURL, UpdateWebhook, CreateWebhook
<1>1. CASE FindWebhookByURL(p)
  <2>1. ClientTypeOK'
    BY <1>1, <1>0, AnswerType DEF FindWebhookByURL
  <2>2. HooksGrow
    BY <1>1, <1>0, KeepingHooks DEF FindWebhookByURL
  <2>3. CASE Succeed(p) /\ UNCHANGED found
    BY <1>1, <2>1, <2>2, <2>3, SucceedType DEF FindWebhookByURL
  <2>4. CASE GoTo(p, "rescopes") /\ UNCHANGED <<found, served, tidy>>
    BY <1>1, <2>1, <2>4
    DEF TypeInv, TypeOK, ListsInOrder, GoTo, Calls, history, FindWebhookByURL
  <2>5. CASE /\ found' = [found EXCEPT ![p] = First(Ours(r))]
             /\ GoTo(p, "update") /\ Ours(r) # {}
             /\ UNCHANGED <<served, tidy>>
    <3>1. First(Ours(r)) \in DOMAIN hooks[r] /\ DOMAIN hooks[r] \subseteq Nat
      BY <1>0, <2>5, FirstIsOurs, IndicesAreNaturals DEF Ours
    <3> QED
      BY <1>1, <2>1, <2>5, <3>1
      DEF TypeInv, TypeOK, ListsInOrder, GoTo, Calls, history, FindWebhookByURL
  <2> QED
    BY <1>1, <2>3, <2>4, <2>5, Zenon DEF FindWebhookByURL
<1>2. CASE UpdateWebhook(p)
  <2>1. ClientTypeOK'
    BY <1>2, <1>0, AnswerType DEF UpdateWebhook
  <2>2. HooksGrow
    BY <1>2, <1>0, SettingHook DEF UpdateWebhook, Present, Hooks
  <2> QED
    BY <1>2, <2>1, <2>2, SucceedType DEF UpdateWebhook
<1>3. CASE CreateWebhook(p)
  <2>1. ClientTypeOK'
    BY <1>3, <1>0, AnswerType DEF CreateWebhook
  <2>2. HooksGrow
    BY <1>3, <1>0, AddingHook DEF CreateWebhook, Hooks
  <2> QED
    BY <1>3, <2>1, <2>2, SucceedType DEF CreateWebhook
<1> QED
  BY <1>1, <1>2, <1>3

(* What GitHub does for instances that have given up, and the quota's      *)
(* reset.                                                                  *)
LEMMA GitHubType ==
  ASSUME TypeInv, Reset \/ \E r \in Repos : CreateLate(r) \/ ChangeLate(r)
  PROVE  TypeInv'
<1>0. hooks \in [Repos -> Seq(Hooks)] /\ ClientTypeOK
  BY DEF TypeInv, TypeOK
<1>1. CASE Reset
  <2>1. ClientTypeOK'
    BY <1>1, ClientAssumption DEF Reset, ResetQuota, ClientTypeOK
  <2> QED
    BY <1>1, <2>1 DEF Reset, TypeInv, TypeOK, ListsInOrder, history, run
<1>2. ASSUME NEW r \in Repos, CreateLate(r) PROVE TypeInv'
  <2>1. ClientTypeOK'
    BY <1>0, <1>2 DEF CreateLate, client, ClientTypeOK
  <2>2. HooksGrow
    BY <1>0, <1>2, AddingHook DEF CreateLate, Hooks
  <2>3. late' \in [Repos -> Nat]
    BY <1>2 DEF CreateLate, TypeInv, TypeOK
  <2> QED
    BY <1>2, <2>1, <2>2, <2>3, RepoAtHand
    DEF CreateLate, TypeInv, TypeOK, ListsInOrder, history, run, HooksGrow
<1>3. ASSUME NEW r \in Repos, ChangeLate(r) PROVE TypeInv'
  <2>1. ClientTypeOK'
    BY <1>0, <1>3 DEF ChangeLate, client, ClientTypeOK
  <2>2. PICK change \in stray[r] :
          /\ stray' = [stray EXCEPT ![r] = @ \ {change}]
          /\ hooks' = IF change[1] \in Present(r)
                      THEN [hooks EXCEPT ![r][change[1]] = change[2]] ELSE hooks
    BY <1>3 DEF ChangeLate
  <2>3. change[2] \in Hooks
    BY DEF TypeInv, TypeOK, Hooks
  <2>4. HooksGrow
    BY <1>0, <2>2, <2>3, SettingHook, KeepingHooks DEF Present
  <2>5. /\ stray' \in [Repos -> SUBSET (Nat \X {"good", "gone"})]
        /\ \A s \in Repos : stray'[s] \subseteq stray[s]
    BY <2>2 DEF TypeInv, TypeOK
  <2>6. UNCHANGED <<config, late, pc, run, history>>
    BY <1>3 DEF ChangeLate
  <2> QED
    BY <2>1, <2>4, <2>5, <2>6, RepoAtHand
    DEF TypeInv, TypeOK, ListsInOrder, history, run, HooksGrow
<1> QED
  BY <1>1, <1>2, <1>3

(* A failed call leaves everything but its own part alone.                 *)
ComingType ==
  /\ late \in [Repos -> Nat] /\ stray \in [Repos -> SUBSET (Nat \X {"good", "gone"})]
  /\ \A r \in Repos : \A change \in stray[r] : change[1] \in DOMAIN hooks[r]

LEMMA GiveType ==
  ASSUME TypeInv, NEW p \in Clients, Calling(p), Give(p),
         ClientTypeOK', UNCHANGED hooks, ComingType', lost' \in 0..MaxLost
  PROVE  TypeInv'
<1> USE DEF TypeInv, TypeOK
<1>1. pc[p] \in Calls
  BY DEF Calling
<1>2. /\ AfterFailure(p) \in {"done", "create", "cleanup", "find", "delete", "next",
                              "lastContent"}
      /\ \/ AfterFailure(p) \in {"done", "next"}
         \/ pc[p] \in {"scopes", "rescopes", "cleanup", "delete", "content"}
      /\ AfterFailure(p) = "delete" => pc[p] = "delete"
  BY <1>1 DEF AfterFailure, AfterScopes, Calls
<1>3. pc' = [pc EXCEPT ![p] = AfterFailure(p)] /\ clean' = [clean EXCEPT ![p] = FALSE]
      /\ UNCHANGED <<config, todo, repo, found, served, tidy, overlap, starts>>
  BY DEF Give, GoTo
<1>4. doomed' \in [Clients -> SUBSET Nat]
      /\ \A q \in Clients : doomed'[q] \subseteq doomed[q]
  BY DEF Give
<1>5. /\ pc' \in [Clients -> Calls \cup {"off", "next", "done"}]
      /\ clean' \in [Clients -> BOOLEAN]
  BY <1>2, <1>3 DEF Calls
<1>6. TypeOK'
  BY <1>2, <1>3, <1>4, <1>5, RepoAtHand DEF ComingType
<1>7. ListsInOrder'
  BY <1>1, <1>2, <1>3 DEF ListsInOrder
<1> QED
  BY <1>6, <1>7

(* A request that is on its way concerns a hook of its repository.         *)
LEMMA UnderwayType ==
  ASSUME TypeInv, NEW p \in Clients, Calling(p), Underway(p), UNCHANGED hooks
  PROVE  ComingType'
<1>0. ComingType /\ hooks \in [Repos -> Seq(Hooks)]
  BY DEF TypeInv, TypeOK, ComingType
<1>1. CASE UNCHANGED coming
  BY <1>0, <1>1 DEF ComingType
<1>2. CASE /\ pc[p] = "create" /\ late' = [late EXCEPT ![repo[p]] = @ + 1]
           /\ UNCHANGED stray
  BY <1>0, <1>2, RepoAtHand DEF ComingType, TypeInv
<1>3. ASSUME pc[p] \in {"update", "delete"},
             NEW i \in DOMAIN hooks[repo[p]], NEW h \in {"good", "gone"},
             stray' = [stray EXCEPT ![repo[p]] = @ \cup {<<i, h>>}], UNCHANGED late
      PROVE  ComingType'
  <2>1. repo[p] \in Repos
    BY <1>3, RepoAtHand DEF TypeInv
  <2>2. i \in Nat
    BY <1>0, <2>1, IndicesAreNaturals
  <2> QED
    BY <1>0, <1>3, <2>1, <2>2 DEF ComingType
<1>4. CASE /\ pc[p] = "update" /\ UNCHANGED late
           /\ stray' = [stray EXCEPT ![repo[p]] = @ \cup {<<found[p], "good">>}]
  BY <1>3, <1>4 DEF TypeInv, TypeOK
<1>5. CASE /\ pc[p] = "delete" /\ UNCHANGED late
           /\ stray' = [stray EXCEPT ![repo[p]] = @ \cup {<<First(doomed[p]), "gone">>}]
  <2>1. First(doomed[p]) \in DOMAIN hooks[repo[p]]
    BY <1>5, FirstIsLeast DEF Calling, TypeInv, TypeOK
  <2> QED
    BY <1>3, <1>5, <2>1
<1> QED
  BY <1>1, <1>2, <1>4, <1>5 DEF Underway

LEMMA FailureType ==
  ASSUME TypeInv, NEW p \in Clients, FailCall(p) \/ LoseCall(p)
  PROVE  TypeInv'
<1>0. /\ ClientTypeOK /\ config \in Configs /\ lost \in 0..MaxLost
      /\ UNCHANGED hooks /\ Calling(p) /\ Give(p) /\ CallCost(p) \in Nat
  BY CallCostType DEF TypeInv, TypeOK, FailCall, LoseCall
<1>1. ClientTypeOK'
  BY <1>0, FailType, LossType DEF FailCall, LoseCall
<1>2. lost' \in 0..MaxLost
  BY <1>0, SetupAssumption DEF FailCall, LoseCall
<1>3. ComingType'
  <2>1. CASE UNCHANGED coming
    BY <1>0, <2>1 DEF TypeInv, TypeOK, ComingType
  <2>2. CASE Underway(p)
    BY <1>0, <2>2, UnderwayType
  <2> QED
    BY <2>1, <2>2 DEF FailCall, LoseCall
<1> QED
  BY <1>0, <1>1, <1>2, <1>3, GiveType

LEMMA NextType == TypeInv /\ [Next]_vars => TypeInv'
<1> SUFFICES ASSUME TypeInv, [Next]_vars PROVE TypeInv'
  OBVIOUS
<1>1. ASSUME NEW p \in Clients, Start(p) \/ Crash(p) PROVE TypeInv'
  BY <1>1, StartType, CrashType
<1>2. ASSUME NEW p \in Clients, Step(p) PROVE TypeInv'
  BY <1>2, ListType, CheckType, CleanupType, EnsureType, FailureType DEF Step
<1>3. CASE UNCHANGED vars
  BY <1>3 DEF vars, client, run, history, TypeInv, TypeOK, ClientTypeOK, ListsInOrder
<1> QED
  BY <1>1, <1>2, <1>3, GitHubType DEF Next

LEMMA TypeInvariance == Spec => []TypeInv
<1> QED
  BY InitTypes, NextType, PTL DEF Spec

(* Every variable keeps its type: in particular the hooks that a set-up    *)
(* has to delete or to update are hooks that its repository has or had     *)
(* (TypeOK).                                                               *)
THEOREM TypeCorrect == Spec => []TypeOK
<1>1. TypeInv => TypeOK
  BY DEF TypeInv
<1> QED
  BY <1>1, TypeInvariance, PTL
------------------------------------------------------------------------------
(***************************************************************************)
(* The hook that all instances take for the owner's, the first of ours     *)
(***************************************************************************)
USE DEF OurKinds, Accepted

HasAccepted(r) == Ours(r) # {} /\ hooks[r][First(Ours(r))] \in Accepted

(* A clean-up spares the first hook of ours even if there was none when it *)
(* listed the hooks; an update is one of the first; a creation to come     *)
(* finds none of ours, or one that another instance has made.              *)
SetupInv(p) ==
  /\ pc[p] = "delete" /\ Ours(repo[p]) # {} => First(Ours(repo[p])) \notin doomed[p]
  /\ pc[p] = "update" => Ours(repo[p]) # {} /\ found[p] = First(Ours(repo[p]))
  /\ pc[p] \in {"rescopes", "create"} /\ Ours(repo[p]) # {} => HasAccepted(repo[p])
  /\ \A r \in served[p] : HasAccepted(r)

(* An update on its way is one of the first hook of ours, and a deletion   *)
(* is not.                                                                 *)
StrayInv(r) ==
  \A change \in stray[r] :
    /\ change[2] = "good" => Ours(r) # {} /\ change[1] = First(Ours(r))
    /\ change[2] = "gone" /\ Ours(r) # {} => change[1] # First(Ours(r))

HookInv == (\A p \in Clients : SetupInv(p)) /\ (\A r \in Repos : StrayInv(r))

(* What a step may do to the hooks of a repository.                        *)
Delete(r) ==
  \E i \in DOMAIN hooks[r] :
    /\ Ours(r) # {} => i # First(Ours(r))
    /\ hooks'[r] = [hooks[r] EXCEPT ![i] = "gone"]
Update(r) == Ours(r) # {} /\ hooks'[r] = [hooks[r] EXCEPT ![First(Ours(r))] = "good"]
Create(r) ==
  /\ late[r] > 0 \/ \E p \in Clients : pc[p] = "create" /\ repo[p] = r
  /\ hooks'[r] = Append(hooks[r], "good")

Change(r)   == hooks'[r] = hooks[r] \/ Delete(r) \/ Update(r)
HookStep(r) == Change(r) \/ Create(r)

(* The first hook of ours stays the first, and accepted.                   *)
LEMMA FirstStays ==
  ASSUME hooks \in [Repos -> Seq(Hooks)], hooks' \in [Repos -> Seq(Hooks)],
         NEW r \in Repos, HookStep(r), Ours(r) # {}
  PROVE  /\ Ours(r)' # {} /\ First(Ours(r)') = First(Ours(r))
         /\ HasAccepted(r) => HasAccepted(r)'
<1> DEFINE f == First(Ours(r))
<1> HIDE DEF f
<1>1. /\ f \in DOMAIN hooks[r] /\ hooks[r][f] \in OurKinds
      /\ \A i \in DOMAIN hooks[r] : hooks[r][i] \in OurKinds => f <= i
  BY FirstIsOurs DEF Ours, f
<1>2. DOMAIN hooks[r] \subseteq Nat /\ DOMAIN hooks'[r] \subseteq Nat
  BY LenProperties
<1>3. /\ f \in DOMAIN hooks'[r] /\ hooks'[r][f] \in OurKinds
      /\ \A i \in DOMAIN hooks'[r] : hooks'[r][i] \in OurKinds => f <= i
      /\ hooks[r][f] \in Accepted => hooks'[r][f] \in Accepted
  <2>1. CASE hooks'[r] = hooks[r]
    BY <1>1, <2>1
  <2>2. CASE Delete(r)
    BY <1>1, <2>2, SetHook DEF Delete, Hooks, f
  <2>3. CASE Update(r)
    BY <1>1, <2>3, SetHook DEF Update, Hooks, f
  <2>4. CASE Create(r)
    <3> DEFINE n == Len(hooks[r])
    <3>1. /\ n \in Nat /\ DOMAIN hooks[r] = 1..n /\ DOMAIN hooks'[r] = 1..(n + 1)
          /\ \A i \in 1..n : hooks'[r][i] = hooks[r][i]
      BY <2>4, AppendHook DEF Create, Hooks
    <3> HIDE DEF n
    <3> QED
      BY <1>1, <3>1
  <2> QED
    BY <2>1, <2>2, <2>3, <2>4 DEF HookStep, Change
<1>4. f \in Ours(r)' /\ \A i \in Ours(r)' : f <= i /\ i \in Nat
  BY <1>2, <1>3 DEF Ours
<1>5. First(Ours(r)') = f
  BY <1>4, FirstUnique
<1> QED
  BY <1>3, <1>4, <1>5 DEF HasAccepted, f

(* A new first hook is accepted, and none that a clean-up has listed.      *)
LEMMA FirstIsNew ==
  ASSUME hooks \in [Repos -> Seq(Hooks)], hooks' \in [Repos -> Seq(Hooks)],
         NEW r \in Repos, HookStep(r), Ours(r) = {}, Ours(r)' # {}
  PROVE  /\ HasAccepted(r)' /\ First(Ours(r)') \notin DOMAIN hooks[r]
<1>1. \A i \in DOMAIN hooks[r] : hooks[r][i] \notin OurKinds
  BY DEF Ours
<1>2. ~ (hooks'[r] = hooks[r]) /\ ~ Update(r)
  BY DEF Update, Ours
<1>3. ASSUME Delete(r) PROVE FALSE
  BY <1>1, <1>3, SetHook DEF Delete, Hooks, Ours
<1>4. Create(r)
  BY <1>2, <1>3 DEF HookStep, Change
<1> DEFINE n == Len(hooks[r])
<1>5. /\ n \in Nat /\ DOMAIN hooks[r] = 1..n /\ DOMAIN hooks'[r] = 1..(n + 1)
      /\ \A i \in 1..n : hooks'[r][i] = hooks[r][i]
      /\ hooks'[r][n + 1] = "good"
  BY <1>4, AppendHook DEF Create, Hooks
<1> HIDE DEF n
<1>6. PICK last \in Nat : last = n + 1
  BY <1>5
<1>7. \A i : i \in Ours(r)' <=> i = last
  <2>1. DOMAIN hooks'[r] = 1..last /\ hooks'[r][last] = "good" /\ last \in 1..last
    BY <1>5, <1>6
  <2>2. ASSUME NEW i \in 1..last, i # last PROVE hooks'[r][i] \notin OurKinds
    <3>1. i \in 1..n
      BY <1>5, <1>6, <2>2
    <3> QED
      BY <1>1, <1>5, <3>1
  <2> QED
    BY <2>1, <2>2 DEF Ours
<1>8. First(Ours(r)') = last
  BY <1>7, FirstUnique
<1> QED
  BY <1>5, <1>6, <1>7, <1>8 DEF HasAccepted
------------------------------------------------------------------------------
(* What GitHub changes late is a change.                                   *)
LEMMA LateChange ==
  ASSUME TypeInv, HookInv, NEW q \in Repos, ChangeLate(q), NEW r \in Repos
  PROVE  Change(r)
<1>0. hooks \in [Repos -> Seq(Hooks)] /\ StrayInv(q)
  BY DEF HookInv, TypeInv, TypeOK
<1>1. PICK change \in stray[q] :
        hooks' = IF change[1] \in Present(q)
                 THEN [hooks EXCEPT ![q][change[1]] = change[2]] ELSE hooks
  BY DEF ChangeLate
<1>2. change[1] \in DOMAIN hooks[q] /\ change[2] \in {"good", "gone"}
  BY DEF TypeInv, TypeOK
<1>3. CASE UNCHANGED hooks
  BY <1>3 DEF Change
<1>4. CASE hooks' = [hooks EXCEPT ![q][change[1]] = change[2]] /\ r # q
  BY <1>0, <1>4 DEF Change
<1>5. CASE hooks' = [hooks EXCEPT ![q][change[1]] = change[2]] /\ r = q
  <2>1. hooks'[r] = [hooks[r] EXCEPT ![change[1]] = change[2]]
    BY <1>0, <1>5
  <2>2. CASE change[2] = "good"
    BY <1>0, <1>5, <2>1, <2>2 DEF StrayInv, Change, Update
  <2>3. CASE change[2] = "gone"
    <3>1. Delete(r)
      BY <1>0, <1>2, <1>5, <2>1, <2>3 DEF StrayInv, Delete
    <3> QED
      BY <3>1 DEF Change
  <2> QED
    BY <1>2, <2>2, <2>3
<1> QED
  BY <1>1, <1>3, <1>4, <1>5

(* No step does anything else to the hooks.                                *)
LEMMA StepsOnHooks ==
  ASSUME TypeInv, HookInv, [Next]_vars, NEW r \in Repos
  PROVE  HookStep(r)
<1>0. hooks \in [Repos -> Seq(Hooks)]
  BY DEF TypeInv, TypeOK
<1>1. CASE UNCHANGED hooks
  BY <1>1 DEF HookStep, Change
<1>2. ASSUME NEW q \in Repos, CreateLate(q) PROVE HookStep(r)
  BY <1>0, <1>2 DEF CreateLate, HookStep, Change, Create
<1>3. ASSUME NEW p \in Clients, pc[p] = "create",
             hooks' = [hooks EXCEPT ![repo[p]] = Append(@, "good")]
      PROVE  HookStep(r)
  BY <1>0, <1>3 DEF HookStep, Change, Create
<1>4. ASSUME NEW p \in Clients, pc[p] = "update",
             hooks' = [hooks EXCEPT ![repo[p]][found[p]] = "good"]
      PROVE  HookStep(r)
  <2>1. Ours(repo[p]) # {} /\ found[p] = First(Ours(repo[p]))
    BY <1>4 DEF HookInv, SetupInv
  <2> QED
    BY <1>0, <1>4, <2>1 DEF HookStep, Change, Update
<1>5. ASSUME NEW p \in Clients, pc[p] = "delete", doomed[p] # {},
             hooks' = [hooks EXCEPT ![repo[p]][First(doomed[p])] = "gone"]
      PROVE  HookStep(r)
  <2> DEFINE i == First(doomed[p])
  <2>1. repo[p] \in Repos
    BY <1>5, RepoAtHand DEF TypeInv
  <2>2. i \in doomed[p] /\ i \in DOMAIN hooks[repo[p]]
    BY <1>5, FirstIsLeast DEF TypeInv, TypeOK
  <2>3. Ours(repo[p]) # {} => i # First(Ours(repo[p]))
    BY <1>5, <2>2 DEF HookInv, SetupInv
  <2> HIDE DEF i
  <2>4. hooks' = [hooks EXCEPT ![repo[p]][i] = "gone"]
    BY <1>5 DEF i
  <2>5. CASE r = repo[p]
    <3>1. Delete(r)
      BY <1>0, <2>1, <2>2, <2>3, <2>4, <2>5 DEF Delete
    <3> QED
      BY <3>1 DEF HookStep, Change
  <2>6. CASE r # repo[p]
    BY <1>0, <2>1, <2>4, <2>6 DEF HookStep, Change
  <2> QED
    BY <2>5, <2>6
<1>6. ASSUME NEW p \in Clients, Start(p) \/ Crash(p) PROVE HookStep(r)
  BY <1>1, <1>6 DEF Start, Crash
<1>7. ASSUME NEW p \in Clients, Step(p) PROVE HookStep(r)
  <2>1. CASE DeleteWebhook(p)
    BY <1>5, <2>1 DEF DeleteWebhook
  <2>2. CASE UpdateWebhook(p)
    BY <1>4, <2>2 DEF UpdateWebhook
  <2>3. CASE CreateWebhook(p)
    BY <1>3, <2>3 DEF CreateWebhook
  <2>4. CASE \/ NextRepo(p) \/ GetRepositories(p) \/ Check(p) \/ HasScopeForWebhooks(p)
             \/ CleanupOldWebhooks(p) \/ EndCleanup(p) \/ FindWebhookByURL(p) \/ FailCall(p)
             \/ LoseCall(p)
    BY <1>1, <2>4
    DEF NextRepo, GetRepositories, Check, HasScopeForWebhooks, CleanupOldWebhooks,
        EndCleanup, FindWebhookByURL, FailCall, LoseCall
  <2> QED
    BY <1>7, <2>1, <2>2, <2>3, <2>4 DEF Step
<1>8. CASE Reset
  BY <1>1, <1>8 DEF Reset
<1>9. CASE UNCHANGED vars
  BY <1>1, <1>9 DEF vars
<1>10. ASSUME NEW q \in Repos, ChangeLate(q) PROVE HookStep(r)
  BY <1>10, LateChange DEF HookStep
<1> QED
  BY <1>2, <1>6, <1>7, <1>8, <1>9, <1>10 DEF Next

(* An accepted hook stays one, whoever else sets up the repository.        *)
LEMMA AcceptedStays ==
  ASSUME TypeInv, HookInv, [Next]_vars, NEW r \in Repos, HasAccepted(r)
  PROVE  HasAccepted(r)'
<1>1. hooks \in [Repos -> Seq(Hooks)] /\ hooks' \in [Repos -> Seq(Hooks)]
  BY NextType DEF TypeInv, TypeOK
<1>2. HookStep(r)
  BY StepsOnHooks
<1> QED
  BY <1>1, <1>2, FirstStays DEF HasAccepted

(* An instance that does not list, choose or succeed loses nothing.        *)
LEMMA SetupKept ==
  ASSUME TypeInv, HookInv, [Next]_vars, NEW p \in Clients,
         /\ pc'[p] = "delete" =>
              pc[p] = "delete" /\ repo'[p] = repo[p] /\ doomed'[p] \subseteq doomed[p]
         /\ pc'[p] = "update" =>
              pc[p] = "update" /\ repo'[p] = repo[p] /\ found'[p] = found[p]
         /\ pc'[p] \in {"rescopes", "create"} =>
              pc[p] \in {"rescopes", "create"} /\ repo'[p] = repo[p],
         served'[p] \subseteq served[p]
  PROVE  SetupInv(p)'
<1> DEFINE r == repo[p]
<1>1. hooks \in [Repos -> Seq(Hooks)] /\ hooks' \in [Repos -> Seq(Hooks)]
  BY NextType DEF TypeInv, TypeOK
<1>2. SetupInv(p)
  BY DEF HookInv
<1>3. pc[p] \in {"delete", "update", "rescopes", "create"} => r \in Repos /\ HookStep(r)
  BY RepoAtHand, StepsOnHooks DEF TypeInv
<1>4. ASSUME pc'[p] = "delete", Ours(repo[p])' # {}
      PROVE  First(Ours(repo[p])') \notin doomed'[p]
  <2>1. /\ pc[p] = "delete" /\ repo'[p] = r /\ doomed'[p] \subseteq doomed[p]
        /\ doomed[p] \subseteq DOMAIN hooks[r]
    BY <1>4 DEF TypeInv, TypeOK
  <2>2. Ours(repo[p])' = Ours(r)'
    BY <2>1 DEF Ours
  <2> HIDE DEF r
  <2>3. CASE Ours(r) = {}
    BY <1>1, <1>3, <1>4, <2>1, <2>2, <2>3, FirstIsNew
  <2>4. CASE Ours(r) # {}
    BY <1>1, <1>2, <1>3, <2>1, <2>2, <2>4, FirstStays DEF SetupInv, r
  <2> QED
    BY <2>3, <2>4
<1>5. ASSUME pc'[p] = "update"
      PROVE  Ours(repo[p])' # {} /\ found'[p] = First(Ours(repo[p])')
  <2>1. pc[p] = "update" /\ repo'[p] = r /\ found'[p] = found[p]
    BY <1>5
  <2>2. Ours(repo[p])' = Ours(r)'
    BY <2>1 DEF Ours
  <2> QED
    BY <1>1, <1>2, <1>3, <2>1, <2>2, FirstStays DEF SetupInv
<1>6. ASSUME pc'[p] \in {"rescopes", "create"}, Ours(repo[p])' # {}
      PROVE  HasAccepted(repo[p])'
  <2>1. pc[p] \in {"rescopes", "create"} /\ repo'[p] = r
    BY <1>6
  <2>2. Ours(repo[p])' = Ours(r)' /\ (HasAccepted(repo[p])' <=> HasAccepted(r)')
    BY <2>1 DEF Ours, HasAccepted
  <2> HIDE DEF r
  <2>3. CASE Ours(r) = {}
    BY <1>1, <1>3, <1>6, <2>1, <2>2, <2>3, FirstIsNew
  <2>4. CASE Ours(r) # {}
    BY <1>2, <1>3, <2>1, <2>2, <2>4, AcceptedStays DEF SetupInv, r
  <2> QED
    BY <2>3, <2>4
<1>7. ASSUME NEW q \in served'[p] PROVE HasAccepted(q)'
  <2>1. q \in Repos /\ q \in served[p]
    BY <1>7 DEF TypeInv, TypeOK
  <2> QED
    BY <1>2, <2>1, AcceptedStays DEF SetupInv
<1> QED
  BY <1>4, <1>5, <1>6, <1>7 DEF SetupInv

(* The steps of an instance leave the others' set-ups alone.               *)
LEMMA OthersKept ==
  ASSUME TypeInv, NEW p \in Clients, Start(p) \/ Crash(p) \/ Step(p),
         NEW q \in Clients \ {p}
  PROVE  /\ pc'[q] = pc[q] /\ todo'[q] = todo[q] /\ repo'[q] = repo[q]
         /\ doomed'[q] = doomed[q] /\ found'[q] = found[q] /\ clean'[q] = clean[q]
         /\ served'[q] = served[q] /\ tidy'[q] = tidy[q]
<1> USE DEF TypeInv, TypeOK, GoTo, Forget, run
<1>1. CASE Start(p)
  BY <1>1 DEF Start
<1>2. CASE Crash(p)
  BY <1>2 DEF Crash
<1>3. CASE NextRepo(p) \/ GetRepositories(p)
  BY <1>3 DEF NextRepo, GetRepositories
<1>4. CASE Check(p) \/ HasScopeForWebhooks(p)
  BY <1>4 DEF Check, HasScopeForWebhooks
<1>5. CASE CleanupOldWebhooks(p) \/ DeleteWebhook(p) \/ EndCleanup(p)
  BY <1>5 DEF CleanupOldWebhooks, DeleteWebhook, EndCleanup
<1>6. CASE FindWebhookByURL(p)
  <2>1. UNCHANGED <<todo, repo, doomed, clean>>
    BY <1>6 DEF FindWebhookByURL
  <2>2. \/ Succeed(p) /\ UNCHANGED found
        \/ (GoTo(p, "rescopes") \/ GoTo(p, "update"))
           /\ UNCHANGED <<served, tidy>>
           /\ (UNCHANGED found \/ \E i : found' = [found EXCEPT ![p] = i])
    BY <1>6, Zenon DEF FindWebhookByURL
  <2> QED
    BY <2>1, <2>2 DEF Succeed
<1>7. CASE UpdateWebhook(p) \/ CreateWebhook(p)
  BY <1>7 DEF UpdateWebhook, CreateWebhook, Succeed
<1>8. CASE FailCall(p) \/ LoseCall(p)
  BY <1>8 DEF FailCall, LoseCall, Give
<1> QED
  BY <1>1, <1>2, <1>3, <1>4, <1>5, <1>6, <1>7, <1>8 DEF Step

(* Changes on their way are those of an instance at hand, and hooks that   *)
(* are added make no difference to them.                                   *)
LEMMA NextStray ==
  ASSUME TypeInv, HookInv, [Next]_vars, NEW r \in Repos
  PROVE  StrayInv(r)'
<1>0. /\ hooks \in [Repos -> Seq(Hooks)] /\ hooks' \in [Repos -> Seq(Hooks)]
      /\ HookStep(r) /\ StrayInv(r)
      /\ \A change \in stray[r] : change[1] \in DOMAIN hooks[r]
      /\ stray \in [Repos -> SUBSET (Nat \X {"good", "gone"})]
  BY NextType, StepsOnHooks DEF HookInv, TypeInv, TypeOK
<1>1. ASSUME stray'[r] \subseteq stray[r] PROVE StrayInv(r)'
  <2>1. CASE Ours(r) = {}
    BY <1>0, <1>1, <2>1, FirstIsNew DEF StrayInv
  <2>2. CASE Ours(r) # {}
    BY <1>0, <1>1, <2>2, FirstStays DEF StrayInv
  <2> QED
    BY <2>1, <2>2
<1>2. ASSUME NEW p \in Clients, LoseCall(p) PROVE StrayInv(r)'
  <2>1. UNCHANGED hooks /\ Calling(p) /\ (Underway(p) \/ UNCHANGED stray)
    BY <1>2 DEF LoseCall
  <2>2. Ours(r)' = Ours(r)
    BY <2>1 DEF Ours
  <2>3. SetupInv(p)
    BY DEF HookInv
  <2>4. CASE UNCHANGED stray
    BY <1>1, <2>4
  <2>5. CASE /\ pc[p] = "update"
             /\ stray' = [stray EXCEPT ![repo[p]] = @ \cup {<<found[p], "good">>}]
    <3>1. ASSUME NEW change \in stray'[r], change \notin stray[r]
          PROVE  r = repo[p] /\ change = <<found[p], "good">>
      BY <1>0, <2>5, <3>1
    <3> QED
      BY <1>0, <2>2, <2>3, <2>5, <3>1 DEF SetupInv, StrayInv
  <2>6. CASE /\ pc[p] = "delete"
             /\ stray' = [stray EXCEPT ![repo[p]] = @ \cup {<<First(doomed[p]), "gone">>}]
    <3>1. ASSUME NEW change \in stray'[r], change \notin stray[r]
          PROVE  r = repo[p] /\ change = <<First(doomed[p]), "gone">>
      BY <1>0, <2>6, <3>1
    <3>2. First(doomed[p]) \in doomed[p]
      BY <2>1, <2>6, FirstIsLeast DEF Calling, TypeInv, TypeOK
    <3> QED
      BY <1>0, <2>2, <2>3, <2>6, <3>1, <3>2 DEF SetupInv, StrayInv
  <2> QED
    BY <2>1, <2>4, <2>5, <2>6 DEF Underway
<1>3. ASSUME NEW p \in Clients, Start(p) \/ Crash(p) PROVE UNCHANGED stray
  BY <1>3 DEF Start, Crash
<1>4. ASSUME NEW p \in Clients, Step(p), ~ LoseCall(p) PROVE UNCHANGED stray
  BY <1>4
  DEF Step, NextRepo, GetRepositories, Check, HasScopeForWebhooks, CleanupOldWebhooks,
      DeleteWebhook, EndCleanup, FindWebhookByURL, UpdateWebhook, CreateWebhook, FailCall
<1>5. ASSUME NEW q \in Repos, CreateLate(q) \/ ChangeLate(q)
      PROVE  stray'[r] \subseteq stray[r]
  BY <1>0, <1>5 DEF CreateLate, ChangeLate
<1>6. CASE Reset \/ UNCHANGED vars
  BY <1>1, <1>6 DEF Reset, vars
<1> QED
  BY <1>1, <1>2, <1>3, <1>4, <1>5, <1>6 DEF Next

LEMMA NextHookInv == TypeInv /\ HookInv /\ [Next]_vars => HookInv'
<1> SUFFICES ASSUME TypeInv, HookInv, [Next]_vars, NEW q \in Clients
             PROVE  SetupInv(q)'
  BY NextStray DEF HookInv
<1>0. hooks \in [Repos -> Seq(Hooks)] /\ TypeOK
  BY DEF TypeInv, TypeOK
<1>1. ASSUME UNCHANGED <<pc, run>> PROVE SetupInv(q)'
  BY <1>1, SetupKept DEF run
<1>2. ASSUME NEW p \in Clients, Start(p) \/ Crash(p) \/ Step(p), p # q
      PROVE  SetupInv(q)'
  BY <1>2, OthersKept, SetupKept
<1> USE DEF GoTo, Forget, run
<1>3. CASE Start(q)
  BY <1>0, <1>3, SetupKept DEF Start, TypeOK
<1>4. CASE Crash(q)
  BY <1>0, <1>4, SetupKept DEF Crash, TypeOK
<1>5. CASE NextRepo(q) \/ GetRepositories(q)
  BY <1>0, <1>5, SetupKept DEF NextRepo, GetRepositories, TypeOK
<1>6. CASE Check(q)
  <2>1. \E point \in {"content", "lastContent", "permissions", "scopes", "next"} :
          GoTo(q, point)
    BY <1>6 DEF Check, Checks, CanManageWebhooks
  <2> QED
    BY <1>0, <1>6, <2>1, SetupKept DEF Check, TypeOK
<1>7. CASE HasScopeForWebhooks(q)
  BY <1>0, <1>7, SetupKept DEF HasScopeForWebhooks, AfterScopes, TypeOK
<1>8. CASE CleanupOldWebhooks(q)
  <2> DEFINE r == repo[q]
  <2>1. UNCHANGED <<hooks, repo, served>> /\ pc'[q] = "delete"
        /\ doomed'[q] = Superfluous(r)
    BY <1>0, <1>8 DEF CleanupOldWebhooks, TypeOK
  <2>2. Ours(r)' = Ours(r) /\ \A s \in Repos : HasAccepted(s) => HasAccepted(s)'
    BY <2>1 DEF Ours, HasAccepted
  <2>3. Ours(r) # {} => First(Ours(r)) \notin Superfluous(r)
    BY DEF Superfluous
  <2>4. \A s \in served[q] : HasAccepted(s) /\ s \in Repos
    BY <1>0 DEF HookInv, SetupInv, TypeOK
  <2>5. Ours(repo[q])' = Ours(r)
    BY <2>1, <2>2 DEF Ours
  <2> HIDE DEF r
  <2> QED
    BY <2>1, <2>2, <2>3, <2>4, <2>5 DEF SetupInv
<1>9. CASE DeleteWebhook(q) \/ EndCleanup(q)
  <2>1. CASE DeleteWebhook(q)
    <3>1. UNCHANGED <<pc, repo, found, served>> /\ doomed'[q] \subseteq doomed[q]
      BY <1>0, <2>1 DEF DeleteWebhook, TypeOK
    <3> QED
      BY <3>1, SetupKept, <2>1 DEF DeleteWebhook
  <2>2. CASE EndCleanup(q)
    BY <1>0, <2>2, SetupKept DEF EndCleanup, TypeOK
  <2> QED
    BY <1>9, <2>1, <2>2
<1>10. CASE FailCall(q) \/ LoseCall(q)
  <2>1. Calling(q) /\ Give(q)
    BY <1>10 DEF FailCall, LoseCall
  <2>2. /\ pc'[q] = AfterFailure(q) /\ doomed'[q] \subseteq doomed[q]
        /\ UNCHANGED <<repo, found, served>>
    BY <1>0, <2>1 DEF Give, TypeOK
  <2>3. /\ AfterFailure(q) = "delete" => pc[q] = "delete"
        /\ AfterFailure(q) # "update"
        /\ AfterFailure(q) \in {"rescopes", "create"} => pc[q] = "rescopes"
    BY <1>0 DEF AfterFailure, AfterScopes
  <2> QED
    BY <2>2, <2>3, SetupKept
<1>11. ASSUME NEW r \in Repos, served' = [served EXCEPT ![q] = @ \cup {r}],
              pc'[q] = "next", HasAccepted(r)'
       PROVE  SetupInv(q)'
  <2>1. ASSUME NEW s \in served'[q] PROVE HasAccepted(s)'
    <3>1. s = r \/ s \in served[q]
      BY <1>0, <1>11, <2>1 DEF TypeOK
    <3>2. CASE s \in served[q]
      BY <1>0, <3>2, AcceptedStays DEF HookInv, SetupInv, TypeOK
    <3> QED
      BY <1>11, <3>1, <3>2
  <2> QED
    BY <1>11, <2>1 DEF SetupInv
<1>12. CASE FindWebhookByURL(q)
  <2> DEFINE r == repo[q]
  <2>1. r \in Repos /\ UNCHANGED <<hooks, repo>>
    BY <1>0, <1>12, RepoAtHand DEF FindWebhookByURL
  <2>2. Ours(r)' = Ours(r) /\ Ours(repo[q])' = Ours(r)
        /\ \A s \in Repos : HasAccepted(s) => HasAccepted(s)'
    BY <2>1 DEF Ours, HasAccepted
  <2>3. \A s \in served[q] : HasAccepted(s) /\ s \in Repos
    BY <1>0 DEF HookInv, SetupInv, TypeOK
  <2>4. CASE Ours(r) = {}
    <3>1. pc'[q] = "rescopes" /\ UNCHANGED served
      BY <1>0, <1>12, <2>4 DEF FindWebhookByURL, TypeOK
    <3> QED
      BY <2>2, <2>3, <2>4, <3>1 DEF SetupInv
  <2>5. CASE Ours(r) # {} /\ Configured(r, First(Ours(r)))
    <3>1. Succeed(q)
      BY <1>12, <2>5, Zenon DEF FindWebhookByURL
    <3>2. HasAccepted(r)'
      BY <2>1, <2>2, <2>5 DEF HasAccepted, Configured
    <3> QED
      BY <1>0, <1>11, <2>1, <3>1, <3>2 DEF Succeed, TypeOK
  <2>6. CASE Ours(r) # {} /\ ~ Configured(r, First(Ours(r)))
    <3>1. /\ found' = [found EXCEPT ![q] = First(Ours(r))] /\ GoTo(q, "update")
          /\ UNCHANGED served
      BY <1>12, <2>6, Zenon DEF FindWebhookByURL
    <3>2. pc'[q] = "update" /\ found'[q] = First(Ours(r))
      BY <1>0, <3>1 DEF TypeOK
    <3> QED
      BY <2>2, <2>3, <2>6, <3>1, <3>2 DEF SetupInv
  <2> QED
    BY <2>4, <2>5, <2>6
<1>13. CASE UpdateWebhook(q)
  <2>0. PICK r \in Repos : r = repo[q]
    BY <1>0, <1>13, RepoAtHand DEF UpdateWebhook
  <2>1. Ours(r) # {} /\ found[q] = First(Ours(r)) /\ hooks' \in [Repos -> Seq(Hooks)]
    BY <1>13, <2>0, NextType DEF UpdateWebhook, HookInv, SetupInv, TypeInv, TypeOK
  <2> DEFINE f == found[q]
  <2>2. f \in DOMAIN hooks[r]
    BY <1>0, <2>0, <2>1, FirstIsOurs DEF Ours
  <2>3. hooks' = [hooks EXCEPT ![r][f] = "good"]
    BY <1>13, <2>0 DEF UpdateWebhook
  <2>4. hooks'[r][f] = "good"
    BY <1>0, <2>1, <2>2, <2>3
  <2>5. Ours(r)' # {} /\ First(Ours(r)') = f
    BY <1>0, <2>1, StepsOnHooks, FirstStays
  <2>6. HasAccepted(r)'
    BY <2>1, <2>4, <2>5 DEF HasAccepted
  <2> QED
    BY <1>0, <1>11, <1>13, <2>0, <2>6 DEF UpdateWebhook, Succeed, TypeOK
<1>14. CASE CreateWebhook(q)
  <2>0. PICK r \in Repos : r = repo[q]
    BY <1>0, <1>14, RepoAtHand DEF CreateWebhook
  <2>1. hooks' \in [Repos -> Seq(Hooks)]
    BY NextType DEF TypeInv, TypeOK
  <2>2. HasAccepted(r)'
    <3>1. CASE Ours(r) # {}
      BY <1>14, <2>0, <3>1, AcceptedStays DEF CreateWebhook, HookInv, SetupInv
    <3>2. CASE Ours(r) = {}
      <4> DEFINE last == Len(hooks[r]) + 1
      <4>1. last \in DOMAIN hooks'[r] /\ hooks'[r][last] = "good"
        <5>1. hooks'[r] = Append(hooks[r], "good")
          BY <1>0, <1>14, <2>0 DEF CreateWebhook
        <5> QED
          BY <1>0, <2>1, <5>1, AppendHook DEF Hooks
      <4>2. Ours(r)' # {}
        BY <4>1 DEF Ours
      <4> QED
        BY <1>0, <2>1, <3>2, <4>2, StepsOnHooks, FirstIsNew
    <3> QED
      BY <3>1, <3>2
  <2> QED
    BY <1>0, <1>11, <1>14, <2>0, <2>2 DEF CreateWebhook, Succeed, TypeOK
<1>15. CASE Reset \/ UNCHANGED vars \/ \E r \in Repos : CreateLate(r) \/ ChangeLate(r)
  BY <1>1, <1>15 DEF Reset, CreateLate, ChangeLate, vars
<1> QED
  BY <1>2, <1>3, <1>4, <1>5, <1>6, <1>7, <1>8, <1>9, <1>10, <1>12, <1>13, <1>14, <1>15
  DEF Next, Step

LEMMA HookInvariance == Spec => []HookInv
<1>1. Init(Configs, Seq(Hooks \ {"gone"})) => HookInv
  BY DEF Init, HookInv, SetupInv, StrayInv
<1> QED
  BY <1>1, NextHookInv, TypeInvariance, PTL DEF Spec

(* A repository that was set up has a hook that is active with the         *)
(* configured events, whatever the other instances do (SuccessMeansHook).  *)
(* Nothing is proved of the secret of the hook.                            *)
THEOREM SuccessLasts == Spec => []SuccessMeansHook
<1>1. HookInv => SuccessMeansHook
  BY DEF HookInv, SetupInv, HasAccepted, SuccessMeansHook
<1> QED
  BY <1>1, HookInvariance, PTL

(* No list of an instance, however stale, costs a repository its last hook *)
(* of ours (HookNeverLost).                                                *)
THEOREM OurHookStays == Spec => HookNeverLost
<1>1. ASSUME TypeInv, TypeInv', HookInv, [Next]_vars
      PROVE  \A r \in Repos : Ours(r) # {} => Ours(r)' # {}
  BY <1>1, StepsOnHooks, FirstStays DEF TypeInv, TypeOK
<1>2. TypeInv /\ TypeInv' /\ HookInv /\ [Next]_vars
        => [\A r \in Repos : Ours(r) # {} => Ours(r)' # {}]_vars
  BY <1>1
<1> QED
  BY <1>2, TypeInvariance, HookInvariance, PTL DEF Spec, HookNeverLost
------------------------------------------------------------------------------
(***************************************************************************)
(* One hook                                                                *)
(***************************************************************************)
Undisturbed(p) == config.CleanupOldWebhooks /\ ~ overlap[p]

Creating(r) == \E q \in Clients : pc[q] \in {"rescopes", "create"} /\ repo[q] = r

(* A repository with one hook, ours, and none on its way.                  *)
Single(r) == Ours(r) # {} /\ Superfluous(r) = {} /\ late[r] = 0 /\ ~ Creating(r)

(* An undisturbed instance is the only one that is active, and nobody's    *)
(* creation is on its way for the repositories that it has still to do.    *)
OnlyOne(p) ==
  p \in Active =>
    /\ \A q \in Active : q = p
    /\ \A r \in todo[p] : late[r] = 0
    /\ pc[p] = "discover" => \A r \in Repos : late[r] = 0

(* What is left to delete, and then nothing, is all that the repository at *)
(* hand has in excess, and a creation to come finds it without hooks.      *)
CleanSoFar(p) ==
  /\ pc[p] \notin {"off", "discover", "next", "done"} => late[repo[p]] = 0
  /\ pc[p] = "delete" => Superfluous(repo[p]) \subseteq doomed[p]
  /\ pc[p] \in {"find", "update", "rescopes", "create"} => Superfluous(repo[p]) = {}
  /\ pc[p] \in {"rescopes", "create"} => Ours(repo[p]) = {}

TidyInv(p) ==
  Undisturbed(p) =>
    /\ OnlyOne(p)
    /\ clean[p] => CleanSoFar(p)
    /\ \A r \in tidy[p] : Single(r)

OneHookInv == \A p \in Clients : TidyInv(p)

(* Only a creation adds to what a repository has in excess, or gives it a  *)
(* hook of ours when it has none.                                          *)
LEMMA ExcessShrinks ==
  ASSUME hooks \in [Repos -> Seq(Hooks)], hooks' \in [Repos -> Seq(Hooks)],
         NEW r \in Repos, Change(r)
  PROVE  /\ Superfluous(r)' \subseteq Superfluous(r)
         /\ Ours(r) = {} => Ours(r)' = {}
<1>1. Present(r)' \subseteq Present(r) /\ (Ours(r) = {} => Ours(r)' = {})
  <2>1. CASE hooks'[r] = hooks[r]
    BY <2>1 DEF Present, Ours
  <2>2. CASE Delete(r)
    BY <2>2, SetHook DEF Delete, Hooks, Present, Ours
  <2>3. CASE Update(r)
    <3>1. First(Ours(r)) \in DOMAIN hooks[r] /\ First(Ours(r)) \in Present(r)
      BY <2>3, FirstIsOurs DEF Update, Ours, Present
    <3> QED
      BY <2>3, <3>1, SetHook DEF Update, Hooks, Present
  <2> QED
    BY <2>1, <2>2, <2>3 DEF Change
<1>2. CASE Ours(r) = {}
  BY <1>1, <1>2 DEF Superfluous
<1>3. CASE Ours(r) # {}
  BY <1>1, <1>3, FirstStays DEF Superfluous, HookStep
<1> QED
  BY <1>2, <1>3

(* Who starts a creation, now or later, found no hook of ours.             *)
LEMMA CreationsBegin ==
  ASSUME TypeInv, [Next]_vars, NEW r \in Repos
  PROVE  /\ Creating(r)' => Creating(r) \/ Ours(r) = {}
         /\ late'[r] > late[r] => Creating(r)
<1>0. TypeOK
  BY DEF TypeInv
<1>1. ASSUME UNCHANGED <<pc, run>>, late'[r] <= late[r]
      PROVE  /\ Creating(r)' => Creating(r) \/ Ours(r) = {}
             /\ late'[r] > late[r] => Creating(r)
  BY <1>0, <1>1, NextType DEF run, Creating, TypeInv, TypeOK
<1>2. ASSUME NEW p \in Clients, Start(p) \/ Crash(p) \/ Step(p)
      PROVE  /\ Creating(r)' => Creating(r) \/ Ours(r) = {}
             /\ late'[r] > late[r] => Creating(r)
  <2>1. pc'[p] \in {"rescopes", "create"} =>
          repo'[p] = repo[p] /\ (pc[p] = "rescopes" \/ Ours(repo[p]) = {})
    <3> USE <1>0 DEF GoTo, Forget, TypeOK, run
    <3>1. CASE Start(p) \/ Crash(p)
      BY <3>1 DEF Start, Crash
    <3>2. CASE NextRepo(p) \/ GetRepositories(p) \/ CleanupOldWebhooks(p)
               \/ DeleteWebhook(p) \/ EndCleanup(p)
      BY <3>2 DEF NextRepo, GetRepositories, CleanupOldWebhooks, DeleteWebhook, EndCleanup
    <3>3. CASE Check(p)
      BY <3>3 DEF Check, Checks, CanManageWebhooks
    <3>4. CASE HasScopeForWebhooks(p)
      BY <3>4 DEF HasScopeForWebhooks, AfterScopes
    <3>5. CASE FindWebhookByURL(p)
      BY <3>5 DEF FindWebhookByURL, Succeed
    <3>6. CASE UpdateWebhook(p) \/ CreateWebhook(p)
      BY <3>6 DEF UpdateWebhook, CreateWebhook, Succeed
    <3>7. CASE FailCall(p) \/ LoseCall(p)
      <4>1. pc'[p] = AfterFailure(p) /\ UNCHANGED repo
        BY <3>7 DEF FailCall, LoseCall, Give
      <4> QED
        BY <4>1 DEF AfterFailure, AfterScopes
    <3> QED
      BY <1>2, <3>1, <3>2, <3>3, <3>4, <3>5, <3>6, <3>7 DEF Step
  <2>2. \A q \in Clients \ {p} : pc'[q] = pc[q] /\ repo'[q] = repo[q]
    BY <1>0, <1>2, OthersKept
  <2>3. late'[r] > late[r] => pc[p] = "create" /\ repo[p] = r
    BY <1>0, <1>2
    DEF TypeOK, Start, Crash, Step, NextRepo, GetRepositories, Check, HasScopeForWebhooks,
        CleanupOldWebhooks, DeleteWebhook, EndCleanup, FindWebhookByURL, UpdateWebhook,
        CreateWebhook, FailCall, LoseCall, Underway
  <2> QED
    BY <2>1, <2>2, <2>3 DEF Creating
<1>3. ASSUME NEW q \in Repos, CreateLate(q) \/ ChangeLate(q)
      PROVE  late'[r] <= late[r] /\ UNCHANGED <<pc, run>>
  <2>1. late[r] \in Nat /\ late \in [Repos -> Nat]
    BY <1>0 DEF TypeOK
  <2>2. CASE CreateLate(q)
    BY <2>1, <2>2 DEF CreateLate
  <2>3. CASE ChangeLate(q)
    <3>1. UNCHANGED <<late, pc, run>>
      BY <2>3 DEF ChangeLate
    <3> QED
      BY <2>1, <3>1
  <2> QED
    BY <1>3, <2>2, <2>3
<1>4. CASE Reset \/ UNCHANGED vars
  BY <1>0, <1>1, <1>4 DEF Reset, vars, TypeOK
<1> QED
  BY <1>1, <1>2, <1>3, <1>4 DEF Next

(* A tidy repository stays tidy: nobody creates a hook who sees ours.      *)
LEMMA SingleStays ==
  ASSUME TypeInv, HookInv, [Next]_vars, NEW r \in Repos, Single(r)
  PROVE  Single(r)'
<1>1. hooks \in [Repos -> Seq(Hooks)] /\ hooks' \in [Repos -> Seq(Hooks)]
      /\ late \in [Repos -> Nat] /\ late' \in [Repos -> Nat]
  BY NextType DEF TypeInv, TypeOK
<1>2. HookStep(r)
  BY StepsOnHooks
<1>3. ~ Create(r)
  BY DEF Create, Single, Creating
<1>4. Ours(r)' # {} /\ Superfluous(r)' = {}
  BY <1>1, <1>2, <1>3, FirstStays, ExcessShrinks DEF Single, HookStep
<1>5. late'[r] = 0 /\ ~ Creating(r)'
  BY <1>1, CreationsBegin DEF Single
<1> QED
  BY <1>4, <1>5 DEF Single

LEMMA ActingIsActive ==
  ASSUME TypeInv, NEW p \in Clients, Crash(p) \/ Step(p)
  PROVE  p \in Active /\ UNCHANGED <<config, overlap>>
<1> USE DEF Active, history, run
<1>1. CASE Crash(p)
  BY <1>1 DEF Crash
<1>2. CASE NextRepo(p) \/ GetRepositories(p) \/ HasScopeForWebhooks(p)
  BY <1>2 DEF NextRepo, GetRepositories, HasScopeForWebhooks
<1>3. CASE Check(p)
  BY <1>3 DEF Check, Checks, CanManageWebhooks
<1>4. CASE CleanupOldWebhooks(p) \/ DeleteWebhook(p) \/ EndCleanup(p)
  BY <1>4 DEF CleanupOldWebhooks, DeleteWebhook, EndCleanup
<1>5. CASE FindWebhookByURL(p) \/ UpdateWebhook(p) \/ CreateWebhook(p)
  BY <1>5 DEF FindWebhookByURL, UpdateWebhook, CreateWebhook
<1>6. CASE FailCall(p) \/ LoseCall(p)
  BY <1>6 DEF FailCall, LoseCall, Calling, Calls, Give
<1> QED
  BY <1>1, <1>2, <1>3, <1>4, <1>5, <1>6 DEF Step

(* Whoever acts while an undisturbed instance is active disturbs it, or is *)
(* that instance.                                                          *)
LEMMA OthersTidy ==
  ASSUME TypeInv, HookInv, OneHookInv, [Next]_vars,
         NEW p \in Clients, Start(p) \/ Crash(p) \/ Step(p), NEW q \in Clients \ {p}
  PROVE  TidyInv(q)'
<1> SUFFICES ASSUME Undisturbed(q)'
             PROVE  /\ OnlyOne(q)' /\ (clean[q] => CleanSoFar(q))'
                    /\ \A r \in tidy'[q] : Single(r)'
  BY DEF TidyInv
<1>1. Undisturbed(q) /\ q \notin Active
  <2>1. CASE Start(p)
    BY <2>1, Zenon DEF Start, Undisturbed
  <2>2. CASE Crash(p) \/ Step(p)
    <3>1. p \in Active /\ UNCHANGED <<config, overlap>>
      BY <2>2, ActingIsActive
    <3>2. Undisturbed(q)
      BY <3>1, Zenon DEF Undisturbed
    <3> QED
      BY <3>1, <3>2 DEF OneHookInv, TidyInv, OnlyOne
  <2> QED
    BY <2>1, <2>2
<1>2. pc'[q] = pc[q] /\ tidy'[q] = tidy[q] /\ pc[q] \in {"off", "done"}
  BY <1>1, OthersKept DEF Active
<1>3. OnlyOne(q)' /\ CleanSoFar(q)'
  BY <1>2 DEF OnlyOne, CleanSoFar, Active
<1>4. \A r \in tidy[q] : Single(r) /\ r \in Repos
  BY <1>1 DEF OneHookInv, TidyInv, TypeInv, TypeOK
<1> QED
  BY <1>2, <1>3, <1>4, SingleStays

(* What an undisturbed instance has to keep when it acts.                  *)
LEMMA OwnTidy ==
  ASSUME TypeInv, HookInv, OneHookInv, [Next]_vars,
         NEW p \in Clients, Crash(p) \/ Step(p), Undisturbed(p),
         pc'[p] # "discover", pc[p] # "discover" => todo'[p] \subseteq todo[p],
         clean'[p] => CleanSoFar(p)',
         \A r \in tidy'[p] : r \in tidy[p] \/ Single(r)'
  PROVE  TidyInv(p)'
<1>0. p \in Active /\ OnlyOne(p)
  BY ActingIsActive DEF OneHookInv, TidyInv
<1>1. \A q \in Active' : q = p
  BY <1>0, OthersKept DEF OnlyOne, Active
<1>2. ASSUME NEW r \in todo'[p] PROVE late'[r] = 0
  <2>1. r \in Repos /\ late[r] \in Nat /\ late'[r] \in Nat
    BY <1>2, NextType DEF TypeInv, TypeOK
  <2>2. late[r] = 0
    BY <1>0, <2>1 DEF OnlyOne
  <2>3. ~ Creating(r)
    <3>1. ASSUME NEW q \in Clients, pc[q] \in {"rescopes", "create"}, repo[q] = r PROVE FALSE
      <4>1. q = p
        BY <1>0, <3>1 DEF OnlyOne, Active
      <4>2. r \in todo[p]
        BY <3>1, <4>1
      <4> QED
        BY <3>1, <4>1, <4>2 DEF TypeInv, ListsInOrder
    <3> QED
      BY <3>1 DEF Creating
  <2> QED
    BY <2>1, <2>2, <2>3, CreationsBegin
<1>3. OnlyOne(p)'
  BY <1>1, <1>2 DEF OnlyOne
<1>4. \A r \in tidy[p] : r \in Repos /\ Single(r)
  BY DEF OneHookInv, TidyInv, TypeInv, TypeOK
<1>5. \A r \in tidy'[p] : Single(r)'
  BY <1>4, SingleStays
<1> QED
  BY <1>3, <1>5 DEF TidyInv

(* The repository at hand of an undisturbed instance changes only by its   *)
(* own calls.                                                              *)
LEMMA NobodyCreates ==
  ASSUME TypeInv, OneHookInv, NEW p \in Clients, Undisturbed(p), clean[p],
         p \in Active, repo[p] \in Repos, pc[p] \notin {"next", "create", "rescopes"}
  PROVE  late[repo[p]] = 0 /\ ~ Create(repo[p]) /\ ~ Creating(repo[p])
<1>1. OnlyOne(p) /\ CleanSoFar(p)
  BY DEF OneHookInv, TidyInv
<1>2. late[repo[p]] = 0
  BY <1>1, SetupAssumption DEF CleanSoFar, OnlyOne, Active, TypeInv, ListsInOrder
<1>3. \A q \in Clients : pc[q] \in {"rescopes", "create"} => q = p
  BY <1>1 DEF OnlyOne, Active
<1> QED
  BY <1>2, <1>3 DEF Create, Creating

LEMMA OwnChecksTidy ==
  ASSUME TypeInv, HookInv, OneHookInv, [Next]_vars, NEW p \in Clients, Undisturbed(p),
         \/ Crash(p) \/ NextRepo(p) \/ GetRepositories(p) \/ Check(p)
         \/ HasScopeForWebhooks(p) \/ FailCall(p) \/ LoseCall(p)
  PROVE  TidyInv(p)'
<1> USE DEF GoTo, Forget, history, run
<1>0. TypeOK /\ ListsInOrder /\ OnlyOne(p) /\ (clean[p] => CleanSoFar(p)) /\ p \in Active
      /\ (Crash(p) \/ Step(p))
  BY ActingIsActive DEF OneHookInv, TidyInv, TypeInv, Step
<1>1. CASE Crash(p)
  <2>1. pc'[p] = "off" /\ tidy' = tidy /\ todo'[p] = {}
    BY <1>0, <1>1 DEF Crash, TypeOK
  <2> QED
    BY <1>0, <2>1, OwnTidy DEF CleanSoFar
<1>2. CASE NextRepo(p)
  <2>1. UNCHANGED <<tidy, late>> /\ pc[p] = "next"
    BY <1>2 DEF NextRepo
  <2>2. CASE todo[p] = {} /\ GoTo(p, "done") /\ UNCHANGED todo
    <3>1. pc'[p] = "done"
      BY <1>0, <2>2 DEF TypeOK
    <3> QED
      BY <1>0, <2>1, <2>2, <3>1, OwnTidy DEF CleanSoFar
  <2>3. ASSUME NEW r \in todo[p], repo' = [repo EXCEPT ![p] = r],
               todo' = [todo EXCEPT ![p] = @ \ {r}], GoTo(p, "workflows")
        PROVE  TidyInv(p)'
    <3>1. pc'[p] = "workflows" /\ repo'[p] = r /\ late'[r] = 0 /\ todo'[p] \subseteq todo[p]
      BY <1>0, <2>1, <2>3 DEF TypeOK, OnlyOne
    <3> QED
      BY <1>0, <2>1, <3>1, OwnTidy DEF CleanSoFar
  <2> QED
    BY <1>2, <2>2, <2>3 DEF NextRepo
<1>3. CASE GetRepositories(p)
  <2>1. UNCHANGED <<tidy, late>> /\ pc[p] = "discover" /\ pc'[p] = "next"
    BY <1>0, <1>3 DEF GetRepositories, TypeOK
  <2> QED
    BY <1>0, <2>1, OwnTidy DEF CleanSoFar
<1>4. CASE Check(p)
  <2>1. \E point \in {"content", "lastContent", "permissions", "scopes", "next"} :
          GoTo(p, point)
    BY <1>4 DEF Check, Checks, CanManageWebhooks
  <2>2. pc'[p] \in {"content", "lastContent", "permissions", "scopes", "next"}
    BY <1>0, <2>1 DEF TypeOK
  <2>3. UNCHANGED <<tidy, late, todo, repo, clean>>
        /\ pc[p] \in {"workflows", "content", "lastContent", "permissions"}
    BY <1>4 DEF Check, Checks, CanManageWebhooks
  <2> QED
    BY <1>0, <2>2, <2>3, OwnTidy DEF CleanSoFar
<1>5. CASE HasScopeForWebhooks(p)
  <2>1. /\ UNCHANGED <<hooks, tidy, late, todo, repo, doomed, clean>>
        /\ pc'[p] = AfterScopes(p) /\ pc[p] \in {"scopes", "rescopes"}
    BY <1>0, <1>5 DEF HasScopeForWebhooks, TypeOK
  <2>2. /\ AfterScopes(p) \in {"create", "cleanup"}
        /\ AfterScopes(p) = "create" => pc[p] = "rescopes"
    BY <2>1 DEF AfterScopes, Undisturbed
  <2>3. Ours(repo[p])' = Ours(repo[p]) /\ Superfluous(repo[p])' = Superfluous(repo[p])
    BY <2>1 DEF Ours, Present, Superfluous
  <2>4. clean'[p] => CleanSoFar(p)'
    BY <1>0, <2>1, <2>2, <2>3 DEF CleanSoFar
  <2> QED
    BY <1>0, <2>1, <2>2, <2>4, OwnTidy
<1>6. CASE FailCall(p) \/ LoseCall(p)
  <2>1. Calling(p) /\ Give(p)
    BY <1>6 DEF FailCall, LoseCall
  <2>2. UNCHANGED <<tidy, todo>> /\ clean'[p] = FALSE /\ pc'[p] = AfterFailure(p)
    BY <1>0, <2>1 DEF Give, TypeOK
  <2>3. AfterFailure(p) # "discover"
    BY DEF AfterFailure, AfterScopes
  <2> QED
    BY <1>0, <2>2, <2>3, OwnTidy
<1> QED
  BY <1>1, <1>2, <1>3, <1>4, <1>5, <1>6

LEMMA OwnCleanupTidy ==
  ASSUME TypeInv, HookInv, OneHookInv, [Next]_vars, NEW p \in Clients, Undisturbed(p),
         CleanupOldWebhooks(p) \/ DeleteWebhook(p) \/ EndCleanup(p)
  PROVE  TidyInv(p)'
<1> USE DEF GoTo, history, run
<1>0. TypeOK /\ (clean[p] => CleanSoFar(p)) /\ p \in Active
      /\ (Crash(p) \/ Step(p))
  BY ActingIsActive DEF OneHookInv, TidyInv, TypeInv, Step
<1>r. PICK r \in Repos : r = repo[p]
  BY <1>0, RepoAtHand DEF CleanupOldWebhooks, DeleteWebhook, EndCleanup
<1>h. hooks \in [Repos -> Seq(Hooks)] /\ hooks' \in [Repos -> Seq(Hooks)]
        /\ HookStep(r)
  BY NextType, StepsOnHooks DEF TypeInv, TypeOK
<1>1. CASE CleanupOldWebhooks(p)
  <2>1. /\ UNCHANGED <<hooks, tidy, late, todo, repo, clean>> /\ pc[p] = "cleanup"
        /\ pc'[p] = "delete" /\ doomed'[p] = Superfluous(repo[p])
    BY <1>0, <1>1 DEF CleanupOldWebhooks, TypeOK
  <2>2. Superfluous(repo[p])' = Superfluous(repo[p])
    BY <2>1 DEF Ours, Present, Superfluous
  <2>3. clean'[p] => CleanSoFar(p)'
    BY <1>0, <2>1, <2>2 DEF CleanSoFar
  <2> QED
    BY <1>0, <2>1, <2>3, OwnTidy
<1>2. CASE DeleteWebhook(p)
  <2>1. PICK i : /\ i \in Present(r) /\ hooks' = [hooks EXCEPT ![r][i] = "gone"]
                 /\ doomed' = [doomed EXCEPT ![p] = @ \ {i}]
    BY <1>2, <1>r DEF DeleteWebhook
  <2>2. /\ UNCHANGED <<tidy, late, todo, repo, clean, pc>> /\ pc[p] = "delete"
    BY <1>2 DEF DeleteWebhook
  <2>3. doomed'[p] = doomed[p] \ {i} /\ i \notin Present(r)'
    BY <1>0, <1>h, <2>1 DEF TypeOK, Present
  <2>4. Superfluous(repo[p])' = Superfluous(r)' /\ Superfluous(r)' \subseteq Present(r)'
    BY <1>r, <2>2 DEF Superfluous, Present, Ours
  <2>5. clean[p] => Superfluous(r)' \subseteq Superfluous(r)
    BY <1>0, <1>r, <1>h, <2>2, NobodyCreates, ExcessShrinks DEF HookStep
  <2>6. clean'[p] => CleanSoFar(p)'
    BY <1>0, <1>r, <2>2, <2>3, <2>4, <2>5 DEF CleanSoFar
  <2> QED
    BY <1>0, <2>2, <2>6, OwnTidy
<1>3. CASE EndCleanup(p)
  <2>1. /\ UNCHANGED <<hooks, tidy, late, todo, repo, clean>> /\ pc[p] = "delete"
        /\ pc'[p] = "find" /\ doomed[p] = {}
    BY <1>0, <1>3 DEF EndCleanup, TypeOK
  <2>2. Superfluous(repo[p])' = Superfluous(repo[p])
    BY <2>1 DEF Ours, Present, Superfluous
  <2>3. clean'[p] => CleanSoFar(p)'
    BY <1>0, <2>1, <2>2 DEF CleanSoFar
  <2> QED
    BY <1>0, <2>1, <2>3, OwnTidy
<1> QED
  BY <1>1, <1>2, <1>3

(* A success without a failed call leaves one hook.                        *)
LEMMA SuccessTidy ==
  ASSUME TypeInv, HookInv, OneHookInv, [Next]_vars, NEW p \in Clients, Undisturbed(p),
         p \in Active, Crash(p) \/ Step(p), NEW r \in Repos, r = repo[p], Succeed(p),
         UNCHANGED <<late, todo, clean>>, pc[p] # "discover",
         clean[p] => late[r] = 0 /\ Superfluous(r)' = {}
  PROVE  TidyInv(p)'
<1>0. TypeOK /\ TypeOK' /\ OnlyOne(p)
  BY NextType DEF TypeInv, OneHookInv, TidyInv
<1>1. pc'[p] = "next" /\ r \in served'[p]
      /\ tidy'[p] = IF clean[p] THEN tidy[p] \cup {r} ELSE tidy[p]
  BY <1>0 DEF Succeed, GoTo, TypeOK
<1>2. Ours(r)' # {}
  BY <1>1, NextHookInv DEF HookInv, SetupInv, HasAccepted
<1>3. ~ Creating(r)'
  BY <1>0, <1>1, OthersKept DEF Creating, OnlyOne, Active
<1>4. clean[p] => Single(r)'
  BY <1>2, <1>3 DEF Single
<1>5. clean'[p] => CleanSoFar(p)'
  BY <1>1 DEF CleanSoFar
<1> QED
  BY <1>1, <1>4, <1>5, OwnTidy

LEMMA OwnEnsureTidy ==
  ASSUME TypeInv, HookInv, OneHookInv, [Next]_vars, NEW p \in Clients, Undisturbed(p),
         FindWebhookByURL(p) \/ UpdateWebhook(p) \/ CreateWebhook(p)
  PROVE  TidyInv(p)'
<1> USE DEF GoTo, history, run
<1>0. TypeOK /\ (clean[p] => CleanSoFar(p)) /\ p \in Active
      /\ (Crash(p) \/ Step(p))
  BY ActingIsActive DEF OneHookInv, TidyInv, TypeInv, Step
<1>r. PICK r \in Repos : r = repo[p]
  BY <1>0, RepoAtHand DEF FindWebhookByURL, UpdateWebhook, CreateWebhook
<1>h. hooks \in [Repos -> Seq(Hooks)] /\ hooks' \in [Repos -> Seq(Hooks)]
      /\ HookStep(r)
  BY NextType, StepsOnHooks DEF TypeInv, TypeOK
<1>1. CASE FindWebhookByURL(p)
  <2>1. /\ UNCHANGED <<hooks, late, todo, repo, doomed, clean>> /\ pc[p] = "find"
    BY <1>1 DEF FindWebhookByURL
  <2>2. /\ Superfluous(r)' = Superfluous(r) /\ Ours(r)' = Ours(r)
        /\ Superfluous(repo[p])' = Superfluous(r) /\ Ours(repo[p])' = Ours(r)
    BY <1>r, <2>1 DEF Superfluous, Present, Ours
  <2>3. clean[p] => late[r] = 0 /\ Superfluous(r) = {}
    BY <1>0, <1>r, <2>1 DEF CleanSoFar
  <2>4. CASE Succeed(p)
    BY <1>0, <1>r, <2>1, <2>2, <2>3, <2>4, SuccessTidy
  <2>5. ASSUME pc' = [pc EXCEPT ![p] = "update"]
               \/ (pc' = [pc EXCEPT ![p] = "rescopes"] /\ Ours(r) = {}),
               UNCHANGED tidy
        PROVE  TidyInv(p)'
    <3>1. pc'[p] = "update" \/ (pc'[p] = "rescopes" /\ Ours(r) = {})
      BY <1>0, <2>5 DEF TypeOK
    <3>2. clean'[p] => CleanSoFar(p)'
      BY <1>r, <2>1, <2>2, <2>3, <3>1 DEF CleanSoFar
    <3> QED
      BY <1>0, <2>1, <2>5, <3>1, <3>2, OwnTidy
  <2>6. \/ Succeed(p)
        \/ GoTo(p, "update") /\ UNCHANGED tidy
        \/ GoTo(p, "rescopes") /\ UNCHANGED tidy /\ Ours(r) = {}
    BY <1>1, <1>r, Zenon DEF FindWebhookByURL
  <2> QED
    BY <2>4, <2>5, <2>6
<1>2. CASE UpdateWebhook(p)
  <2>1. UNCHANGED <<late, todo, repo, clean>> /\ pc[p] = "update" /\ Succeed(p)
    BY <1>2 DEF UpdateWebhook
  <2>2. clean[p] => late[r] = 0 /\ Superfluous(r) = {} /\ ~ Create(r)
    BY <1>0, <1>r, <2>1, NobodyCreates DEF CleanSoFar
  <2>3. clean[p] => Superfluous(r)' = {}
    BY <1>h, <2>2, ExcessShrinks DEF HookStep
  <2> QED
    BY <1>0, <1>r, <2>1, <2>2, <2>3, SuccessTidy
<1>3. CASE CreateWebhook(p)
  <2>1. /\ UNCHANGED <<late, todo, repo, clean>> /\ pc[p] = "create" /\ Succeed(p)
        /\ hooks'[r] = Append(hooks[r], "good")
    BY <1>h, <1>r, <1>3 DEF CreateWebhook
  <2>2. ASSUME clean[p] PROVE late[r] = 0 /\ Superfluous(r)' = {}
    <3>1. late[r] = 0 /\ Superfluous(r) = {} /\ Ours(r) = {}
      BY <1>0, <1>r, <2>1, <2>2 DEF CleanSoFar
    <3>2. Present(r) = {}
      BY <3>1 DEF Superfluous
    <3> DEFINE n == Len(hooks[r])
    <3>3. /\ n \in Nat /\ DOMAIN hooks[r] = 1..n /\ DOMAIN hooks'[r] = 1..(n + 1)
          /\ \A i \in 1..n : hooks'[r][i] = hooks[r][i]
          /\ hooks'[r][n + 1] = "good"
      BY <1>h, <2>1, AppendHook DEF Hooks
    <3> HIDE DEF n
    <3>4. PICK last \in Nat : last = n + 1
      BY <3>3
    <3>5. ASSUME NEW i \in DOMAIN hooks'[r], i # last PROVE hooks'[r][i] = "gone"
      <4>1. i \in 1..n /\ hooks[r][i] = "gone"
        BY <3>2, <3>3, <3>4, <3>5 DEF Present
      <4> QED
        BY <3>3, <4>1
    <3>6. /\ \A i : i \in Present(r)' => i = last
          /\ \A i : i \in Ours(r)' <=> i = last
      <4>1. last \in DOMAIN hooks'[r] /\ hooks'[r][last] = "good"
        BY <3>3, <3>4
      <4> QED
        BY <3>5, <4>1 DEF Present, Ours
    <3>7. First(Ours(r)') = last
      BY <3>6, FirstUnique
    <3> QED
      BY <3>1, <3>6, <3>7 DEF Superfluous
  <2> QED
    BY <1>0, <1>r, <2>1, <2>2, SuccessTidy
<1> QED
  BY <1>1, <1>2, <1>3

(* An instance that starts alone is undisturbed until another one starts.  *)
LEMMA StartTidy ==
  ASSUME TypeInv, HookInv, OneHookInv, [Next]_vars, NEW p \in Clients, Start(p)
  PROVE  TidyInv(p)'
<1> SUFFICES ASSUME Undisturbed(p)' PROVE TidyInv(p)'
  BY DEF TidyInv
<1>0. TypeOK /\ TypeOK'
  BY NextType DEF TypeInv
<1>1. Active = {} /\ \A r \in Repos : ~ (late[r] > 0)
  BY Zenon DEF Start, Undisturbed
<1>2. pc'[p] \in {"discover", "next"} /\ tidy'[p] = {} /\ UNCHANGED late
  BY <1>0 DEF Start, GoTo, TypeOK
<1>3. \A q \in Active' : q = p
  BY <1>1, OthersKept DEF Active
<1>4. \A r \in Repos : late'[r] = 0
  BY <1>0, <1>1, <1>2 DEF TypeOK
<1>5. OnlyOne(p)' /\ CleanSoFar(p)'
  BY <1>0, <1>2, <1>3, <1>4 DEF OnlyOne, CleanSoFar, TypeOK
<1> QED
  BY <1>2, <1>5 DEF TidyInv

(* What GitHub does by itself adds no hook to a repository that an         *)
(* undisturbed instance has at hand or has done.                           *)
LEMMA GitHubTidy ==
  ASSUME TypeInv, HookInv, OneHookInv, [Next]_vars, NEW p \in Clients,
         Reset \/ UNCHANGED vars \/ \E r \in Repos : CreateLate(r) \/ ChangeLate(r)
  PROVE  TidyInv(p)'
<1> SUFFICES ASSUME Undisturbed(p)' PROVE TidyInv(p)'
  BY DEF TidyInv
<1>0. TypeOK /\ hooks' \in [Repos -> Seq(Hooks)]
  BY NextType DEF TypeInv, TypeOK
<1>1. /\ UNCHANGED <<config, pc, run, overlap>>
      /\ \A s \in Repos : /\ late'[s] <= late[s] /\ late[s] \in Nat /\ late'[s] \in Nat
                          /\ late[s] = 0 => Change(s)
  <2>1. CASE Reset \/ UNCHANGED vars
    BY <1>0, <2>1 DEF Reset, vars, history, TypeOK, Change
  <2>2. ASSUME NEW q \in Repos, CreateLate(q)
        PROVE  /\ UNCHANGED <<config, pc, run, overlap>>
               /\ \A s \in Repos :
                    /\ late'[s] <= late[s] /\ late[s] \in Nat /\ late'[s] \in Nat
                    /\ late[s] = 0 => Change(s)
    BY <1>0, <2>2 DEF CreateLate, history, TypeOK, Change
  <2>3. ASSUME NEW q \in Repos, ChangeLate(q)
        PROVE  UNCHANGED <<config, late, pc, run, overlap>> /\ \A s \in Repos : Change(s)
    BY <2>3, LateChange DEF ChangeLate, history
  <2> QED
    BY <1>0, <2>1, <2>2, <2>3 DEF TypeOK
<1>2. UNCHANGED <<todo, repo, doomed, clean, tidy>>
  BY <1>1 DEF run
<1>3. Undisturbed(p)
  BY <1>1, Zenon DEF Undisturbed
<1>4. OnlyOne(p) /\ (clean[p] => CleanSoFar(p)) /\ \A s \in tidy[p] : Single(s) /\ s \in Repos
  BY <1>0, <1>3 DEF OneHookInv, TidyInv, TypeOK
<1>5. Active' = Active
  BY <1>1 DEF Active
<1>6. OnlyOne(p)'
  BY <1>0, <1>1, <1>2, <1>4, <1>5 DEF OnlyOne, TypeOK
<1>7. ASSUME clean[p], pc[p] \notin {"off", "discover", "next", "done"}
      PROVE  /\ late'[repo'[p]] = 0
             /\ Superfluous(repo[p])' \subseteq Superfluous(repo[p])
             /\ Ours(repo[p]) = {} => Ours(repo[p])' = {}
  <2>1. PICK r \in Repos : r = repo[p] /\ r = repo'[p] /\ late[r] = 0
    BY <1>0, <1>2, <1>4, <1>7, RepoAtHand DEF CleanSoFar
  <2>2. Change(r) /\ late'[r] = 0
    BY <1>1, <2>1
  <2>3. Superfluous(r)' \subseteq Superfluous(r) /\ (Ours(r) = {} => Ours(r)' = {})
    BY <1>0, <2>2, ExcessShrinks DEF TypeOK
  <2>4. Superfluous(repo[p])' = Superfluous(r)' /\ Ours(repo[p])' = Ours(r)'
    BY <2>1 DEF Superfluous, Present, Ours
  <2> QED
    BY <2>1, <2>2, <2>3, <2>4
<1>8. clean[p] => CleanSoFar(p)'
  BY <1>1, <1>2, <1>4, <1>7 DEF CleanSoFar
<1> QED
  BY <1>2, <1>4, <1>6, <1>8, SingleStays DEF TidyInv

LEMMA NextOneHookInv == TypeInv /\ HookInv /\ OneHookInv /\ [Next]_vars => OneHookInv'
<1> SUFFICES ASSUME TypeInv, HookInv, OneHookInv, [Next]_vars, NEW p \in Clients
             PROVE  TidyInv(p)'
  BY DEF OneHookInv
<1>1. ASSUME NEW q \in Clients, Start(q) \/ Crash(q) \/ Step(q), q # p PROVE TidyInv(p)'
  BY <1>1, OthersTidy
<1>2. CASE Crash(p) \/ Step(p)
  <2>1. CASE Undisturbed(p)
    BY <1>2, <2>1, OwnChecksTidy, OwnCleanupTidy, OwnEnsureTidy DEF Step
  <2>2. CASE ~ Undisturbed(p)
    <3>1. ~ Undisturbed(p)'
      BY <1>2, <2>2, ActingIsActive, Zenon DEF Undisturbed
    <3> QED
      BY <3>1 DEF TidyInv
  <2> QED
    BY <2>1, <2>2
<1> QED
  BY <1>1, <1>2, StartTidy, GitHubTidy DEF Next

LEMMA OneHookInvariance == Spec => []OneHookInv
<1>1. Init(Configs, Seq(Hooks \ {"gone"})) => OneHookInv
  BY DEF Init, OneHookInv, TidyInv, OnlyOne, CleanSoFar, Active
<1> QED
  BY <1>1, NextOneHookInv, TypeInvariance, HookInvariance, PTL DEF Spec

(* A set-up without failed calls or other instances leaves one hook, ours, *)
(* and later failures do not add a second one (OneHook).                   *)
THEOREM OneHookRemains == Spec => []OneHook
<1>1. ASSUME TypeInv, OneHookInv PROVE OneHook
  <2> SUFFICES ASSUME NEW p \in Clients, NEW r \in tidy[p], Undisturbed(p)
               PROVE  Present(r) = Ours(r) /\ \A i, j \in Ours(r) : i = j
    BY Zenon DEF OneHook, Undisturbed
  <2>1. Ours(r) # {} /\ Superfluous(r) = {} /\ r \in Repos
    BY <1>1 DEF OneHookInv, TidyInv, Single, TypeInv, TypeOK
  <2>2. First(Ours(r)) \in Ours(r)
    BY <1>1, <2>1, FirstIsOurs DEF TypeInv, TypeOK
  <2>3. Present(r) \subseteq {First(Ours(r))}
    BY <2>1 DEF Superfluous
  <2>4. Ours(r) \subseteq Present(r)
    BY DEF Ours, Present
  <2> QED
    BY <2>2, <2>3, <2>4
<1> QED
  BY <1>1, TypeInvariance, OneHookInvariance, PTL
------------------------------------------------------------------------------
(***************************************************************************)
(* The reserve                                                             *)
(***************************************************************************)
(* Active instances that do not know yet that the reserve is used: those   *)
(* that are about to check the scopes, and the others.                     *)
Dear  == {p \in Active \ low : pc[p] \in {"scopes", "rescopes"}}
Cheap == {p \in Active \ low : pc[p] \notin {"scopes", "rescopes"}}

(* What they may still take, once each.                                    *)
Cost(cheap, dear, c) == Cardinality(cheap) + Cardinality(dear) * c

QuotaInv ==
  /\ Cardinality(Active) <= starts
  /\ taken + Cost(Cheap, Dear, ScopesCost) <= starts * ScopesCost + lost

LEMMA Products ==
  ASSUME NEW m \in Nat, NEW n \in Nat, NEW c \in Nat, m <= n
  PROVE  m * c <= n * c /\ m * c \in Nat /\ n * c \in Nat /\ (m + 1) * c = m * c + c
<1>1. PICK k \in Nat : n = m + k
  <2>1. n - m \in Nat /\ n = m + (n - m)
    OBVIOUS
  <2> QED
    BY <2>1
<1>2. n * c = m * c + k * c
  BY <1>1
<1>3. k * c \in Nat /\ m * c \in Nat /\ n * c \in Nat
  OBVIOUS
<1>4. (m + 1) * c = m * c + c
  OBVIOUS
<1> QED
  BY <1>2, <1>3, <1>4

LEMMA Sizes ==
  ASSUME NEW big \in SUBSET Clients, NEW small \in SUBSET big
  PROVE  /\ IsFiniteSet(big) /\ Cardinality(big) \in Nat /\ Cardinality(small) \in Nat
         /\ Cardinality(small) <= Cardinality(big)
BY ClientAssumption, FS_Subset, FS_CardinalityType

(* Fewer take less.                                                        *)
LEMMA CostShrinks ==
  ASSUME NEW cheap \in SUBSET Clients, NEW dear \in SUBSET Clients,
         NEW fewer \in SUBSET cheap, NEW less \in SUBSET dear, NEW c \in Nat
  PROVE  /\ Cost(cheap, dear, c) \in Nat /\ Cost(fewer, less, c) \in Nat
         /\ Cost(fewer, less, c) <= Cost(cheap, dear, c)
<1> DEFINE m == Cardinality(less)
           n == Cardinality(dear)
<1>1. m \in Nat /\ n \in Nat /\ m <= n
  BY Sizes
<1>2. /\ Cardinality(fewer) \in Nat /\ Cardinality(cheap) \in Nat
      /\ Cardinality(fewer) <= Cardinality(cheap)
  BY Sizes
<1> HIDE DEF m, n
<1>3. m * c <= n * c /\ m * c \in Nat /\ n * c \in Nat
  BY <1>1, Products
<1> QED
  BY <1>2, <1>3 DEF Cost, m, n

(* One that has asked takes no more.                                       *)
LEMMA CostOfOne ==
  ASSUME NEW cheap \in SUBSET Clients, NEW dear \in SUBSET Clients, NEW c \in Nat, NEW p
  PROVE  /\ p \in cheap => Cost(cheap \ {p}, dear, c) + 1 = Cost(cheap, dear, c)
         /\ p \in dear => Cost(cheap, dear \ {p}, c) + c = Cost(cheap, dear, c)
<1> DEFINE m == Cardinality(dear \ {p})
           k == Cardinality(cheap)
<1>1. k \in Nat /\ m \in Nat /\ IsFiniteSet(cheap) /\ IsFiniteSet(dear)
      /\ Cardinality(cheap \ {p}) \in Nat /\ Cardinality(dear) \in Nat
  BY Sizes
<1>2. p \in cheap => Cardinality(cheap \ {p}) = k - 1
  BY <1>1, FS_RemoveElement
<1>3. p \in dear => Cardinality(dear) = m + 1
  <2>1. p \in dear => Cardinality(dear \ {p}) = Cardinality(dear) - 1
    BY <1>1, FS_RemoveElement
  <2> QED
    BY <1>1, <2>1
<1>4. Cardinality(dear) * c \in Nat
  BY <1>1, Products
<1>5. m * c \in Nat /\ (m + 1) * c = m * c + c
  BY <1>1, Products
<1> HIDE DEF m, k
<1>6. ASSUME p \in cheap PROVE Cost(cheap \ {p}, dear, c) + 1 = Cost(cheap, dear, c)
  BY <1>1, <1>2, <1>4, <1>6 DEF Cost, k
<1>7. ASSUME p \in dear PROVE Cost(cheap, dear \ {p}, c) + c = Cost(cheap, dear, c)
  BY <1>1, <1>3, <1>5, <1>7 DEF Cost, m, k
<1> QED
  BY <1>6, <1>7

(* All that are active, once each.                                         *)
LEMMA CostOfAll ==
  ASSUME NEW active \in SUBSET Clients, NEW cheap \in SUBSET active,
         NEW dear \in SUBSET active, cheap \cap dear = {}, NEW c \in Nat \ {0},
         NEW n \in Nat, Cardinality(active) <= n
  PROVE  Cost(cheap, dear, c) \in Nat /\ Cost(cheap, dear, c) <= n * c
<1> DEFINE k == Cardinality(cheap)
           m == Cardinality(dear)
<1>1. k \in Nat /\ m \in Nat /\ IsFiniteSet(cheap) /\ IsFiniteSet(dear)
  BY Sizes
<1>2. k + m <= n
  <2>1. Cardinality(cheap \cup dear) = k + m
    <3>1. Cardinality(cheap \cap dear) = 0
      BY FS_EmptySet
    <3>2. Cardinality(cheap \cup dear) = k + m - Cardinality(cheap \cap dear)
      BY <1>1, FS_Union
    <3> QED
      BY <1>1, <3>1, <3>2
  <2>2. Cardinality(cheap \cup dear) <= Cardinality(active)
        /\ Cardinality(cheap \cup dear) \in Nat /\ Cardinality(active) \in Nat
    BY Sizes
  <2> QED
    BY <1>1, <2>1, <2>2
<1> HIDE DEF k, m
<1>3. k * 1 <= k * c
  BY <1>1
<1>4. (k + m) * c = k * c + m * c
  BY <1>1
<1>5. (k + m) * c <= n * c
  BY <1>1, <1>2, Products
<1>6. k * c \in Nat /\ m * c \in Nat /\ n * c \in Nat
  BY <1>1, Products
<1> QED
  BY <1>1, <1>3, <1>4, <1>5, <1>6 DEF Cost, k, m

(* How many are active, and whom an instance that takes its turn leaves.   *)
LEMMA ActiveCount ==
  ASSUME TypeInv, QuotaInv, [Next]_vars
  PROVE  Cardinality(Active') <= starts' /\ UNCHANGED config
<1>0. starts \in Nat /\ Cardinality(Active) \in Nat /\ Cardinality(Active') \in Nat
      /\ Cardinality(Active) <= starts
  <2>1. Active \in SUBSET Clients /\ Active' \in SUBSET Clients
    BY DEF Active
  <2>2. Cardinality(Active) \in Nat /\ Cardinality(Active') \in Nat
    BY <2>1, Sizes
  <2>3. starts \in Nat /\ Cardinality(Active) <= starts
    BY DEF TypeInv, TypeOK, QuotaInv
  <2> QED
    BY <2>2, <2>3
<1>1. ASSUME NEW p \in Clients, Start(p)
      PROVE  Cardinality(Active') <= starts' /\ UNCHANGED config
  <2>1. Active' \subseteq Active \cup {p} /\ starts' = starts + 1 /\ UNCHANGED config
    BY <1>1, OthersKept DEF Active, Start
  <2>2. Cardinality(Active \cup {p}) <= Cardinality(Active) + 1
        /\ Cardinality(Active \cup {p}) \in Nat
    BY Sizes, FS_AddElement, <1>0 DEF Active
  <2>3. Cardinality(Active') <= Cardinality(Active \cup {p})
    BY <2>1, Sizes DEF Active
  <2> QED
    BY <1>0, <2>1, <2>2, <2>3
<1>2. ASSUME NEW p \in Clients, Crash(p) \/ Step(p)
      PROVE  Cardinality(Active') <= starts' /\ UNCHANGED config
  <2>1. Active' \subseteq Active
    BY <1>2, ActingIsActive, OthersKept DEF Active
  <2>2. starts' = starts
    BY <1>2
    DEF Crash, Step, NextRepo, GetRepositories, Check, HasScopeForWebhooks,
        CleanupOldWebhooks, DeleteWebhook, EndCleanup, FindWebhookByURL, UpdateWebhook,
        CreateWebhook, FailCall, LoseCall, Give, history
  <2>3. Cardinality(Active') <= Cardinality(Active)
    BY <2>1, Sizes DEF Active
  <2> QED
    BY <1>0, <1>2, <2>2, <2>3, ActingIsActive
<1>3. CASE Reset \/ UNCHANGED vars \/ \E r \in Repos : CreateLate(r) \/ ChangeLate(r)
  BY <1>0, <1>3 DEF Reset, vars, CreateLate, ChangeLate, history, Active
<1> QED
  BY <1>1, <1>2, <1>3 DEF Next

(* The invariant holds again after a step that takes from the reserve, for *)
(* if nothing is taken the number of the starts says enough.               *)
LEMMA QuotaAgain ==
  ASSUME TypeInv, QuotaInv, [Next]_vars,
         \/ taken' = 0
         \/ taken' + Cost(Cheap', Dear', ScopesCost) <= starts' * ScopesCost + lost'
  PROVE  QuotaInv'
<1>1. PICK c \in Nat \ {0} : c = ScopesCost /\ c = ScopesCost'
  <2>1. ScopesCost' = ScopesCost
    BY ActiveCount DEF ScopesCost
  <2> QED
    BY <2>1, ScopesCostType DEF TypeInv, TypeOK
<1>2. Cardinality(Active') <= starts' /\ starts' \in Nat /\ lost' \in Nat
  BY ActiveCount, NextType DEF TypeInv, TypeOK
<1>3. /\ Active' \in SUBSET Clients /\ Cheap' \in SUBSET Active' /\ Dear' \in SUBSET Active'
      /\ Cheap' \cap Dear' = {}
  BY DEF Active, Cheap, Dear
<1>4. Cost(Cheap', Dear', c) \in Nat /\ Cost(Cheap', Dear', c) <= starts' * c
  BY <1>2, <1>3, CostOfAll
<1>5. starts' * c \in Nat
  <2>1. \A m \in Nat : m * c \in Nat
    <3>1. c \in Nat
      OBVIOUS
    <3> QED
      BY <3>1, Products
  <2> QED
    BY <1>2, <2>1
<1>6. taken' + Cost(Cheap', Dear', c) <= starts' * c + lost'
  <2>1. CASE taken' = 0
    <3>1. PICK n \in Nat : n = starts' * c
      BY <1>5
    <3>2. PICK m \in Nat : m = Cost(Cheap', Dear', c) /\ m <= n
      BY <1>4, <3>1
    <3>3. 0 + m <= n + lost'
      BY <1>2, <3>2
    <3> QED
      BY <2>1, <3>1, <3>2, <3>3
  <2>2. CASE taken' + Cost(Cheap', Dear', ScopesCost) <= starts' * ScopesCost + lost'
    BY <1>1, <2>2
  <2> QED
    BY <2>1, <2>2
<1>7. Cost(Cheap, Dear, ScopesCost)' = Cost(Cheap', Dear', c)
  BY <1>1 DEF Cost
<1> QED
  BY <1>1, <1>2, <1>6, <1>7 DEF QuotaInv

(* A step in which p takes no more than it may .                 *)
LEMMA QuotaSpent ==
  ASSUME TypeInv, QuotaInv, [Next]_vars, NEW p \in Clients, NEW cost \in Nat,
         p \in Cheap => cost <= 1, p \in Dear => cost <= ScopesCost,
         p \in Cheap \cup Dear, p \in low' \/ taken' = 0, low \subseteq low',
         Active' \subseteq Active, \A q \in Clients \ {p} : pc'[q] = pc[q],
         taken' <= taken + cost, starts' = starts, lost' >= lost
  PROVE  QuotaInv'
<1>1. CASE taken' = 0
  BY <1>1, QuotaAgain
<1>2. CASE p \in low'
  <2>0. PICK c \in Nat \ {0} : c = ScopesCost
    BY ScopesCostType DEF TypeInv, TypeOK
  <2>1. Cheap' \subseteq Cheap \ {p} /\ Dear' \subseteq Dear \ {p}
    <3>1. ASSUME NEW q \in Active' \ low' PROVE q # p /\ q \in Active \ low /\ pc'[q] = pc[q]
      BY <1>2, <3>1 DEF Active
    <3> QED
      BY <3>1 DEF Cheap, Dear
  <2>2. /\ starts \in Nat /\ lost \in Nat /\ lost' \in Nat /\ taken \in Nat /\ taken' \in Nat
        /\ starts * c \in Nat /\ Cheap \in SUBSET Clients /\ Dear \in SUBSET Clients
    BY NextType, Products DEF TypeInv, TypeOK, ClientTypeOK, Cheap, Dear, Active
  <2>3. taken + Cost(Cheap, Dear, c) <= starts * c + lost
    BY <2>0 DEF QuotaInv
  <2>4. ASSUME NEW rest, rest \in Nat, Cost(Cheap', Dear', c) <= rest,
               Cost(Cheap', Dear', c) \in Nat, rest + cost <= Cost(Cheap, Dear, c),
               Cost(Cheap, Dear, c) \in Nat
        PROVE  QuotaInv'
    <3>1. taken' + Cost(Cheap', Dear', c) <= starts' * c + lost'
      BY <2>2, <2>3, <2>4
    <3> QED
      BY <2>0, <3>1, QuotaAgain
  <2>5. CASE p \in Cheap
    <3>1. Cost(Cheap \ {p}, Dear, c) + 1 = Cost(Cheap, Dear, c)
      BY <2>2, <2>5, CostOfOne
    <3>2. Cost(Cheap', Dear', c) <= Cost(Cheap \ {p}, Dear, c)
          /\ Cost(Cheap', Dear', c) \in Nat /\ Cost(Cheap \ {p}, Dear, c) \in Nat
      BY <2>1, <2>2, CostShrinks
    <3>3. Cost(Cheap, Dear, c) \in Nat
      BY <2>2, CostShrinks
    <3> QED
      BY <2>4, <2>5, <3>1, <3>2, <3>3
  <2>6. CASE p \in Dear
    <3>1. Cost(Cheap, Dear \ {p}, c) + c = Cost(Cheap, Dear, c)
      BY <2>2, <2>6, CostOfOne
    <3>2. Cost(Cheap', Dear', c) <= Cost(Cheap, Dear \ {p}, c)
          /\ Cost(Cheap', Dear', c) \in Nat /\ Cost(Cheap, Dear \ {p}, c) \in Nat
      BY <2>1, <2>2, CostShrinks
    <3>3. Cost(Cheap, Dear, c) \in Nat
      BY <2>2, CostShrinks
    <3> QED
      BY <2>0, <2>4, <2>6, <3>1, <3>2, <3>3
  <2> QED
    BY <2>5, <2>6
<1> QED
  BY <1>1, <1>2

(* What a step may add to the requests and to what the active may still    *)
(* take: as much as a start or a lost answer stands for.                   *)
LEMMA QuotaMoved ==
  ASSUME TypeInv, QuotaInv, [Next]_vars, NEW more \in Int,
         taken' + Cost(Cheap', Dear', ScopesCost) <= taken + Cost(Cheap, Dear, ScopesCost) + more,
         \/ starts' = starts /\ lost' = lost + more
         \/ starts' = starts + 1 /\ lost' = lost /\ more <= ScopesCost
  PROVE  QuotaInv'
<1>0. PICK c \in Nat : c = ScopesCost
  BY ScopesCostType DEF TypeInv, TypeOK
<1>1. /\ Cheap \in SUBSET Clients /\ Dear \in SUBSET Clients
      /\ Cheap' \in SUBSET Clients /\ Dear' \in SUBSET Clients
  BY DEF Cheap, Dear, Active
<1>2. Cost(Cheap, Dear, c) \in Nat /\ Cost(Cheap', Dear', c) \in Nat
  BY <1>1, CostShrinks
<1>3. starts \in Nat /\ lost \in Nat /\ taken \in Nat /\ taken' \in Nat /\ lost' \in Nat
  BY NextType DEF TypeInv, TypeOK, ClientTypeOK
<1>4. \A m \in Nat : m * c \in Nat /\ (m + 1) * c = m * c + c
  BY Products
<1>5. taken + Cost(Cheap, Dear, c) <= starts * c + lost
  BY <1>0 DEF QuotaInv
<1>6. taken' + Cost(Cheap', Dear', c) <= taken + Cost(Cheap, Dear, c) + more
  BY <1>0
<1>7. taken' + Cost(Cheap', Dear', c) <= starts * c + lost + more
  BY <1>2, <1>3, <1>4, <1>5, <1>6
<1>8. taken' + Cost(Cheap', Dear', c) <= starts' * c + lost'
  <2>1. CASE starts' = starts /\ lost' = lost + more
    BY <1>2, <1>3, <1>4, <1>7, <2>1
  <2>2. CASE starts' = starts + 1 /\ lost' = lost /\ more <= c
    BY <1>2, <1>3, <1>4, <1>7, <2>2
  <2> QED
    BY <1>0, <2>1, <2>2
<1> QED
  BY <1>0, <1>8, QuotaAgain

(* Steps without a request.                                                *)
LEMMA QuotaIdle ==
  ASSUME TypeInv, QuotaInv, [Next]_vars, Cheap' \subseteq Cheap, Dear' \subseteq Dear,
         UNCHANGED <<taken, starts, lost>>
  PROVE  QuotaInv'
<1>1. PICK c \in Nat : c = ScopesCost
  BY ScopesCostType DEF TypeInv, TypeOK
<1>2. Cheap \in SUBSET Clients /\ Dear \in SUBSET Clients
  BY DEF Cheap, Dear, Active
<1>3. /\ Cost(Cheap, Dear, c) \in Nat /\ Cost(Cheap', Dear', c) \in Nat
      /\ Cost(Cheap', Dear', c) <= Cost(Cheap, Dear, c)
  BY <1>2, CostShrinks
<1>4. taken \in Nat /\ lost \in Nat
  BY DEF TypeInv, TypeOK, ClientTypeOK
<1>5. taken' + Cost(Cheap', Dear', c) <= taken + Cost(Cheap, Dear, c) + 0
      /\ lost' = lost + 0
  BY <1>3, <1>4
<1> QED
  BY <1>1, <1>5, QuotaMoved

(* An instance that starts joins those that ask at most once more.         *)
LEMMA CostGrows ==
  ASSUME NEW cheap \in SUBSET Clients, NEW dear \in SUBSET Clients, NEW p \in Clients,
         NEW fewer \in SUBSET (cheap \cup {p}), NEW less \in SUBSET dear, NEW c \in Nat
  PROVE  Cost(fewer, less, c) <= Cost(cheap, dear, c) + 1
<1>1. Cost(fewer, less, c) <= Cost(cheap \cup {p}, dear, c)
      /\ Cost(fewer, less, c) \in Nat /\ Cost(cheap \cup {p}, dear, c) \in Nat
  BY CostShrinks
<1>2. Cost((cheap \cup {p}) \ {p}, dear, c) + 1 = Cost(cheap \cup {p}, dear, c)
  BY CostOfOne
<1>3. Cost((cheap \cup {p}) \ {p}, dear, c) <= Cost(cheap, dear, c)
      /\ Cost((cheap \cup {p}) \ {p}, dear, c) \in Nat /\ Cost(cheap, dear, c) \in Nat
  <2>1. (cheap \cup {p}) \ {p} \in SUBSET cheap
    OBVIOUS
  <2> QED
    BY <2>1, CostShrinks
<1> QED
  BY <1>1, <1>2, <1>3

(* What the actions do to these sets: most answers, and what fails.        *)
LEMMA QuotaAnswer ==
  ASSUME TypeInv, QuotaInv, [Next]_vars, NEW p \in Clients, Step(p), NEW cost \in Nat,
         Answer(p, cost), cost = 1 \/ (cost = ScopesCost /\ pc[p] \in {"scopes", "rescopes"}),
         UNCHANGED <<starts, lost>>
  PROVE  QuotaInv'
<1>1. p \in Cheap \cup Dear /\ (p \in Cheap => cost = 1)
  BY ActingIsActive DEF Answer, MaySend, Cheap, Dear
<1>2. cost <= ScopesCost /\ taken \in Nat /\ taken' \in Nat /\ lost \in Nat
  BY ScopesCostType, NextType DEF TypeInv, TypeOK, ClientTypeOK
<1>3. taken' <= taken + cost /\ (p \in low' \/ taken' = 0) /\ low \subseteq low'
  BY <1>2 DEF Answer, Take, Learn
<1>4. Active' \subseteq Active /\ \A q \in Clients \ {p} : pc'[q] = pc[q]
  BY ActingIsActive, OthersKept DEF Active
<1>5. cost <= 1 \/ p \in Dear
  BY <1>1
<1>6. p \in Cheap => cost <= 1
  BY <1>1
<1>7. p \in Dear => cost <= ScopesCost
  BY <1>2
<1>8. starts' = starts /\ lost' >= lost
  BY <1>2
<1> HIDE DEF Answer
<1> QED
  BY <1>1, <1>3, <1>4, <1>6, <1>7, <1>8, QuotaSpent

LEMMA QuotaLoss ==
  ASSUME TypeInv, QuotaInv, [Next]_vars, NEW p \in Clients, LoseCall(p)
  PROVE  QuotaInv'
<1> USE DEF GoTo
<1>0. PICK c \in Nat \ {0} : c = ScopesCost
  BY ScopesCostType DEF TypeInv, TypeOK
<1>1. p \in Active /\ p \notin low /\ low' = low /\ lost' = lost + 1 /\ starts' = starts
  BY ActingIsActive DEF LoseCall, LoseAnswer, LoseRefusal, MaySend, Give, Step
<1>2. Active' \subseteq Active /\ \A q \in Clients \ {p} : pc'[q] = pc[q]
  BY <1>1, OthersKept DEF Active, Step
<1>3. pc'[p] = AfterFailure(p)
  BY DEF LoseCall, Give, TypeInv, TypeOK
<1>4. AfterFailure(p) \notin {"scopes", "rescopes"}
  BY DEF AfterFailure, AfterScopes
<1>5. taken \in Nat /\ taken' \in Nat /\ CallCost(p) \in Nat /\ taken' <= taken + CallCost(p)
  <2>1. taken \in Nat /\ taken' \in Nat /\ CallCost(p) \in Nat
    BY NextType, CallCostType DEF TypeInv, TypeOK, ClientTypeOK
  <2>2. Take(CallCost(p)) \/ Exhaust(CallCost(p))
    BY DEF LoseCall, LoseAnswer, LoseRefusal
  <2> QED
    BY <2>1, <2>2, ClientAssumption DEF Take, Exhaust
<1>6. /\ Cheap \in SUBSET Clients /\ Dear \in SUBSET Clients
      /\ Cheap' \in SUBSET Clients /\ Dear' \in SUBSET Clients
  BY DEF Cheap, Dear, Active
<1>7. /\ Cost(Cheap, Dear, c) \in Nat /\ Cost(Cheap', Dear', c) \in Nat
  BY <1>6, CostShrinks
<1>8. CASE pc[p] \notin {"scopes", "rescopes"}
  <2>1. taken' <= taken + 1
    BY <1>5, <1>8 DEF CallCost
  <2>2. Cheap' \subseteq Cheap /\ Dear' \subseteq Dear
    BY <1>1, <1>2, <1>3, <1>4, <1>8 DEF Cheap, Dear, Active
  <2>3. Cost(Cheap', Dear', c) <= Cost(Cheap, Dear, c)
    BY <1>6, <2>2, CostShrinks
  <2>4. taken' + Cost(Cheap', Dear', c) <= taken + Cost(Cheap, Dear, c) + 1
    BY <1>5, <1>7, <2>1, <2>3
  <2> QED
    BY <1>0, <1>1, <2>4, QuotaMoved
<1>9. CASE pc[p] \in {"scopes", "rescopes"}
  <2>1. taken' <= taken + c
    BY <1>0, <1>5, <1>9 DEF CallCost
  <2>2. Cheap' \subseteq Cheap \cup {p} /\ Dear' \subseteq Dear \ {p} /\ p \in Dear
    BY <1>1, <1>2, <1>3, <1>4, <1>9 DEF Cheap, Dear, Active
  <2>3. Cost(Cheap', Dear', c) <= Cost(Cheap, Dear \ {p}, c) + 1
    BY <1>6, <2>2, CostGrows
  <2>4. Cost(Cheap, Dear \ {p}, c) + c = Cost(Cheap, Dear, c)
        /\ Cost(Cheap, Dear \ {p}, c) \in Nat
    BY <1>6, <2>2, CostOfOne, CostShrinks
  <2>5. taken' + Cost(Cheap', Dear', c) <= taken + Cost(Cheap, Dear, c) + 1
    BY <1>5, <1>7, <2>1, <2>3, <2>4
  <2> QED
    BY <1>0, <1>1, <2>5, QuotaMoved
<1> QED
  BY <1>8, <1>9

LEMMA QuotaStart ==
  ASSUME TypeInv, QuotaInv, [Next]_vars, NEW p \in Clients, Start(p)
  PROVE  QuotaInv'
<1>0. PICK c \in Nat \ {0} : c = ScopesCost
  BY ScopesCostType DEF TypeInv, TypeOK
<1>1. /\ pc'[p] \in {"discover", "next"} /\ low' = low \ {p} /\ UNCHANGED taken
      /\ starts' = starts + 1 /\ lost' = lost
  BY DEF Start, GoTo, NewClient, TypeInv, TypeOK
<1>2. Cheap' \subseteq Cheap \cup {p} /\ Dear' \subseteq Dear
  BY <1>1, OthersKept DEF Cheap, Dear, Active
<1>3. /\ Cheap \in SUBSET Clients /\ Dear \in SUBSET Clients
      /\ Cheap' \in SUBSET Clients /\ Dear' \in SUBSET Clients
  BY DEF Cheap, Dear, Active
<1>4. /\ Cost(Cheap, Dear, c) \in Nat /\ Cost(Cheap', Dear', c) \in Nat
      /\ Cost(Cheap', Dear', c) <= Cost(Cheap, Dear, c) + 1
  BY <1>2, <1>3, CostShrinks, CostGrows
<1>5. taken \in Nat
  BY DEF TypeInv, TypeOK, ClientTypeOK
<1>6. taken' + Cost(Cheap', Dear', c) <= taken + Cost(Cheap, Dear, c) + 1
  BY <1>1, <1>4, <1>5
<1> QED
  BY <1>0, <1>1, <1>6, QuotaMoved

LEMMA NextQuotaInv == TypeInv /\ QuotaInv /\ [Next]_vars => QuotaInv'
<1> SUFFICES ASSUME TypeInv, QuotaInv, [Next]_vars PROVE QuotaInv'
  OBVIOUS
<1> USE DEF GoTo, history
<1>0. TypeOK /\ config \in Configs
  BY DEF TypeInv, TypeOK
<1>1. ASSUME NEW p \in Clients, Crash(p) \/ NextRepo(p) \/ EndCleanup(p) PROVE QuotaInv'
  <2>1. Crash(p) \/ Step(p)
    BY <1>1 DEF Step
  <2>2. UNCHANGED <<client, starts, lost>> /\ pc'[p] \notin {"scopes", "rescopes"}
        /\ (pc[p] \notin {"scopes", "rescopes"} \/ pc'[p] = "off")
    BY <1>0, <1>1 DEF Crash, NextRepo, EndCleanup, TypeOK
  <2>3. Cheap' \subseteq Cheap /\ Dear' \subseteq Dear /\ UNCHANGED <<taken, starts, lost>>
    BY <2>1, <2>2, ActingIsActive, OthersKept DEF client, Cheap, Dear, Active
  <2> QED
    BY <2>3, QuotaIdle
<1>2. ASSUME NEW p \in Clients,
             \/ GetRepositories(p) \/ Check(p) \/ CleanupOldWebhooks(p) \/ DeleteWebhook(p)
             \/ FindWebhookByURL(p) \/ UpdateWebhook(p) \/ CreateWebhook(p)
      PROVE  QuotaInv'
  <2>1. Step(p)
    BY <1>2 DEF Step
  <2>2. Answer(p, 1) /\ UNCHANGED <<starts, lost>>
    BY <1>2
    DEF GetRepositories, Check, CleanupOldWebhooks, DeleteWebhook, FindWebhookByURL,
        UpdateWebhook, CreateWebhook
  <2> QED
    BY <2>1, <2>2, QuotaAnswer
<1>3. ASSUME NEW p \in Clients, HasScopeForWebhooks(p) PROVE QuotaInv'
  <2>1. Step(p) /\ ScopesCost \in Nat
    BY <1>0, <1>3, ScopesCostType DEF Step
  <2>2. Answer(p, ScopesCost) /\ UNCHANGED <<starts, lost>> /\ pc[p] \in {"scopes", "rescopes"}
    BY <1>3 DEF HasScopeForWebhooks
  <2> QED
    BY <2>1, <2>2, QuotaAnswer
<1>4. ASSUME NEW p \in Clients, FailCall(p) PROVE QuotaInv'
  <2>1. Step(p) /\ UNCHANGED <<starts, lost>>
    BY <1>4 DEF Step, FailCall, Give
  <2>2. CASE Answer(p, 1)
    BY <2>1, <2>2, QuotaAnswer
  <2>3. CASE ~ MaySend(p) /\ UNCHANGED client
    <3>1. UNCHANGED <<taken, low>> /\ p \in low
      BY <2>3 DEF client, MaySend
    <3>2. Cheap' \subseteq Cheap /\ Dear' \subseteq Dear
      BY <2>1, <3>1, OthersKept DEF Cheap, Dear, Active
    <3> QED
      BY <2>1, <3>1, <3>2, QuotaIdle
  <2>4. CASE MaySend(p) /\ Exhaust(CallCost(p)) /\ Learn(p)
    <3> DEFINE cost == CallCost(p)
    <3>1. /\ p \in Cheap \cup Dear /\ (p \in Cheap => cost = 1)
          /\ (p \in Dear => cost = ScopesCost)
      BY <2>1, <2>4, ActingIsActive DEF MaySend, Cheap, Dear, CallCost
    <3>2. cost \in Nat /\ cost <= ScopesCost /\ ScopesCost \in Nat
      BY <1>0, CallCostType, ScopesCostType
    <3>3. taken \in Nat /\ taken' \in Nat /\ lost \in Nat
      BY NextType DEF TypeInv, TypeOK, ClientTypeOK
    <3> HIDE DEF cost
    <3>4. taken' <= taken + cost /\ (p \in low' \/ taken' = 0) /\ low \subseteq low'
      BY <2>4, <3>2, <3>3, ClientAssumption DEF Exhaust, Learn, cost
    <3>5. Active' \subseteq Active /\ \A q \in Clients \ {p} : pc'[q] = pc[q]
      BY <2>1, ActingIsActive, OthersKept DEF Active
    <3>6. p \in Cheap => cost <= 1
      BY <3>1
    <3>7. p \in Dear => cost <= ScopesCost
      BY <3>2
    <3>8. starts' = starts /\ lost' >= lost
      BY <2>1, <3>3
    <3> QED
      BY <1>4, <3>1, <3>2, <3>4, <3>5, <3>6, <3>7, <3>8, QuotaSpent
  <2> QED
    BY <1>4, <2>2, <2>3, <2>4 DEF FailCall, Fail
<1>5. CASE Reset
  BY <1>5, QuotaAgain DEF Reset, ResetQuota
<1>6. CASE UNCHANGED vars \/ \E r \in Repos : CreateLate(r) \/ ChangeLate(r)
  <2>1. UNCHANGED <<taken, low, pc, starts, lost>>
    BY <1>6 DEF vars, CreateLate, ChangeLate, client
  <2>2. Cheap' \subseteq Cheap /\ Dear' \subseteq Dear
    BY <2>1 DEF Cheap, Dear, Active
  <2> QED
    BY <2>1, <2>2, QuotaIdle
<1> QED
  BY <1>1, <1>2, <1>3, <1>4, <1>5, <1>6, QuotaStart, QuotaLoss DEF Next, Step

LEMMA QuotaInvariance == Spec => []QuotaInv
<1>1. Init(Configs, Seq(Hooks \ {"gone"})) => QuotaInv
  <2> SUFFICES ASSUME Init(Configs, Seq(Hooks \ {"gone"})) PROVE QuotaInv
    OBVIOUS
  <2>1. PICK c \in Nat \ {0} : c = ScopesCost
    BY ScopesCostType DEF Init
  <2>2. Active = {} /\ Cheap = {} /\ Dear = {} /\ Cardinality({}) = 0
    BY FS_EmptySet DEF Init, Active, Cheap, Dear
  <2>3. Cost({}, {}, c) = 0 /\ 0 * c = 0
    BY <2>2 DEF Cost
  <2> QED
    BY <2>1, <2>2, <2>3 DEF Init, ClientInit, QuotaInv
<1> QED
  BY <1>1, NextQuotaInv, TypeInvariance, PTL DEF Spec

(* However many clients use the token, what they take from the reserve is  *)
(* bounded by their starts and the answers that were lost (ReserveKept).   *)
THEOREM ReserveIsKept == Spec => []ReserveKept
<1>1. ASSUME TypeInv, QuotaInv PROVE ReserveKept
  <2>1. PICK c \in Nat \ {0} : c = ScopesCost
    BY <1>1, ScopesCostType DEF TypeInv, TypeOK
  <2>2. Cost(Cheap, Dear, c) \in Nat
    BY CostShrinks DEF Cheap, Dear, Active
  <2>3. taken \in Nat /\ starts \in Nat /\ lost \in Nat
    BY <1>1 DEF TypeInv, TypeOK, ClientTypeOK
  <2>4. \A m \in Nat : m * c \in Nat
    BY Products
  <2>5. taken <= starts * c + lost
    BY <1>1, <2>1, <2>2, <2>3, <2>4 DEF QuotaInv
  <2> QED
    BY <2>1, <2>5 DEF ReserveKept
<1> QED
  BY <1>1, TypeInvariance, QuotaInvariance, PTL
===============================================================================
