---------------------------- MODULE WebhookSetup ----------------------------
(***************************************************************************)
(* The set-up of the webhooks of one owner when an instance of the program *)
(* starts (setupWebhooks of cmd/autoscaler/main.go and                     *)
(* internal/webhook/manager.go).  Instances overlap when the deployment is *)
(* rolled out or scaled, and may crash and start again.  GitHub, which     *)
(* keeps the hooks, is external; it may refuse, fail or lose any call and  *)
(* perform a request whose caller has given up.  The owner has a webhook   *)
(* secret, and the hooks of an earlier configuration may have another one. *)
(***************************************************************************)
EXTENDS GitHubClient, Sequences

CONSTANTS
  Repos,      \* the owner's repositories that GetRepositories lists
  NoRepo,     \* no repository
  RepoName,   \* the one to set up if not AllRepos
  Unguarded,  \* requests of inferFineGrainedPermissions: 3
  MaxStarts,  \* bound on the starts of instances
  MaxLost     \* bound on the answers that are lost

ASSUME SetupAssumption ==
  /\ RepoName \in Repos /\ NoRepo \notin Repos
  /\ Unguarded \in Nat /\ MaxStarts \in Nat /\ MaxLost \in Nat

VARIABLES
  config,   \* AllRepos, CleanupOldWebhooks and whether the token is classic
  hooks,    \* [Repos -> Seq], the repository's hooks in the order they were made
  late,     \* [Repos -> Nat], creations to come whose caller has given up
  stray,    \* [Repos -> SUBSET (Nat \X Hooks)], changes to come of such callers
  pc,       \* [Clients -> STRING], where an instance is
  todo,     \* [Clients -> SUBSET Repos], repositories to come
  repo,     \* [Clients -> Repos or NoRepo], the repository at hand
  doomed,   \* [Clients -> SUBSET Nat], hooks that CleanupOldWebhooks has to delete
  found,    \* [Clients -> Nat], existingHook
  clean,    \* [Clients -> BOOLEAN], no call failed for the repository at hand
  served,   \* [Clients -> SUBSET Repos], successes, but those skipped
  tidy,     \* [Clients -> SUBSET Repos], successes without a failed call
  overlap,  \* [Clients -> BOOLEAN], another instance was setting up meanwhile
  starts,   \* instances started so far
  lost      \* answers lost so far

run     == <<todo, repo, doomed, found, clean, served, tidy>>
history == <<overlap, starts, lost>>
coming  == <<late, stray>>
vars    == <<client, config, hooks, coming, pc, run, history>>

(* Hooks: deleted, with another URL, with ours but not active or with      *)
(* other events, and active with our events, with no secret, that of an    *)
(* earlier configuration, or the owner's.                                  *)
Hooks      == {"gone", "other", "bad", "unset", "stale", "good"}
Accepted   == {"unset", "stale", "good"}
OurKinds   == {"bad"} \cup Accepted
Ours(r)    == {i \in DOMAIN hooks[r] : hooks[r][i] \in OurKinds}
Present(r) == {i \in DOMAIN hooks[r] : hooks[r][i] # "gone"}
First(set) == CHOOSE i \in set : \A j \in set : i <= j

Configs == [AllRepos : BOOLEAN, CleanupOldWebhooks : BOOLEAN, classic : BOOLEAN]

Calls  == {"discover", "workflows", "content", "lastContent", "permissions", "scopes",
           "cleanup", "delete", "find", "rescopes", "update", "create"}
Active == {p \in Clients : pc[p] \notin {"off", "done"}}

Init(configs, initialHooks) ==
  /\ ClientInit
  /\ config \in configs
  /\ hooks \in [Repos -> initialHooks] /\ late = [r \in Repos |-> 0]
  /\ stray = [r \in Repos |-> {}]
  /\ pc = [p \in Clients |-> "off"] /\ todo = [p \in Clients |-> {}]
  /\ repo = [p \in Clients |-> NoRepo] /\ doomed = [p \in Clients |-> {}]
  /\ found = [p \in Clients |-> 0] /\ clean = [p \in Clients |-> TRUE]
  /\ served = [p \in Clients |-> {}] /\ tidy = [p \in Clients |-> {}]
  /\ overlap = [p \in Clients |-> FALSE] /\ starts = 0 /\ lost = 0
------------------------------------------------------------------------------
GoTo(p, point) == pc' = [pc EXCEPT ![p] = point]

(* The variables of one set-up, as they are between repositories.          *)
Forget(p) ==
  /\ repo' = [repo EXCEPT ![p] = NoRepo] /\ doomed' = [doomed EXCEPT ![p] = {}]
  /\ found' = [found EXCEPT ![p] = 0] /\ clean' = [clean EXCEPT ![p] = TRUE]

(* AutoSetupWebhookForOwner, with a client of its own.                     *)
Start(p) ==
  /\ pc[p] \in {"off", "done"} /\ starts < MaxStarts
  /\ starts' = starts + 1
  /\ NewClient(p)
  /\ GoTo(p, IF config.AllRepos THEN "discover" ELSE "next")
  /\ todo' = [todo EXCEPT ![p] = IF config.AllRepos THEN {} ELSE {RepoName}]
  /\ Forget(p)
  /\ served' = [served EXCEPT ![p] = {}] /\ tidy' = [tidy EXCEPT ![p] = {}]
  /\ overlap' = [q \in Clients |->
       IF q = p THEN Active # {} \/ \E r \in Repos : late[r] > 0
       ELSE overlap[q] \/ q \in Active]
  /\ UNCHANGED <<config, hooks, coming, lost>>

(* The instance stops.  If a request is on its way, it has lost the answer *)
(* first (LoseCall).                                                       *)
Crash(p) ==
  /\ p \in Active
  /\ GoTo(p, "off")
  /\ todo' = [todo EXCEPT ![p] = {}] /\ Forget(p)
  /\ UNCHANGED <<client, config, hooks, coming, served, tidy, history>>

(* Mutant: the repository at hand stays on the list.                       *)
NextRepoStaying(p) ==
  /\ pc[p] = "next"
  /\ \E r \in todo[p] : repo' = [repo EXCEPT ![p] = r] /\ GoTo(p, "workflows")
  /\ UNCHANGED <<client, config, hooks, coming, todo, doomed, found, clean, served,
                 tidy, history>>

(* Only the order of the repositories is left open.                        *)
NextRepo(p) ==
  /\ pc[p] = "next"
  /\ \/ /\ todo[p] = {} /\ GoTo(p, "done")
        /\ Forget(p) /\ UNCHANGED todo
     \/ \E r \in todo[p] :
          /\ repo' = [repo EXCEPT ![p] = r]
          /\ todo' = [todo EXCEPT ![p] = @ \ {r}]
          /\ found' = [found EXCEPT ![p] = 0] /\ clean' = [clean EXCEPT ![p] = TRUE]
          /\ GoTo(p, "workflows")
          /\ UNCHANGED doomed
  /\ UNCHANGED <<client, config, hooks, coming, served, tidy, history>>

GetRepositories(p) ==
  /\ pc[p] = "discover"
  /\ Answer(p, 1)
  /\ todo' = [todo EXCEPT ![p] = Repos]
  /\ GoTo(p, "next")
  /\ UNCHANGED <<config, hooks, coming, repo, doomed, found, clean, served, tidy, history>>

(* HasSelfHostedRunners lists the workflows and reads one or two of them,  *)
(* until it finds a self-hosted job, then CanManageWebhooks asks for the   *)
(* permissions.                                                            *)
CanManageWebhooks == <<"permissions", "scopes">>
Checks == {"workflows"} \X {"content", "lastContent"}
            \cup {<<"content", "lastContent">>, <<"content", "permissions">>}
            \cup {<<"lastContent", "permissions">>, CanManageWebhooks}

(* Each may say no, which ends the repository unless a workflow is left.   *)
Check(p) ==
  /\ \E step \in Checks :
       /\ pc[p] = step[1]
       /\ GoTo(p, step[2]) \/ (pc[p] # "content" /\ GoTo(p, "next"))
  /\ Answer(p, 1)
  /\ UNCHANGED <<config, hooks, coming, run, history>>

AfterScopes(p) ==
  IF pc[p] = "rescopes" THEN "create"
  ELSE IF config.CleanupOldWebhooks THEN "cleanup" ELSE "find"

(* At most: the request for the user, the last one, is checked again.      *)
ScopesCost == IF config.classic THEN 1 ELSE Unguarded + 1

(* Whatever it finds out, the set-up goes on.  The requests that infer the *)
(* permissions of a token without scopes are not checked and not counted.  *)
HasScopeForWebhooks(p) ==
  /\ pc[p] \in {"scopes", "rescopes"}
  /\ Answer(p, ScopesCost)
  /\ GoTo(p, AfterScopes(p))
  /\ UNCHANGED <<config, hooks, coming, run, history>>
------------------------------------------------------------------------------
(* Mutants: duplicates stay; all hooks go.                                 *)
OtherUrls(r) == Present(r) \ Ours(r)
AllHooks(r)  == Present(r)

(* All hooks but the first with our URL.                                   *)
Superfluous(r) == Present(r) \ (IF Ours(r) = {} THEN {} ELSE {First(Ours(r))})

CleanupOldWebhooks(p) ==
  /\ pc[p] = "cleanup"
  /\ Answer(p, 1)
  /\ doomed' = [doomed EXCEPT ![p] = Superfluous(repo[p])]
  /\ GoTo(p, "delete")
  /\ UNCHANGED <<config, hooks, coming, todo, repo, found, clean, served, tidy, history>>

(* Deleting one that another instance has deleted fails.                   *)
DeleteWebhook(p) ==
  /\ pc[p] = "delete" /\ doomed[p] # {}
  /\ LET i == First(doomed[p])
     IN  /\ i \in Present(repo[p])
         /\ hooks' = [hooks EXCEPT ![repo[p]][i] = "gone"]
         /\ doomed' = [doomed EXCEPT ![p] = @ \ {i}]
  /\ Answer(p, 1)
  /\ UNCHANGED <<config, coming, pc, todo, repo, found, clean, served, tidy, history>>

EndCleanup(p) ==
  /\ pc[p] = "delete" /\ doomed[p] = {}
  /\ GoTo(p, "find")
  /\ UNCHANGED <<client, config, hooks, coming, run, history>>

Succeed(p) ==
  /\ served' = [served EXCEPT ![p] = @ \cup {repo[p]}]
  /\ tidy' = [tidy EXCEPT ![p] = IF clean[p] THEN @ \cup {repo[p]} ELSE @]
  /\ GoTo(p, "next")

(* Mutant: any hook with our URL will do.                                  *)
ConfiguredIfOurs(r, i) == TRUE

(* eventsMatch, secretMatch and existingHook.Active.  GitHub shows a       *)
(* secret as asterisks, and none as such, and secretMatch accepts both.    *)
Configured(r, i) == hooks[r][i] \in Accepted

FindWebhookByURL(p) ==
  /\ pc[p] = "find"
  /\ Answer(p, 1)
  /\ LET r == repo[p]
     IN  IF Ours(r) = {} THEN GoTo(p, "rescopes") /\ UNCHANGED <<found, served, tidy>>
         ELSE LET i == First(Ours(r))
              IN  IF Configured(r, i) THEN Succeed(p) /\ UNCHANGED found
                  ELSE /\ found' = [found EXCEPT ![p] = i]
                       /\ GoTo(p, "update")
                       /\ UNCHANGED <<served, tidy>>
  /\ UNCHANGED <<config, hooks, coming, todo, repo, doomed, clean, history>>

UpdateWebhook(p) ==
  /\ pc[p] = "update"
  /\ found[p] \in Present(repo[p])
  /\ Answer(p, 1)
  /\ hooks' = [hooks EXCEPT ![repo[p]][found[p]] = "good"]
  /\ Succeed(p)
  /\ UNCHANGED <<config, coming, todo, repo, doomed, found, clean, history>>

CreateWebhook(p) ==
  /\ pc[p] = "create"
  /\ Answer(p, 1)
  /\ hooks' = [hooks EXCEPT ![repo[p]] = Append(@, "good")]
  /\ Succeed(p)
  /\ UNCHANGED <<config, coming, todo, repo, doomed, found, clean, history>>

(* GitHub performs a creation whose caller has given up.                   *)
CreateLate(r) ==
  /\ late[r] > 0
  /\ late' = [late EXCEPT ![r] = @ - 1]
  /\ hooks' = [hooks EXCEPT ![r] = Append(@, "good")]
  /\ UNCHANGED <<client, config, stray, pc, run, history>>

(* And an update or a deletion, if the hook is still there.                *)
ChangeLate(r) ==
  /\ \E change \in stray[r] :
       /\ stray' = [stray EXCEPT ![r] = @ \ {change}]
       /\ hooks' = IF change[1] \in Present(r)
                   THEN [hooks EXCEPT ![r][change[1]] = change[2]] ELSE hooks
  /\ UNCHANGED <<client, config, late, pc, run, history>>
------------------------------------------------------------------------------
(* Where a failed call leads: the set-up of the owner ends, the repository *)
(* is given up, or the failure is only logged, and another file is read.   *)
AfterFailure(p) ==
  CASE pc[p] = "discover"               -> "done"
    [] pc[p] \in {"scopes", "rescopes"} -> AfterScopes(p)
    [] pc[p] = "content"                -> "lastContent"
    [] pc[p] = "cleanup"                -> "find"
    [] pc[p] = "delete"                 -> "delete"
    [] OTHER                            -> "next"

(* Mutant: a hook that could not be deleted is tried again.                *)
GiveNoDeletion(p) ==
  /\ GoTo(p, AfterFailure(p))
  /\ clean' = [clean EXCEPT ![p] = FALSE]
  /\ UNCHANGED <<config, todo, repo, doomed, found, served, tidy, overlap, starts>>

Give(p) ==
  /\ GoTo(p, AfterFailure(p))
  /\ clean' = [clean EXCEPT ![p] = FALSE]
  /\ doomed' = [doomed EXCEPT ![p] = IF pc[p] = "delete" THEN @ \ {First(@)} ELSE @]
  /\ UNCHANGED <<config, todo, repo, found, served, tidy, overlap, starts>>

Calling(p) == pc[p] \in Calls /\ (pc[p] = "delete" => doomed[p] # {})

CallCost(p) == IF pc[p] \in {"scopes", "rescopes"} THEN ScopesCost ELSE 1

FailCall(p) ==
  /\ Calling(p)
  /\ Fail(p, CallCost(p))
  /\ Give(p)
  /\ UNCHANGED <<hooks, coming, lost>>

(* What GitHub may still do for a caller that has given up.                *)
Underway(p) ==
  \/ UNCHANGED coming
  \/ /\ pc[p] = "create" /\ late' = [late EXCEPT ![repo[p]] = @ + 1]
     /\ UNCHANGED stray
  \/ /\ pc[p] = "update"
     /\ stray' = [stray EXCEPT ![repo[p]] = @ \cup {<<found[p], "good">>}]
     /\ UNCHANGED late
  \/ /\ pc[p] = "delete"
     /\ stray' = [stray EXCEPT ![repo[p]] = @ \cup {<<First(doomed[p]), "gone">>}]
     /\ UNCHANGED late

(* A request whose answer is lost is performed, now or later, or never.    *)
LoseCall(p) ==
  /\ Calling(p) /\ lost < MaxLost
  /\ lost' = lost + 1
  /\ \/ LoseAnswer(p, CallCost(p)) /\ Underway(p)
     \/ LoseRefusal(p, CallCost(p)) /\ UNCHANGED coming
  /\ Give(p)
  /\ UNCHANGED hooks
------------------------------------------------------------------------------
Step(p) ==
  \/ NextRepo(p) \/ GetRepositories(p) \/ Check(p) \/ HasScopeForWebhooks(p)
  \/ CleanupOldWebhooks(p) \/ DeleteWebhook(p) \/ EndCleanup(p)
  \/ FindWebhookByURL(p) \/ UpdateWebhook(p) \/ CreateWebhook(p)
  \/ FailCall(p) \/ LoseCall(p)

Reset == ResetQuota /\ UNCHANGED <<config, hooks, coming, pc, run, history>>

Next ==
  \/ \E p \in Clients : Start(p) \/ Crash(p) \/ Step(p)
  \/ \E r \in Repos : CreateLate(r) \/ ChangeLate(r)
  \/ Reset

(* Whatever the configuration and the hooks that the repositories have.    *)
Spec == Init(Configs, Seq(Hooks \ {"gone"})) /\ [][Next]_vars

(* Every instance goes on until it crashes.                                *)
Fairness == \A p \in Clients : WF_vars(Step(p))
------------------------------------------------------------------------------
TypeOK ==
  /\ ClientTypeOK /\ config \in Configs
  /\ hooks \in [Repos -> Seq(Hooks)] /\ late \in [Repos -> Nat]
  /\ stray \in [Repos -> SUBSET (Nat \X {"good", "gone"})]
  /\ \A r \in Repos : \A change \in stray[r] : change[1] \in DOMAIN hooks[r]
  /\ pc \in [Clients -> Calls \cup {"off", "next", "done"}]
  /\ todo \in [Clients -> SUBSET Repos] /\ repo \in [Clients -> Repos \cup {NoRepo}]
  /\ doomed \in [Clients -> SUBSET Nat] /\ found \in [Clients -> Nat]
  /\ served \in [Clients -> SUBSET Repos] /\ tidy \in [Clients -> SUBSET Repos]
  /\ \A p \in Clients :
       /\ repo[p] = NoRepo => pc[p] \in {"off", "discover", "next", "done"}
       /\ pc[p] = "delete" => doomed[p] \subseteq DOMAIN hooks[repo[p]]
       /\ pc[p] = "update" => found[p] \in DOMAIN hooks[repo[p]]
       /\ tidy[p] \subseteq served[p] /\ served[p] \subseteq Repos \ todo[p]
  /\ clean \in [Clients -> BOOLEAN] /\ overlap \in [Clients -> BOOLEAN]
  /\ starts \in 0..MaxStarts /\ lost \in 0..MaxLost

(* A repository that an instance counts as a success has a hook, and the   *)
(* one that all instances take for theirs is active with the configured    *)
(* events, even if others clean up, update and create hooks at the same    *)
(* time.  Of its secret EnsureWebhook makes sure only when it writes it.   *)
SuccessMeansHook ==
  \A p \in Clients : \A r \in served[p] :
    Ours(r) # {} /\ hooks[r][First(Ours(r))] \in Accepted

(* "Updates existing webhooks if configuration changes" (README.md:98):    *)
(* after a success the hook also has the secret of the configuration, so   *)
(* that HandleWebhook takes the signature of its deliveries.               *)
UpdatedIfChanged ==
  \A p \in Clients : \A r \in served[p] : hooks[r][First(Ours(r))] = "good"

(* The cleanup leaves one hook, and the check before the creation does not *)
(* make a second one, if no call for the repository failed and no other    *)
(* instance or creation of one that crashed interferes.                    *)
OneHook ==
  \A p \in Clients : \A r \in tidy[p] :
    config.CleanupOldWebhooks /\ ~overlap[p] =>
      Present(r) = Ours(r) /\ \A i, j \in Ours(r) : i = j

(* A repository that has a hook of ours is never left without one,         *)
(* although instances delete what they take for duplicates from lists that *)
(* others have made stale.                                                 *)
HookNeverLost == [][\A r \in Repos : Ours(r) # {} => Ours(r)' # {}]_vars

(* The clients of a token do not know of each other's requests, and a new  *)
(* one knows nothing, but all of them together leave the reserve alone but *)
(* for one request, or one check of the scopes, each, and for the requests *)
(* whose answers are lost.                                                 *)
ReserveKept ==
  taken <= starts * ScopesCost + lost

(* Every set-up ends, whatever is refused, fails or has to wait.           *)
SetupsEnd == \A p \in Clients : pc[p] \in Calls ~> pc[p] \in {"off", "done"}
=============================================================================
