--------------------------- MODULE MCWebhookSetup ---------------------------
(***************************************************************************)
(* An instance of WebhookSetup for TLC: a repository starts with a hook of *)
(* another service only, with a hook of ours whose secret is another one,  *)
(* or with a bad hook of ours and a duplicate without a secret.  All       *)
(* repositories of an owner are set up with a classic token, with the      *)
(* cleanup or without, a single one with a fine-grained token and the      *)
(* cleanup.                                                                *)
(***************************************************************************)
EXTENDS WebhookSetup

MCConfigs == {c \in Configs : c.AllRepos = c.classic /\ (c.AllRepos \/ c.CleanupOldWebhooks)}
MCHooks   == {<<"other">>, <<"stale">>, <<"bad", "unset">>}

MCSpec == Init(MCConfigs, MCHooks) /\ [][Next]_vars /\ Fairness
=============================================================================
