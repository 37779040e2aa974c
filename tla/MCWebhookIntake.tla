--------------------------- MODULE MCWebhookIntake ---------------------------
(***************************************************************************)
(* An instance of WebhookIntake for TLC.  Run a is queued, announces a     *)
(* job, starts and completes in repository r1; the push pb to r2 has a     *)
(* wrong signature.  No run is run again here: with a second attempt the   *)
(* states are too many.                                                    *)
(***************************************************************************)
EXTENDS WebhookIntake

CONSTANTS a, b, r1, r2, qa, ja, ia, ca, pb

MCRepoOf    == [r \in Runs |-> IF r = a THEN r1 ELSE r2]
MCRunOf     == [e \in Events |-> IF e = pb THEN b ELSE a]
MCAttemptOf == [e \in Events |-> 1]
MCActionOf  == [e \in Events |->
  CASE e = qa -> "queued"
    [] e = ia -> "in_progress"
    [] e = ca -> "completed"
    [] e = ja -> "job"
    [] e = pb -> "push"]
==============================================================================
