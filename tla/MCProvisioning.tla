---------------------------- MODULE MCProvisioning ----------------------------
(***************************************************************************)
(* An instance of Provisioning for TLC: an owner on an amd64 host with one *)
(* repository, a run a with jobs ja and jc that need a label of their own, *)
(* and a run b with a job jb for another architecture, which events and    *)
(* the workflow monitor ask runners for all the same.                      *)
(***************************************************************************)
EXTENDS Provisioning

CONSTANTS a, b, ja, jb, jc, r1, sh, x64, amd64, arm64, aarch64, gpu

MCRunOf  == [j \in Jobs |-> IF j = jb THEN b ELSE a]
MCRepoOf == [u \in RunIds |-> r1]

MCLabelsOf == [j \in Jobs |->
  IF j = jb THEN {sh, arm64} ELSE {sh, x64, gpu}]
===============================================================================
