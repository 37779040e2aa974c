----------------------------- MODULE MCRuntimes -----------------------------
(***************************************************************************)
(* An instance of Runtimes for TLC.  On the Docker host the runner image,  *)
(* which is too old, may be joined by an older and a newer final image and *)
(* an old intermediate one; the cluster has nodes of one architecture.     *)
(***************************************************************************)
EXTENDS Runtimes

CONSTANTS runnerImage, oldImage, newImage, layer

MCCreated == [i \in Images |->
  CASE i = oldImage    -> 1
    [] i = layer       -> 2
    [] i = runnerImage -> 3
    [] i = newImage    -> 4]
=============================================================================
