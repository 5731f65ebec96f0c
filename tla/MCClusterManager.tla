-------------------------- MODULE MCClusterManager --------------------------
(***************************************************************************)
(* Instances of ClusterManager for TLC.                                     *)
(***************************************************************************)
EXTENDS ClusterManager, TLC

CONSTANTS l, a, b

MCNode == {l, a, b}
Joiners == Permutations({a, b})
=============================================================================
