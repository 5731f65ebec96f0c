----------------------------- MODULE MCDeployment -----------------------------
(***************************************************************************)
(* Instances of Deployment for TLC.                                         *)
(***************************************************************************)
EXTENDS Deployment, TLC

CONSTANTS l, a, b, e1, e2

TwoNodes == {l, a}
ThreeNodes == {l, a, b}
OneEmul == {e1}
TwoEmuls == {e1, e2}
=============================================================================
