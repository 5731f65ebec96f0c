----------------------------- MODULE MCStartSync -----------------------------
(***************************************************************************)
(* StartSync for TLC: three hosts; a round of slow messages takes longer    *)
(* than the first proposal allows, so that the leader has to propose anew.  *)
(* For EndsTogether messages and the first begin time are shorter: two more *)
(* proposals may be needed, and the validation may still come too late.     *)
(***************************************************************************)
EXTENDS StartSync

=============================================================================
