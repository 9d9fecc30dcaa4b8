---------------------------- MODULE MCStageRunner ----------------------------
(* Instances of StageRunner for TLC. *)
EXTENDS StageRunner

CONSTANTS e1, e2

TwoExecutors == {e1, e2}
=============================================================================
