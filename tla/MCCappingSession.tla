--------------------------- MODULE MCCappingSession ---------------------------
(* Instances of CappingSession for TLC. *)
EXTENDS CappingSession

TwoCaps == <<22, 35>>
=============================================================================
