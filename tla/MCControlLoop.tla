---------------------------- MODULE MCControlLoop ----------------------------
(* Instances of ControlLoop for TLC. *)
EXTENDS ControlLoop

Row(t, v) == [time |-> t, value |-> v]

\* Two rows, one second apart; and rows of half a second.
WholeSeconds == <<Row(0, 1), Row(2, 2)>>
HalfSeconds  == <<Row(0, 1), Row(1, 2)>>
=============================================================================
