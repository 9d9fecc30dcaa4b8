------------------------------ MODULE MCStressor ------------------------------
(* Instances of Stressor for TLC. *)
EXTENDS Stressor

Line(op, arg) == [op |-> op, arg |-> arg]

\* With DutyDen = 4 and TicksPerSec = 16: full load, none, and a period of zero make a
\* duration zero; the longest lasts a second.
Lines == {Line("duty", 0), Line("duty", 1), Line("duty", 4), Line("period", 0),
          Line("period", 4), Line("quit", 0), Line("other", 0), Line("eof", 0)}
=============================================================================
