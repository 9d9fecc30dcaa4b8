------------------------ MODULE MCSignalInsertDelays ------------------------
(* Instances of SignalInsertDelays for TLC. *)
EXTENDS SignalInsertDelaysProperties

Line(op, arg) == [op |-> op, arg |-> arg]

NoLines == {}

\* With DutyDen = 2, TicksPerSec = 2 and a period of 1, the durations of a duty cycle
\* of 1/2 are half a second each; at 0 and at 1 one is zero and the other a second.
Extremes == {Line("duty", 0), Line("duty", 2)}

\* Beyond the ends, where set_duty and set_period clip; the update timer switched
\* off; q, a line that means nothing, the end of the input.
AllLines == {Line("duty", -1), Line("duty", 3), Line("period", -1),
             Line("interval", 0), Line("quit", 0), Line("other", 0),
             Line("eof", 0)}

\* Bound: the lines that change durations are followed while no process starts or
\* ends and no update runs, and a line of another kind while no duration has changed.
LineSeen == \/ duty # InitDuty \/ period # InitPeriod
            \/ aio.op # "reading" \/ pc["sigaio"] # "idle"
LinesApart ==
  /\ LineSeen => churn = 0 /\ "sigupdate" \notin pend /\ pc["sigupdate"] = "idle"
  /\ aio.op \notin {"reading", "duty", "period"} => duty = InitDuty /\ period = InitPeriod
=============================================================================
