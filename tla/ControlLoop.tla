----------------------------- MODULE ControlLoop -----------------------------
(***************************************************************************)
(* The closed loop of the experiments: a pipeline of three                 *)
(* (src/utilities/integralController/closed_loop/signal_insert_delays.sh): *)
(*   (power gadget & playback & workload; kill both; echo q)               *)
(*     | (integralController; sleep 1; echo q) | insertDelays              *)
(* The limiter is here as a reader: one read takes what is in the pipe,    *)
(* only the first line is obeyed (signal_insert_delays.c:292-324).         *)
(***************************************************************************)
EXTENDS Playback, IntegralController

CONSTANTS
  Inputs,       \* the powers that the gadget may print
  MaxSamples,   \* bound: lines of the gadget
  Patient       \* sleep 1 lasts until the limiter has read what came before

ASSUME LoopAssumption ==
  Inputs \subseteq Nat /\ MaxSamples \in Nat /\ Patient \in BOOLEAN

VARIABLES
  samples, gadget,   \* lines printed so far; whether it runs
  runner,            \* the first subshell: "works", "kills", "quits", "done"
  controller,        \* "select", "read", "compute", "write", "exited"
  shell,             \* the second subshell: "waits", "done"
  toLimiter,         \* the pipe to the limiter
  limiter,           \* "reads", "deaf" after an end of file, "exited"
  duty,
  announced          \* history: the last set-point printed

sourceVars == <<samples, gadget, runner>>
sinkVars   == <<shell, limiter, duty>>
loopVars   == <<sourceVars, controller, sinkVars, toLimiter>>
vars == <<clock, playbackVars, toController, ControllerVars, loopVars, announced>>

Quit     == [cmd |-> "q", arg |-> 0]
Input(v) == [cmd |-> "input", arg |-> v]
Duty(v)  == [cmd |-> "duty", arg |-> v]

Room(pipe) == Len(pipe) < PipeSize

-----------------------------------------------------------------------------
(* The first subshell *)

sample ==
  /\ gadget /\ samples < MaxSamples /\ Room(toController)
  /\ \E v \in Inputs : toController' = Append(toController, Input(v))
  /\ samples' = samples + 1
  /\ UNCHANGED <<clock, playbackVars, ControllerVars, gadget, runner, controller,
                 sinkVars, toLimiter, announced>>

play ==
  /\ handler
  /\ announced' = IF value = <<>> THEN announced ELSE value[1]
  /\ UNCHANGED <<ControllerVars, loopVars>>

workload_ends ==
  /\ runner = "works" /\ runner' = "kills"
  /\ UNCHANGED <<clock, playbackVars, toController, ControllerVars, samples, gadget,
                 controller, sinkVars, toLimiter, announced>>

kill ==
  /\ runner = "kills" /\ runner' = "quits"
  /\ sigint_handler /\ gadget' = FALSE
  /\ UNCHANGED <<clock, toController, ControllerVars, samples, controller, sinkVars,
                 toLimiter, announced>>

\* Seeded fault: the script ends without a word.
NoFarewell == <<>>
Farewell == <<Quit>>

\* The last writer closes the pipe.
echo_q ==
  /\ runner = "quits" /\ Room(toController) /\ runner' = "done"
  /\ toController' = toController \o Farewell
  /\ UNCHANGED <<clock, playbackVars, ControllerVars, samples, gadget, controller,
                 sinkVars, toLimiter, announced>>

-----------------------------------------------------------------------------
(* The controller *)

checkStdin ==
  /\ controller = "select"
  /\ controller' = IF toController # <<>> \/ runner = "done" THEN "read" ELSE "compute"
  /\ UNCHANGED <<clock, playbackVars, toController, ControllerVars, sourceVars,
                 sinkVars, toLimiter, announced>>

\* Seeded fault: of several lines the first is kept.
Dropped(lines) == <<>>
ReadAhead(lines) == Tail(lines)

\* readLine and the commands; at the end of the file there is no line.
readLine ==
  /\ controller = "read"
  /\ LET lines == IF buffer # <<>> THEN buffer ELSE toController IN
     /\ IF lines = <<>> \/ Head(lines) = Quit
        THEN UNCHANGED <<setpoint, input>> ELSE Obey(Head(lines))
     /\ buffer' = IF lines = <<>> THEN <<>> ELSE ReadAhead(lines)
     /\ toController' = IF buffer # <<>> THEN toController ELSE <<>>
     /\ controller' = IF lines # <<>> /\ Head(lines) = Quit THEN "exited" ELSE "compute"
  /\ UNCHANGED <<clock, playbackVars, josiahVersion, numberVars, sourceVars, sinkVars,
                 toLimiter, announced>>

compute ==
  /\ controller = "compute" /\ controller' = "write"
  /\ \E dt \in Deltas \cup FirstDeltas : Compute(dt)
  /\ UNCHANGED <<clock, playbackVars, toController, sourceVars, sinkVars, toLimiter,
                 announced>>

write ==
  /\ controller = "write" /\ controller' = "select" /\ Room(toLimiter)
  /\ toLimiter' = Append(toLimiter, Duty(newOutput))
  /\ UNCHANGED <<clock, playbackVars, toController, ControllerVars, sourceVars,
                 sinkVars, announced>>

-----------------------------------------------------------------------------
(* The second subshell and the limiter *)

last_q ==
  /\ controller = "exited" /\ shell = "waits" /\ Room(toLimiter)
  /\ Patient => toLimiter = <<>>
  /\ shell' = "done" /\ toLimiter' = Append(toLimiter, Quit)
  /\ UNCHANGED <<clock, playbackVars, toController, ControllerVars, sourceVars,
                 controller, limiter, duty, announced>>

sigaio_handler ==
  /\ limiter = "reads"
  /\ toLimiter # <<>> \/ shell = "done"
  /\ toLimiter' = <<>>
  /\ limiter' = IF toLimiter = <<>> THEN "deaf"
                ELSE IF Head(toLimiter) = Quit THEN "exited" ELSE "reads"
  /\ duty' = IF toLimiter # <<>> /\ Head(toLimiter) # Quit
               THEN Head(toLimiter).arg ELSE duty
  /\ UNCHANGED <<clock, playbackVars, toController, ControllerVars, sourceVars,
                 controller, shell, announced>>

pass_time ==
  tick /\ UNCHANGED <<ControllerVars, loopVars, announced>>

-----------------------------------------------------------------------------
Init ==
  /\ PlaybackInit /\ ControllerInit
  /\ toController = <<>> /\ toLimiter = <<>>
  /\ samples = 0 /\ gadget = TRUE /\ runner = "works"
  /\ controller = "select" /\ shell = "waits" /\ limiter = "reads"
  /\ duty = maximum_output /\ announced = 0

control == checkStdin \/ readLine \/ compute \/ write

Next ==
  \/ sample \/ play \/ workload_ends \/ kill \/ echo_q
  \/ control \/ last_q \/ sigaio_handler \/ pass_time

Spec == Init /\ [][Next]_vars

\* Every process goes on while it can, and time passes; the workload need not
\* end.  A writer into a pipe that is emptied again and again has its turn.
FairSpec ==
  /\ Spec
  /\ WF_vars(pass_time) /\ SF_vars(play) /\ WF_vars(kill) /\ SF_vars(echo_q)
  /\ WF_vars(control) /\ WF_vars(last_q) /\ WF_vars(sigaio_handler)

-----------------------------------------------------------------------------
Lines == [cmd : {"s", "input", "q"}, arg : Nat]

\* The type invariant.
PlaybackTypes ==
  /\ clock \in 0..MaxClock /\ start_time \in Starts
  /\ armed \in BOOLEAN /\ playing \in BOOLEAN
  /\ expiry \in Nat /\ row \in 1..Len(Rows) + 1
  /\ value \in Seq(Nat) /\ Len(value) <= 1
  /\ toController \in Seq(Lines) /\ Len(toController) <= PipeSize
ControllerTypes ==
  /\ josiahVersion \in BOOLEAN /\ first \in BOOLEAN /\ buffer \in Seq(Lines)
  /\ setpoint \in Nat /\ input \in Nat /\ prevInput \in Nat
  /\ lastError \in Int /\ integral \in Int
  /\ newOutput \in (minimum_output..maximum_output) \cup {0}
LoopTypes ==
  /\ samples \in 0..MaxSamples /\ gadget \in BOOLEAN /\ announced \in Nat
  /\ runner \in {"works", "kills", "quits", "done"}
  /\ controller \in {"select", "read", "compute", "write", "exited"}
  /\ shell \in {"waits", "done"} /\ limiter \in {"reads", "deaf", "exited"}
  /\ Len(toLimiter) <= PipeSize
  /\ duty \in minimum_output..maximum_output
TypeOK == PlaybackTypes /\ ControllerTypes /\ LoopTypes

\* No value is printed before its time (playback.c:88: seconds relative to now),
\* as long as the times are whole seconds.
NeverEarly ==
  [][/\ row' # row \/ (playing' # playing /\ gadget')
     /\ row > 1
     => clock >= start_time + Rows[row - 1].time]_vars

\* The playback gets to the end of its file unless it is killed, however slow
\* the controller is (playback.c:92).
PlaysToTheEnd == <>(~ playing)

\* Lines are read ahead, but none is lost: when the controller ends, it has
\* obeyed the last set-point (integralController.c:44).
NothingIsLost == controller = "exited" => setpoint = announced /\ buffer = <<>>

\* Once the workload has ended, every program of the pipeline ends, the limiter
\* by its q and not by an end of file (signal_insert_delays.sh:32).
PipelineEnds ==
  runner = "kills" ~> /\ ~ playing /\ ~ gadget
                      /\ controller = "exited" /\ limiter = "exited"
=============================================================================
