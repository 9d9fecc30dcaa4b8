------------------------- MODULE IntegralController -------------------------
(***************************************************************************)
(* The controller between the power meter and a limiter                    *)
(* (src/utilities/integralController/integralController.c): it waits for a *)
(* line or for the update interval, and prints an output each time.        *)
(*                                                                         *)
(* select watches the descriptor, fgets reads through the buffer of stdio: *)
(* a line that has been read ahead is seen only when the next one comes.   *)
(* Outputs and the integral are twice what the code computes, so that all  *)
(* numbers are whole; the integral is that of the code times tvalue.  The  *)
(* derivative gain is 0, as in every script.                               *)
(***************************************************************************)
EXTENDS Integers, Sequences

CONSTANTS
  kvalue, tvalue,
  minimum_output, maximum_output,   \* twice the values of the options
  Deltas,                           \* ticks that one round may take
  FirstDeltas                       \* what prevTime may hold before the first

ASSUME ControllerAssumption ==
  /\ kvalue \in Nat /\ tvalue \in Nat \ {0}
  /\ minimum_output \in Int /\ maximum_output \in Int
  /\ minimum_output <= maximum_output
  /\ Deltas \subseteq Nat \ {0} /\ FirstDeltas \subseteq Int

VARIABLES
  josiahVersion,
  setpoint, input, prevInput,
  lastError,       \* currentError of the round before
  integral, newOutput,
  first,           \* no round has been computed yet
  buffer           \* lines that stdio has read ahead

numberVars == <<prevInput, lastError, integral, newOutput, first>>

currentError == setpoint - input
prevError    == setpoint - prevInput   \* with the set-point of this round

Capped(x) == IF x > maximum_output THEN maximum_output
             ELSE IF x < minimum_output THEN minimum_output ELSE x

\* The proportional and the integral part; the other version never adds to its
\* integral, which stays 0.
Wished(dt) ==
  IF josiahVersion
  THEN 2 * kvalue * currentError + tvalue * dt * (currentError + prevError) + integral
  ELSE 2 * kvalue * currentError + integral

\* Seeded fault: the integral is calculated back from the output before capping.
FromWished(dt) ==
  IF josiahVersion THEN Wished(dt) - 2 * kvalue * currentError ELSE integral
BackCalculated(dt) ==
  IF josiahVersion THEN Capped(Wished(dt)) - 2 * kvalue * currentError
  ELSE integral

Compute(dt) ==
  /\ dt \in IF first THEN FirstDeltas ELSE Deltas
  /\ newOutput' = Capped(Wished(dt))
  /\ integral'  = BackCalculated(dt)
  /\ prevInput' = input /\ lastError' = currentError
  /\ first' = FALSE
  /\ UNCHANGED <<josiahVersion, setpoint, input, buffer>>

\* A line other than q.
Obey(line) ==
  /\ setpoint' = IF line.cmd = "s" THEN line.arg ELSE setpoint
  /\ input'    = IF line.cmd = "input" THEN line.arg ELSE input

ControllerInit ==
  /\ josiahVersion \in BOOLEAN
  /\ setpoint = 0 /\ input = 0 /\ prevInput = 0 /\ lastError = 0
  /\ integral = 0 /\ newOutput = 0 /\ first = TRUE /\ buffer = <<>>

-----------------------------------------------------------------------------
ControllerVars == <<josiahVersion, setpoint, input, buffer, numberVars>>

\* Once the output is at its upper limit, it leaves it in the first round in
\* which the input is, and was, above the set-point and has not come closer;
\* and so at the lower limit: the integral does not wind up
\* (integralController.c:58 and 250-255).
LeavesUpper ==
  /\ newOutput = maximum_output /\ minimum_output < maximum_output
  /\ currentError < 0 /\ prevError < 0 /\ currentError <= lastError
  => newOutput' < maximum_output
LeavesLower ==
  /\ newOutput = minimum_output /\ minimum_output < maximum_output
  /\ currentError > 0 /\ prevError > 0 /\ currentError >= lastError
  => newOutput' > minimum_output
NoWindup ==
  [][numberVars' # numberVars /\ josiahVersion /\ ~ first
     => LeavesUpper /\ LeavesLower]_ControllerVars
=============================================================================
