-------------------------- MODULE ControlLoopProofs --------------------------
(***************************************************************************)
(* Proofs about ControlLoop, for every file of set-points, every gain and  *)
(* all limits: type correctness, that the integral does not wind up, that  *)
(* no line is lost, and that no set-point is printed before its time.      *)
(***************************************************************************)
EXTENDS ControlLoop, SequenceTheorems, TLAPS

\* What the controller prints lies within its limits, and in the version that
\* integrates, the integral is the one that yields the output last printed.
Outputs == {Quit} \cup {Duty(v) : v \in minimum_output..maximum_output}
Printed == /\ toLimiter \in Seq(Outputs)
           /\ controller = "write" => newOutput \in minimum_output..maximum_output
Anchored ==
  josiahVersion /\ ~ first => integral = newOutput - 2 * kvalue * lastError

LoopInv == TypeOK /\ Printed /\ Anchored

USE PlaybackAssumption, ControllerAssumption, LoopAssumption

-----------------------------------------------------------------------------
(* The arithmetic of one round *)

LEMMA CappedInRange ==
  ASSUME NEW x \in Int
  PROVE  /\ Capped(x) \in minimum_output..maximum_output
         /\ x < maximum_output /\ minimum_output < maximum_output
              => Capped(x) < maximum_output
         /\ x > minimum_output /\ minimum_output < maximum_output
              => Capped(x) > minimum_output
  BY DEF Capped

LEMMA ProductInt == \A a, b \in Int : a * b \in Int
  OBVIOUS

LEMMA ProductSign ==
  ASSUME NEW a \in Nat, NEW b \in Int
  PROVE  /\ b <= 0 => a * b <= 0
         /\ b >= 0 => a * b >= 0
         /\ a > 0 /\ b < 0 => a * b < 0
         /\ a > 0 /\ b > 0 => a * b > 0
  OBVIOUS

\* The terms of Wished, with their types.
LEMMA WishedInt ==
  ASSUME ControllerTypes, NEW dt \in Int
  PROVE  /\ Wished(dt) \in Int /\ currentError \in Int /\ prevError \in Int
         /\ kvalue * currentError \in Int /\ 2 * kvalue * currentError \in Int
         /\ 2 * kvalue * currentError = 2 * (kvalue * currentError)
<1>1. currentError \in Int /\ prevError \in Int
  BY DEF ControllerTypes, currentError, prevError
<1>2. kvalue * currentError \in Int
  BY <1>1, ProductInt
<1>3. /\ 2 * kvalue * currentError = 2 * (kvalue * currentError)
      /\ 2 * kvalue * currentError \in Int
  BY <1>1, <1>2
<1>4. tvalue * dt * (currentError + prevError) \in Int
  <2>1. tvalue * dt \in Int
    BY ProductInt
  <2>2. currentError + prevError \in Int
    BY <1>1
  <2> QED  BY <2>1, <2>2, ProductInt
<1> QED  BY <1>1, <1>2, <1>3, <1>4 DEF Wished, ControllerTypes

\* After a round the output is within the limits, and the integral belongs to it.
LEMMA ComputeStep ==
  ASSUME LoopInv, NEW dt \in Deltas \cup FirstDeltas, Compute(dt)
  PROVE  /\ newOutput' \in minimum_output..maximum_output
         /\ integral' \in Int /\ lastError' \in Int /\ prevInput' \in Nat
         /\ ~ first' /\ Anchored'
<1>1. dt \in Int
  OBVIOUS
<1>2. ControllerTypes
  BY DEF LoopInv, TypeOK
<1>3. newOutput' = Capped(Wished(dt)) /\ newOutput' \in minimum_output..maximum_output
  BY <1>1, <1>2, WishedInt, CappedInRange DEF Compute
<1>4. lastError' = currentError /\ lastError' \in Int
  BY <1>1, <1>2, WishedInt DEF Compute
<1>5. integral' = IF josiahVersion THEN newOutput' - 2 * kvalue * lastError' ELSE integral
  BY <1>3, <1>4 DEF Compute, BackCalculated
<1>6. integral' \in Int
  <2>1. 2 * kvalue * lastError' \in Int
    BY <1>1, <1>2, <1>4, WishedInt
  <2> QED  BY <1>2, <1>3, <1>5, <2>1 DEF ControllerTypes
<1> QED  BY <1>2, <1>3, <1>4, <1>5, <1>6 DEF Anchored, Compute, ControllerTypes

-----------------------------------------------------------------------------
(* Sequences *)

LEMMA AppendType ==
  ASSUME NEW S, NEW s \in Seq(S), NEW x \in S
  PROVE  Append(s, x) \in Seq(S) /\ Len(Append(s, x)) = Len(s) + 1
  OBVIOUS

LEMMA HeadTailType ==
  ASSUME NEW S, NEW s \in Seq(S), s # <<>>
  PROVE  Head(s) \in S /\ Tail(s) \in Seq(S) /\ Len(Tail(s)) = Len(s) - 1
  OBVIOUS

LEMMA LineTypes ==
  /\ Quit \in Lines /\ Quit \in Outputs
  /\ \A v \in Nat : Input(v) \in Lines /\ Setpoint(v) \in Lines
  /\ \A v \in minimum_output..maximum_output : Duty(v) \in Outputs
  BY DEF Quit, Input, Setpoint, Duty, Lines, Outputs

-----------------------------------------------------------------------------
(* LoopInv is an invariant *)

LEMMA LoopInit == Init => LoopInv
<1> SUFFICES ASSUME Init PROVE LoopInv
  OBVIOUS
<1> USE DEF Init
<1>1. PlaybackTypes
  BY DEF PlaybackInit, PlaybackTypes
<1>2. ControllerTypes /\ Anchored
  BY DEF ControllerInit, ControllerTypes, Anchored
<1>3. LoopTypes /\ Printed
  BY DEF LoopTypes, Printed
<1> QED  BY <1>1, <1>2, <1>3 DEF LoopInv, TypeOK

\* The timer is set to a time.
LEMMA DeadlineTypes ==
  ASSUME start_time \in Nat, NEW t \in Nat
  PROVE  Deadline(t).sec \in Nat /\ Deadline(t).nsec \in Nat
<1>1. /\ t \div TicksPerSec \in Nat /\ t % TicksPerSec \in Nat
      /\ start_time \div TicksPerSec \in Nat /\ start_time % TicksPerSec \in Nat
  OBVIOUS
<1>2. /\ Deadline(t).sec = (start_time \div TicksPerSec) + (t \div TicksPerSec)
      /\ Deadline(t).nsec = (start_time % TicksPerSec) + (t % TicksPerSec)
  BY DEF Deadline, convert_sec_to_time
<1> QED  BY <1>1, <1>2

LEMMA ArmTypes ==
  ASSUME clock \in Nat, expiry \in Nat,
         NEW d, d.sec \in Nat, d.nsec \in Nat, Arm(d)
  PROVE  armed' \in BOOLEAN /\ expiry' \in Nat
<1>1. d.sec * TicksPerSec \in Nat
  OBVIOUS
<1>2. d.sec * TicksPerSec + d.nsec \in Nat
  BY <1>1
<1> QED  BY <1>2 DEF Arm

\* What a step of the playback does to its variables.
LEMMA HandlerTypes ==
  ASSUME PlaybackTypes, handler
  PROVE  PlaybackTypes'
<1> USE DEF PlaybackTypes
<1>1. toController' \in Seq(Lines) /\ Len(toController') <= PipeSize
  <2>1. CASE value = <<>> /\ UNCHANGED toController
    BY <2>1
  <2>2. CASE /\ value # <<>> /\ Len(toController) < PipeSize
             /\ toController' = Append(toController, Setpoint(value[1]))
    <3>1. value[1] \in Nat
      BY <2>2
    <3>2. Setpoint(value[1]) \in Lines
      BY <3>1, LineTypes
    <3> QED  BY <2>2, <3>2, AppendType
  <2> QED  BY <2>1, <2>2 DEF handler
<1>2. clock' \in 0..MaxClock /\ start_time' \in Starts
  BY DEF handler
<1>3. CASE row > Len(Rows)
  BY <1>1, <1>2, <1>3 DEF handler
<1>4. CASE ~ (row > Len(Rows))
  <2>1. row \in 1..Len(Rows) /\ Rows[row] \in [time : Nat, value : Nat]
    <3>1. Len(Rows) \in Nat
      BY LenProperties
    <3>2. row \in 1..Len(Rows)
      BY <1>4, <3>1
    <3> QED  BY <3>2, ElementOfSeq
  <2>2. value' \in Seq(Nat) /\ Len(value') <= 1 /\ row' \in 1..Len(Rows) + 1
    <3>1. value' = <<Rows[row].value>> /\ row' = row + 1
      BY <1>4 DEF handler
    <3> QED  BY <2>1, <3>1
  <2>3. Arm(Deadline(Rows[row].time)) /\ UNCHANGED playing
    BY <1>4 DEF handler
  <2>4. start_time \in Nat /\ clock \in Nat
    OBVIOUS
  <2>5. Rows[row].time \in Nat
    BY <2>1
  <2>6. armed' \in BOOLEAN /\ expiry' \in Nat
    BY <2>3, <2>4, <2>5, DeadlineTypes, ArmTypes
  <2> QED  BY <1>1, <1>2, <2>2, <2>3, <2>6
<1> QED  BY <1>3, <1>4

\* One step per action: what it changes keeps its type.
LEMMA LoopNext == LoopInv /\ [Next]_vars => LoopInv'
<1> SUFFICES ASSUME LoopInv, [Next]_vars PROVE LoopInv'
  OBVIOUS
<1> USE DEF LoopInv, TypeOK, Printed
<1>1. CASE sample
  <2>1. toController' \in Seq(Lines) /\ Len(toController') <= PipeSize
    <3>1. PICK v \in Inputs : toController' = Append(toController, Input(v))
      BY <1>1 DEF sample
    <3> QED  BY <1>1, <3>1, LineTypes, AppendType DEF sample, Room, PlaybackTypes
  <2>2. PlaybackTypes'
    BY <1>1, <2>1 DEF sample, PlaybackTypes, playbackVars
  <2> QED  BY <1>1, <2>2 DEF sample, ControllerTypes, LoopTypes, Anchored,
             ControllerVars, numberVars, sinkVars
<1>2. CASE play
  <2>1. PlaybackTypes'
    BY <1>2, HandlerTypes DEF play
  <2>2. announced' \in Nat
    BY <1>2 DEF play, PlaybackTypes, LoopTypes
  <2> QED  BY <1>2, <2>1, <2>2 DEF play, ControllerTypes, LoopTypes, Anchored,
             ControllerVars, numberVars, loopVars, sourceVars, sinkVars
<1>3. CASE workload_ends
  BY <1>3 DEF workload_ends, PlaybackTypes, playbackVars, ControllerTypes, LoopTypes,
     Anchored, ControllerVars, numberVars, sinkVars
<1>4. CASE kill
  BY <1>4 DEF kill, sigint_handler, PlaybackTypes, ControllerTypes, LoopTypes,
     Anchored, ControllerVars, numberVars, sinkVars
<1>5. CASE echo_q
  <2>1. toController' = Append(toController, Quit)
    BY <1>5 DEF echo_q, Farewell, PlaybackTypes
  <2>2. toController' \in Seq(Lines) /\ Len(toController') <= PipeSize
    BY <1>5, <2>1, LineTypes, AppendType DEF echo_q, Room, PlaybackTypes
  <2> QED  BY <1>5, <2>2 DEF echo_q, PlaybackTypes, playbackVars, ControllerTypes,
             LoopTypes, Anchored, ControllerVars, numberVars, sinkVars
<1>6. CASE checkStdin
  BY <1>6 DEF checkStdin, PlaybackTypes, playbackVars, ControllerTypes, LoopTypes,
     Anchored, ControllerVars, numberVars, sourceVars, sinkVars
<1>7. CASE readLine
  <2> DEFINE lines == IF buffer # <<>> THEN buffer ELSE toController
  <2>1. lines \in Seq(Lines)
    BY DEF PlaybackTypes, ControllerTypes
  <2>2. buffer' \in Seq(Lines)
    BY <1>7, <2>1, HeadTailType DEF readLine, ReadAhead
  <2>3. setpoint' \in Nat /\ input' \in Nat
    <3>1. CASE lines = <<>> \/ Head(lines) = Quit
      BY <1>7, <3>1 DEF readLine, ControllerTypes
    <3>2. CASE ~ (lines = <<>> \/ Head(lines) = Quit)
      <4>1. Head(lines) \in Lines
        BY <2>1, <3>2, HeadTailType
      <4> QED  BY <1>7, <3>2, <4>1 DEF readLine, Obey, Lines, ControllerTypes
    <3> QED  BY <3>1, <3>2
  <2>4. toController' \in Seq(Lines) /\ Len(toController') <= PipeSize
    BY <1>7 DEF readLine, PlaybackTypes
  <2>5. PlaybackTypes'
    BY <1>7, <2>4 DEF readLine, PlaybackTypes, playbackVars
  <2>6. ControllerTypes' /\ Anchored'
    BY <1>7, <2>2, <2>3 DEF readLine, ControllerTypes, Anchored, numberVars
  <2> QED  BY <1>7, <2>5, <2>6 DEF readLine, LoopTypes, sourceVars, sinkVars
<1>8. CASE compute
  <2>1. PICK dt \in Deltas \cup FirstDeltas : Compute(dt)
    BY <1>8 DEF compute
  <2>2. ControllerTypes' /\ Anchored' /\ newOutput' \in minimum_output..maximum_output
    BY <2>1, ComputeStep DEF Compute, ControllerTypes
  <2> QED  BY <1>8, <2>2 DEF compute, PlaybackTypes, playbackVars, LoopTypes,
             sourceVars, sinkVars
<1>9. CASE write
  <2>1. toLimiter' \in Seq(Outputs) /\ Len(toLimiter') <= PipeSize
    BY <1>9, LineTypes, AppendType DEF write, Room
  <2> QED  BY <1>9, <2>1 DEF write, PlaybackTypes, playbackVars, ControllerTypes,
             LoopTypes, Anchored, ControllerVars, numberVars, sourceVars, sinkVars
<1>10. CASE last_q
  <2>1. toLimiter' \in Seq(Outputs) /\ Len(toLimiter') <= PipeSize
    BY <1>10, LineTypes, AppendType DEF last_q, Room
  <2> QED  BY <1>10, <2>1 DEF last_q, PlaybackTypes, playbackVars, ControllerTypes,
             LoopTypes, Anchored, ControllerVars, numberVars, sourceVars
<1>11. CASE sigaio_handler
  <2>1. duty' \in minimum_output..maximum_output
    <3>1. CASE toLimiter # <<>> /\ Head(toLimiter) # Quit
      <4>1. Head(toLimiter) \in Outputs
        BY <3>1, HeadTailType
      <4>2. Head(toLimiter).arg \in minimum_output..maximum_output
        BY <3>1, <4>1 DEF Outputs, Duty
      <4> QED  BY <1>11, <3>1, <4>2 DEF sigaio_handler
    <3>2. CASE ~ (toLimiter # <<>> /\ Head(toLimiter) # Quit)
      BY <1>11, <3>2 DEF sigaio_handler, LoopTypes
    <3> QED  BY <3>1, <3>2
  <2> QED  BY <1>11, <2>1 DEF sigaio_handler, PlaybackTypes, playbackVars,
             ControllerTypes, LoopTypes, Anchored, ControllerVars, numberVars, sourceVars
<1>12. CASE pass_time
  BY <1>12 DEF pass_time, tick, PlaybackTypes, playbackVars, ControllerTypes,
     LoopTypes, Anchored, ControllerVars, numberVars, loopVars, sourceVars, sinkVars
<1>13. CASE UNCHANGED vars
  BY <1>13 DEF vars, PlaybackTypes, playbackVars, ControllerTypes, LoopTypes, Anchored,
     ControllerVars, numberVars, loopVars, sourceVars, sinkVars
<1> QED
  BY <1>1, <1>2, <1>3, <1>4, <1>5, <1>6, <1>7, <1>8, <1>9, <1>10, <1>11, <1>12, <1>13
     DEF Next, control

THEOREM LoopInvariant == Spec => []LoopInv
  BY LoopInit, LoopNext, PTL DEF Spec

\* The type invariant of the control loop.
THEOREM TypeCorrect == Spec => []TypeOK
  BY LoopInvariant, PTL DEF LoopInv

-----------------------------------------------------------------------------
(* No windup *)

LEMMA RoundLeavesLimits ==
  ASSUME LoopInv, josiahVersion, ~ first, NEW dt \in Deltas, Compute(dt)
  PROVE  LeavesUpper /\ LeavesLower
<1> DEFINE e == currentError
           p == prevError
           step == tvalue * dt
<1>1. /\ e \in Int /\ p \in Int /\ lastError \in Int
      /\ step \in Nat /\ step > 0
  <2>1. ControllerTypes /\ dt \in Int /\ dt > 0
    BY DEF LoopInv, TypeOK
  <2> QED  BY <2>1, WishedInt, ProductSign DEF ControllerTypes
<1>2. newOutput \in Int
  BY DEF LoopInv, TypeOK, ControllerTypes
<1> HIDE DEF e, p, step
<1>3. kvalue * e \in Int /\ kvalue * lastError \in Int /\ kvalue * (e - lastError) \in Int
  BY <1>1
<1>4. kvalue * (e - lastError) = kvalue * e - kvalue * lastError
  BY <1>1
<1>5. step * (e + p) \in Int
  BY <1>1
<1>6. Wished(dt) = 2 * (kvalue * (e - lastError)) + step * (e + p) + newOutput
  <2>1. integral = newOutput - 2 * kvalue * lastError
    BY DEF LoopInv, Anchored
  <2>2. Wished(dt) = 2 * kvalue * e + step * (e + p) + integral
    BY DEF Wished, e, p, step
  <2>3. /\ 2 * kvalue * e = 2 * (kvalue * e)
        /\ 2 * kvalue * lastError = 2 * (kvalue * lastError)
    BY <1>1
  <2> QED  BY <1>2, <1>3, <1>4, <1>5, <2>1, <2>2, <2>3, SMTT(30)
<1>7. newOutput' = Capped(Wished(dt)) /\ Wished(dt) \in Int
  BY <1>2, <1>3, <1>5, <1>6 DEF Compute
<1>8. ASSUME e < 0, p < 0, e <= lastError
      PROVE  Wished(dt) < newOutput
  <2>1. kvalue * (e - lastError) <= 0
    BY <1>1, <1>8, ProductSign
  <2>2. step * (e + p) < 0
    BY <1>1, <1>8, ProductSign
  <2> QED  BY <1>2, <1>3, <1>5, <1>6, <2>1, <2>2
<1>9. ASSUME e > 0, p > 0, e >= lastError
      PROVE  Wished(dt) > newOutput
  <2>1. kvalue * (e - lastError) >= 0
    BY <1>1, <1>9, ProductSign
  <2>2. step * (e + p) > 0
    BY <1>1, <1>9, ProductSign
  <2> QED  BY <1>2, <1>3, <1>5, <1>6, <2>1, <2>2
<1>10. LeavesUpper
  BY <1>7, <1>8, CappedInRange DEF LeavesUpper, e, p
<1>11. LeavesLower
  BY <1>7, <1>9, CappedInRange DEF LeavesLower, e, p
<1> QED  BY <1>10, <1>11

\* Only a round changes the output, the integral and the errors.
LEMMA OnlyComputeCounts ==
  ASSUME [Next]_vars, numberVars' # numberVars
  PROVE  compute
  BY DEF Next, control, vars, ControllerVars, numberVars, sample, play, workload_ends,
     kill, echo_q, checkStdin, readLine, write, last_q, sigaio_handler, pass_time

\* The controller does not wind up, whatever the gains, the limits and the
\* times that the rounds take.
THEOREM NeverWindsUp == Spec => NoWindup
<1>1. LoopInv /\ [Next]_vars
        => [numberVars' # numberVars /\ josiahVersion /\ ~ first
              => LeavesUpper /\ LeavesLower]_ControllerVars
  <2> SUFFICES ASSUME LoopInv, [Next]_vars, numberVars' # numberVars,
                      josiahVersion, ~ first
               PROVE  LeavesUpper /\ LeavesLower
    OBVIOUS
  <2>1. PICK dt \in Deltas \cup FirstDeltas : Compute(dt)
    BY OnlyComputeCounts DEF compute
  <2>2. dt \in Deltas
    BY <2>1 DEF Compute
  <2> QED  BY <2>1, <2>2, RoundLeavesLimits
<1> QED  BY <1>1, LoopInvariant, PTL DEF Spec, NoWindup

-----------------------------------------------------------------------------
(* Nothing is lost *)

NoSetpoint(s) == \A i \in 1..Len(s) : s[i].cmd # "s"
HasQuit(s)    == \E i \in 1..Len(s) : s[i].cmd = "q"
QuitIsLast(s) == \A i \in 1..Len(s) : s[i].cmd = "q" => i = Len(s)
\* The last set-point of s is v.
Carries(s, v) == \E i \in 1..Len(s) :
  s[i].cmd = "s" /\ s[i].arg = v /\ \A j \in i+1..Len(s) : s[j].cmd # "s"

\* The last set-point announced is still in the pipe, or in the buffer of stdio
\* with none behind it, or it is the one obeyed last.
OnItsWay ==
  \/ Carries(toController, announced)
  \/ NoSetpoint(toController) /\ Carries(buffer, announced)
  \/ NoSetpoint(toController) /\ NoSetpoint(buffer) /\ setpoint = announced

\* A q comes after every other line, from a subshell that has killed the others.
QuitComesLast ==
  /\ QuitIsLast(toController) /\ QuitIsLast(buffer)
  /\ HasQuit(toController) => runner = "done"
  /\ HasQuit(buffer) => runner = "done" /\ toController = <<>>
  /\ runner \in {"quits", "done"} => ~ playing /\ ~ gadget
  /\ controller = "exited" => runner = "done" /\ buffer = <<>> /\ toController = <<>>

FeedInv == OnItsWay /\ QuitComesLast

LEMMA AppendLines ==
  ASSUME NEW s \in Seq(Lines), NEW x \in Lines
  PROVE  /\ x.cmd # "q" => (HasQuit(Append(s, x)) <=> HasQuit(s))
         /\ ~ HasQuit(s) => QuitIsLast(Append(s, x))
         /\ x.cmd = "s" => Carries(Append(s, x), x.arg)
         /\ x.cmd # "s" => /\ NoSetpoint(s) => NoSetpoint(Append(s, x))
                           /\ \A v : Carries(s, v) => Carries(Append(s, x), v)
<1> DEFINE t == Append(s, x)
<1>1. /\ Len(t) = Len(s) + 1 /\ Len(s) \in Nat
      /\ \A i \in 1..Len(s) : t[i] = s[i]
      /\ t[Len(s) + 1] = x
  BY AppendProperties, LenProperties
<1> HIDE DEF t
<1>2. \A i \in 1..Len(t) : i \in 1..Len(s) \/ i = Len(s) + 1
  BY <1>1
<1>3. x.cmd # "q" => (HasQuit(t) <=> HasQuit(s))
  <2>1. \A i \in 1..Len(s) : i \in 1..Len(t)
    BY <1>1
  <2> QED  BY <1>1, <1>2, <2>1, Zenon DEF HasQuit
<1>4. ~ HasQuit(s) => QuitIsLast(t)
  BY <1>1, <1>2 DEF HasQuit, QuitIsLast
<1>5. x.cmd = "s" => Carries(t, x.arg)
  <2>1. /\ Len(t) \in 1..Len(t) /\ t[Len(t)] = x
        /\ \A j \in Len(t)+1..Len(t) : FALSE
    BY <1>1
  <2> QED  BY <2>1, Zenon DEF Carries
<1>6. x.cmd # "s" /\ NoSetpoint(s) => NoSetpoint(t)
  BY <1>1, <1>2 DEF NoSetpoint
<1>7. ASSUME x.cmd # "s", NEW v, Carries(s, v)
      PROVE  Carries(t, v)
  <2>1. PICK i \in 1..Len(s) : /\ s[i].cmd = "s" /\ s[i].arg = v
                               /\ \A j \in i+1..Len(s) : s[j].cmd # "s"
    BY <1>7 DEF Carries
  <2>2. \A j \in i+1..Len(t) : t[j].cmd # "s"
    BY <1>1, <1>2, <1>7, <2>1
  <2> QED  BY <1>1, <2>1, <2>2 DEF Carries
<1> QED  BY <1>3, <1>4, <1>5, <1>6, <1>7 DEF t

LEMMA TailLines ==
  ASSUME NEW s \in Seq(Lines), s # <<>>
  PROVE  /\ HasQuit(Tail(s)) => HasQuit(s)
         /\ QuitIsLast(s) => QuitIsLast(Tail(s))
         /\ QuitIsLast(s) /\ Head(s) = Quit => HasQuit(s) /\ Tail(s) = <<>> /\ NoSetpoint(s)
         /\ NoSetpoint(s) => Head(s).cmd # "s" /\ NoSetpoint(Tail(s))
         /\ \A v : Carries(s, v) =>
              \/ Carries(Tail(s), v)
              \/ Head(s).cmd = "s" /\ Head(s).arg = v /\ NoSetpoint(Tail(s))
<1> DEFINE t == Tail(s)
<1>1. /\ Len(s) \in Nat /\ Len(s) > 0 /\ Head(s) = s[1]
      /\ t \in Seq(Lines) /\ Len(t) = Len(s) - 1
      /\ \A i \in 1..Len(t) : t[i] = s[i + 1]
  BY HeadTailProperties, EmptySeq, LenProperties
<1> HIDE DEF t
<1>a. \A i \in 1..Len(t) : i + 1 \in 1..Len(s)
  BY <1>1
<1>2. HasQuit(t) => HasQuit(s)
  <2> SUFFICES ASSUME NEW i \in 1..Len(t), t[i].cmd = "q" PROVE HasQuit(s)
    BY DEF HasQuit
  <2>1. i + 1 \in 1..Len(s) /\ s[i + 1].cmd = "q"
    BY <1>1, <1>a
  <2> QED  BY <2>1 DEF HasQuit
<1>3. QuitIsLast(s) => QuitIsLast(t)
  <2> SUFFICES ASSUME QuitIsLast(s), NEW i \in 1..Len(t), t[i].cmd = "q"
               PROVE  i = Len(t)
    BY DEF QuitIsLast
  <2>1. i + 1 \in 1..Len(s) /\ s[i + 1].cmd = "q"
    BY <1>1, <1>a
  <2>2. i + 1 = Len(s)
    BY <2>1 DEF QuitIsLast
  <2> QED  BY <1>1, <2>2
<1>4. QuitIsLast(s) /\ Head(s) = Quit => HasQuit(s) /\ t = <<>> /\ NoSetpoint(s)
  <2> SUFFICES ASSUME QuitIsLast(s), Head(s) = Quit
               PROVE  HasQuit(s) /\ t = <<>> /\ NoSetpoint(s)
    OBVIOUS
  <2>1. s[1].cmd = "q" /\ 1 \in 1..Len(s)
    BY <1>1 DEF Quit
  <2>2. Len(s) = 1 /\ HasQuit(s)
    BY <1>1, <2>1 DEF QuitIsLast, HasQuit
  <2>3. t = <<>>
    BY <1>1, <2>2, EmptySeq
  <2>4. NoSetpoint(s)
    BY <1>1, <2>1, <2>2 DEF NoSetpoint
  <2> QED  BY <2>2, <2>3, <2>4
<1>5. NoSetpoint(s) => Head(s).cmd # "s" /\ NoSetpoint(t)
  <2>1. 1 \in 1..Len(s)
    BY <1>1
  <2> QED  BY <1>1, <1>a, <2>1 DEF NoSetpoint
<1>6. ASSUME NEW v, Carries(s, v)
      PROVE  \/ Carries(t, v)
             \/ Head(s).cmd = "s" /\ Head(s).arg = v /\ NoSetpoint(t)
  <2>1. PICK i \in 1..Len(s) : /\ s[i].cmd = "s" /\ s[i].arg = v
                               /\ \A j \in i+1..Len(s) : s[j].cmd # "s"
    BY <1>6 DEF Carries
  <2>2. CASE i = 1
    <3>1. NoSetpoint(t)
      BY <1>1, <2>1, <2>2 DEF NoSetpoint
    <3> QED  BY <1>1, <2>1, <2>2, <3>1
  <2>3. CASE i # 1
    <3>1. i - 1 \in 1..Len(t) /\ t[i - 1] = s[i]
      BY <1>1, <2>1, <2>3
    <3>2. ASSUME NEW j \in (i - 1) + 1..Len(t)
          PROVE  t[j].cmd # "s"
      <4>1. j \in 1..Len(t) /\ j + 1 \in i + 1..Len(s)
        BY <1>1, <2>1, <2>3
      <4> QED  BY <1>1, <2>1, <4>1
    <3> QED  BY <2>1, <3>1, <3>2 DEF Carries
  <2> QED  BY <2>2, <2>3
<1> QED  BY <1>2, <1>3, <1>4, <1>5, <1>6 DEF t

LEMMA EmptyLines ==
  /\ NoSetpoint(<<>>) /\ ~ HasQuit(<<>>) /\ QuitIsLast(<<>>)
  /\ \A v : ~ Carries(<<>>, v)
  BY DEF NoSetpoint, HasQuit, QuitIsLast, Carries

LEMMA FeedInit == Init => FeedInv
  BY EmptyLines DEF Init, PlaybackInit, ControllerInit, FeedInv, OnItsWay, QuitComesLast

\* A line is read: from the buffer, or from the pipe if the buffer is empty.
LEMMA FeedReadLine ==
  ASSUME TypeOK, FeedInv, readLine
  PROVE  FeedInv'
<1> USE DEF FeedInv
<1> DEFINE lines == IF buffer # <<>> THEN buffer ELSE toController
<1>1. lines \in Seq(Lines)
  BY DEF TypeOK, PlaybackTypes, ControllerTypes
<1>2. /\ buffer' = IF lines = <<>> THEN <<>> ELSE Tail(lines)
      /\ toController' = IF buffer # <<>> THEN toController ELSE <<>>
      /\ UNCHANGED <<runner, playing, gadget, announced>>
  BY DEF readLine, ReadAhead, playbackVars, sourceVars
<1>3. CASE lines = <<>>
  <2>1. buffer = <<>> /\ toController = <<>> /\ buffer' = <<>> /\ toController' = <<>>
    BY <1>2, <1>3
  <2>2. UNCHANGED setpoint /\ controller' = "compute"
    BY <1>3 DEF readLine
  <2> QED  BY <1>2, <2>1, <2>2, EmptyLines DEF OnItsWay, QuitComesLast
<1>4. CASE lines # <<>> /\ Head(lines) = Quit
  <2>1. QuitIsLast(lines)
    BY DEF QuitComesLast
  <2>2. HasQuit(lines) /\ Tail(lines) = <<>> /\ NoSetpoint(lines)
    BY <1>1, <1>4, <2>1, TailLines
  <2>3. /\ runner = "done"
        /\ buffer # <<>> => toController = <<>>
    BY <2>2 DEF QuitComesLast
  <2>4. UNCHANGED setpoint /\ buffer' = <<>> /\ toController' = <<>>
    BY <1>2, <1>4, <2>2, <2>3 DEF readLine
  <2>5. setpoint = announced
    <3>1. CASE buffer # <<>>
      BY <2>2, <2>3, <3>1, EmptyLines DEF OnItsWay, NoSetpoint, Carries
    <3>2. CASE buffer = <<>>
      BY <2>2, <3>2, EmptyLines DEF OnItsWay, NoSetpoint, Carries
    <3> QED  BY <3>1, <3>2
  <2> QED  BY <1>2, <2>3, <2>4, <2>5, EmptyLines DEF OnItsWay, QuitComesLast
<1>5. CASE lines # <<>> /\ Head(lines) # Quit
  <2>1. controller' = "compute"
    BY <1>5 DEF readLine
  <2>2. setpoint' = IF Head(lines).cmd = "s" THEN Head(lines).arg ELSE setpoint
    BY <1>5 DEF readLine, Obey
  <2>3. buffer' = Tail(lines)
    BY <1>2, <1>5
  <2>4. CASE buffer # <<>>
    <3>1. lines = buffer /\ toController' = toController
      BY <1>2, <2>4
    <3>2. OnItsWay'
      BY <1>1, <1>2, <1>5, <2>2, <2>3, <3>1, TailLines DEF OnItsWay
    <3>3. QuitComesLast'
      BY <1>1, <1>2, <1>5, <2>1, <2>3, <3>1, TailLines DEF QuitComesLast
    <3> QED  BY <3>2, <3>3
  <2>5. CASE buffer = <<>>
    <3>1. lines = toController /\ toController' = <<>>
      BY <1>2, <2>5
    <3>2. OnItsWay'
      <4>1. \/ Carries(lines, announced)
            \/ NoSetpoint(lines) /\ setpoint = announced
        BY <2>5, <3>1, EmptyLines DEF OnItsWay
      <4> QED  BY <1>1, <1>2, <1>5, <2>2, <2>3, <3>1, <4>1, TailLines, EmptyLines DEF OnItsWay
    <3>3. QuitComesLast'
      BY <1>1, <1>2, <1>5, <2>1, <2>3, <3>1, TailLines, EmptyLines DEF QuitComesLast
    <3> QED  BY <3>2, <3>3
  <2> QED  BY <2>4, <2>5
<1> QED  BY <1>3, <1>4, <1>5

LEMMA FeedNext == TypeOK /\ FeedInv /\ [Next]_vars => FeedInv'
<1> SUFFICES ASSUME TypeOK, FeedInv, [Next]_vars PROVE FeedInv'
  OBVIOUS
<1> USE DEF FeedInv
<1>1. toController \in Seq(Lines) /\ value \in Seq(Nat) /\ Len(value) <= 1
  BY DEF TypeOK, PlaybackTypes
<1>2. CASE sample
  <2>1. PICK v \in Inputs : toController' = Append(toController, Input(v))
    BY <1>2 DEF sample
  <2>2. Input(v) \in Lines /\ Input(v).cmd = "input"
    BY LineTypes DEF Input
  <2>3. runner \notin {"quits", "done"} /\ ~ HasQuit(toController) /\ ~ HasQuit(buffer)
    BY <1>2 DEF sample, QuitComesLast
  <2>4. UNCHANGED <<buffer, setpoint, announced, playing, gadget, runner, controller>>
    BY <1>2 DEF sample, playbackVars, ControllerVars
  <2>5. OnItsWay'
    BY <1>1, <2>1, <2>2, <2>4, AppendLines DEF OnItsWay
  <2> QED  BY <1>1, <2>1, <2>2, <2>3, <2>4, <2>5, AppendLines DEF QuitComesLast
<1>3. CASE play
  <2>1. runner \notin {"quits", "done"} /\ ~ HasQuit(toController) /\ ~ HasQuit(buffer)
    BY <1>3 DEF play, handler, QuitComesLast
  <2>2. UNCHANGED <<buffer, setpoint, gadget, runner, controller>>
    BY <1>3 DEF play, ControllerVars, loopVars, sourceVars
  <2>3. CASE value = <<>>
    BY <1>3, <2>1, <2>2, <2>3 DEF play, handler, OnItsWay, QuitComesLast
  <2>4. CASE value # <<>>
    <3>1. value[1] \in Nat
      BY <1>1, <2>4
    <3>2. /\ toController' = Append(toController, Setpoint(value[1]))
          /\ announced' = value[1]
      BY <1>3, <2>4 DEF play, handler
    <3>3. /\ Setpoint(value[1]) \in Lines /\ Setpoint(value[1]).cmd = "s"
          /\ Setpoint(value[1]).arg = value[1]
      BY <3>1, LineTypes DEF Setpoint
    <3>4. OnItsWay'
      BY <1>1, <3>2, <3>3, AppendLines DEF OnItsWay
    <3> QED  BY <1>1, <2>1, <2>2, <3>2, <3>3, <3>4, AppendLines DEF QuitComesLast
  <2> QED  BY <2>3, <2>4
<1>4. CASE workload_ends
  BY <1>4 DEF workload_ends, playbackVars, ControllerVars, OnItsWay, QuitComesLast
<1>5. CASE kill
  BY <1>5 DEF kill, sigint_handler, ControllerVars, OnItsWay, QuitComesLast
<1>6. CASE echo_q
  <2>1. toController' = Append(toController, Quit)
    BY <1>1, <1>6 DEF echo_q, Farewell
  <2>2. Quit \in Lines /\ Quit.cmd = "q"
    BY LineTypes DEF Quit
  <2>3. ~ HasQuit(toController) /\ ~ HasQuit(buffer) /\ controller # "exited"
        /\ ~ playing /\ ~ gadget
    BY <1>6 DEF echo_q, QuitComesLast
  <2>4. UNCHANGED <<buffer, setpoint, announced, playing, gadget, controller>>
        /\ runner' = "done"
    BY <1>6 DEF echo_q, playbackVars, ControllerVars
  <2>5. OnItsWay'
    BY <1>1, <2>1, <2>2, <2>4, AppendLines DEF OnItsWay
  <2> QED  BY <1>1, <2>1, <2>2, <2>3, <2>4, <2>5, AppendLines DEF QuitComesLast
<1>7. CASE readLine
  BY <1>7, FeedReadLine
<1>8. CASE checkStdin
  BY <1>8 DEF checkStdin, playbackVars, ControllerVars, sourceVars, OnItsWay, QuitComesLast
<1>9. CASE compute
  BY <1>9 DEF compute, Compute, playbackVars, sourceVars, OnItsWay, QuitComesLast
<1>10. CASE write
  BY <1>10 DEF write, playbackVars, ControllerVars, sourceVars, OnItsWay, QuitComesLast
<1>11. CASE last_q
  BY <1>11 DEF last_q, playbackVars, ControllerVars, sourceVars, OnItsWay, QuitComesLast
<1>12. CASE sigaio_handler
  BY <1>12 DEF sigaio_handler, playbackVars, ControllerVars, sourceVars, OnItsWay,
     QuitComesLast
<1>13. CASE pass_time
  BY <1>13 DEF pass_time, tick, playbackVars, ControllerVars, loopVars, sourceVars,
     OnItsWay, QuitComesLast
<1>14. CASE UNCHANGED vars
  BY <1>14 DEF vars, playbackVars, ControllerVars, loopVars, sourceVars, OnItsWay,
     QuitComesLast
<1> QED
  BY <1>2, <1>3, <1>4, <1>5, <1>6, <1>7, <1>8, <1>9, <1>10, <1>11, <1>12, <1>13, <1>14
     DEF Next, control

\* When the controller ends it has obeyed the last set-point, however many lines
\* stdio has read ahead, and whatever the pipes hold.
THEOREM NothingIsEverLost == Spec => []NothingIsLost
<1>1. FeedInv => NothingIsLost
  BY EmptyLines DEF FeedInv, OnItsWay, QuitComesLast, NothingIsLost
<1> QED  BY <1>1, TypeCorrect, FeedInit, FeedNext, PTL DEF Spec

-----------------------------------------------------------------------------
(* No set-point is printed before its time *)

\* The times in the file are whole seconds.
WholeTimes == \A i \in 1..Len(Rows) : Rows[i].time % TicksPerSec = 0

LEMMA RowTypes == \A i \in 1..Len(Rows) : Rows[i].time \in Nat /\ Rows[i].value \in Nat
<1> SUFFICES ASSUME NEW i \in 1..Len(Rows)
             PROVE  Rows[i].time \in Nat /\ Rows[i].value \in Nat
  OBVIOUS
<1>1. Rows[i] \in [time : Nat, value : Nat]
  BY ElementOfSeq
<1> QED  BY <1>1

\* The timer is set for the row read last, or for later.
TimerInv ==
  playing /\ armed /\ row > 1 => expiry >= start_time + Rows[row - 1].time

LEMMA DivMod ==
  ASSUME NEW x \in Nat
  PROVE  /\ x \div TicksPerSec \in Nat /\ x % TicksPerSec \in Nat
         /\ x = TicksPerSec * (x \div TicksPerSec) + (x % TicksPerSec)
         /\ x % TicksPerSec < TicksPerSec
  OBVIOUS

LEMMA LaterSecond ==
  ASSUME NEW x \in Nat, NEW y \in Nat, x > y
  PROVE  TicksPerSec * x >= TicksPerSec * y + TicksPerSec
<1>1. PICK z \in Nat : x = y + 1 + z
  <2>1. x - y - 1 \in Nat /\ x = y + 1 + (x - y - 1)
    OBVIOUS
  <2> QED  BY <2>1
<1>2. TicksPerSec * x = TicksPerSec * y + TicksPerSec + TicksPerSec * z
  BY <1>1
<1>3. TicksPerSec * z \in Nat /\ TicksPerSec * y \in Nat
  OBVIOUS
<1> QED  BY <1>2, <1>3

\* The deadline of a whole number of seconds is the time itself.
LEMMA WholeDeadline ==
  ASSUME start_time \in Nat, NEW t \in Nat, t % TicksPerSec = 0
  PROVE  /\ Deadline(t).sec \in Nat /\ Deadline(t).nsec \in Nat
         /\ Deadline(t).nsec < TicksPerSec
         /\ TicksPerSec * Deadline(t).sec + Deadline(t).nsec = start_time + t
<1> DEFINE S == start_time \div TicksPerSec
           k == t \div TicksPerSec
<1>1. /\ S \in Nat /\ k \in Nat /\ start_time % TicksPerSec \in Nat
      /\ start_time % TicksPerSec < TicksPerSec
      /\ start_time = TicksPerSec * S + (start_time % TicksPerSec)
      /\ t = TicksPerSec * k + (t % TicksPerSec)
  BY DivMod
<1>2. Deadline(t).sec = S + k /\ Deadline(t).nsec = start_time % TicksPerSec
  <2>1. /\ Deadline(t).sec = S + k
        /\ Deadline(t).nsec = (start_time % TicksPerSec) + (t % TicksPerSec)
    BY DEF Deadline, convert_sec_to_time
  <2> QED  BY <1>1, <2>1
<1>3. TicksPerSec * (S + k) = TicksPerSec * S + TicksPerSec * k
  BY <1>1
<1>4. TicksPerSec * S \in Nat /\ TicksPerSec * k \in Nat
  BY <1>1
<1>5. t = TicksPerSec * k
  BY <1>1, <1>4
<1> HIDE DEF S, k
<1> QED  BY <1>1, <1>2, <1>3, <1>4, <1>5, SMTT(30)

\* A timer that is armed expires at its deadline, or now if that has passed.
LEMMA ArmedInTime ==
  ASSUME clock \in Nat, NEW d, d.sec \in Nat, d.nsec \in Nat, d.nsec < TicksPerSec,
         Arm(d)
  PROVE  expiry' >= TicksPerSec * d.sec + d.nsec
<1>1. CASE Passed(d)
  <2> DEFINE s == clock \div TicksPerSec
             n == clock % TicksPerSec
  <2>1. s \in Nat /\ n \in Nat /\ clock = TicksPerSec * s + n
    BY DivMod
  <2>2. s > d.sec \/ (s = d.sec /\ n > d.nsec)
    BY <1>1 DEF Passed, convert_sec_to_time
  <2>3. s > d.sec => TicksPerSec * s >= TicksPerSec * d.sec + TicksPerSec
    BY <2>1, LaterSecond
  <2>4. expiry' = clock
    BY <1>1 DEF Arm
  <2>5. TicksPerSec * s \in Nat /\ TicksPerSec * d.sec \in Nat
    BY <2>1
  <2> HIDE DEF s, n
  <2> QED  BY <2>1, <2>2, <2>3, <2>4, <2>5, SMTT(30)
<1>2. CASE ~ Passed(d)
  <2>1. expiry' = d.sec * TicksPerSec + d.nsec
    BY <1>2 DEF Arm
  <2>2. d.sec * TicksPerSec = TicksPerSec * d.sec /\ TicksPerSec * d.sec \in Nat
    OBVIOUS
  <2> QED  BY <2>1, <2>2
<1> QED  BY <1>1, <1>2

LEMMA ExpiredInTime ==
  ASSUME TypeOK, TimerInv, handler, row > 1
  PROVE  clock >= start_time + Rows[row - 1].time
<1>1. playing /\ armed /\ clock >= expiry
  BY DEF handler
<1>2. clock \in Nat /\ expiry \in Nat /\ start_time \in Nat
  BY DEF TypeOK, PlaybackTypes
<1>3. row - 1 \in 1..Len(Rows) /\ Rows[row - 1].time \in Nat
  <2>1. row \in 1..Len(Rows) + 1 /\ Len(Rows) \in Nat
    BY DEF TypeOK, PlaybackTypes
  <2>2. row - 1 \in 1..Len(Rows)
    BY <2>1
  <2> QED  BY <2>2, RowTypes
<1>4. expiry >= start_time + Rows[row - 1].time
  BY <1>1 DEF TimerInv
<1> QED  BY <1>1, <1>2, <1>3, <1>4

LEMMA TimerNext ==
  ASSUME WholeTimes, TypeOK, TimerInv, [Next]_vars
  PROVE  TimerInv'
<1>1. CASE play
  <2>1. CASE row > Len(Rows)
    BY <1>1, <2>1 DEF play, handler, TimerInv
  <2>2. CASE ~ (row > Len(Rows))
    <3>1. /\ row' = row + 1 /\ Arm(Deadline(Rows[row].time)) /\ start_time' = start_time
      BY <1>1, <2>2 DEF play, handler
    <3>2. row \in 1..Len(Rows) /\ row' - 1 = row
      <4>1. row \in 1..Len(Rows) + 1 /\ Len(Rows) \in Nat
        BY DEF TypeOK, PlaybackTypes
      <4> QED  BY <2>2, <3>1, <4>1
    <3>3. Rows[row].time \in Nat /\ Rows[row].time % TicksPerSec = 0
      BY <3>2, RowTypes DEF WholeTimes
    <3>4. clock \in Nat /\ start_time \in Nat
      BY DEF TypeOK, PlaybackTypes
    <3>5. expiry' >= start_time + Rows[row].time
      BY <3>1, <3>3, <3>4, WholeDeadline, ArmedInTime
    <3> QED  BY <3>1, <3>2, <3>5 DEF TimerInv
  <2> QED  BY <2>1, <2>2
<1>2. CASE kill
  BY <1>2 DEF kill, sigint_handler, TimerInv
<1>3. CASE UNCHANGED playbackVars
  BY <1>3 DEF playbackVars, TimerInv
<1>4. ~ play /\ ~ kill => UNCHANGED playbackVars
  BY DEF Next, sample, workload_ends, echo_q, control, checkStdin, readLine, compute,
         write, last_q, sigaio_handler, pass_time, tick, vars
<1> QED  BY <1>1, <1>2, <1>3, <1>4

\* If the times in the file are whole seconds, no set-point is printed before its
\* time, whatever the clock shows at the start (playback.c:74-88).
THEOREM NothingIsEarly == WholeTimes => (Spec => NeverEarly)
<1> SUFFICES ASSUME WholeTimes PROVE Spec => NeverEarly
  OBVIOUS
<1>1. Init => TimerInv
  BY DEF Init, PlaybackInit, TimerInv
<1>2. TypeOK /\ TimerInv /\ [Next]_vars => TimerInv'
  BY TimerNext
<1>3. TypeOK /\ TimerInv /\ [Next]_vars
        => [/\ row' # row \/ (playing' # playing /\ gadget')
            /\ row > 1
            => clock >= start_time + Rows[row - 1].time]_vars
  <2> SUFFICES ASSUME TypeOK, TimerInv, Next, row > 1,
                      row' # row \/ (playing' # playing /\ gadget')
               PROVE  clock >= start_time + Rows[row - 1].time
    OBVIOUS
  <2>1. CASE play
    BY <2>1, ExpiredInTime DEF play
  <2>2. ~ play /\ ~ kill => UNCHANGED playbackVars
    BY DEF Next, sample, workload_ends, echo_q, control, checkStdin, readLine, compute,
           write, last_q, sigaio_handler, pass_time, tick
  <2>3. ~ kill
    BY DEF kill, sigint_handler
  <2> QED  BY <2>1, <2>2, <2>3 DEF playbackVars
<1> QED  BY <1>1, <1>2, <1>3, TypeCorrect, PTL DEF Spec, NeverEarly
=============================================================================
