------------------------------ MODULE Playback ------------------------------
(***************************************************************************)
(* Timed playback of a file of set-points into a pipe                      *)
(* (src/utilities/playback/playback.c): a one-shot timer, whose handler    *)
(* prints a value, reads the next row and arms the timer for its time.     *)
(* Times are in ticks, TicksPerSec of them to a second.                    *)
(***************************************************************************)
EXTENDS Integers, Sequences

CONSTANTS
  TicksPerSec,
  Rows,         \* the file: a sequence of [time, value]
  Starts,       \* what the clock may show at the start
  MaxClock,     \* bound: the last tick
  PipeSize      \* lines that a pipe holds

ASSUME PlaybackAssumption ==
  /\ TicksPerSec \in Nat \ {0} /\ MaxClock \in Nat /\ PipeSize \in Nat \ {0}
  /\ Rows \in Seq([time : Nat, value : Nat])
  /\ Starts \subseteq 0..MaxClock

VARIABLES
  clock, start_time,
  armed, expiry,    \* the timer, and the tick at which it expires
  value,            \* the value to print: <<>>, or a value
  row,              \* the row of the file to read next
  playing,
  toController      \* the pipe to the controller

playbackVars == <<start_time, armed, expiry, value, row, playing>>

Setpoint(v) == [cmd |-> "s", arg |-> v]

convert_sec_to_time(t) == [sec |-> t \div TicksPerSec, nsec |-> t % TicksPerSec]

\* Seeded fault: the fraction of the start is lost.
WholeStart(t) ==
  [sec  |-> start_time \div TicksPerSec + convert_sec_to_time(t).sec,
   nsec |-> convert_sec_to_time(t).nsec]
\* Seeded fault: the time of the row is taken for nanoseconds.
AllNanoseconds(t) ==
  [sec |-> start_time \div TicksPerSec, nsec |-> (start_time % TicksPerSec) + t]
\* nsec is not carried over into sec.
Deadline(t) ==
  [sec  |-> start_time \div TicksPerSec + convert_sec_to_time(t).sec,
   nsec |-> (start_time % TicksPerSec) + convert_sec_to_time(t).nsec]

Passed(d) ==
  LET now == convert_sec_to_time(clock) IN
  now.sec > d.sec \/ (now.sec = d.sec /\ now.nsec > d.nsec)

\* timer_settime refuses nanoseconds from 10^9 on, and the timer, which has
\* expired, stays disarmed: its result is not tested.
Arm(d) ==
  IF Passed(d) THEN armed' = TRUE /\ expiry' = clock
  ELSE IF d.nsec < TicksPerSec
    THEN armed' = TRUE /\ expiry' = d.sec * TicksPerSec + d.nsec
    ELSE armed' = FALSE /\ UNCHANGED expiry

\* The write blocks while the pipe is full.
handler ==
  /\ playing /\ armed /\ clock >= expiry
  /\ \/ value = <<>> /\ UNCHANGED toController
     \/ /\ value # <<>> /\ Len(toController) < PipeSize
        /\ toController' = Append(toController, Setpoint(value[1]))
  /\ IF row > Len(Rows)
     THEN /\ playing' = FALSE /\ armed' = FALSE
          /\ UNCHANGED <<value, row, expiry>>
     ELSE /\ value' = <<Rows[row].value>> /\ row' = row + 1
          /\ Arm(Deadline(Rows[row].time))
          /\ UNCHANGED playing
  /\ UNCHANGED <<clock, start_time>>

sigint_handler ==
  /\ playing' = FALSE /\ armed' = FALSE
  /\ UNCHANGED <<start_time, expiry, value, row>>

tick ==
  /\ clock < MaxClock /\ clock' = clock + 1
  /\ UNCHANGED <<playbackVars, toController>>

PlaybackInit ==
  /\ clock \in Starts /\ start_time = clock
  /\ armed = TRUE /\ expiry = clock
  /\ value = <<>> /\ row = 1 /\ playing = TRUE
=============================================================================
