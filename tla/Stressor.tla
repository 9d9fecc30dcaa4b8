------------------------------- MODULE Stressor -------------------------------
(***************************************************************************)
(* cstress loads one CPU during a given share of the time                  *)
(* (src/power_modulating_interfaces/stress/cstress.c): main computes while *)
(* state is WORKING and waits in sigsuspend while it is SLEEPING; a        *)
(* one-shot timer makes state alternate, lines change the duty cycle and   *)
(* the period, q and Ctrl+C finish the program.  As in SignalInsertDelays  *)
(* any handler may interrupt any other between two statements.             *)
(***************************************************************************)
EXTENDS Integers

CONSTANTS
  DutyDen,               \* a duty cycle d stands for d / DutyDen
  TicksPerSec,           \* a tick stands for 1 / TicksPerSec s; also for 1 ns
  InitDuty, InitPeriod,  \* -d, -p
  Commands,              \* what the user may type, as [op, arg]
  MaxInterrupts          \* bound: how often the user presses Ctrl+C

Handlers == {"sigint", "sigtimer", "sigaio"}
Frames   == {"main"} \cup Handlers

ASSUME StressorAssumption ==
  /\ DutyDen \in Nat \ {0} /\ TicksPerSec \in Nat \ {0}
  /\ InitDuty \in 0..DutyDen /\ InitPeriod \in Nat /\ MaxInterrupts \in Nat
  /\ Commands \subseteq [op : {"duty", "period", "quit", "other", "eof"}, arg : Int]

VARIABLES
  state, sigint_count,
  duty, period, timer_on, timer_off,
  span,       \* ont and offt of sigaio_handler inside _update_duty
  pc, level,  \* where each frame is, and its depth in the call stack
  masked,     \* main has blocked the signals
  armed,      \* the timer is running
  pend,       \* signals sent and not yet delivered
  aio,        \* the read request: "reading", "closed" or the line it got
  exited      \* "no", "ok" (end of main) or "fail" (errExit)

durations == <<duty, period, timer_on, timer_off, span>>
vars == <<state, sigint_count, durations, pc, level, masked, armed, pend, aio, exited>>

-----------------------------------------------------------------------------
(* Frames *)

Running(f) == /\ exited = "no" /\ pc[f] # "idle"
              /\ \A g \in Frames : level[g] <= level[f]

At(f, label)   == Running(f) /\ pc[f] = label
Goto(f, label) == pc' = [pc EXCEPT ![f] = label] /\ UNCHANGED level
Return(h)      == /\ pc' = [pc EXCEPT ![h] = "idle"]
                  /\ level' = [level EXCEPT ![h] = 0]

\* sigsuspend lets all signals through until the last handler has returned.
Open == \/ ~ masked \/ pc["main"] = "suspended"
        \/ \E h \in Handlers : pc[h] # "idle"

\* sigsuspend ends when the handler returns.
Deliver(h) ==
  /\ h \in pend /\ pc[h] = "idle" /\ Open
  /\ \E f \in Frames :
       /\ Running(f)
       /\ level' = [level EXCEPT ![h] = level[f] + 1]
       /\ pc' = [g \in Frames |->
                   IF g = h THEN "entry"
                   ELSE IF pc[g] = "suspended" THEN "sleep_check"
                   ELSE pc[g]]
  /\ pend' = pend \ {h}
  /\ UNCHANGED <<state, sigint_count, durations, masked, armed, aio, exited>>

-----------------------------------------------------------------------------
(* _update_duty, field by field.  Only lines call it once main runs, and they do not
   interrupt each other, so that the seconds it reads back are those it wrote: the
   nanoseconds are in range, and timer_settime accepts them. *)

OnTime(d, p)  == d * p
OffTime(d, p) == (DutyDen - d) * p
Sec(t)  == t \div TicksPerSec
Nsec(t) == t % TicksPerSec

\* Seeded fault: a duration of zero is left as it is.
AsIs(t) == t
AtLeast1ns(t) == IF t.sec = 0 /\ t.nsec <= 0 THEN [t EXCEPT !.nsec = 1] ELSE t
Duration(t)   == AtLeast1ns([sec |-> Sec(t), nsec |-> Nsec(t)])

WithSec(t, n) == [t EXCEPT !.sec = n]

Clip(d)  == IF d < 0 THEN 0 ELSE IF d > DutyDen THEN DutyDen ELSE d
Clip0(p) == IF p < 0 THEN 0 ELSE p

UpdateOn(label, next, t) ==
  At("sigaio", label) /\ Goto("sigaio", next) /\ timer_on' = t /\ UNCHANGED timer_off
UpdateOff(label, next, t) ==
  At("sigaio", label) /\ Goto("sigaio", next) /\ timer_off' = t /\ UNCHANGED timer_on

update_duty ==
  /\ \/ UpdateOn("on_sec", "on_nsec", WithSec(timer_on, Sec(span.on)))
     \/ UpdateOn("on_nsec", "off_sec", [timer_on EXCEPT !.nsec = Nsec(span.on)])
     \/ UpdateOff("off_sec", "off_nsec", WithSec(timer_off, Sec(span.off)))
     \/ UpdateOff("off_nsec", "fix_on", [timer_off EXCEPT !.nsec = Nsec(span.off)])
     \/ UpdateOn("fix_on", "fix_off", AtLeast1ns(timer_on))
     \/ UpdateOff("fix_off", "aio_read", AtLeast1ns(timer_off))
  /\ UNCHANGED <<state, sigint_count, duty, period, span, masked, armed, pend, aio, exited>>

\* timer_settime with a zero it_value disarms the timer.
Rearm(t) == armed' = ~ (t.sec = 0 /\ t.nsec = 0)

-----------------------------------------------------------------------------
(* sigtimer_handler *)

Test(label, s, yes, no) ==
  /\ At("sigtimer", label) /\ Goto("sigtimer", IF state = s THEN yes ELSE no)
  /\ UNCHANGED <<state, armed>>
Change(label, s, next) ==
  At("sigtimer", label) /\ Goto("sigtimer", next) /\ state' = s /\ UNCHANGED armed

Restart(label, t) ==
  At("sigtimer", label) /\ Return("sigtimer") /\ Rearm(t) /\ UNCHANGED state

\* Neither test holds: the program is finished.
ReturnFinished ==
  /\ At("sigtimer", "return") /\ Return("sigtimer") /\ UNCHANGED <<state, armed>>

sigtimer_handler ==
  /\ \/ Test("entry", "WORKING", "sleep", "test_sleeping")
     \/ Change("sleep", "SLEEPING", "arm_off") \/ Restart("arm_off", timer_off)
     \/ Test("test_sleeping", "SLEEPING", "work", "return")
     \/ Change("work", "WORKING", "arm_on") \/ Restart("arm_on", timer_on)
     \/ ReturnFinished
  /\ UNCHANGED <<sigint_count, durations, masked, pend, aio, exited>>

-----------------------------------------------------------------------------
(* sigint_handler and sigaio_handler *)

TakesInterrupt == sigint_count < 2

sigint_handler ==
  /\ At("sigint", "entry")
  /\ \/ /\ TakesInterrupt /\ Return("sigint")
        /\ state' = "FINISHED" /\ sigint_count' = sigint_count + 1 /\ UNCHANGED exited
     \/ /\ ~ TakesInterrupt /\ exited' = "fail"
        /\ UNCHANGED <<state, sigint_count, pc, level>>
  /\ UNCHANGED <<durations, masked, armed, pend, aio>>

NoSpan == [on |-> 0, off |-> 0]

SetDurations(d, p) ==
  /\ duty' = d /\ period' = p
  /\ span' = [on |-> OnTime(d, p), off |-> OffTime(d, p)]
  /\ Goto("sigaio", "on_sec")
  /\ UNCHANGED <<state, aio>>
set_duty(d)   == SetDurations(Clip(d), period)
set_period(p) == SetDurations(duty, Clip0(p))

quit ==
  /\ state' = "FINISHED" /\ Goto("sigaio", "aio_read")
  /\ UNCHANGED <<duty, period, span, aio>>
ignore == Goto("sigaio", "aio_read") /\ UNCHANGED <<state, duty, period, span, aio>>
\* After the end of the input, or an error, no read is started.
end_of_file ==
  /\ aio' = [op |-> "closed", arg |-> 0] /\ Return("sigaio")
  /\ UNCHANGED <<state, duty, period, span>>

ReadLine ==
  /\ At("sigaio", "entry")
  /\ \/ aio.op = "duty"   /\ set_duty(aio.arg)
     \/ aio.op = "period" /\ set_period(aio.arg)
     \/ aio.op = "quit"   /\ quit
     \/ aio.op = "other"  /\ ignore
     \/ aio.op = "eof"    /\ end_of_file
ReadAgain ==
  /\ At("sigaio", "aio_read") /\ Return("sigaio")
  /\ aio' = [op |-> "reading", arg |-> 0] /\ span' = NoSpan
  /\ UNCHANGED <<state, duty, period>>

sigaio_handler ==
  \/ update_duty
  \/ /\ ReadLine \/ ReadAgain
     /\ UNCHANGED <<sigint_count, timer_on, timer_off, masked, armed, pend, exited>>

-----------------------------------------------------------------------------
(* main, from start_timer on *)

StartTimer ==
  /\ At("main", "start_timer") /\ Goto("main", "arm") /\ state' = "WORKING"
  /\ UNCHANGED <<masked, armed, exited>>
ArmTimer ==
  /\ At("main", "arm") /\ Goto("main", "check") /\ Rearm(timer_on)
  /\ UNCHANGED <<state, masked, exited>>

Step(label, next) ==
  At("main", label) /\ Goto("main", next) /\ UNCHANGED <<state, masked, armed, exited>>

NotFinished == state # "FINISHED"

\* Seeded fault: signals stay open until sigsuspend.
StaysOpen == UNCHANGED masked
Block     == masked' = TRUE

\* while(state != STATE_FINISHED); main computes at "work".
CheckFinished == NotFinished /\ Step("check", "work")
StopWorking   == state # "WORKING" /\ Step("work", "block")
BlockSignals  ==
  /\ At("main", "block") /\ Goto("main", "sleep_check") /\ Block
  /\ UNCHANGED <<state, armed, exited>>
\* The test of state and the call of sigsuspend are two steps.
CheckSleeping ==
  Step("sleep_check", IF state = "SLEEPING" THEN "suspend" ELSE "unblock")
Suspend == Step("suspend", "suspended")
Unblock ==
  /\ At("main", "unblock") /\ Goto("main", "check") /\ masked' = FALSE
  /\ UNCHANGED <<state, armed, exited>>
Exit ==
  /\ At("main", "check") /\ ~ NotFinished /\ exited' = "ok"
  /\ UNCHANGED <<state, masked, armed, pc, level>>

main ==
  /\ \/ StartTimer \/ ArmTimer \/ CheckFinished \/ StopWorking \/ BlockSignals
     \/ CheckSleeping \/ Suspend \/ Unblock \/ Exit
  /\ UNCHANGED <<sigint_count, durations, pend, aio>>

-----------------------------------------------------------------------------
(* The kernel and the user *)

Expire ==
  /\ exited = "no" /\ armed /\ armed' = FALSE
  /\ pend' = pend \cup {"sigtimer"}
  /\ UNCHANGED <<state, sigint_count, durations, pc, level, masked, aio, exited>>

Interrupt ==
  /\ exited = "no" /\ "sigint" \notin pend /\ pc["sigint"] = "idle"
  /\ sigint_count < MaxInterrupts
  /\ pend' = pend \cup {"sigint"}
  /\ UNCHANGED <<state, sigint_count, durations, pc, level, masked, armed, aio, exited>>

TypeLine(c) ==
  /\ exited = "no" /\ aio.op = "reading"
  /\ aio' = c /\ pend' = pend \cup {"sigaio"}
  /\ UNCHANGED <<state, sigint_count, durations, pc, level, masked, armed, exited>>

Exited == exited # "no" /\ UNCHANGED vars

-----------------------------------------------------------------------------
\* cmdline has computed the durations; the handlers of Ctrl+C and of the input
\* are installed before the timer.
Init ==
  /\ state = "SLEEPING" /\ sigint_count = 0
  /\ duty = InitDuty /\ period = InitPeriod
  /\ timer_on = Duration(OnTime(InitDuty, InitPeriod))
  /\ timer_off = Duration(OffTime(InitDuty, InitPeriod))
  /\ span = NoSpan
  /\ pc = [f \in Frames |-> IF f = "main" THEN "start_timer" ELSE "idle"]
  /\ level = [f \in Frames |-> 0]
  /\ masked = FALSE /\ armed = FALSE /\ pend = {}
  /\ aio = [op |-> "reading", arg |-> 0] /\ exited = "no"

Next ==
  \/ main \/ sigint_handler \/ sigtimer_handler \/ sigaio_handler
  \/ \E h \in Handlers : Deliver(h)
  \/ Expire \/ Interrupt
  \/ \E c \in Commands : TypeLine(c)
  \/ Exited

Spec == Init /\ [][Next]_vars

-----------------------------------------------------------------------------
MainLabels == {"start_timer", "arm", "check", "work", "block", "sleep_check",
               "suspend", "suspended", "unblock"}
AioLabels  == {"idle", "entry", "on_sec", "on_nsec", "off_sec", "off_nsec", "fix_on",
               "fix_off", "aio_read"}
TimerLabels == {"idle", "entry", "test_sleeping", "sleep", "work", "arm_on", "arm_off",
                "return"}

\* The type invariant.
TypeOK ==
  /\ state \in {"FINISHED", "WORKING", "SLEEPING"} /\ sigint_count \in 0..2
  /\ duty \in 0..DutyDen /\ period \in Nat
  /\ timer_on \in [sec : Nat, nsec : Nat] /\ timer_off \in [sec : Nat, nsec : Nat]
  /\ span \in [on : Nat, off : Nat]
  /\ pc \in [Frames -> MainLabels \cup AioLabels \cup TimerLabels]
  /\ pc["main"] \in MainLabels /\ pc["sigaio"] \in AioLabels
  /\ pc["sigtimer"] \in TimerLabels /\ pc["sigint"] \in {"idle", "entry"}
  /\ level \in [Frames -> Nat]
  /\ masked \in BOOLEAN /\ armed \in BOOLEAN /\ pend \subseteq Handlers
  /\ aio \in [op : {"duty", "period", "quit", "other", "eof", "reading", "closed"},
              arg : Int]
  /\ exited \in {"no", "ok", "fail"}

\* The labels between the first and the last write of a line's durations.
Rewriting == pc["sigaio"] \in {"on_nsec", "off_sec", "off_nsec", "fix_on", "fix_off"}

\* Whenever the timer is set it runs, whatever has been typed, unless its handler has
\* interrupted a line between its assignments to the durations: "Make sure the timer
\* actually goes, even if the duty/period calculations don't work out right"
\* (cstress.c:90) holds for the durations of a line, not while they are written.
TimerGoesOn ==
  [][\A f \in {"main", "sigtimer"} :
       pc[f] \in {"arm", "arm_on", "arm_off"} /\ pc'[f] # pc[f] => armed' \/ Rewriting]_vars

\* While main waits in sigsuspend there is nothing for it to do: no handler changes
\* state between the test of it and the call (cstress.c:312-315).
NeverOversleeps == pc["main"] = "suspended" => state = "SLEEPING"
=============================================================================
