----------------------------- MODULE StressorProofs -----------------------------
(* Theorems about Stressor, for every value of its constants. *)
EXTENDS Stressor, TLAPS

USE StressorAssumption DEF StressorAssumption, Frames, Handlers

-----------------------------------------------------------------------------
(* The type invariant *)

\* Splitting a duration gives natural numbers, and so does lengthening it.
LEMMA SplitTypes ==
  ASSUME NEW t \in Nat
  PROVE  Sec(t) \in Nat /\ Nsec(t) \in Nat /\ Duration(t) \in [sec : Nat, nsec : Nat]
BY DEF Sec, Nsec, Duration, AtLeast1ns

\* Both durations are natural numbers for a duty cycle between 0 and 1.
LEMMA TimeTypes ==
  ASSUME NEW d \in 0..DutyDen, NEW p \in Nat
  PROVE  OnTime(d, p) \in Nat /\ OffTime(d, p) \in Nat
<1>1. d \in Nat /\ DutyDen - d \in Nat
  OBVIOUS
<1>2. \A m, n \in Nat : m * n \in Nat
  OBVIOUS
<1> QED
  BY <1>1, <1>2 DEF OnTime, OffTime

\* What is typed is clipped to a duty cycle, or to a period.
LEMMA ClipTypes ==
  ASSUME NEW n \in Int
  PROVE  Clip(n) \in 0..DutyDen /\ Clip0(n) \in Nat
BY DEF Clip, Clip0

LEMMA InitTypes == Init => TypeOK
<1> SUFFICES ASSUME Init PROVE TypeOK
  OBVIOUS
<1>1. timer_on \in [sec : Nat, nsec : Nat] /\ timer_off \in [sec : Nat, nsec : Nat]
  BY SplitTypes, TimeTypes DEF Init
<1>2. /\ pc \in [Frames -> MainLabels \cup AioLabels \cup TimerLabels]
      /\ pc["main"] \in MainLabels /\ pc["sigaio"] \in AioLabels
      /\ pc["sigtimer"] \in TimerLabels /\ pc["sigint"] \in {"idle", "entry"}
      /\ level \in [Frames -> Nat]
  BY DEF Init, MainLabels, AioLabels, TimerLabels
<1>3. duty \in 0..DutyDen /\ period \in Nat /\ sigint_count \in 0..2
  BY DEF Init
<1>4. /\ span \in [on : Nat, off : Nat]
      /\ aio \in [op : {"duty", "period", "quit", "other", "eof", "reading", "closed"},
                  arg : Int]
  BY DEF Init, NoSpan
<1>5. masked \in BOOLEAN /\ armed \in BOOLEAN /\ pend \subseteq Handlers
  BY DEF Init
<1> QED
  BY <1>1, <1>2, <1>3, <1>4, <1>5 DEF Init, TypeOK

LEMMA MainTypes == TypeOK /\ main => TypeOK'
<1> SUFFICES ASSUME TypeOK, main PROVE TypeOK'
  OBVIOUS
<1>1. /\ \E l \in MainLabels : pc' = [pc EXCEPT !["main"] = l] \/ pc' = pc
      /\ UNCHANGED level
  BY DEF main, StartTimer, ArmTimer, CheckFinished, StopWorking, BlockSignals,
         CheckSleeping, Suspend, Unblock, Exit, Step, Goto, MainLabels
<1>2. state' \in {"FINISHED", "WORKING", "SLEEPING"} /\ exited' \in {"no", "ok", "fail"}
  BY DEF TypeOK, main, StartTimer, ArmTimer, CheckFinished, StopWorking, BlockSignals,
         CheckSleeping, Suspend, Unblock, Exit, Step
<1>3. masked' \in BOOLEAN /\ armed' \in BOOLEAN
  BY DEF TypeOK, main, StartTimer, ArmTimer, CheckFinished, StopWorking, BlockSignals,
         CheckSleeping, Suspend, Unblock, Exit, Step, Block, Rearm
<1> QED
  BY <1>1, <1>2, <1>3 DEF TypeOK, main, durations

LEMMA TimerTypes == TypeOK /\ sigtimer_handler => TypeOK'
<1> SUFFICES ASSUME TypeOK, sigtimer_handler PROVE TypeOK'
  OBVIOUS
<1>1. /\ \E l \in TimerLabels : pc' = [pc EXCEPT !["sigtimer"] = l]
      /\ level' = level \/ level' = [level EXCEPT !["sigtimer"] = 0]
  BY DEF sigtimer_handler, Test, Change, Restart, ReturnFinished, Goto, Return, TimerLabels
<1>2. state' \in {"FINISHED", "WORKING", "SLEEPING"} /\ armed' \in BOOLEAN
  BY DEF TypeOK, sigtimer_handler, Test, Change, Restart, ReturnFinished, Rearm
<1> QED
  BY <1>1, <1>2 DEF TypeOK, sigtimer_handler, durations

LEMMA UpdateTypes == TypeOK /\ update_duty => TypeOK'
<1> SUFFICES ASSUME TypeOK, update_duty PROVE TypeOK'
  OBVIOUS
<1>1. \E l \in AioLabels : pc' = [pc EXCEPT !["sigaio"] = l] /\ UNCHANGED level
  BY DEF update_duty, UpdateOn, UpdateOff, Goto, AioLabels
<1>2. Sec(span.on) \in Nat /\ Nsec(span.on) \in Nat /\ Sec(span.off) \in Nat
      /\ Nsec(span.off) \in Nat
  BY SplitTypes DEF TypeOK
<1>3. timer_on' \in [sec : Nat, nsec : Nat] /\ timer_off' \in [sec : Nat, nsec : Nat]
  BY <1>2 DEF TypeOK, update_duty, UpdateOn, UpdateOff, WithSec, AtLeast1ns
<1> QED
  BY <1>1, <1>3 DEF TypeOK, update_duty

LEMMA LineTypes == TypeOK /\ sigaio_handler => TypeOK'
<1> SUFFICES ASSUME TypeOK, sigaio_handler PROVE TypeOK'
  OBVIOUS
<1>1. CASE update_duty
  BY <1>1, UpdateTypes
<1>2. CASE /\ ReadLine \/ ReadAgain
           /\ UNCHANGED <<sigint_count, timer_on, timer_off, masked, armed, pend, exited>>
  <2>1. /\ \E l \in AioLabels : pc' = [pc EXCEPT !["sigaio"] = l]
        /\ level' = level \/ level' = [level EXCEPT !["sigaio"] = 0]
    BY <1>2 DEF ReadLine, ReadAgain, set_duty, set_period, SetDurations, quit, ignore,
                end_of_file, Goto, Return, AioLabels
  <2>2. state' \in {"FINISHED", "WORKING", "SLEEPING"}
    BY <1>2 DEF TypeOK, ReadLine, ReadAgain, set_duty, set_period, SetDurations, quit,
                ignore, end_of_file
  <2>3. aio' \in [op : {"duty", "period", "quit", "other", "eof", "reading", "closed"},
                  arg : Int]
    BY <1>2 DEF TypeOK, ReadLine, ReadAgain, set_duty, set_period, SetDurations, quit,
                ignore, end_of_file
  <2>4. aio.arg \in Int /\ Clip(aio.arg) \in 0..DutyDen /\ Clip0(aio.arg) \in Nat
    BY ClipTypes DEF TypeOK
  <2>5. ASSUME NEW d \in 0..DutyDen, NEW p \in Nat, SetDurations(d, p)
        PROVE  duty' \in 0..DutyDen /\ period' \in Nat /\ span' \in [on : Nat, off : Nat]
    BY <2>5, TimeTypes DEF SetDurations
  <2>6. duty' \in 0..DutyDen /\ period' \in Nat /\ span' \in [on : Nat, off : Nat]
    <3>1. CASE ReadAgain
      BY <3>1 DEF ReadAgain, TypeOK, NoSpan
    <3>2. CASE ReadLine
      <4>1. CASE set_duty(aio.arg)
        BY <4>1, <2>4, <2>5 DEF set_duty, TypeOK
      <4>2. CASE set_period(aio.arg)
        BY <4>2, <2>4, <2>5 DEF set_period, TypeOK
      <4>3. CASE quit \/ ignore \/ end_of_file
        BY <4>3 DEF quit, ignore, end_of_file, TypeOK
      <4> QED
        BY <3>2, <4>1, <4>2, <4>3 DEF ReadLine
    <3> QED
      BY <1>2, <3>1, <3>2
  <2> QED
    BY <1>2, <2>1, <2>2, <2>3, <2>6 DEF TypeOK
<1> QED
  BY <1>1, <1>2 DEF sigaio_handler

LEMMA InterruptTypes == TypeOK /\ sigint_handler => TypeOK'
<1> SUFFICES ASSUME TypeOK, sigint_handler PROVE TypeOK'
  OBVIOUS
<1>1. sigint_count' \in 0..2
  BY DEF TypeOK, sigint_handler, TakesInterrupt
<1>2. /\ pc' = pc \/ pc' = [pc EXCEPT !["sigint"] = "idle"]
      /\ level' = level \/ level' = [level EXCEPT !["sigint"] = 0]
  BY DEF sigint_handler, Return
<1>3. /\ pc' \in [Frames -> MainLabels \cup AioLabels \cup TimerLabels]
      /\ pc'["main"] \in MainLabels /\ pc'["sigaio"] \in AioLabels
      /\ pc'["sigtimer"] \in TimerLabels /\ pc'["sigint"] \in {"idle", "entry"}
      /\ level' \in [Frames -> Nat]
  BY <1>2 DEF TypeOK, AioLabels
<1> QED
  BY <1>1, <1>3 DEF TypeOK, sigint_handler, durations

LEMMA DeliverTypes ==
  ASSUME TypeOK, NEW h \in Handlers, Deliver(h)
  PROVE  TypeOK'
<1>1. level' \in [Frames -> Nat]
  BY DEF TypeOK, Deliver
<1>2. /\ pc' \in [Frames -> MainLabels \cup AioLabels \cup TimerLabels]
      /\ pc'["main"] \in MainLabels /\ pc'["sigaio"] \in AioLabels
      /\ pc'["sigtimer"] \in TimerLabels /\ pc'["sigint"] \in {"idle", "entry"}
  BY DEF TypeOK, Deliver, MainLabels, AioLabels, TimerLabels
<1> QED
  BY <1>1, <1>2 DEF TypeOK, Deliver, durations

LEMMA UserTypes ==
  TypeOK /\ (Expire \/ Interrupt \/ (\E c \in Commands : TypeLine(c))) => TypeOK'
<1> SUFFICES ASSUME TypeOK, Expire \/ Interrupt \/ (\E c \in Commands : TypeLine(c))
             PROVE  TypeOK'
  OBVIOUS
<1>1. CASE Expire
  BY <1>1 DEF TypeOK, Expire, durations
<1>2. CASE Interrupt
  BY <1>2 DEF TypeOK, Interrupt, durations
<1>3. ASSUME NEW c \in Commands, TypeLine(c) PROVE TypeOK'
  BY <1>3 DEF TypeOK, TypeLine, durations
<1> QED
  BY <1>1, <1>2, <1>3

LEMMA TypesKept == TypeOK /\ [Next]_vars => TypeOK'
<1> SUFFICES ASSUME TypeOK, [Next]_vars PROVE TypeOK'
  OBVIOUS
<1>1. CASE UNCHANGED vars
  BY <1>1 DEF TypeOK, vars, durations
<1> QED
  BY <1>1, MainTypes, TimerTypes, LineTypes, InterruptTypes, DeliverTypes, UserTypes
  DEF Next, Exited

\* Every reachable state is well typed: in particular sigint_count stays below 3, and
\* both durations stay natural numbers whatever is typed.
THEOREM TypeCorrect == Spec => []TypeOK
<1> QED
  BY InitTypes, TypesKept, PTL DEF Spec

-----------------------------------------------------------------------------
(* Main never waits for nothing *)

Idle == \A h \in Handlers : pc[h] = "idle"

\* Active handlers lie above main; from the test of state to sigsuspend signals are
\* blocked, and no handler is active.
Stacked == level["main"] = 0 /\ \A h \in Handlers : pc[h] # "idle" => level[h] > 0
Asleep  ==
  /\ pc["main"] \in {"sleep_check", "suspend", "suspended"} => masked
  /\ pc["main"] \in {"suspend", "suspended"} => state = "SLEEPING" /\ Idle
SleepInv == TypeOK /\ Stacked /\ Asleep

LEMMA SleepInit == Init => SleepInv
<1> SUFFICES ASSUME Init PROVE Stacked /\ Asleep
  BY InitTypes DEF SleepInv
<1> QED
  BY DEF Init, Stacked, Asleep

\* While main runs no handler is active; while a handler runs main is not about to
\* wait.
LEMMA Alone ==
  ASSUME SleepInv
  PROVE  /\ Running("main") => Idle
         /\ \A h \in Handlers : Running(h) => pc["main"] \notin {"suspend", "suspended"}
<1>1. Running("main") => Idle
  BY DEF SleepInv, TypeOK, Stacked, Running, Idle
<1>2. \A h \in Handlers : Running(h) => pc["main"] \notin {"suspend", "suspended"}
  BY DEF SleepInv, Asleep, Idle, Running
<1> QED
  BY <1>1, <1>2

\* A step of the handler h alone keeps the invariant.
LEMMA HandlerSleeps ==
  ASSUME SleepInv, TypeOK', NEW h \in Handlers, Running(h),
         \/ pc' = pc
         \/ \E l \in AioLabels \cup TimerLabels : pc' = [pc EXCEPT ![h] = l],
         \/ level' = level
         \/ level' = [level EXCEPT ![h] = 0] /\ pc'[h] = "idle",
         UNCHANGED masked
  PROVE  SleepInv'
<1>1. pc["main"] \notin {"suspend", "suspended"} /\ pc'["main"] = pc["main"]
  BY Alone DEF SleepInv, TypeOK
<1>2. Asleep'
  BY <1>1 DEF SleepInv, Asleep
<1>3. Stacked'
  <2>1. \A g \in Handlers \ {h} : pc'[g] = pc[g] /\ level'[g] = level[g]
    BY DEF SleepInv, TypeOK
  <2>2. level'["main"] = 0
    BY DEF SleepInv, TypeOK, Stacked
  <2>3. pc'[h] # "idle" => level'[h] > 0
    BY DEF SleepInv, TypeOK, Stacked, Running
  <2> QED
    BY <2>1, <2>2, <2>3 DEF SleepInv, Stacked
<1> QED
  BY <1>2, <1>3 DEF SleepInv

LEMMA MainSleeps == SleepInv /\ main => SleepInv'
<1> SUFFICES ASSUME SleepInv, main PROVE Stacked' /\ Asleep'
  BY MainTypes DEF SleepInv
<1>1. Running("main") /\ Idle
  <2>1. Running("main")
    BY DEF main, StartTimer, ArmTimer, CheckFinished, StopWorking, BlockSignals,
           CheckSleeping, Suspend, Unblock, Exit, Step, At
  <2> QED
    BY <2>1, Alone
<1>2. /\ \E l \in MainLabels : pc' = [pc EXCEPT !["main"] = l] \/ pc' = pc
      /\ UNCHANGED level
  BY DEF main, StartTimer, ArmTimer, CheckFinished, StopWorking, BlockSignals,
         CheckSleeping, Suspend, Unblock, Exit, Step, Goto, MainLabels
<1>3. Stacked' /\ Idle'
  BY <1>1, <1>2 DEF SleepInv, TypeOK, Stacked, Idle
<1>4. Asleep'
  <2> USE <1>3 DEF SleepInv, Asleep, TypeOK, At, Goto, Step
  <2>1. CASE StartTimer \/ ArmTimer \/ CheckFinished \/ StopWorking \/ Unblock
    BY <2>1 DEF StartTimer, ArmTimer, CheckFinished, StopWorking, Unblock
  <2>2. CASE BlockSignals
    BY <2>2 DEF BlockSignals, Block
  <2>3. CASE CheckSleeping
    BY <2>3 DEF CheckSleeping
  <2>4. CASE Suspend
    BY <2>4 DEF Suspend
  <2>5. CASE Exit
    BY <2>5 DEF Exit
  <2> QED
    BY <2>1, <2>2, <2>3, <2>4, <2>5 DEF main
<1> QED
  BY <1>3, <1>4

LEMMA DeliverSleeps ==
  ASSUME SleepInv, NEW h \in Handlers, Deliver(h)
  PROVE  SleepInv'
<1>1. TypeOK'
  BY DeliverTypes DEF SleepInv
<1>2. PICK f \in Frames :
        /\ Running(f)
        /\ level' = [level EXCEPT ![h] = level[f] + 1]
        /\ pc' = [g \in Frames |-> IF g = h THEN "entry"
                                   ELSE IF pc[g] = "suspended" THEN "sleep_check"
                                   ELSE pc[g]]
  BY DEF Deliver
<1>3. pc["main"] # "suspend" /\ UNCHANGED <<masked, state>>
  BY DEF Deliver, Open, SleepInv, Asleep, Idle
<1>4. Asleep'
  BY <1>2, <1>3 DEF SleepInv, Asleep
<1>5. level'["main"] = 0 /\ level'[h] > 0
  BY <1>2 DEF SleepInv, Stacked, TypeOK
<1>6. \A g \in Handlers \ {h} : level'[g] = level[g] /\ (pc'[g] # "idle" => pc[g] # "idle")
  BY <1>2 DEF SleepInv, TypeOK
<1>7. Stacked'
  BY <1>5, <1>6 DEF SleepInv, Stacked
<1> QED
  BY <1>1, <1>4, <1>7 DEF SleepInv

LEMMA SleepKept == SleepInv /\ [Next]_vars => SleepInv'
<1> SUFFICES ASSUME SleepInv, [Next]_vars PROVE SleepInv'
  OBVIOUS
<1>t. TypeOK'
  BY TypesKept DEF SleepInv
<1>1. CASE sigtimer_handler
  <2>1. /\ Running("sigtimer") /\ UNCHANGED masked
        /\ \E l \in TimerLabels : pc' = [pc EXCEPT !["sigtimer"] = l]
        /\ \/ level' = level
           \/ level' = [level EXCEPT !["sigtimer"] = 0]
              /\ pc' = [pc EXCEPT !["sigtimer"] = "idle"]
    BY <1>1 DEF sigtimer_handler, Test, Change, Restart, ReturnFinished, At, Goto, Return,
                TimerLabels
  <2> QED
    BY <1>t, <2>1, HandlerSleeps DEF SleepInv, TypeOK
<1>2. CASE sigaio_handler
  <2>1. /\ Running("sigaio") /\ UNCHANGED masked
        /\ \E l \in AioLabels : pc' = [pc EXCEPT !["sigaio"] = l]
        /\ \/ level' = level
           \/ level' = [level EXCEPT !["sigaio"] = 0]
              /\ pc' = [pc EXCEPT !["sigaio"] = "idle"]
    BY <1>2 DEF sigaio_handler, update_duty, UpdateOn, UpdateOff, ReadLine, ReadAgain,
                set_duty, set_period, SetDurations, quit, ignore, end_of_file, At, Goto,
                Return, AioLabels
  <2> QED
    BY <1>t, <2>1, HandlerSleeps DEF SleepInv, TypeOK
<1>3. CASE sigint_handler
  <2>1. /\ Running("sigint") /\ UNCHANGED masked
        /\ \/ pc' = pc /\ level' = level
           \/ level' = [level EXCEPT !["sigint"] = 0]
              /\ pc' = [pc EXCEPT !["sigint"] = "idle"]
    BY <1>3 DEF sigint_handler, At, Return
  <2>2. "idle" \in AioLabels
    BY DEF AioLabels
  <2> QED
    BY <1>t, <2>1, <2>2, HandlerSleeps DEF SleepInv, TypeOK
<1>4. CASE UNCHANGED vars \/ Expire \/ Interrupt \/ (\E c \in Commands : TypeLine(c))
  <2>1. UNCHANGED <<pc, level, masked, state>>
    BY <1>4 DEF vars, Expire, Interrupt, TypeLine
  <2> QED
    BY <1>t, <2>1 DEF SleepInv, Stacked, Asleep, Idle
<1> QED
  BY <1>1, <1>2, <1>3, <1>4, MainSleeps, DeliverSleeps DEF Next, Exited

\* Whatever is typed and whenever signals come, main waits only while state is
\* SLEEPING.
THEOREM NobodyOversleeps == Spec => []NeverOversleeps
<1>1. SleepInv => NeverOversleeps
  BY DEF SleepInv, Asleep, NeverOversleeps
<1> QED
  BY <1>1, SleepInit, SleepKept, PTL DEF Spec

-----------------------------------------------------------------------------
(* The timer goes on *)

Runs(t) == ~ (t.sec = 0 /\ t.nsec = 0)

\* Each duration is zero at most from the first assignment to it to its correction.
Durations ==
  /\ pc["sigaio"] \notin {"on_nsec", "off_sec", "off_nsec", "fix_on"} => Runs(timer_on)
  /\ pc["sigaio"] \notin {"off_nsec", "fix_on", "fix_off"} => Runs(timer_off)
LiveInv == TypeOK /\ Durations

LEMMA Lengthened ==
  ASSUME NEW t \in [sec : Nat, nsec : Nat]
  PROVE  Runs(AtLeast1ns(t))
BY DEF Runs, AtLeast1ns

LEMMA LiveInit == Init => LiveInv
<1> SUFFICES ASSUME Init PROVE Durations
  BY InitTypes DEF LiveInv
<1>1. \A t \in Nat : Runs(Duration(t))
  <2> SUFFICES ASSUME NEW t \in Nat PROVE Runs(Duration(t))
    OBVIOUS
  <2>1. [sec |-> Sec(t), nsec |-> Nsec(t)] \in [sec : Nat, nsec : Nat]
    BY SplitTypes
  <2> QED
    BY <2>1, Lengthened DEF Duration
<1> QED
  BY <1>1, TimeTypes DEF Init, Durations

LEMMA UpdateLives == LiveInv /\ update_duty => Durations'
<1> SUFFICES ASSUME LiveInv, update_duty PROVE Durations'
  OBVIOUS
<1> USE DEF LiveInv, Durations, UpdateOn, UpdateOff, At, Goto, TypeOK
<1>1. CASE UpdateOn("on_sec", "on_nsec", WithSec(timer_on, Sec(span.on)))
  BY <1>1 DEF update_duty
<1>2. CASE UpdateOn("on_nsec", "off_sec", [timer_on EXCEPT !.nsec = Nsec(span.on)])
  BY <1>2 DEF update_duty
<1>3. CASE UpdateOff("off_sec", "off_nsec", WithSec(timer_off, Sec(span.off)))
  BY <1>3 DEF update_duty
<1>4. CASE UpdateOff("off_nsec", "fix_on", [timer_off EXCEPT !.nsec = Nsec(span.off)])
  BY <1>4 DEF update_duty
<1>5. CASE UpdateOn("fix_on", "fix_off", AtLeast1ns(timer_on))
  BY <1>5, Lengthened DEF update_duty
<1>6. CASE UpdateOff("fix_off", "aio_read", AtLeast1ns(timer_off))
  BY <1>6, Lengthened DEF update_duty
<1> QED
  BY <1>1, <1>2, <1>3, <1>4, <1>5, <1>6 DEF update_duty

LEMMA LiveKept == LiveInv /\ [Next]_vars => LiveInv'
<1> SUFFICES ASSUME LiveInv, [Next]_vars PROVE Durations'
  BY TypesKept DEF LiveInv
<1>1. CASE update_duty
  BY <1>1, UpdateLives
<1>2. CASE /\ ReadLine \/ ReadAgain
           /\ UNCHANGED <<sigint_count, timer_on, timer_off, masked, armed, pend, exited>>
  <2>1. pc["sigaio"] \in {"entry", "aio_read"}
    BY <1>2 DEF ReadLine, ReadAgain, At
  <2> QED
    BY <1>2, <2>1 DEF LiveInv, Durations
<1>3. CASE main \/ sigint_handler \/ sigtimer_handler
  <2>1. pc'["sigaio"] = pc["sigaio"] /\ UNCHANGED <<timer_on, timer_off>>
    BY <1>3 DEF LiveInv, TypeOK, main, StartTimer, ArmTimer, CheckFinished, StopWorking,
                BlockSignals, CheckSleeping, Suspend, Unblock, Exit, Step, sigint_handler,
                sigtimer_handler, Test, Change, Restart, ReturnFinished, Goto, Return,
                durations
  <2> QED
    BY <2>1 DEF LiveInv, Durations
<1>4. ASSUME NEW h \in Handlers, Deliver(h) PROVE Durations'
  <2>1. /\ pc["sigaio"] # "suspended"
        /\ pc'["sigaio"] = IF h = "sigaio" THEN "entry" ELSE pc["sigaio"]
        /\ h = "sigaio" => pc["sigaio"] = "idle"
        /\ UNCHANGED <<timer_on, timer_off>>
    BY <1>4 DEF LiveInv, TypeOK, AioLabels, Deliver, durations
  <2> QED
    BY <2>1 DEF LiveInv, Durations
<1>5. CASE UNCHANGED vars \/ Expire \/ Interrupt \/ (\E c \in Commands : TypeLine(c))
  <2>1. UNCHANGED <<pc, timer_on, timer_off>>
    BY <1>5 DEF vars, durations, Expire, Interrupt, TypeLine
  <2> QED
    BY <2>1 DEF LiveInv, Durations
<1> QED
  BY <1>1, <1>2, <1>3, <1>4, <1>5 DEF Next, Exited, sigaio_handler

Sets(f) == pc[f] \in {"arm", "arm_on", "arm_off"} /\ pc'[f] # pc[f]

\* Whoever sets the timer sets it to a duration that runs.
LEMMA SetsTimer ==
  ASSUME LiveInv, [Next]_vars, NEW f \in {"main", "sigtimer"}, Sets(f)
  PROVE  armed' \/ Rewriting
<1>1. /\ Rewriting \/ Runs(timer_on)
      /\ Rewriting \/ Runs(timer_off)
  BY DEF LiveInv, Durations, Rewriting
<1> USE DEF Sets, LiveInv, TypeOK
<1>2. CASE main
  <2>1. f = "main"
    BY <1>2 DEF main, StartTimer, ArmTimer, CheckFinished, StopWorking, BlockSignals,
                CheckSleeping, Suspend, Unblock, Exit, Step, Goto
  <2>2. Rearm(timer_on)
    BY <1>2, <2>1 DEF main, StartTimer, ArmTimer, CheckFinished, StopWorking,
                BlockSignals, CheckSleeping, Suspend, Unblock, Exit, Step, At, MainLabels
  <2> QED
    BY <1>1, <2>2, Zenon DEF Rearm, Runs
<1>3. CASE sigtimer_handler
  <2>1. f = "sigtimer"
    BY <1>3 DEF sigtimer_handler, Test, Change, Restart, ReturnFinished, Goto, Return
  <2>2. Rearm(timer_on) \/ Rearm(timer_off)
    BY <1>3, <2>1 DEF sigtimer_handler, Test, Change, Restart, ReturnFinished, At
  <2> QED
    BY <1>1, <2>2, Zenon DEF Rearm, Runs
<1>4. CASE sigint_handler \/ sigaio_handler
  BY <1>4 DEF sigint_handler, sigaio_handler, update_duty, UpdateOn, UpdateOff, ReadLine,
              ReadAgain, set_duty, set_period, SetDurations, quit, ignore, end_of_file,
              Goto, Return
<1>5. ASSUME NEW h \in Handlers, Deliver(h) PROVE FALSE
  BY <1>5 DEF Deliver
<1>6. CASE UNCHANGED vars \/ Expire \/ Interrupt \/ (\E c \in Commands : TypeLine(c))
  BY <1>6 DEF vars, Expire, Interrupt, TypeLine
<1> QED
  BY <1>2, <1>3, <1>4, <1>5, <1>6 DEF Next, Exited

\* Whenever the timer is set it runs, for every duty cycle and period that is typed,
\* unless its handler has interrupted a line while it writes the durations (_update_duty,
\* cstress.c:81).
THEOREM TimerAlwaysGoesOn == Spec => TimerGoesOn
<1>1. LiveInv /\ [Next]_vars =>
        [\A f \in {"main", "sigtimer"} :
           pc[f] \in {"arm", "arm_on", "arm_off"} /\ pc'[f] # pc[f]
             => armed' \/ Rewriting]_vars
  BY SetsTimer DEF Sets
<1> QED
  BY <1>1, LiveInit, LiveKept, PTL DEF Spec, TimerGoesOn
=============================================================================
