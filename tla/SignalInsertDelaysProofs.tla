---------------------- MODULE SignalInsertDelaysProofs ----------------------
(* Theorems about SignalInsertDelays, for every value of its constants. *)
EXTENDS SignalInsertDelaysProperties, FiniteSetTheorems, TLAPS

USE ConstantsAssumption DEF ConstantsAssumption, Frames, Handlers, Updaters, Pids

-----------------------------------------------------------------------------
(* The type invariant *)

\* The seconds of a duration are a natural number, and what remains of it after any
\* number of seconds is an integer.
LEMMA SpanTypes ==
  ASSUME NEW t \in Nat, NEW timer \in [sec : Nat, nsec : Int]
  PROVE  /\ Sec(t) \in Nat
         /\ WithSec(timer, Sec(t)) \in [sec : Nat, nsec : Int]
         /\ WithRest(timer, t) \in [sec : Nat, nsec : Int]
         /\ AtLeast1ns(timer) \in [sec : Nat, nsec : Int]
<1>1. Sec(t) \in Nat
  BY DEF Sec
<1>2. timer.sec * TicksPerSec \in Nat
  <2>1. \A m, n \in Nat : m * n \in Nat
    OBVIOUS
  <2> QED
    BY <2>1
<1>3. t - timer.sec * TicksPerSec \in Int
  BY <1>2
<1>4. WithSec(timer, Sec(t)) \in [sec : Nat, nsec : Int]
  BY <1>1 DEF WithSec
<1>5. WithRest(timer, t) \in [sec : Nat, nsec : Int]
  BY <1>3, Zenon DEF WithRest
<1>6. AtLeast1ns(timer) \in [sec : Nat, nsec : Int]
  BY DEF AtLeast1ns
<1> QED
  BY <1>1, <1>4, <1>5, <1>6

\* The two durations are natural numbers for a duty cycle between 0 and 1.
LEMMA DurationTypes ==
  ASSUME NEW d \in 0..DutyDen, NEW p \in Nat
  PROVE  OnTime(d, p) \in Nat /\ OffTime(d, p) \in Nat
<1>1. d \in Nat /\ DutyDen - d \in Nat
  OBVIOUS
<1>2. \A m, n \in Nat : m * n \in Nat
  OBVIOUS
<1> QED
  BY <1>1, <1>2 DEF OnTime, OffTime

\* Sets of PIDs are finite.
LEMMA PidSets ==
  ASSUME NEW S, S \subseteq Pids
  PROVE  IsFiniteSet(S) /\ Cardinality(S) \in Nat
<1>1. IsFiniteSet(1..NPids)
  BY FS_Interval
<1> QED
  BY <1>1, FS_Subset, FS_CardinalityType

LEMMA InitTypes == Init => TypeOK
<1> SUFFICES ASSUME Init PROVE TypeOK
  OBVIOUS
<1>1. stoppableList \in [0..NPids -> 0..NPids]
  BY DEF Init
<1>2. stoppableListSize \in Nat /\ stoppableListIndex \in Nat
  <2>1. stoppable \subseteq Pids /\ Pids \ Births \subseteq Pids
    BY DEF Init
  <2>2. Cardinality(stoppable) \in Nat /\ Cardinality(Pids \ Births) \in Nat
    BY <2>1, PidSets
  <2> QED
    BY <2>2 DEF Init
<1>3. /\ pc \in [Frames -> Labels] /\ level \in [Frames -> Nat]
      /\ cur \in [Frames -> Nat]
      /\ span \in [Frames -> [on : Nat, off : Nat]]
  BY DEF Init, Labels, NoSpan
<1>4. status \in [Pids -> {"absent", "running", "stopping", "stopped"}]
  BY DEF Init
<1>5. /\ timer_on  \in [sec : Nat, nsec : Int]
      /\ timer_off \in [sec : Nat, nsec : Int]
  BY DEF Init
<1>6. /\ node \subseteq Pids /\ ok \subseteq Pids /\ new \subseteq Pids
      /\ stoppable \subseteq Pids /\ at \in [Updaters -> 1..(NPids + 1)]
      /\ armed \subseteq Updaters /\ pend \subseteq Handlers
  BY DEF Init
<1>7. /\ state \in {"FINISHED", "WORKING", "SLEEPING"}
      /\ sigint_count \in 0..2 /\ update_on_error_count \in 0..1
      /\ duty \in 0..DutyDen /\ period \in Nat
      /\ failed \in BOOLEAN /\ exited \in {"no", "ok", "fail"}
      /\ churn \in 0..MaxChurn
  <2>1. sigint_count \in 0..2 /\ update_on_error_count \in 0..1 /\ churn \in 0..MaxChurn
    BY DEF Init
  <2> QED
    BY <2>1 DEF Init
<1>8. aio \in [op : {"duty", "period", "interval", "quit", "other", "eof",
                     "reading", "closed"}, arg : Int]
  BY DEF Init
<1> QED
  BY <1>1, <1>2, <1>3, <1>4, <1>5, <1>6, <1>7, <1>8 DEF TypeOK, FlagTypes,
     TimerTypes, NodeTypes, ListTypes, FrameTypes, SignalTypes, ProcessTypes

\* A group of variables that a step leaves alone keeps its types.
LEMMA Kept ==
  ASSUME TypeOK
  PROVE  /\ UNCHANGED flagVars => FlagTypes'
         /\ UNCHANGED timerVars => TimerTypes'
         /\ UNCHANGED nodeVars => NodeTypes'
         /\ UNCHANGED listVars => ListTypes'
         /\ UNCHANGED <<loopVars, pc, level>> => FrameTypes'
         /\ UNCHANGED <<sigVars, exited>> => SignalTypes'
         /\ UNCHANGED procVars => ProcessTypes'
<1> USE DEF TypeOK
<1>1. UNCHANGED flagVars => FlagTypes'
  BY DEF flagVars, FlagTypes
<1>2. UNCHANGED timerVars => TimerTypes'
  BY DEF timerVars, TimerTypes
<1>3. UNCHANGED nodeVars => NodeTypes'
  BY DEF nodeVars, NodeTypes
<1>4. UNCHANGED listVars => ListTypes'
  BY DEF listVars, ListTypes
<1>5. UNCHANGED <<loopVars, pc, level>> => FrameTypes'
  BY DEF loopVars, FrameTypes
<1>6. UNCHANGED <<sigVars, exited>> => SignalTypes'
  BY DEF sigVars, SignalTypes
<1>7. UNCHANGED procVars => ProcessTypes'
  BY DEF procVars, ProcessTypes
<1> QED
  BY <1>1, <1>2, <1>3, <1>4, <1>5, <1>6, <1>7

\* A frame that goes to a label, or returns, keeps the types of the frames.
LEMMA Moved ==
  ASSUME FrameTypes, NEW f \in Frames, UNCHANGED loopVars,
         (\E l \in Labels : Goto(f, l)) \/ Return(f)
  PROVE  FrameTypes'
BY DEF FrameTypes, Goto, Return, loopVars, Labels

\* So does a frame in errExit.
LEMMA Aborted ==
  ASSUME FrameTypes, NEW f \in Frames, UNCHANGED failed, ErrExit(f)
  PROVE  FrameTypes'
BY DEF FrameTypes, ErrExit, Goto, Labels

\* Writing a PID or a zero into the list, inside or outside, keeps its type.
LEMMA Written ==
  ASSUME ListTypes, NEW i, NEW p \in 0..NPids
  PROVE  [stoppableList EXCEPT ![i] = p] \in [0..NPids -> 0..NPids]
BY DEF ListTypes

\* A positive entry is the PID of a process, inside the list.
LEMMA EntryIsPid ==
  ASSUME ListTypes, NEW i, Entry(i) > 0
  PROVE  i \in 0..NPids /\ Entry(i) = stoppableList[i] /\ Entry(i) \in Pids
<1>1. CASE i \in 0..NPids
  BY <1>1 DEF Entry, ListTypes
<1>2. CASE i \notin 0..NPids
  BY <1>2 DEF Entry
<1> QED
  BY <1>1, <1>2

\* Sending SIGSTOP or SIGCONT leaves every process in a known state.
LEMMA KillTypes ==
  ASSUME ProcessTypes, NEW p, NEW sig, UNCHANGED churn,
         \/ status' = AfterStop(p) \/ status' = AfterCont(p)
         \/ status' = AfterKill(p, sig)
  PROVE  ProcessTypes'
BY DEF ProcessTypes, AfterStop, AfterCont, AfterKill

LEMMA MainTypes == TypeOK /\ main => TypeOK'
<1> SUFFICES ASSUME TypeOK, main PROVE TypeOK'
  OBVIOUS
<1>1. FlagTypes'
  BY DEF main, TypeOK, FlagTypes, StartTimer, ArmTimer, StartUpdateTimer,
         CheckFinished, Pause
<1>2. TimerTypes'
  <2>1. CASE StartTimer
    <3>1. /\ OnTime(duty, period) \in Nat
          /\ OffTime(duty, period) \in Nat
      BY DurationTypes DEF TypeOK, TimerTypes
    <3> QED
      BY <2>1, <3>1 DEF main, StartTimer, EnterUpdateTimer, TypeOK, TimerTypes
  <2>2. CASE ~StartTimer
    BY <2>2, Kept DEF main, ArmTimer, StartUpdateTimer, CheckFinished, Pause,
       timerVars
  <2> QED
    BY <2>1, <2>2
<1>3. FrameTypes'
  <2>1. CASE RearmFails("main", timer_on)
    BY <2>1, Aborted DEF main, RearmFails, TypeOK
  <2>2. CASE ~RearmFails("main", timer_on)
    <3>1. \E l \in Labels : Goto("main", l)
      BY <2>2 DEF main, StartTimer, EnterUpdateTimer, ArmTimer, StartUpdateTimer,
         CheckFinished, Pause, Labels
    <3>2. UNCHANGED loopVars
      BY <2>2 DEF main, StartTimer, ArmTimer, StartUpdateTimer,
         CheckFinished, Pause, loopVars
    <3> QED
      BY <3>1, <3>2, Moved DEF TypeOK
  <2> QED
    BY <2>1, <2>2
<1>4. SignalTypes'
  BY DEF main, TypeOK, SignalTypes, StartTimer, ArmTimer, Rearm, RearmFails,
         StartUpdateTimer, CheckFinished, Pause
<1> QED
  BY <1>1, <1>2, <1>3, <1>4, Kept DEF main, TypeOK, treeVars

LEMMA UpdateTimerTypes ==
  ASSUME TypeOK, NEW f \in {"main", "sigaio"}, UpdateTimer(f)
  PROVE  TypeOK'
<1> USE DEF UpdateTimer
<1>1. TimerTypes'
  <2> USE DEF TypeOK, TimerTypes
  <2>1. span[f].on \in Nat /\ span[f].off \in Nat
    OBVIOUS
  <2>2. timer_on' \in [sec : Nat, nsec : Int] /\ timer_off' \in [sec : Nat, nsec : Int]
    <3>1. \/ timer_on' = WithSec(timer_on, Sec(span[f].on))
          \/ timer_on' = WithRest(timer_on, span[f].on)
          \/ timer_on' = AtLeast1ns(timer_on) \/ UNCHANGED timer_on
      BY DEF SetOnSec, SetOnNsec, SetOffSec, SetOffNsec, FixOn, FixOff
    <3>2. \/ timer_off' = WithSec(timer_off, Sec(span[f].off))
          \/ timer_off' = WithRest(timer_off, span[f].off)
          \/ timer_off' = AtLeast1ns(timer_off) \/ UNCHANGED timer_off
      BY DEF SetOnSec, SetOnNsec, SetOffSec, SetOffNsec, FixOn, FixOff
    <3>3. timer_on \in [sec : Nat, nsec : Int] /\ timer_off \in [sec : Nat, nsec : Int]
      OBVIOUS
    <3>4. /\ WithSec(timer_on, Sec(span[f].on)) \in [sec : Nat, nsec : Int]
          /\ WithRest(timer_on, span[f].on) \in [sec : Nat, nsec : Int]
          /\ AtLeast1ns(timer_on) \in [sec : Nat, nsec : Int]
      BY ONLY <2>1, <3>3, SpanTypes
    <3>5. /\ WithSec(timer_off, Sec(span[f].off)) \in [sec : Nat, nsec : Int]
          /\ WithRest(timer_off, span[f].off) \in [sec : Nat, nsec : Int]
          /\ AtLeast1ns(timer_off) \in [sec : Nat, nsec : Int]
      BY ONLY <2>1, <3>3, SpanTypes
    <3>6. timer_on' \in [sec : Nat, nsec : Int]
      BY ONLY <3>1, <3>3, <3>4
    <3>7. timer_off' \in [sec : Nat, nsec : Int]
      BY ONLY <3>2, <3>3, <3>5
    <3> QED
      BY <3>6, <3>7
  <2>3. CASE UNCHANGED span
    BY <2>2, <2>3
  <2>8. CASE FixOff(f) /\ span' = [span EXCEPT ![f] = NoSpan]
    BY <2>2, <2>8 DEF NoSpan
  <2> QED
    BY <2>3, <2>8
<1>2. FrameTypes'
  <2>1. \E l \in Labels : Goto(f, l)
    BY DEF SetOnSec, SetOnNsec, SetOffSec, SetOffNsec, FixOn, FixOff,
           AfterUpdateTimer, Labels
  <2> QED
    BY <2>1, Moved DEF TypeOK
<1> QED
  BY <1>1, <1>2, Kept DEF TypeOK, treeVars, sigVars

LEMMA UpdateProcTreeTypes ==
  ASSUME TypeOK, NEW f \in Updaters, UpdateProcTree(f)
  PROVE  TypeOK'
<1> USE DEF UpdateProcTree
<1>1. CASE ScanFails(f)
  <2>1. FrameTypes'
    BY <1>1, Aborted DEF ScanFails, TypeOK
  <2>2. ListTypes'
    BY <1>1 DEF ScanFails, TypeOK, ListTypes
  <2> QED
    BY <1>1, <2>1, <2>2, Kept DEF ScanFails, TypeOK, procVars
<1>2. CASE ScanProc(f)
  <2> DEFINE found == {p \in Pids : status[p] # "absent"}
  <2>1. found \subseteq Pids
    OBVIOUS
  <2>2. Cardinality(found) \in Nat
    BY <2>1, PidSets
  <2>3. NodeTypes'
    <3>1. 1 \in 1..(NPids + 1)
      OBVIOUS
    <3>2. at' \in [Updaters -> 1..(NPids + 1)]
      BY <1>2, <3>1, Zenon DEF ScanProc, TypeOK, NodeTypes
    <3>3. /\ node' \subseteq Pids /\ ok' \subseteq Pids /\ new' \subseteq Pids
          /\ stoppable' \subseteq Pids
      BY <1>2 DEF ScanProc, Marked, TypeOK, NodeTypes
    <3> QED
      BY <3>2, <3>3 DEF NodeTypes
  <2>4. stoppableListIndex' = 0 /\ stoppableListSize' \in Nat
    <3>1. SizeFor(found) \in Nat
      BY <2>2 DEF SizeFor
    <3> QED
      BY <1>2, <3>1, Zenon DEF ScanProc, TypeOK, ListTypes
  <2>5. ListTypes'
    <3>1. \/ UNCHANGED stoppableList
          \/ stoppableList' \in [0..NPids -> 0..NPids]
      BY <1>2, Zenon DEF ScanProc
    <3> QED
      BY <2>4, <3>1 DEF TypeOK, ListTypes
  <2>6. FrameTypes'
    <3>1. "item" \in Labels
      BY DEF Labels
    <3> QED
      BY <1>2, <3>1, Moved DEF ScanProc, TypeOK, loopVars
  <2> QED
    BY <1>2, <2>3, <2>5, <2>6, Kept DEF ScanProc, TypeOK, procVars
<1>3. CASE UpdateItem(f)
  <2>1. PICK p \in Pids :
          \/ RemoveItem(f, p) \/ KeepItem(f, p) \/ ProbeStop(f, p)
          \/ ProbeCont(f, p) \/ ProbeEnd(f, p)
    BY <1>3 DEF UpdateItem
  <2> USE DEF RemoveItem, KeepItem, ProbeStop, ProbeCont, ProbeEnd
  <2>2. p \in Pids /\ UNCHANGED loopVars
    BY <1>3 DEF UpdateItem, TypeOK, NodeTypes, loopVars
  <2>3. NodeTypes'
    <3>1. p \in 1..(NPids + 1) /\ p + 1 \in 1..(NPids + 1)
      OBVIOUS
    <3>2. UNCHANGED at \/ Past(f, p) \/ at' = [at EXCEPT ![f] = p]
      BY <2>1
    <3>3. at' \in [Updaters -> 1..(NPids + 1)]
      BY <3>1, <3>2, Zenon DEF Past, TypeOK, NodeTypes
    <3> QED
      BY <2>1, <3>3 DEF TypeOK, NodeTypes
  <2>4. ListTypes'
    <3>1. UNCHANGED listVars \/ AddToList(p)
      BY <2>1
    <3>2. ASSUME AddToList(p)
          PROVE  ListTypes'
      <4>1. stoppableList' \in [0..NPids -> 0..NPids]
        <5>1. p \in 0..NPids
          BY <2>2
        <5> QED
          BY <3>2, <5>1, Written, Zenon DEF AddToList, TypeOK
      <4> QED
        BY <3>2, <4>1, SMTT(30) DEF AddToList, TypeOK, ListTypes
    <3> QED
      BY <3>1, <3>2, Kept
  <2>5. FrameTypes'
    <3>1. UNCHANGED <<pc, level>> \/ \E l \in Labels : Goto(f, l)
      BY <2>1 DEF Labels
    <3> QED
      BY <3>1, <2>2, Moved, Kept DEF TypeOK
  <2>6. ProcessTypes'
    <3>1. UNCHANGED churn /\ \/ UNCHANGED status
                             \/ status' = AfterStop(p)
                             \/ status' = AfterCont(p)
      BY <2>1
    <3> QED
      BY <3>1, KillTypes, Kept DEF TypeOK, procVars
  <2> QED
    BY <2>3, <2>4, <2>5, <2>6, Kept DEF TypeOK
<1>4. CASE EndUpdate(f)
  <2>1. ListTypes'
    <3>1. stoppableList' \in [0..NPids -> 0..NPids]
      <4>1. 0 \in 0..NPids
        OBVIOUS
      <4> QED
        BY <1>4, <4>1, Written, Zenon DEF EndUpdate, Terminated, TypeOK
    <3> QED
      BY <1>4, <3>1 DEF EndUpdate, TypeOK, ListTypes
  <2>2. FrameTypes'
    <3>1. (\E l \in Labels : Goto(f, l)) \/ Return(f)
      BY <1>4 DEF EndUpdate, Labels
    <3> QED
      BY <1>4, <3>1, Moved DEF EndUpdate, TypeOK, loopVars
  <2>3. NodeTypes'
    BY <1>4 DEF EndUpdate, TypeOK, NodeTypes
  <2> QED
    BY <1>4, <2>1, <2>2, <2>3, Kept DEF EndUpdate, TypeOK, procVars
<1> QED
  BY <1>1, <1>2, <1>3, <1>4

LEMMA TimerHandlerTypes == TypeOK /\ sigtimer_handler => TypeOK'
<1> SUFFICES ASSUME TypeOK, sigtimer_handler PROVE TypeOK'
  OBVIOUS
<1> USE DEF sigtimer_handler
<1>1. FlagTypes' /\ SignalTypes'
  <2>1. /\ \/ UNCHANGED state
           \/ state' = "SLEEPING" \/ state' = "WORKING"
        /\ UNCHANGED update_on_error_count \/ update_on_error_count' = 1
    BY DEF TestState, Sleep, Work, ChangeState, StopNext, ContNext, KillNext,
           CheckErrors, TestRearm, RearmOnOff, RearmWith, RearmFails
  <2>2. UNCHANGED armed \/ \E t : Rearm(t)
    BY DEF TestState, Sleep, Work, ChangeState, StopNext, ContNext, KillNext,
           CheckErrors, TestRearm, RearmOnOff, RearmWith, RearmFails
  <2>3. FlagTypes'
    BY <2>1 DEF TypeOK, FlagTypes
  <2>4. armed' \subseteq Updaters
    BY <2>2 DEF Rearm, TypeOK, SignalTypes
  <2> QED
    BY <2>3, <2>4 DEF TypeOK, SignalTypes
<1>2. FrameTypes'
  <2>1. CASE TestState \/ Sleep \/ Work \/ TestRearm
    <3>1. \/ \E l \in Labels : Goto("sigtimer", l)
          \/ Return("sigtimer")
      BY <2>1 DEF TestState, Sleep, Work, ChangeState, TestRearm, Labels
    <3> QED
      BY <2>1, <3>1, Moved DEF TestState, Sleep, Work, ChangeState, TestRearm,
         TypeOK
  <2>4. CASE RearmOnOff
    <3>1. UNCHANGED failed /\ \/ Return("sigtimer") /\ UNCHANGED cur
                              \/ ErrExit("sigtimer")
      BY <2>4 DEF RearmOnOff, RearmWith, RearmFails
    <3> QED
      BY <3>1, Moved, Aborted DEF TypeOK, loopVars
  <2>2. ASSUME NEW label, NEW sig, KillNext(label, sig)
        PROVE  FrameTypes'
    <3>1. /\ (\E l \in Labels : Goto("sigtimer", l)) \/ UNCHANGED <<pc, level>>
          /\ \/ cur' = [cur EXCEPT !["sigtimer"] = cur["sigtimer"] + 1]
             \/ cur' = [cur EXCEPT !["sigtimer"] = 0]
      BY <2>2 DEF KillNext, Labels
    <3>2. UNCHANGED failed
          \/ \E p : failed' = (failed \/ status[p] = "absent")
      BY <2>2 DEF KillNext
    <3>3. failed' \in BOOLEAN
      BY <3>2 DEF TypeOK, FrameTypes
    <3> QED
      BY <3>1, <3>3 DEF Goto, TypeOK, FrameTypes
  <2>3. CASE CheckErrors
    <3>1. (\E l \in Labels : Goto("sigtimer", l)) /\ failed' = FALSE /\ cur' = cur
      BY <2>3 DEF CheckErrors, Labels
    <3> QED
      BY <3>1 DEF Goto, TypeOK, FrameTypes
  <2> QED
    BY <2>1, <2>2, <2>3, <2>4 DEF StopNext, ContNext
<1>3. ProcessTypes'
  <2>1. \/ UNCHANGED status
        \/ \E p, sig : status' = AfterKill(p, sig)
    BY DEF TestState, Sleep, Work, ChangeState, StopNext, ContNext, KillNext,
           CheckErrors, TestRearm, RearmOnOff, RearmWith, RearmFails
  <2> QED
    BY <2>1, KillTypes, Kept DEF TypeOK, procVars
<1> QED
  BY <1>1, <1>2, <1>3, Kept DEF TypeOK, treeVars

LEMMA InterruptHandlerTypes == TypeOK /\ sigint_handler => TypeOK'
<1> SUFFICES ASSUME TypeOK, sigint_handler PROVE TypeOK'
  OBVIOUS
<1>1. FlagTypes'
  BY DEF sigint_handler, TakesInterrupt, TypeOK, FlagTypes
<1>2. FrameTypes'
  BY DEF sigint_handler, ErrExit, Goto, Return, TypeOK, FrameTypes, Labels
<1> QED
  BY <1>1, <1>2, Kept DEF sigint_handler, TypeOK, treeVars

LEMMA AioHandlerTypes == TypeOK /\ sigaio_handler => TypeOK'
<1> SUFFICES ASSUME TypeOK, sigaio_handler PROVE TypeOK'
  OBVIOUS
<1> USE DEF sigaio_handler, ReadLine, ReadAgain, set_duty, set_period,
            set_update_interval, quit, ignore, end_of_file
<1>1. FlagTypes'
  BY DEF TypeOK, FlagTypes
<1>2. aio.arg \in Int
  BY DEF TypeOK, SignalTypes
<1>3. TimerTypes'
  <2>1. CASE set_duty(aio.arg)
    <3>1. Clip(aio.arg) \in 0..DutyDen
      BY <1>2 DEF Clip
    <3>2. /\ OnTime(Clip(aio.arg), period) \in Nat
          /\ OffTime(Clip(aio.arg), period) \in Nat
      BY <3>1, DurationTypes DEF TypeOK, TimerTypes
    <3> QED
      BY <2>1, <3>1, <3>2 DEF EnterUpdateTimer, TypeOK, TimerTypes
  <2>2. CASE set_period(aio.arg)
    <3>1. Clip0(aio.arg) \in Nat
      BY <1>2 DEF Clip0
    <3>2. /\ OnTime(duty, Clip0(aio.arg)) \in Nat
          /\ OffTime(duty, Clip0(aio.arg)) \in Nat
      BY <3>1, DurationTypes DEF TypeOK, TimerTypes
    <3> QED
      BY <2>2, <3>1, <3>2 DEF EnterUpdateTimer, TypeOK, TimerTypes
  <2>3. CASE UNCHANGED <<duty, period, span>>
    BY <2>3, Kept DEF timerVars
  <2> QED
    BY <2>1, <2>2, <2>3
<1>4. FrameTypes'
  <2>1. (\E l \in Labels : Goto("sigaio", l)) \/ Return("sigaio")
    BY DEF EnterUpdateTimer, Labels
  <2> QED
    BY <2>1, Moved DEF TypeOK
<1>5. SignalTypes'
  <2>1. armed' \subseteq Updaters
    BY DEF TypeOK, SignalTypes
  <2>2. \/ UNCHANGED aio \/ aio' = [op |-> "closed", arg |-> 0]
        \/ aio' = [op |-> "reading", arg |-> 0]
    OBVIOUS
  <2> QED
    BY <2>1, <2>2 DEF TypeOK, SignalTypes
<1> QED
  BY <1>1, <1>3, <1>4, <1>5, Kept DEF TypeOK, treeVars

LEMMA CloseTypes ==
  ASSUME TypeOK, NEW f \in Frames, CloseNext(f)
  PROVE  TypeOK'
<1>1. FrameTypes'
  BY DEF CloseNext, TypeOK, FrameTypes
<1>2. ProcessTypes'
  BY KillTypes, Kept DEF CloseNext, TypeOK, procVars
<1>3. SignalTypes'
  BY DEF CloseNext, TypeOK, SignalTypes, sigVars
<1> QED
  BY <1>1, <1>2, <1>3, Kept DEF CloseNext, TypeOK, treeVars

LEMMA EnvironmentTypes == TypeOK /\ Environment => TypeOK'
<1> SUFFICES ASSUME TypeOK, Environment PROVE TypeOK'
  OBVIOUS
<1>1. ASSUME NEW h \in Handlers, Deliver(h)
      PROVE  TypeOK'
  <2>1. FrameTypes'
    BY <1>1 DEF Deliver, TypeOK, FrameTypes, Labels, loopVars
  <2>2. SignalTypes'
    BY <1>1 DEF Deliver, TypeOK, SignalTypes
  <2> QED
    BY <1>1, <2>1, <2>2, Kept DEF Deliver, TypeOK, treeVars
<1>2. CASE \/ \E t \in Updaters : Expire(t)
           \/ Interrupt \/ \E c \in Commands : TypeLine(c)
  <2>1. SignalTypes'
    <3>1. ASSUME NEW t \in Updaters, Expire(t)
          PROVE  SignalTypes'
      BY <3>1 DEF Expire, AfterExpiry, TypeOK, SignalTypes
    <3>2. CASE Interrupt
      BY <3>2 DEF Interrupt, TypeOK, SignalTypes
    <3>3. ASSUME NEW c \in Commands, TypeLine(c)
          PROVE  SignalTypes'
      BY <3>3 DEF TypeLine, TypeOK, SignalTypes
    <3> QED
      BY <1>2, <3>1, <3>2, <3>3
  <2> QED
    BY <1>2, <2>1, Kept DEF Expire, Interrupt, TypeLine, TypeOK, treeVars
<1>3. ASSUME NEW p \in Pids, Process(p)
      PROVE  TypeOK'
  <2>1. ProcessTypes'
    BY <1>3 DEF Process, TakeStop, Die, Begin, TypeOK, ProcessTypes
  <2> QED
    BY <1>3, <2>1, Kept DEF Process, TypeOK, treeVars
<1> QED
  BY <1>1, <1>2, <1>3 DEF Environment

LEMMA StutterTypes == TypeOK /\ UNCHANGED vars => TypeOK'
BY Kept DEF TypeOK, vars, treeVars

\* Every step keeps the types.
LEMMA TypeStep == TypeOK /\ [Next]_vars => TypeOK'
<1>1. CASE sigupdate_handler
  <2>1. TypeOK => FrameTypes'
    BY <1>1, Moved DEF sigupdate_handler, TypeOK, Labels
  <2> QED
    BY <1>1, <2>1, Kept DEF sigupdate_handler, TypeOK, treeVars
<1> QED
  BY <1>1, MainTypes, UpdateTimerTypes, UpdateProcTreeTypes,
     TimerHandlerTypes, InterruptHandlerTypes, AioHandlerTypes, CloseTypes,
     EnvironmentTypes, StutterTypes DEF Next, Program, Exited

\* Every reachable state is well typed: no index, size or count of the program
\* leaves its range, however start-up, lines and nested updates interleave; the
\* nanoseconds of the durations are integers, and no more (lines 167 and 169).
THEOREM TypeCorrect == Spec => []TypeOK
<1>1. Init => TypeOK
  BY InitTypes
<1>2. TypeOK /\ [Next]_vars => TypeOK'
  BY TypeStep
<1> QED
  BY <1>1, <1>2, PTL DEF Spec

-----------------------------------------------------------------------------
(* No duration is zero outside _update_timer *)

\* Where a frame may have left the on time, or the off time, at zero.
OnOpen  == {"on_sec", "on_nsec", "off_sec", "off_nsec", "fix_on"}
OffOpen == OnOpen \cup {"fix_off"}

\* A zero is still to be corrected, by main or by the handler that interrupted it.
ZeroOpen ==
  pc["main"] # "start_timer" =>
    /\ Zero(timer_on)  => pc["main"] \in OnOpen  \/ pc["sigaio"] \in OnOpen
    /\ Zero(timer_off) => pc["main"] \in OffOpen \/ pc["sigaio"] \in OffOpen

\* Lines 172-177 leave no zero.
LEMMA NoZeroLeft ==
  ASSUME NEW t \in [sec : Nat, nsec : Int]
  PROVE  ~Zero(AtLeast1ns(t))
BY DEF Zero, AtLeast1ns

\* A step that writes no duration and takes neither frame out of _update_timer.
LEMMA ZeroKept ==
  ASSUME ZeroOpen, UNCHANGED <<timer_on, timer_off>>,
         pc["main"] \in OffOpen \cup {"start_timer"} => pc'["main"] = pc["main"],
         pc["sigaio"] \in OffOpen => pc'["sigaio"] = pc["sigaio"]
  PROVE  ZeroOpen'
BY DEF ZeroOpen, Zero, OffOpen

LEMMA ZeroUpdateTimer ==
  ASSUME TypeOK, ZeroOpen, NEW f \in {"main", "sigaio"}, UpdateTimer(f)
  PROVE  ZeroOpen'
<1>1. /\ timer_on \in [sec : Nat, nsec : Int] /\ timer_off \in [sec : Nat, nsec : Int]
      /\ pc \in [Frames -> Labels]
  BY DEF TypeOK, TimerTypes, FrameTypes
<1>2. \A l : Goto(f, l) => pc'[f] = l /\ \A g \in Frames \ {f} : pc'[g] = pc[g]
  BY <1>1 DEF Goto
<1>3. CASE SetOnSec(f) \/ SetOnNsec(f) \/ SetOffSec(f) \/ SetOffNsec(f)
  <2>1. pc'[f] \in OnOpen
    BY <1>2, <1>3 DEF SetOnSec, SetOnNsec, SetOffSec, SetOffNsec, OnOpen
  <2> QED
    BY <2>1 DEF ZeroOpen, OffOpen
<1>4. CASE FixOn(f)
  <2>1. ~Zero(timer_on)' /\ pc'[f] = "fix_off"
    BY <1>1, <1>2, <1>4, NoZeroLeft DEF FixOn, Zero
  <2> QED
    BY <2>1 DEF ZeroOpen, OffOpen
<1>5. CASE FixOff(f)
  <2>1. ~Zero(timer_off)'
    BY <1>1, <1>5, NoZeroLeft DEF FixOff, Zero
  <2>2. /\ UNCHANGED timer_on /\ pc[f] \notin OnOpen \cup {"start_timer"}
        /\ \A g \in Frames \ {f} : pc'[g] = pc[g]
    BY <1>2, <1>5 DEF FixOff, At, OnOpen
  <2> QED
    BY <2>1, <2>2 DEF ZeroOpen, Zero
<1> QED
  BY <1>3, <1>4, <1>5 DEF UpdateTimer

LEMMA ZeroStep == TypeOK /\ ZeroOpen /\ [Next]_vars => ZeroOpen'
<1> SUFFICES ASSUME TypeOK, ZeroOpen, [Next]_vars PROVE ZeroOpen'
  OBVIOUS
<1> USE DEF OffOpen, OnOpen
<1>1. pc \in [Frames -> Labels]
  BY DEF TypeOK, FrameTypes
<1>2. CASE main
  <2>1. CASE StartTimer
    <3>1. pc'["main"] \in OnOpen
      BY <1>1, <2>1 DEF StartTimer, EnterUpdateTimer, Goto
    <3> QED
      BY <3>1 DEF ZeroOpen
  <2>2. CASE ~StartTimer
    <3>1. /\ pc["main"] \notin OffOpen \cup {"start_timer"} /\ pc'["sigaio"] = pc["sigaio"]
          /\ UNCHANGED <<timer_on, timer_off>>
      BY <1>1, <1>2, <2>2 DEF main, ArmTimer, RearmFails, ErrExit, StartUpdateTimer,
         CheckFinished, Pause, At, Goto
    <3> QED
      BY <3>1, ZeroKept
  <2> QED
    BY <2>1, <2>2
<1>3. ASSUME NEW h \in {"sigtimer", "sigupdate", "sigint"}, UNCHANGED timerVars,
             \A f \in Frames \ {h} : pc'[f] = pc[f]
      PROVE  ZeroOpen'
  BY <1>3, ZeroKept DEF timerVars
<1>4. \A f \in Frames : \A l : Goto(f, l) \/ Return(f) \/ ErrExit(f) \/ UNCHANGED pc =>
        \A g \in Frames \ {f} : pc'[g] = pc[g]
  BY <1>1 DEF Goto, Return, ErrExit
<1>5. CASE sigint_handler \/ sigupdate_handler
  <2>1. UNCHANGED timerVars
    BY <1>5 DEF sigint_handler, sigupdate_handler
  <2>2. \/ \A g \in Frames \ {"sigint"} : pc'[g] = pc[g]
        \/ \A g \in Frames \ {"sigupdate"} : pc'[g] = pc[g]
    BY <1>4, <1>5 DEF sigint_handler, sigupdate_handler
  <2> QED
    BY <1>3, <2>1, <2>2
<1>6. CASE sigtimer_handler
  <2>1. UNCHANGED timerVars
    BY <1>6 DEF sigtimer_handler
  <2>2. \A g \in Frames \ {"sigtimer"} : pc'[g] = pc[g]
    BY <1>4, <1>6 DEF sigtimer_handler, TestState, Sleep, Work, ChangeState, StopNext,
       ContNext, KillNext, CheckErrors, TestRearm, RearmOnOff, RearmWith, RearmFails
  <2> QED
    BY <1>3, <2>1, <2>2
<1>7. ASSUME NEW f \in Updaters, UpdateProcTree(f)
      PROVE  ZeroOpen'
  <2>1. UNCHANGED timerVars
    BY <1>7 DEF UpdateProcTree
  <2>2. \A g \in Frames \ {f} : pc'[g] = pc[g]
    BY <1>4, <1>7 DEF UpdateProcTree, ScanFails, ScanProc, UpdateItem, RemoveItem,
       KeepItem, ProbeStop, ProbeCont, ProbeEnd, EndUpdate
  <2> QED
    BY <1>3, <2>1, <2>2
<1>8. CASE sigaio_handler
  <2>1. pc["sigaio"] \notin OffOpen /\ UNCHANGED <<timer_on, timer_off>>
    BY <1>8 DEF sigaio_handler, ReadLine, ReadAgain, At
  <2>2. pc'["main"] = pc["main"]
    BY <1>4, <1>8 DEF sigaio_handler, ReadLine, ReadAgain, set_duty, set_period,
       set_update_interval, quit, ignore, end_of_file, EnterUpdateTimer
  <2> QED
    BY <2>1, <2>2, ZeroKept
<1>9. ASSUME NEW h \in Handlers, Deliver(h)
      PROVE  ZeroOpen'
  <2>1. /\ UNCHANGED <<timer_on, timer_off>>
        /\ pc["main"] \in OffOpen \cup {"start_timer"} => pc'["main"] = pc["main"]
        /\ pc["sigaio"] \in OffOpen => pc'["sigaio"] = pc["sigaio"]
    BY <1>1, <1>9 DEF Deliver, timerVars
  <2> QED
    BY <2>1, ZeroKept
<1>10. ASSUME UNCHANGED <<timerVars, pc>>
       PROVE  ZeroOpen'
  BY <1>10, ZeroKept DEF timerVars
<1>11. ASSUME NEW f \in Frames, CloseNext(f)
       PROVE  ZeroOpen'
  BY <1>10, <1>11 DEF CloseNext
<1>12. CASE Environment
  BY <1>9, <1>10, <1>12 DEF Environment, Expire, Interrupt, TypeLine, Process
<1>13. CASE UNCHANGED vars
  BY <1>10, <1>13 DEF vars
<1> QED
  BY <1>2, <1>5, <1>6, <1>7, <1>8, <1>11, <1>12, <1>13, ZeroUpdateTimer
     DEF Next, Program, Exited

\* For any duty cycles and periods, 0 and 1 among them, and wherever a line
\* interrupts the start of the program: once _update_timer is over, neither duration
\* is zero, so that setting the timer does not disarm it.
THEOREM DurationsAlwaysRun == Spec => []DurationsRun
<1>1. Init => ZeroOpen
  BY DEF Init, ZeroOpen, OnOpen, OffOpen, Frames
<1>2. TypeOK /\ ZeroOpen /\ [Next]_vars => ZeroOpen'
  BY ZeroStep
<1>3. ZeroOpen => DurationsRun
  BY DEF ZeroOpen, DurationsRun, Rewriting, OnOpen, OffOpen
<1> QED
  BY TypeCorrect, <1>1, <1>2, <1>3, PTL DEF Spec

-----------------------------------------------------------------------------
(* The stoppable list is rewritten in place, inside its block *)

ItemLabels == {"item", "probe_cont", "probe_end"}

\* Updates on error and periodic updates are not used together, so that no update
\* interrupts another one.
NeverNested ==
  UpdateOnError => InitInterval = 0 /\ \A c \in Commands : c.op # "interval"

\* Then only one of the two handlers updates the list: sigtimer_handler with -U, and
\* sigupdate_handler without it.
OneUpdater ==
  /\ NeverNested
  /\ IF UpdateOnError
       THEN /\ "sigupdate" \notin armed \cup pend /\ pc["sigupdate"] = "idle"
            /\ aio.op # "interval"
       ELSE pc["sigtimer"] \notin {"scan"} \cup ItemLabels

\* What the running update has still to visit, and the node that it is probing.
todo == {p \in node : \E f \in Updaters : pc[f] \in ItemLabels /\ at[f] <= p}
Probed == {p \in todo : \E f \in Updaters :
                           pc[f] \in {"probe_cont", "probe_end"} /\ p = at[f]}

\* Between two updates no node is marked; during one, the marked nodes are among
\* those that it has still to visit.  A node that is new, or probed, is not yet
\* stoppable.
NodesOK ==
  /\ stoppable \subseteq node /\ ok \subseteq todo
  /\ \A f \in Updaters : pc[f] \in {"probe_cont", "probe_end"} => at[f] \in todo
  /\ (new \cup Probed) \cap stoppable = {} /\ (new \cup ok) \cap Probed = {}

\* The part of the list that the update has written holds the stoppable processes
\* it has visited, each once.
Visited == stoppable \ todo
WrittenOK ==
  Updating =>
    /\ stoppableListIndex = Cardinality(Visited)
    /\ \A i \in 0..(stoppableListIndex - 1) : stoppableList[i] \in Visited
    /\ \A p \in Visited : \E i \in 0..(stoppableListIndex - 1) : stoppableList[i] = p

ListInv == /\ TypeOK /\ OneUpdater /\ NodesOK /\ WrittenOK
           /\ ListMatchesTree /\ ListInBounds

\* The nodes that the running update may still put on the list.
Left == (todo \cap ok) \cup Probed

\* While one handler updates the list, the other does not.
LEMMA OneUpdating ==
  ASSUME NEW f \in Updaters
  PROVE  /\ OneUpdater /\ pc[f] \in {"scan"} \cup ItemLabels =>
              \A g \in Updaters : g # f => pc[g] \notin {"scan"} \cup ItemLabels
         /\ OneUpdater' /\ pc'[f] \in {"scan"} \cup ItemLabels =>
              \A g \in Updaters : g # f => pc'[g] \notin {"scan"} \cup ItemLabels
BY DEF OneUpdater, ItemLabels

\* So that what is left is what its iteration has left.
LEMMA BoundsForm ==
  /\ OneUpdater => (ListInBounds <=>
       (Updating => stoppableListIndex + Cardinality(Left) < stoppableListSize))
  /\ OneUpdater' => (ListInBounds' <=>
       (Updating' => stoppableListIndex' + Cardinality(Left') < stoppableListSize'))
<1>1. ASSUME OneUpdater, NEW f \in Updaters, Iterates(f)
      PROVE  Updating /\ Left = Listing(f)
  <2>1. \A g \in Updaters : pc[g] \in ItemLabels <=> g = f
    BY <1>1, OneUpdating DEF Iterates, ItemLabels
  <2> QED
    BY <1>1, <2>1 DEF Updating, Iterates, Listing, Todo, Left, Probed, todo, ItemLabels
<1>2. ASSUME OneUpdater', NEW f \in Updaters, Iterates(f)'
      PROVE  Updating' /\ Left' = Listing(f)'
  <2>1. \A g \in Updaters : pc'[g] \in ItemLabels <=> g = f
    BY <1>2, OneUpdating DEF Iterates, ItemLabels
  <2> QED
    BY <1>2, <2>1 DEF Updating, Iterates, Listing, Todo, Left, Probed, todo, ItemLabels
<1>3. OneUpdater => (ListInBounds <=>
       (Updating => stoppableListIndex + Cardinality(Left) < stoppableListSize))
  BY <1>1, Zenon DEF ListInBounds, Updating
<1>4. OneUpdater' => (ListInBounds' <=>
       (Updating' => stoppableListIndex' + Cardinality(Left') < stoppableListSize'))
  BY <1>2, Zenon DEF ListInBounds, Updating
<1> QED
  BY <1>3, <1>4

\* A step that leaves the tree and the list alone, and keeps the updates where they
\* are, keeps what the invariant says of them.
LEMMA TreeKept ==
  ASSUME ListInv, OneUpdater', UNCHANGED treeVars,
         \A f \in Updaters :
           pc'[f] = pc[f] \/ (pc[f] \notin ItemLabels /\ pc'[f] \notin ItemLabels)
  PROVE  NodesOK' /\ WrittenOK' /\ ListMatchesTree' /\ ListInBounds'
<1>1. /\ Updating' <=> Updating
      /\ \A f \in Updaters :
           /\ pc'[f] \in ItemLabels <=> pc[f] \in ItemLabels
           /\ pc'[f] \in {"probe_cont", "probe_end"} <=>
                pc[f] \in {"probe_cont", "probe_end"}
  BY DEF Updating, Iterates, ItemLabels
<1>2. UNCHANGED <<node, ok, new, stoppable, at, stoppableList, stoppableListSize,
                  stoppableListIndex>>
  BY DEF treeVars, nodeVars, listVars
<1>3. todo' = todo
  BY <1>1, <1>2 DEF todo
<1>4. Probed' = Probed
  BY <1>1, <1>2, <1>3 DEF Probed
<1>5. NodesOK' /\ WrittenOK'
  BY <1>1, <1>2, <1>3, <1>4 DEF ListInv, NodesOK, WrittenOK, Visited
<1>6. ListMatchesTree'
  BY <1>1, <1>2 DEF ListInv, ListMatchesTree, Listed
<1>7. ListInBounds'
  <2>1. Left' = Left
    BY <1>2, <1>3, <1>4 DEF Left
  <2> QED
    BY <1>1, <1>2, <2>1, BoundsForm DEF ListInv
<1> QED
  BY <1>5, <1>6, <1>7

\* A set of PIDs that lacks one has fewer than NPids members.
LEMMA LeavesRoom ==
  ASSUME NEW S \in SUBSET Pids, NEW p \in Pids, p \notin S
  PROVE  /\ Cardinality(S) \in Nat /\ Cardinality(S) < NPids
         /\ Cardinality(S \cup {p}) = Cardinality(S) + 1
<1>1. IsFiniteSet(S) /\ Cardinality(S) \in Nat
  BY PidSets
<1>2. Cardinality(S \cup {p}) = Cardinality(S) + 1
  BY <1>1, FS_AddElement
<1>3. IsFiniteSet(1..NPids) /\ Cardinality(1..NPids) = NPids
  BY FS_Interval
<1>4. Cardinality(S \cup {p}) <= NPids
  BY <1>3, FS_Subset
<1> QED
  BY <1>1, <1>2, <1>4

LEMMA ListInit == NeverNested /\ Init => ListInv
<1> SUFFICES ASSUME NeverNested, Init PROVE ListInv
  OBVIOUS
<1>1. TypeOK
  BY InitTypes
<1>2. ~Updating
  BY DEF Init, Updating, Iterates
<1>3. OneUpdater
  BY DEF Init, OneUpdater, ItemLabels
<1>4. NodesOK /\ WrittenOK /\ ListInBounds
  BY <1>2 DEF Init, NodesOK, Probed, WrittenOK, ListInBounds, Updating
<1>5. ListMatchesTree
  <2>1. IsListOf(stoppableList, stoppable) /\ stoppable \subseteq Pids
    BY DEF Init
  <2> DEFINE n == Cardinality(stoppable)
  <2>2. n \in 0..NPids
    <3>1. IsFiniteSet(1..NPids) /\ Cardinality(1..NPids) = NPids
      BY FS_Interval
    <3>2. stoppable \in SUBSET (1..NPids)
      BY <2>1
    <3>3. n <= NPids
      BY <3>1, <3>2, FS_Subset
    <3>4. n \in Nat
      BY <2>1, PidSets
    <3> QED
      BY <3>3, <3>4
  <2>3. /\ \A p \in stoppable : \E i \in 0..(n - 1) : stoppableList[i] = p
        /\ \A i \in 0..(n - 1) : stoppableList[i] \in stoppable
        /\ \A i \in n..NPids : stoppableList[i] = 0
    BY <2>1 DEF IsListOf
  <2> HIDE DEF n
  <2>4. ASSUME NEW p \in Pids
        PROVE  Listed(p) <=> p \in stoppable
    BY <2>1, <2>2, <2>3 DEF Listed
  <2> QED
    BY <2>1, <2>4 DEF ListMatchesTree
<1> QED
  BY <1>1, <1>3, <1>4, <1>5 DEF ListInv

\* Where a step takes the two handlers that update the list.
LEMMA OneUpdaterStep == ListInv /\ [Next]_vars => OneUpdater'
<1> SUFFICES ASSUME ListInv, [Next]_vars PROVE OneUpdater'
  OBVIOUS
<1> USE DEF ItemLabels
<1>0. pc \in [Frames -> Labels]
  BY DEF ListInv, TypeOK, FrameTypes
<1>1. CASE main
  <2>1. /\ \E l \in Labels : pc' = [pc EXCEPT !["main"] = l]
        /\ UNCHANGED <<pend, aio>>
        /\ UpdateOnError => ("sigupdate" \in armed' => "sigupdate" \in armed)
    BY <1>1 DEF main, StartTimer, EnterUpdateTimer, ArmTimer, RearmFails, ErrExit,
       StartUpdateTimer, CheckFinished, Pause, Goto, Labels, Rearm, ListInv, OneUpdater,
       NeverNested
  <2> QED
    BY <1>0, <2>1 DEF ListInv, OneUpdater
<1>2. CASE sigint_handler
  <2>1. /\ \E l \in Labels : pc' = [pc EXCEPT !["sigint"] = l]
        /\ UNCHANGED <<armed, pend, aio>>
    BY <1>2 DEF sigint_handler, ErrExit, Goto, Return, sigVars, Labels
  <2> QED
    BY <1>0, <2>1 DEF ListInv, OneUpdater
<1>3. CASE sigtimer_handler
  <2>1. /\ UNCHANGED <<pend, aio>>
        /\ "sigupdate" \in armed' => "sigupdate" \in armed
        /\ pc'["sigupdate"] = pc["sigupdate"]
        /\ ~UpdateOnError => pc'["sigtimer"] \notin {"scan"} \cup ItemLabels
    <3>1. /\ UNCHANGED <<pend, aio>>
          /\ "sigupdate" \in armed' => "sigupdate" \in armed
      BY <1>3 DEF sigtimer_handler, TestState, Sleep, Work, ChangeState, StopNext,
         ContNext, KillNext, CheckErrors, TestRearm, RearmOnOff, RearmWith, RearmFails,
         Rearm
    <3>2. \/ UNCHANGED pc
          \/ \E l \in Labels \ ({"scan"} \cup ItemLabels) :
               pc' = [pc EXCEPT !["sigtimer"] = l]
          \/ UpdateDue /\ pc' = [pc EXCEPT !["sigtimer"] = "scan"]
      BY <1>3 DEF sigtimer_handler, TestState, Sleep, Work, ChangeState, StopNext,
         ContNext, KillNext, CheckErrors, TestRearm, RearmOnOff, RearmWith, RearmFails,
         ErrExit, Goto, Return, Labels
    <3> QED
      BY <1>0, <3>1, <3>2 DEF UpdateDue, ListInv, OneUpdater
  <2> QED
    BY <2>1 DEF ListInv, OneUpdater
<1>4. CASE sigupdate_handler
  <2>1. /\ pc["sigupdate"] = "entry" /\ pc' = [pc EXCEPT !["sigupdate"] = "scan"]
        /\ UNCHANGED <<armed, pend, aio>>
    BY <1>4 DEF sigupdate_handler, At, Goto, sigVars
  <2> QED
    BY <1>0, <2>1 DEF ListInv, OneUpdater
<1>5. CASE sigaio_handler
  <2>1. /\ \E l \in Labels : pc' = [pc EXCEPT !["sigaio"] = l]
        /\ UNCHANGED pend
        /\ UNCHANGED aio \/ aio' = [op |-> "closed", arg |-> 0]
           \/ aio' = [op |-> "reading", arg |-> 0]
        /\ UNCHANGED armed \/ aio.op = "interval"
    BY <1>5 DEF sigaio_handler, ReadLine, ReadAgain, set_duty, set_period,
       set_update_interval, quit, ignore, end_of_file, EnterUpdateTimer, Goto, Return,
       Labels
  <2> QED
    BY <1>0, <2>1 DEF ListInv, OneUpdater
<1>6. ASSUME NEW f \in {"main", "sigaio"}, UpdateTimer(f)
      PROVE  OneUpdater'
  <2>1. /\ \E l \in Labels : pc' = [pc EXCEPT ![f] = l]
        /\ UNCHANGED <<armed, pend, aio>>
    BY <1>6 DEF UpdateTimer, SetOnSec, SetOnNsec, SetOffSec, SetOffNsec, FixOn, FixOff,
       AfterUpdateTimer, Goto, sigVars, Labels
  <2> QED
    BY <1>0, <2>1 DEF ListInv, OneUpdater
<1>7. ASSUME NEW f \in Updaters, UpdateProcTree(f)
      PROVE  OneUpdater'
  <2>1. /\ pc[f] \in {"scan"} \cup ItemLabels
        /\ UNCHANGED pc \/ \E l \in Labels : pc' = [pc EXCEPT ![f] = l]
        /\ UNCHANGED <<armed, pend, aio>>
    BY <1>7 DEF UpdateProcTree, ScanFails, ErrExit, ScanProc, UpdateItem, RemoveItem,
       KeepItem, ProbeStop, ProbeCont, ProbeEnd, EndUpdate, Goto, Return, At, sigVars,
       Labels
  <2> QED
    BY <1>0, <2>1 DEF ListInv, OneUpdater
<1>8. ASSUME NEW f \in Frames, CloseNext(f)
      PROVE  OneUpdater'
  BY <1>8 DEF CloseNext, sigVars, ListInv, OneUpdater
<1>9. ASSUME NEW h \in Handlers, Deliver(h)
      PROVE  OneUpdater'
  BY <1>9 DEF Deliver, ListInv, OneUpdater
<1>10. CASE \/ \E t \in Updaters : Expire(t)
            \/ Interrupt \/ \E p \in Pids : Process(p)
  BY <1>10 DEF Expire, AfterExpiry, Interrupt, Process, sigVars, ListInv, OneUpdater
<1>11. ASSUME NEW c \in Commands, TypeLine(c)
       PROVE  OneUpdater'
  BY <1>11 DEF TypeLine, ListInv, OneUpdater, NeverNested
<1>12. CASE UNCHANGED vars
  BY <1>12 DEF vars, sigVars, ListInv, OneUpdater
<1> QED
  BY <1>1, <1>2, <1>3, <1>4, <1>5, <1>6, <1>7, <1>8, <1>9, <1>10, <1>11, <1>12
     DEF Next, Program, Environment, Exited

\* What a step of the updating handler f, which goes to label l, makes of the update.
LEMMA UpdateGoesOn ==
  ASSUME ListInv, NEW f \in Updaters, pc[f] \in {"scan"} \cup ItemLabels,
         NEW l \in Labels, pc' = [pc EXCEPT ![f] = l]
  PROVE  /\ Updating <=> pc[f] \in ItemLabels
         /\ Updating' <=> l \in ItemLabels
         /\ pc[f] \in ItemLabels => todo = Todo(f)
         /\ pc[f] \notin ItemLabels => todo = {}
         /\ l \in ItemLabels => todo' = Todo(f)'
         /\ l \notin ItemLabels => todo' = {}
         /\ pc[f] \in {"probe_cont", "probe_end"} => Probed = {at[f]} /\ at[f] \in todo
         /\ pc[f] \notin {"probe_cont", "probe_end"} => Probed = {}
         /\ l \in {"probe_cont", "probe_end"} => Probed' = {at'[f]} \cap todo'
         /\ l \notin {"probe_cont", "probe_end"} => Probed' = {}
<1>1. pc \in [Frames -> Labels]
  BY DEF ListInv, TypeOK, FrameTypes
<1>2. \A g \in Updaters : g # f => pc[g] \notin {"scan"} \cup ItemLabels
  BY OneUpdating DEF ListInv
<1>3. pc'[f] = l /\ \A g \in Updaters : g # f => pc'[g] = pc[g]
  BY <1>1
<1>4. /\ Updating <=> pc[f] \in ItemLabels
      /\ Updating' <=> l \in ItemLabels
  BY <1>2, <1>3 DEF Updating, Iterates, ItemLabels
<1>5. /\ pc[f] \in ItemLabels => todo = Todo(f)
      /\ pc[f] \notin ItemLabels => todo = {}
  BY <1>2 DEF todo, Todo
<1>6. /\ l \in ItemLabels => todo' = Todo(f)'
      /\ l \notin ItemLabels => todo' = {}
  BY <1>2, <1>3 DEF todo, Todo
<1>7. /\ pc[f] \in {"probe_cont", "probe_end"} => Probed = {at[f]} /\ at[f] \in todo
      /\ pc[f] \notin {"probe_cont", "probe_end"} => Probed = {}
  BY <1>2 DEF Probed, ItemLabels, ListInv, NodesOK
<1>8. /\ l \in {"probe_cont", "probe_end"} => Probed' = {at'[f]} \cap todo'
      /\ l \notin {"probe_cont", "probe_end"} => Probed' = {}
  BY <1>2, <1>3 DEF Probed, ItemLabels
<1> QED
  BY <1>4, <1>5, <1>6, <1>7, <1>8

\* Being past the next node p of an iteration leaves what is behind it; being at p
\* leaves p as well.
LEMMA GoesPast ==
  ASSUME TypeOK, NEW f \in Updaters, NEW p \in Todo(f), \A q \in Todo(f) : p <= q,
         node' \in {node, node \ {p}}
  PROVE  /\ Past(f, p) => Todo(f)' = Todo(f) \ {p}
         /\ at' = [at EXCEPT ![f] = p] /\ node' = node => Todo(f)' = Todo(f)
<1>1. node \subseteq Nat /\ at[f] \in Nat /\ at \in [Updaters -> 1..(NPids + 1)]
  BY DEF TypeOK, NodeTypes
<1>2. ASSUME Past(f, p)
      PROVE  Todo(f)' = Todo(f) \ {p}
  <2>1. at'[f] = p + 1
    BY <1>1, <1>2 DEF Past
  <2>2. \A q \in node : p + 1 <= q <=> at[f] <= q /\ q # p
    BY <1>1 DEF Todo
  <2> QED
    BY <2>1, <2>2 DEF Todo
<1>3. ASSUME at' = [at EXCEPT ![f] = p], node' = node
      PROVE  Todo(f)' = Todo(f)
  <2>1. at'[f] = p
    BY <1>1, <1>3
  <2>2. \A q \in node : p <= q <=> at[f] <= q
    BY <1>1 DEF Todo
  <2> QED
    BY <1>3, <2>1, <2>2 DEF Todo
<1> QED
  BY <1>2, <1>3

\* A step of an update that lists nothing: the written part stays as it is, and no
\* node is added to those that may still be listed.
LEMMA NothingListed ==
  ASSUME ListInv, Updating, Updating', TypeOK', OneUpdater', UNCHANGED listVars,
         Visited' = Visited, Left' \subseteq Left
  PROVE  WrittenOK' /\ ListMatchesTree' /\ ListInBounds'
<1>1. WrittenOK'
  BY DEF ListInv, WrittenOK, listVars
<1>2. ListMatchesTree'
  BY DEF ListMatchesTree
<1>3. ListInBounds'
  <2>1. Left \subseteq Pids /\ stoppableListIndex \in Nat /\ stoppableListSize \in Nat
    BY DEF Left, Probed, todo, ListInv, TypeOK, NodeTypes, ListTypes
  <2>2. IsFiniteSet(Left) /\ Cardinality(Left) \in Nat /\ Cardinality(Left') \in Nat
    BY <2>1, PidSets
  <2>3. Cardinality(Left') <= Cardinality(Left)
    BY <2>2, FS_Subset
  <2> QED
    BY <2>1, <2>2, <2>3, BoundsForm DEF ListInv, listVars
<1> QED
  BY <1>1, <1>2, <1>3

\* A step that puts p on the list takes it from those that may still be listed.
LEMMA OneListed ==
  ASSUME ListInv, Updating, Updating', TypeOK', OneUpdater', NEW p \in Left, AddToList(p),
         p \notin Visited, Visited' = Visited \cup {p}, Left' \subseteq Left \ {p}
  PROVE  WrittenOK' /\ ListMatchesTree' /\ ListInBounds'
<1>1. /\ Left \subseteq Pids /\ Visited \subseteq Pids
      /\ stoppableListIndex \in Nat /\ stoppableListSize \in Nat
      /\ stoppableList \in [0..NPids -> 0..NPids]
  BY DEF Left, Probed, todo, Visited, ListInv, TypeOK, NodeTypes, ListTypes
<1>2. /\ Cardinality(Visited) \in Nat /\ Cardinality(Visited) < NPids
      /\ Cardinality(Visited \cup {p}) = Cardinality(Visited) + 1
  BY <1>1, LeavesRoom
<1>3. WrittenOK'
  <2>1. stoppableListIndex = Cardinality(Visited)
    BY DEF ListInv, WrittenOK
  <2>2. /\ stoppableList' = [stoppableList EXCEPT ![stoppableListIndex] = p]
        /\ stoppableListIndex' = stoppableListIndex + 1
    BY DEF AddToList
  <2>3. stoppableListIndex \in 0..NPids
    BY <1>2, <2>1
  <2> DEFINE n == stoppableListIndex
  <2>4. stoppableList'[n] = p /\ \A i \in 0..(n - 1) : stoppableList'[i] = stoppableList[i]
    BY <1>1, <2>2, <2>3
  <2>5. n \in 0..n /\ \A i \in 0..n : i \in 0..(n - 1) \/ i = n
    BY <1>1
  <2>6. /\ \A i \in 0..(n - 1) : stoppableList[i] \in Visited
        /\ \A q \in Visited : \E i \in 0..(n - 1) : stoppableList[i] = q
    BY DEF ListInv, WrittenOK
  <2>7. \A i \in 0..(n - 1) : i \in 0..n
    BY <1>1
  <2>8. /\ \A i \in 0..n : stoppableList'[i] \in Visited'
        /\ \A q \in Visited' : \E i \in 0..n : stoppableList'[i] = q
    BY <2>4, <2>5, <2>6, <2>7
  <2>9. stoppableListIndex' = Cardinality(Visited') /\ stoppableListIndex' - 1 = n
    BY <1>1, <1>2, <2>1, <2>2
  <2> HIDE DEF n
  <2> QED
    BY <2>8, <2>9 DEF WrittenOK
<1>4. ListMatchesTree'
  BY DEF ListMatchesTree
<1>5. ListInBounds'
  <2>1. IsFiniteSet(Left) /\ Cardinality(Left) \in Nat
    BY <1>1, PidSets
  <2>2. /\ IsFiniteSet(Left \ {p})
        /\ Cardinality(Left \ {p}) = Cardinality(Left) - 1
    BY <2>1, FS_RemoveElement
  <2>3. Cardinality(Left') <= Cardinality(Left) - 1
    BY <2>2, FS_Subset
  <2>4. Left' \subseteq Pids
    BY <1>1
  <2>5. Cardinality(Left') \in Nat
    BY <2>4, PidSets
  <2> QED
    BY <1>1, <2>1, <2>3, <2>5, BoundsForm DEF ListInv, AddToList
<1> QED
  BY <1>3, <1>4, <1>5

\* One step of the visit of the node p.
LEMMA ListItem ==
  ASSUME ListInv, TypeOK', OneUpdater', NEW f \in Updaters, UpdateItem(f)
  PROVE  NodesOK' /\ WrittenOK' /\ ListMatchesTree' /\ ListInBounds'
<1>1. PICK p \in Pids :
        \/ /\ At(f, "item") /\ IsNext(f, p)
           /\ RemoveItem(f, p) \/ KeepItem(f, p) \/ ProbeStop(f, p)
        \/ At(f, "probe_cont") /\ p = at[f] /\ ProbeCont(f, p)
        \/ At(f, "probe_end")  /\ p = at[f] /\ ProbeEnd(f, p)
  BY DEF UpdateItem
<1>a. pc \in [Frames -> Labels] /\ f \in Frames
  BY DEF ListInv, TypeOK, FrameTypes
<1>b. /\ stoppable \subseteq node /\ ok \subseteq todo /\ todo \subseteq node
      /\ (new \cup Probed) \cap stoppable = {} /\ (new \cup ok) \cap Probed = {}
  BY DEF ListInv, NodesOK, todo
<1>d. /\ pc[f] \in ItemLabels /\ todo = Todo(f) /\ Updating
      /\ pc[f] = "item" => Probed = {}
      /\ pc[f] \in {"probe_cont", "probe_end"} => Probed = {p} /\ p \in todo
  <2>1. pc[f] \in ItemLabels
    BY <1>1 DEF At, ItemLabels
  <2>2. \A g \in Updaters : g # f => pc[g] \notin ItemLabels
    BY <2>1, OneUpdating DEF ListInv
  <2>3. todo = Todo(f) /\ Updating
    BY <2>1, <2>2 DEF todo, Todo, Updating, Iterates, ItemLabels
  <2>4. pc[f] = "item" => Probed = {}
    BY <2>2 DEF Probed, ItemLabels
  <2>5. pc[f] \in {"probe_cont", "probe_end"} => at[f] \in todo /\ p = at[f]
    BY <1>1 DEF ListInv, NodesOK, At
  <2>6. pc[f] \in {"probe_cont", "probe_end"} => Probed = {p}
    BY <2>2, <2>5 DEF Probed, ItemLabels
  <2> QED
    BY <2>1, <2>3, <2>4, <2>5, <2>6
<1>c. p \in Todo(f) /\ \A q \in Todo(f) : p <= q
  BY <1>1, <1>d DEF IsNext, Todo, At
<1>e. ASSUME NEW l \in ItemLabels, pc' = [pc EXCEPT ![f] = l],
             node' \in {node, node \ {p}}
      PROVE  /\ Updating'
             /\ Past(f, p) => todo' = todo \ {p}
             /\ at' = [at EXCEPT ![f] = p] /\ node' = node => todo' = todo /\ at'[f] = p
             /\ l = "item" => Probed' = {}
             /\ l # "item" => Probed' = {at'[f]} \cap todo'
             /\ l = "item" \/ at'[f] \in todo' =>
                  \A g \in Updaters : pc'[g] \in {"probe_cont", "probe_end"} => at'[g] \in todo'
  <2>1. l \in Labels /\ pc[f] \in {"scan"} \cup ItemLabels
    BY <1>d DEF ItemLabels, Labels
  <2>2. /\ Updating' /\ todo' = Todo(f)'
        /\ l = "item" => Probed' = {}
        /\ l # "item" => Probed' = {at'[f]} \cap todo'
    BY <1>e, <2>1, UpdateGoesOn DEF ItemLabels
  <2>3. /\ Past(f, p) => Todo(f)' = Todo(f) \ {p}
        /\ at' = [at EXCEPT ![f] = p] /\ node' = node => Todo(f)' = Todo(f)
    BY <1>c, <1>e, GoesPast DEF ListInv
  <2>4. at' = [at EXCEPT ![f] = p] => at'[f] = p
    BY DEF ListInv, TypeOK, NodeTypes
  <2>5. \A g \in Updaters : g # f => pc'[g] \notin ItemLabels
    <3>1. pc'[f] = l
      BY <1>a, <1>e
    <3> QED
      BY <3>1, OneUpdating
  <2>6. l = "item" \/ at'[f] \in todo' =>
          \A g \in Updaters : pc'[g] \in {"probe_cont", "probe_end"} => at'[g] \in todo'
    BY <1>a, <1>e, <2>5 DEF ItemLabels
  <2> QED
    BY <1>d, <2>2, <2>3, <2>4, <2>6
<1>2. CASE At(f, "item") /\ (RemoveItem(f, p) \/ KeepItem(f, p))
  <2>1. pc' = [pc EXCEPT ![f] = "item"] /\ pc[f] = "item"
    BY <1>2, <1>a DEF At, RemoveItem, KeepItem
  <2>0. node' \in {node, node \ {p}} /\ Past(f, p)
    BY <1>2 DEF RemoveItem, KeepItem
  <2>2. /\ Updating /\ Updating' /\ Probed = {} /\ Probed' = {} /\ todo' = todo \ {p}
        /\ \A g \in Updaters : pc'[g] \in {"probe_cont", "probe_end"} => at'[g] \in todo'
    BY <1>d, <1>e, <2>0, <2>1 DEF ItemLabels
  <2>3. CASE RemoveItem(f, p)
    <3>1. /\ node' = node \ {p} /\ new' = new \ {p} /\ stoppable' = stoppable \ {p}
          /\ ok' = ok /\ p \notin ok /\ UNCHANGED listVars
      BY <2>3 DEF RemoveItem
    <3>2. NodesOK'
      BY <1>b, <1>c, <1>d, <2>2, <3>1 DEF NodesOK
    <3>3. Visited' = Visited /\ Left' \subseteq Left
      BY <1>c, <1>d, <2>2, <3>1 DEF Visited, Left
    <3> QED
      BY <2>2, <3>1, <3>2, <3>3, NothingListed
  <2>4. CASE KeepItem(f, p)
    <3>1. /\ node' = node /\ new' = new \ {p} /\ stoppable' = stoppable
          /\ ok' = ok \ {p} /\ p \in ok
          /\ IF p \in stoppable THEN AddToList(p) ELSE UNCHANGED listVars
      BY <2>4 DEF KeepItem, Listable
    <3>2. NodesOK'
      BY <1>b, <1>c, <1>d, <2>2, <3>1 DEF NodesOK
    <3>3. Left' \subseteq Left \ {p} /\ p \in Left
      BY <1>c, <1>d, <2>2, <3>1 DEF Left
    <3>4. CASE p \in stoppable
      <4>1. p \notin Visited /\ Visited' = Visited \cup {p}
        BY <1>c, <1>d, <2>2, <3>1, <3>4 DEF Visited
      <4> QED
        BY <2>2, <3>1, <3>2, <3>3, <3>4, <4>1, OneListed
    <3>5. CASE p \notin stoppable
      <4>1. Visited' = Visited
        BY <2>2, <3>1, <3>5 DEF Visited
      <4> QED
        BY <2>2, <3>1, <3>2, <3>3, <3>5, <4>1, NothingListed
    <3> QED
      BY <3>4, <3>5
  <2> QED
    BY <1>2, <2>3, <2>4
<1>3. CASE At(f, "item") /\ ProbeStop(f, p)
  <2>1. /\ node' = node /\ new' = new \ {p} /\ stoppable' = stoppable /\ ok' = ok \ {p}
        /\ p \in ok /\ p \in new /\ UNCHANGED listVars /\ pc[f] = "item"
    BY <1>3 DEF At, ProbeStop
  <2>2. p \notin stoppable
    BY <1>b, <2>1
  <2>3. CASE status[p] = "absent"
    <3>1. pc' = [pc EXCEPT ![f] = "item"] /\ Past(f, p)
      BY <1>3, <1>a, <2>3 DEF At, ProbeStop
    <3>2. /\ Updating /\ Updating' /\ Probed = {} /\ Probed' = {} /\ todo' = todo \ {p}
          /\ \A g \in Updaters : pc'[g] \in {"probe_cont", "probe_end"} => at'[g] \in todo'
      BY <1>d, <1>e, <2>1, <3>1 DEF ItemLabels
    <3>3. NodesOK'
      BY <1>b, <2>1, <3>1, <3>2 DEF NodesOK
    <3>4. Visited' = Visited /\ Left' \subseteq Left
      BY <2>1, <2>2, <3>1, <3>2 DEF Visited, Left
    <3> QED
      BY <2>1, <3>2, <3>3, <3>4, NothingListed
  <2>4. CASE status[p] # "absent"
    <3>1. pc' = [pc EXCEPT ![f] = "probe_cont"] /\ at' = [at EXCEPT ![f] = p]
      BY <1>3, <2>4 DEF ProbeStop, Goto
    <3>3. /\ Updating /\ Updating' /\ Probed = {} /\ Probed' = {p} /\ todo' = todo
          /\ \A g \in Updaters : pc'[g] \in {"probe_cont", "probe_end"} => at'[g] \in todo'
      BY <1>c, <1>d, <1>e, <2>1, <3>1 DEF ItemLabels
    <3>4. NodesOK'
      BY <1>b, <2>1, <2>2, <3>1, <3>3 DEF NodesOK
    <3>5. Visited' = Visited /\ Left' \subseteq Left
      BY <1>c, <1>d, <2>1, <2>2, <3>1, <3>3 DEF Visited, Left
    <3> QED
      BY <2>1, <3>3, <3>4, <3>5, NothingListed
  <2> QED
    BY <2>3, <2>4
<1>4. CASE At(f, "probe_cont") /\ ProbeCont(f, p)
  <2>1. /\ UNCHANGED <<node, ok, new, stoppable>> /\ UNCHANGED listVars
        /\ pc[f] = "probe_cont"
    BY <1>4 DEF At, ProbeCont
  <2>2. CASE status[p] # "stopped"
    <3>1. pc' = [pc EXCEPT ![f] = "item"] /\ Past(f, p)
      BY <1>4, <2>2 DEF ProbeCont, Goto
    <3>2. /\ Updating /\ Updating' /\ Probed = {p} /\ Probed' = {} /\ todo' = todo \ {p}
          /\ \A g \in Updaters : pc'[g] \in {"probe_cont", "probe_end"} => at'[g] \in todo'
      BY <1>d, <1>e, <2>1, <3>1 DEF ItemLabels
    <3>3. p \notin stoppable
      BY <1>b, <3>2
    <3>4. NodesOK'
      <4>1. p \notin ok
        BY <1>b, <3>2
      <4> QED
        BY <1>b, <2>1, <3>1, <3>2, <4>1 DEF NodesOK
    <3>5. Visited' = Visited /\ Left' \subseteq Left
      BY <2>1, <3>1, <3>2, <3>3 DEF Visited, Left
    <3> QED
      BY <2>1, <3>2, <3>4, <3>5, NothingListed
  <2>3. CASE status[p] = "stopped"
    <3>1. pc' = [pc EXCEPT ![f] = "probe_end"] /\ at' = at /\ at[f] = p
      BY <1>1, <1>4, <2>1, <2>3 DEF ProbeCont, Goto, At
    <3>2. at' = [at EXCEPT ![f] = p]
      BY <3>1 DEF ListInv, TypeOK, NodeTypes
    <3>3. /\ Updating /\ Updating' /\ Probed = {p} /\ Probed' = {p} /\ todo' = todo
          /\ \A g \in Updaters : pc'[g] \in {"probe_cont", "probe_end"} => at'[g] \in todo'
      BY <1>c, <1>d, <1>e, <2>1, <3>1, <3>2 DEF ItemLabels
    <3>4. NodesOK'
      BY <1>b, <2>1, <3>1, <3>3 DEF NodesOK, ListInv
    <3>5. Visited' = Visited /\ Left' \subseteq Left
      BY <2>1, <3>1, <3>3 DEF Visited, Left
    <3> QED
      BY <2>1, <3>3, <3>4, <3>5, NothingListed
  <2> QED
    BY <2>2, <2>3
<1>5. CASE At(f, "probe_end") /\ ProbeEnd(f, p)
  <2>1. /\ UNCHANGED <<node, ok, new>> /\ Past(f, p)
        /\ pc[f] = "probe_end" /\ pc' = [pc EXCEPT ![f] = "item"]
        /\ IF status[p] = "stopped"
             THEN UNCHANGED <<stoppable, listVars>>
             ELSE stoppable' = stoppable \cup {p} /\ AddToList(p)
    BY <1>5, <1>b, <1>d DEF At, ProbeEnd, Goto
  <2>2. /\ Updating /\ Updating' /\ Probed = {p} /\ Probed' = {} /\ todo' = todo \ {p}
        /\ \A g \in Updaters : pc'[g] \in {"probe_cont", "probe_end"} => at'[g] \in todo'
    BY <1>d, <1>e, <2>1 DEF ItemLabels
  <2>3. p \notin stoppable /\ p \notin ok /\ p \notin new /\ p \in node
    BY <1>b, <1>d, <2>1, <2>2
  <2>4. NodesOK'
    BY <1>b, <2>1, <2>2, <2>3 DEF NodesOK
  <2>5. p \in Left /\ Left' \subseteq Left \ {p}
    BY <2>1, <2>2, <2>3 DEF Left
  <2>6. CASE status[p] = "stopped"
    <3>1. Visited' = Visited
      <4>1. stoppable' = stoppable /\ todo' = todo \ {p}
        BY <2>1, <2>2, <2>6
      <4> QED
        BY <2>3, <4>1 DEF Visited
    <3> QED
      BY <2>1, <2>2, <2>4, <2>5, <2>6, <3>1, NothingListed
  <2>7. CASE status[p] # "stopped"
    <3>1. p \notin Visited /\ Visited' = Visited \cup {p}
      <4>1. stoppable' = stoppable \cup {p} /\ todo' = todo \ {p}
        BY <2>1, <2>2, <2>7
      <4> QED
        BY <2>3, <4>1 DEF Visited
    <3> QED
      BY <2>1, <2>2, <2>4, <2>5, <2>7, <3>1, OneListed
  <2> QED
    BY <2>6, <2>7
<1> QED
  BY <1>1, <1>2, <1>3, <1>4, <1>5

\* An update begins: the nodes that are marked are the processes in /proc, for which
\* the block has room.
LEMMA ListScan ==
  ASSUME ListInv, TypeOK', OneUpdater', NEW f \in Updaters, ScanProc(f)
  PROVE  NodesOK' /\ WrittenOK' /\ ListMatchesTree' /\ ListInBounds'
<1> DEFINE found == {p \in Pids : status[p] # "absent"}
<1>1. /\ pc[f] = "scan" /\ pc' = [pc EXCEPT ![f] = "item"]
      /\ node' = node \cup found /\ ok' = ok \cup found
      /\ new' = new \cup (found \ node) /\ at' = [at EXCEPT ![f] = 1]
      /\ stoppable' = stoppable
      /\ stoppableListIndex' = 0
      /\ SizeFor(found) > stoppableListSize => stoppableListSize' = SizeFor(found)
      /\ ~(SizeFor(found) > stoppableListSize) => stoppableListSize' = stoppableListSize
  BY DEF ScanProc, At, Goto, Marked, listVars
<1>2. /\ ~Updating /\ Updating' /\ Probed = {} /\ Probed' = {}
      /\ todo = {} /\ todo' = Todo(f)'
  BY <1>1, UpdateGoesOn DEF ItemLabels, Labels
<1>9. todo' = node'
  <2>1. at'[f] = 1 /\ node' \subseteq Pids
    BY <1>1 DEF ListInv, TypeOK, NodeTypes
  <2>2. \A q \in node' : at'[f] <= q
    BY <2>1
  <2>3. Todo(f)' = node'
    BY <2>2 DEF Todo
  <2> QED
    BY <1>2, <2>3
<1>10. \A g \in Updaters : pc'[g] \notin {"probe_cont", "probe_end"}
  <2>1. \A g \in Updaters : g # f => pc[g] \notin {"scan"} \cup ItemLabels
    BY <1>1, OneUpdating DEF ListInv
  <2> QED
    BY <1>1, <2>1 DEF ListInv, TypeOK, FrameTypes, ItemLabels
<1>3. found \subseteq Pids
  OBVIOUS
<1> HIDE DEF found
<1>4. todo = {} /\ ok = {} /\ stoppable \subseteq node /\ new \cap stoppable = {}
  BY <1>2 DEF ListInv, NodesOK
<1>5. NodesOK'
  BY <1>1, <1>2, <1>4, <1>9, <1>10 DEF NodesOK
<1>6. WrittenOK'
  <2>1. Visited' = {}
    BY <1>1, <1>4, <1>9 DEF Visited
  <2> QED
    BY <1>1, <2>1, FS_EmptySet DEF WrittenOK
<1>7. ListMatchesTree'
  BY <1>2 DEF ListMatchesTree
<1>8. ListInBounds'
  <2>1. Left' = found
    BY <1>1, <1>2, <1>4, <1>9 DEF Left
  <2>2. Cardinality(found) \in Nat
    BY <1>3, PidSets
  <2>3. stoppableListSize \in Nat
    BY DEF ListInv, TypeOK, ListTypes
  <2> QED
    BY <1>1, <2>1, <2>2, <2>3, BoundsForm DEF SizeFor
<1> QED
  BY <1>5, <1>6, <1>7, <1>8

\* An update ends: the zero is written behind the processes that are stoppable.
LEMMA ListEnd ==
  ASSUME ListInv, TypeOK', OneUpdater', NEW f \in Updaters, EndUpdate(f)
  PROVE  NodesOK' /\ WrittenOK' /\ ListMatchesTree' /\ ListInBounds'
<1>1. /\ pc[f] = "item" /\ Todo(f) = {} /\ UNCHANGED <<node, ok, new, stoppable>>
      /\ stoppableList' = [stoppableList EXCEPT ![stoppableListIndex] = 0]
  BY DEF EndUpdate, At, Terminated
<1>2. PICK l \in Labels \ ItemLabels : pc' = [pc EXCEPT ![f] = l]
  BY DEF EndUpdate, Goto, Return, ItemLabels, Labels
<1>3. /\ Updating /\ ~Updating' /\ Probed = {} /\ Probed' = {}
      /\ todo = {} /\ todo' = {}
  BY <1>1, <1>2, UpdateGoesOn DEF ItemLabels
<1>4. NodesOK'
  BY <1>1, <1>3 DEF ListInv, NodesOK, Updating, Iterates
<1>5. WrittenOK' /\ ListInBounds'
  BY <1>3 DEF WrittenOK, ListInBounds, Updating
<1>6. ListMatchesTree'
  <2> DEFINE n == stoppableListIndex
  <2>1. Visited = stoppable /\ stoppable \subseteq Pids /\ n = Cardinality(stoppable)
    BY <1>3 DEF Visited, ListInv, WrittenOK, TypeOK, NodeTypes
  <2>2. n \in 0..NPids
    <3>1. IsFiniteSet(1..NPids) /\ Cardinality(1..NPids) = NPids
      BY FS_Interval
    <3>2. stoppable \in SUBSET (1..NPids)
      BY <2>1
    <3>3. n <= NPids
      BY <2>1, <3>1, <3>2, FS_Subset
    <3>4. n \in Nat
      BY <2>1, PidSets
    <3> QED
      BY <3>3, <3>4
  <2>3. /\ \A i \in 0..(n - 1) : stoppableList[i] \in stoppable
        /\ \A p \in stoppable : \E i \in 0..(n - 1) : stoppableList[i] = p
    BY <1>3, <2>1 DEF ListInv, WrittenOK
  <2>4. stoppableList \in [0..NPids -> 0..NPids]
    BY DEF ListInv, TypeOK, ListTypes
  <2> HIDE DEF n
  <2>5. /\ stoppableList'[n] = 0
        /\ \A i \in 0..(n - 1) : stoppableList'[i] = stoppableList[i]
    BY <1>1, <2>2, <2>4 DEF n
  <2>6. stoppable' = stoppable
    BY <1>1
  <2>7. ASSUME NEW p \in stoppable
        PROVE  Listed(p)'
    <3>1. PICK i \in 0..(n - 1) : stoppableList[i] = p
      BY <2>3
    <3>2. \A j \in 0..i : j \in 0..(n - 1)
      BY <2>2, <3>1
    <3>3. \A j \in 0..i : stoppableList'[j] # 0
      BY <2>1, <2>3, <2>5, <3>2
    <3>4. i \in 0..NPids /\ stoppableList'[i] = p
      BY <2>2, <2>5, <3>1
    <3> QED
      BY <3>3, <3>4 DEF Listed
  <2>8. ASSUME NEW p \in Pids, Listed(p)'
        PROVE  p \in stoppable
    <3>1. PICK i \in 0..NPids : stoppableList'[i] = p /\ \A j \in 0..i : stoppableList'[j] # 0
      BY <2>8 DEF Listed
    <3>2. i \in 0..(n - 1)
      BY <2>2, <2>5, <3>1
    <3> QED
      BY <2>3, <2>5, <3>1, <3>2
  <2> QED
    BY <2>1, <2>6, <2>7, <2>8 DEF ListMatchesTree
<1> QED
  BY <1>4, <1>5, <1>6

\* /proc cannot be read: the tree and the list stay as they are.
LEMMA ListScanFails ==
  ASSUME ListInv, TypeOK', OneUpdater', NEW f \in Updaters, ScanFails(f)
  PROVE  NodesOK' /\ WrittenOK' /\ ListMatchesTree' /\ ListInBounds'
<1>1. /\ pc[f] = "scan" /\ pc' = [pc EXCEPT ![f] = "abort"]
      /\ UNCHANGED nodeVars /\ stoppableList' = stoppableList
  BY DEF ScanFails, ErrExit, At, Goto
<1>2. /\ ~Updating /\ ~Updating' /\ Probed = {} /\ Probed' = {}
      /\ todo = {} /\ todo' = {}
  BY <1>1, UpdateGoesOn DEF ItemLabels, Labels
<1>3. NodesOK'
  BY <1>1, <1>2 DEF ListInv, NodesOK, nodeVars, Updating, Iterates
<1>4. WrittenOK' /\ ListInBounds'
  BY <1>2 DEF WrittenOK, ListInBounds, Updating
<1>5. ListMatchesTree'
  BY <1>1, <1>2 DEF ListInv, ListMatchesTree, Listed, nodeVars
<1> QED
  BY <1>3, <1>4, <1>5

\* No other step touches the tree or the list, or moves a handler into an update or
\* out of one.
LEMMA OtherSteps ==
  ASSUME ListInv, [Next]_vars, ~\E f \in Updaters : UpdateProcTree(f)
  PROVE  /\ UNCHANGED treeVars
         /\ \A f \in Updaters :
              pc'[f] = pc[f] \/ (pc[f] \notin ItemLabels /\ pc'[f] \notin ItemLabels)
<1>0. pc \in [Frames -> Labels]
  BY DEF ListInv, TypeOK, FrameTypes
<1>1. CASE main
  <2>1. \E l \in Labels : pc' = [pc EXCEPT !["main"] = l]
    BY <1>1 DEF main, StartTimer, EnterUpdateTimer, ArmTimer, RearmFails, ErrExit,
       StartUpdateTimer, CheckFinished, Pause, Goto, Labels
  <2> QED
    BY <1>0, <1>1, <2>1 DEF main
<1>2. CASE sigint_handler
  <2>1. \E l \in Labels : pc' = [pc EXCEPT !["sigint"] = l]
    BY <1>2 DEF sigint_handler, ErrExit, Goto, Return, Labels
  <2> QED
    BY <1>0, <1>2, <2>1 DEF sigint_handler
<1>3. CASE sigtimer_handler
  <2>1. \/ UNCHANGED pc
        \/ /\ pc["sigtimer"] \notin ItemLabels
           /\ \E l \in Labels \ ItemLabels : pc' = [pc EXCEPT !["sigtimer"] = l]
    BY <1>3 DEF sigtimer_handler, TestState, Sleep, Work, ChangeState, StopNext,
       ContNext, KillNext, CheckErrors, TestRearm, RearmOnOff, RearmWith, RearmFails,
       ErrExit, Goto, Return, At, Labels, ItemLabels
  <2> QED
    BY <1>0, <1>3, <2>1 DEF sigtimer_handler
<1>4. CASE sigupdate_handler
  BY <1>0, <1>4 DEF sigupdate_handler, At, Goto, ItemLabels
<1>5. CASE sigaio_handler
  <2>1. \E l \in Labels : pc' = [pc EXCEPT !["sigaio"] = l]
    BY <1>5 DEF sigaio_handler, ReadLine, ReadAgain, set_duty, set_period,
       set_update_interval, quit, ignore, end_of_file, EnterUpdateTimer, Goto, Return,
       Labels
  <2> QED
    BY <1>0, <1>5, <2>1 DEF sigaio_handler
<1>6. ASSUME NEW f \in {"main", "sigaio"}, UpdateTimer(f)
      PROVE  UNCHANGED treeVars /\ \A g \in Updaters : pc'[g] = pc[g]
  <2>1. \E l \in Labels : pc' = [pc EXCEPT ![f] = l]
    BY <1>6 DEF UpdateTimer, SetOnSec, SetOnNsec, SetOffSec, SetOffNsec, FixOn, FixOff,
       AfterUpdateTimer, Goto, Labels
  <2> QED
    BY <1>0, <1>6, <2>1 DEF UpdateTimer
<1>7. ASSUME NEW f \in Frames, CloseNext(f)
      PROVE  UNCHANGED treeVars /\ UNCHANGED pc
  BY <1>7 DEF CloseNext
<1>8. ASSUME NEW h \in Handlers, Deliver(h)
      PROVE  /\ UNCHANGED treeVars
             /\ \A f \in Updaters :
                  pc'[f] = pc[f] \/ (pc[f] \notin ItemLabels /\ pc'[f] \notin ItemLabels)
  BY <1>8 DEF Deliver, ItemLabels
<1>9. CASE \/ \E t \in Updaters : Expire(t)
           \/ Interrupt \/ \E p \in Pids : Process(p)
           \/ \E c \in Commands : TypeLine(c)
  BY <1>9 DEF Expire, Interrupt, Process, TypeLine
<1>10. CASE UNCHANGED vars
  BY <1>10 DEF vars
<1> QED
  BY <1>1, <1>2, <1>3, <1>4, <1>5, <1>6, <1>7, <1>8, <1>9, <1>10
     DEF Next, Program, Environment, Exited

LEMMA ListStep == ListInv /\ [Next]_vars => ListInv'
<1> SUFFICES ASSUME ListInv, [Next]_vars PROVE ListInv'
  OBVIOUS
<1>1. TypeOK'
  BY TypeStep DEF ListInv
<1>2. OneUpdater'
  BY OneUpdaterStep
<1>3. ASSUME NEW f \in Updaters, UpdateProcTree(f)
      PROVE  NodesOK' /\ WrittenOK' /\ ListMatchesTree' /\ ListInBounds'
  BY <1>1, <1>2, <1>3, ListScanFails, ListScan, ListItem, ListEnd DEF UpdateProcTree
<1>4. CASE ~\E f \in Updaters : UpdateProcTree(f)
  BY <1>1, <1>2, <1>4, OtherSteps, TreeKept DEF ListInv
<1> QED
  BY <1>1, <1>2, <1>3, <1>4 DEF ListInv

\* With -U or with periodic updates, not with both, however many processes there are,
\* whatever starts, ends and is probed while a list is rebuilt, and wherever a signal
\* interrupts it: between two updates the list holds exactly the stoppable processes
\* (get_children.c:260-275, 366).
THEOREM ListAlwaysMatches == ASSUME NeverNested PROVE Spec => []ListMatchesTree
<1>1. NeverNested /\ Init => ListInv
  BY ListInit
<1>2. NeverNested
  OBVIOUS
<1>3. Init => ListInv
  BY <1>1, <1>2
<1>4. ListInv /\ [Next]_vars => ListInv'
  BY ListStep
<1>5. ListInv => ListMatchesTree
  BY DEF ListInv
<1> QED
  BY <1>3, <1>4, <1>5, PTL DEF Spec

\* ... and, likewise when the two kinds of update are not used together, no update
\* writes past the end of the block (get_children.c:263, 317-366).
THEOREM ListStaysInBounds == ASSUME NeverNested PROVE Spec => []ListInBounds
<1>1. Init => ListInv
  BY ListInit
<1>2. ListInv /\ [Next]_vars => ListInv'
  BY ListStep
<1>3. ListInv => ListInBounds
  BY DEF ListInv
<1> QED
  BY <1>1, <1>2, <1>3, PTL DEF Spec

-----------------------------------------------------------------------------
(* The phases, and the end, of a program without periodic updates *)

\* The list is the one that cmdline built, or -U has it rebuilt when a kill fails, and
\* then no process starts: no -u and no update interval is typed.
QuietList == /\ InitInterval = 0 /\ \A c \in Commands : c.op # "interval"
             /\ UpdateOnError => Births = {}

\* No periodic update is running, pending or timed, and an update of sigtimer_handler
\* finds no new process: the nodes that it has not marked are those that ended.
NothingNew ==
  /\ "sigupdate" \notin armed \cup pend /\ pc["sigupdate"] = "idle"
  /\ aio.op # "interval"
  /\ new = {} /\ pc["sigtimer"] \notin {"probe_cont", "probe_end"}
  /\ stoppable \cap Births = {}
  /\ UpdateOnError =>
       \A p \in Pids : p \notin node \/ p \in todo \ ok => status[p] = "absent"

\* main is at the bottom of the call stack, the active handlers above it; only main
\* comes to its end.
CallStack == /\ level["main"] = 0
             /\ \A h \in Handlers : pc[h] # "idle" => level[h] > 0
             /\ \A h \in Handlers : pc[h] # "close"

\* Where the loops of main and sigtimer_handler are.
Loops  == {"stop_all", "cont_all"}
LoopsOK ==
  /\ pc["main"] \notin {"close", "abort"} => cur["main"] = 0
  /\ pc["sigtimer"] \notin Loops \cup {"abort"} => cur["sigtimer"] = 0
  /\ pc["sigtimer"] \in Loops =>
       \A i \in 0..NPids : i < cur["sigtimer"] => stoppableList[i] # 0
  /\ failed => pc["sigtimer"] \in Loops \cup {"check_errors"}

\* Only stoppable processes are stopped, none before the work timer is armed.
Early == {"start_timer", "on_sec", "on_nsec", "off_sec", "off_nsec", "fix_on",
          "fix_off", "arm"}
StoppedListed ==
  /\ \A p \in Pids : IsStopped(p) => p \in stoppable
  /\ pc["main"] \in Early =>
       /\ pc["sigtimer"] = "idle" /\ "sigtimer" \notin armed \cup pend
       /\ \A p \in Pids : ~IsStopped(p)

\* Once main has left its loop, the timer handler stops nothing and updates nothing;
\* what prepare_for_close has passed is no longer stopped.
Finishing ==
  pc["main"] = "close" =>
    /\ state = "FINISHED" /\ ~failed
    /\ pc["sigtimer"] \in {"idle", "entry", "test_sleeping", "check_errors", "rearm"}
    /\ \A i \in 0..NPids : i < cur["main"] =>
         \A p \in Pids : stoppableList[i] = p => ~IsStopped(p)

\* The processes are in the phase that state names, but in the loops that change it:
\* there, those that the loop has passed are in the new one.
InPhase(p) == /\ state = "SLEEPING" /\ pc["main"] # "start_timer" =>
                   status[p] # "running"
              /\ state = "WORKING" => ~IsStopped(p)
Phases ==
  ~Closing =>
    /\ pc["sigtimer"] \notin Loops \cup {"sleep", "work"} =>
         \A p \in stoppable : InPhase(p)
    /\ pc["sigtimer"] = "stop_all" =>
         /\ state # "WORKING"
         /\ \A i \in 0..NPids : i < cur["sigtimer"] =>
              \A p \in Pids : stoppableList[i] = p => status[p] # "running"
    /\ pc["sigtimer"] = "cont_all" =>
         /\ state # "SLEEPING"
         /\ \A i \in 0..NPids : i < cur["sigtimer"] =>
              \A p \in Pids : stoppableList[i] = p => ~IsStopped(p)

PhaseInv == /\ ListInv /\ NothingNew /\ CallStack /\ LoopsOK /\ StoppedListed
            /\ Finishing /\ Phases /\ RestoredAtExit

LEMMA PhaseTypes ==
  ASSUME PhaseInv
  PROVE  /\ pc \in [Frames -> Labels] /\ cur \in [Frames -> Nat]
         /\ level \in [Frames -> Nat]
         /\ stoppableList \in [0..NPids -> 0..NPids]
         /\ status \in [Pids -> {"absent", "running", "stopping", "stopped"}]
         /\ stoppable \subseteq Pids /\ todo \subseteq Pids
BY DEF PhaseInv, ListInv, TypeOK, FrameTypes, ListTypes, ProcessTypes, NodeTypes, todo

\* Outside an update of sigtimer_handler, the stoppable processes are those that the
\* loops find on the list.
LEMMA ListIsStoppable ==
  ASSUME PhaseInv, pc["sigtimer"] # "item"
  PROVE  \A p \in Pids : Listed(p) <=> p \in stoppable
<1>1. ~Updating
  BY DEF PhaseInv, NothingNew, Updating, Iterates
<1> QED
  BY <1>1, PhaseTypes DEF PhaseInv, ListInv, ListMatchesTree

\* What a loop has passed is on the list, and what it has not passed is not, when it
\* has come to the terminator.
LEMMA PassedListed ==
  ASSUME PhaseInv, pc["sigtimer"] # "item", NEW n \in Nat,
         \A j \in 0..NPids : j < n => stoppableList[j] # 0
  PROVE  /\ \A i \in 0..NPids : i < n => stoppableList[i] \in stoppable
         /\ Entry(n) > 0 => stoppableList[n] \in stoppable
         /\ ~(Entry(n) > 0) =>
              \A p \in stoppable : \E i \in 0..NPids : i < n /\ stoppableList[i] = p
<1>1. stoppableList \in [0..NPids -> 0..NPids] /\ stoppable \subseteq Pids
  BY PhaseTypes
<1>2. \A p \in Pids : Listed(p) <=> p \in stoppable
  BY ListIsStoppable
<1>3. ASSUME NEW i \in 0..NPids, i < n
      PROVE  stoppableList[i] \in stoppable
  <2>1. stoppableList[i] \in Pids /\ \A j \in 0..i : stoppableList[j] # 0
    BY <1>1, <1>3
  <2> QED
    BY <1>2, <2>1 DEF Listed
<1>4. ASSUME Entry(n) > 0
      PROVE  stoppableList[n] \in stoppable
  <2>1. n \in 0..NPids /\ stoppableList[n] \in Pids
    BY <1>1, <1>4, EntryIsPid DEF ListTypes, PhaseInv, ListInv, TypeOK
  <2>2. \A j \in 0..n : stoppableList[j] # 0
    BY <2>1
  <2> QED
    BY <1>2, <2>1, <2>2 DEF Listed
<1>5. ASSUME ~(Entry(n) > 0), NEW p \in stoppable
      PROVE  \E i \in 0..NPids : i < n /\ stoppableList[i] = p
  <2>1. PICK i \in 0..NPids : stoppableList[i] = p /\ \A j \in 0..i : stoppableList[j] # 0
    BY <1>1, <1>2 DEF Listed
  <2>2. n \in 0..NPids => stoppableList[n] = 0
    BY <1>1, <1>5 DEF Entry
  <2>3. i < n
    BY <2>1, <2>2
  <2> QED
    BY <2>1, <2>3
<1> QED
  BY <1>3, <1>4, <1>5

LEMMA PhaseInit == QuietList /\ Init => PhaseInv
<1> SUFFICES ASSUME QuietList, Init PROVE PhaseInv
  OBVIOUS
<1>1. ListInv
  BY ListInit DEF QuietList, NeverNested
<1>2. \A p \in Pids : ~IsStopped(p)
  BY DEF Init, IsStopped
<1>3. NothingNew
  <2>0. todo = {}
    BY DEF Init, todo, ItemLabels
  <2>1. UpdateOnError => \A p \in Pids : ~(p \notin node \/ p \in todo \ ok)
    BY <2>0 DEF Init, QuietList
  <2>2. stoppable \cap Births = {}
    BY DEF Init
  <2> QED
    BY <2>1, <2>2 DEF Init, NothingNew
<1>4. CallStack /\ LoopsOK /\ StoppedListed /\ Finishing
  BY <1>2 DEF Init, CallStack, LoopsOK, Loops, StoppedListed, Finishing
<1>5. Phases
  BY DEF Init, Phases, InPhase, Loops
<1> QED
  BY <1>1, <1>2, <1>3, <1>4, <1>5 DEF PhaseInv, RestoredAtExit

\* While a handler is active, main does not run.
LEMMA MainAlone ==
  ASSUME PhaseInv, Running("main")
  PROVE  \A h \in Handlers : pc[h] = "idle"
<1>1. \A h \in Handlers : level[h] <= level["main"] /\ level[h] \in Nat
  BY PhaseTypes DEF Running
<1> QED
  BY <1>1 DEF PhaseInv, CallStack

\* A step of a frame keeps the order of the call stack.
LEMMA StackKept ==
  ASSUME PhaseInv, NEW f \in Frames, pc[f] # "idle",
         \/ UNCHANGED <<pc, level>>
         \/ \E l \in Labels : Goto(f, l) /\ (f = "main" \/ l # "close")
         \/ f # "main" /\ Return(f)
  PROVE  CallStack'
<1>1. pc \in [Frames -> Labels] /\ level \in [Frames -> Nat]
  BY PhaseTypes
<1> QED
  BY <1>1 DEF PhaseInv, CallStack, Goto, Return

\* A step that signals nobody, leaves the tree and the list alone and is not one of
\* sigtimer_handler.
Calm ==
  /\ UNCHANGED <<treeVars, status, failed, exited>>
  /\ cur'["main"] = cur["main"] /\ cur'["sigtimer"] = cur["sigtimer"]
  /\ "sigupdate" \notin armed' \cup pend' /\ pc'["sigupdate"] = "idle"
  /\ aio'.op # "interval"
  /\ Closing => Closing'
  /\ \/ pc'["sigtimer"] = pc["sigtimer"]
     \/ pc["sigtimer"] = "idle" /\ pc'["sigtimer"] = "entry" /\ "sigtimer" \in pend
  /\ pc'["main"] \in Early =>
       pc["main"] \in Early /\ "sigtimer" \notin armed' \cup pend'
  /\ pc["main"] \in {"close", "abort"} => pc'["main"] = pc["main"]
  /\ pc'["main"] = "close" =>
       pc["main"] = "close" \/ (state' = "FINISHED" /\ pc'["sigtimer"] = "idle")
  /\ \/ state' = "FINISHED"
     \/ state' = state /\ (pc["main"] = "start_timer" => pc'["main"] = "start_timer")
     \/ state' = "WORKING" /\ pc["main"] = "start_timer" /\ pc'["main"] # "close"

LEMMA CalmStep ==
  ASSUME PhaseInv, Calm
  PROVE  /\ NothingNew' /\ LoopsOK' /\ StoppedListed' /\ Finishing' /\ Phases'
         /\ RestoredAtExit'
<1>1. /\ UNCHANGED <<node, ok, new, stoppable, todo, stoppableList, status, failed,
                     exited>>
      /\ \A p \in Pids : IsStopped(p)' <=> IsStopped(p)
  <2>1. UNCHANGED <<node, ok, new, stoppable, at, stoppableList, status, failed, exited>>
    BY DEF Calm, treeVars, nodeVars, listVars
  <2>2. \A f \in Updaters : pc'[f] \in ItemLabels <=> pc[f] \in ItemLabels
    BY DEF Calm, ItemLabels, PhaseInv, NothingNew
  <2>3. todo' = todo
    BY <2>1, <2>2 DEF todo
  <2> QED
    BY <2>1, <2>3 DEF IsStopped
<1>2. NothingNew'
  BY <1>1 DEF Calm, PhaseInv, NothingNew
<1>3. LoopsOK'
  BY <1>1 DEF Calm, PhaseInv, LoopsOK, Loops
<1>4. StoppedListed'
  BY <1>1 DEF Calm, PhaseInv, StoppedListed
<1>5. Finishing'
  <2> SUFFICES ASSUME pc'["main"] = "close"
               PROVE  Finishing'
    BY DEF Finishing
  <2>1. CASE pc["main"] = "close"
    <3>1. state' = "FINISHED"
      BY <2>1 DEF Calm, PhaseInv, Finishing
    <3> QED
      BY <1>1, <2>1, <3>1 DEF Calm, PhaseInv, Finishing
  <2>2. CASE pc["main"] # "close"
    <3>1. state' = "FINISHED" /\ pc'["sigtimer"] = "idle" /\ pc["sigtimer"] = "idle"
      BY <2>2 DEF Calm
    <3>2. cur'["main"] = 0 /\ ~failed
      BY <2>2, <3>1 DEF Calm, PhaseInv, LoopsOK, Loops
    <3> QED
      BY <1>1, <3>1, <3>2 DEF Finishing
  <2> QED
    BY <2>1, <2>2
<1>6. Phases'
  <2> SUFFICES ASSUME ~Closing'
               PROVE  Phases'
    BY DEF Phases
  <2>1. ~Closing
    BY DEF Calm
  <2>2. CASE state' = "FINISHED"
    BY <1>1, <2>1, <2>2 DEF Calm, PhaseInv, Phases, InPhase, Loops
  <2>3. CASE state' = state /\ (pc["main"] = "start_timer" => pc'["main"] = "start_timer")
    <3>1. \A p \in Pids : InPhase(p) => InPhase(p)'
      BY <1>1, <2>3 DEF InPhase, IsStopped
    <3>2. \/ pc'["sigtimer"] = pc["sigtimer"]
          \/ pc["sigtimer"] = "idle" /\ pc'["sigtimer"] = "entry"
      BY DEF Calm
    <3>3. stoppable' = stoppable /\ stoppable \subseteq Pids
      BY <1>1, PhaseTypes
    <3>4. pc'["sigtimer"] \notin Loops \cup {"sleep", "work"} =>
            \A p \in stoppable' : InPhase(p)'
      BY <2>1, <3>1, <3>2, <3>3 DEF PhaseInv, Phases, Loops
    <3>5. cur'["sigtimer"] = cur["sigtimer"] /\ state' = state
      BY <2>3 DEF Calm
    <3>6. /\ pc'["sigtimer"] = "stop_all" =>
               /\ state' # "WORKING"
               /\ \A i \in 0..NPids : i < cur'["sigtimer"] =>
                    \A p \in Pids : stoppableList'[i] = p => status'[p] # "running"
          /\ pc'["sigtimer"] = "cont_all" =>
               /\ state' # "SLEEPING"
               /\ \A i \in 0..NPids : i < cur'["sigtimer"] =>
                    \A p \in Pids : stoppableList'[i] = p => ~IsStopped(p)'
      BY <1>1, <2>1, <3>2, <3>5 DEF PhaseInv, Phases
    <3> QED
      BY <3>4, <3>6 DEF Phases
  <2>4. CASE state' = "WORKING" /\ pc["main"] = "start_timer"
    <3>1. /\ pc["sigtimer"] = "idle" /\ "sigtimer" \notin pend
          /\ \A p \in Pids : ~IsStopped(p)
      BY <2>4 DEF PhaseInv, StoppedListed, Early
    <3>2. pc'["sigtimer"] = "idle"
      BY <3>1 DEF Calm
    <3> QED
      BY <1>1, <2>4, <3>1, <3>2, PhaseTypes DEF Phases, InPhase
  <2> QED
    BY <2>2, <2>3, <2>4 DEF Calm
<1>7. RestoredAtExit'
  BY <1>1 DEF PhaseInv, RestoredAtExit
<1> QED
  BY <1>2, <1>3, <1>4, <1>5, <1>6, <1>7

LEMMA MainIsCalm ==
  ASSUME QuietList, PhaseInv, main
  PROVE  Calm /\ CallStack'
<1>0. pc \in [Frames -> Labels]
  BY PhaseTypes
<1>1. PICK l \in Labels :
        /\ Running("main") /\ pc["main"] \notin {"close", "abort"} /\ Goto("main", l)
        /\ l \in Early => pc["main"] \in Early \ {"arm"}
        /\ l = "close" => state' = "FINISHED"
        /\ \/ state' = state /\ pc["main"] # "start_timer"
           \/ state' = "WORKING" /\ pc["main"] = "start_timer" /\ l # "close"
  BY DEF main, At, StartTimer, EnterUpdateTimer, ArmTimer, RearmFails, ErrExit,
     StartUpdateTimer, CheckFinished, Pause, Labels, Early
<1>2. /\ pc' = [pc EXCEPT !["main"] = l] /\ pc["sigtimer"] = "idle"
      /\ pc["main"] # "idle"
  BY <1>1, MainAlone DEF Goto, Running
<1>3. /\ "sigupdate" \notin armed'
      /\ pc["main"] \in Early \ {"arm"} => UNCHANGED armed
  BY DEF main, At, StartTimer, ArmTimer, Rearm, RearmFails, StartUpdateTimer,
     CheckFinished, Pause, QuietList, PhaseInv, NothingNew, Early
<1>4. Closing => Closing'
  BY <1>0, <1>1, <1>2 DEF Closing
<1>5. "sigupdate" \notin armed' \cup pend' /\ pc'["sigupdate"] = "idle"
      /\ aio'.op # "interval"
  BY <1>0, <1>2, <1>3 DEF main, PhaseInv, NothingNew
<1>6. pc'["main"] \in Early => pc["main"] \in Early /\ "sigtimer" \notin armed' \cup pend'
  BY <1>0, <1>1, <1>2, <1>3 DEF main, PhaseInv, StoppedListed
<1>7. UNCHANGED <<treeVars, status, failed, exited>> /\ UNCHANGED cur
  <2>1. CASE RearmFails("main", timer_on)
    <3>1. cur["main"] = 0 /\ cur' = [cur EXCEPT !["main"] = 0] /\ cur \in [Frames -> Nat]
      BY <1>1, <2>1, PhaseTypes DEF RearmFails, ErrExit, PhaseInv, LoopsOK
    <3> QED
      BY <3>1 DEF main, procVars
  <2>2. CASE ~RearmFails("main", timer_on)
    BY <2>2 DEF main, StartTimer, ArmTimer, StartUpdateTimer, CheckFinished, Pause,
       procVars
  <2> QED
    BY <2>1, <2>2
<1>8. Calm
  BY <1>0, <1>1, <1>2, <1>4, <1>5, <1>6, <1>7 DEF Calm
<1> QED
  BY <1>1, <1>2, <1>8, StackKept

LEMMA UpdateTimerIsCalm ==
  ASSUME PhaseInv, NEW f \in {"main", "sigaio"}, UpdateTimer(f)
  PROVE  Calm /\ CallStack'
<1>0. pc \in [Frames -> Labels]
  BY PhaseTypes
<1>1. PICK l \in Labels :
        /\ pc[f] \notin {"idle", "close", "abort", "start_timer"} /\ Goto(f, l)
        /\ l # "close"
        /\ pc[f] \in Early
  BY DEF UpdateTimer, At, SetOnSec, SetOnNsec, SetOffSec, SetOffNsec, FixOn,
     FixOff, AfterUpdateTimer, Labels, Early
<1>2. pc' = [pc EXCEPT ![f] = l]
  BY <1>1 DEF Goto
<1>3. UNCHANGED <<treeVars, status, failed, exited, cur, state, armed, pend, aio>>
  BY DEF UpdateTimer, flagVars, loopVars, sigVars, procVars
<1>4. Closing => Closing'
  BY <1>0, <1>1, <1>2 DEF Closing
<1>5. Calm
  BY <1>0, <1>1, <1>2, <1>3, <1>4 DEF Calm, PhaseInv, NothingNew, StoppedListed
<1> QED
  BY <1>1, <1>5, StackKept

LEMMA InterruptIsCalm ==
  ASSUME PhaseInv, sigint_handler
  PROVE  Calm /\ CallStack'
<1>0. pc \in [Frames -> Labels] /\ cur \in [Frames -> Nat]
  BY PhaseTypes
<1>1. pc["sigint"] = "entry" /\ (Return("sigint") \/ Goto("sigint", "abort"))
  BY DEF sigint_handler, ErrExit, At
<1>2. PICK l \in Labels : pc' = [pc EXCEPT !["sigint"] = l]
  BY <1>1 DEF Goto, Return, Labels
<1>3. /\ UNCHANGED <<treeVars, status, failed, exited, armed, pend, aio>>
      /\ cur'["main"] = cur["main"] /\ cur'["sigtimer"] = cur["sigtimer"]
      /\ state' = state \/ state' = "FINISHED"
  BY <1>0 DEF sigint_handler, ErrExit, sigVars, procVars
<1>4. Closing => Closing'
  BY <1>0, <1>1, <1>2 DEF Closing
<1>5. Calm
  BY <1>0, <1>2, <1>3, <1>4 DEF Calm, PhaseInv, NothingNew, StoppedListed
<1> QED
  BY <1>1, <1>5, StackKept DEF Labels

LEMMA AioIsCalm ==
  ASSUME PhaseInv, sigaio_handler
  PROVE  Calm /\ CallStack'
<1> USE DEF sigaio_handler, ReadLine, ReadAgain, set_duty, set_period,
            set_update_interval, quit, ignore, end_of_file
<1>0. pc \in [Frames -> Labels]
  BY PhaseTypes
<1>1. /\ Return("sigaio") \/ \E l \in Labels : Goto("sigaio", l) /\ l # "close"
      /\ pc["sigaio"] \in {"entry", "aio_read"}
  BY DEF EnterUpdateTimer, At, Labels
<1>2. PICK l \in Labels : pc' = [pc EXCEPT !["sigaio"] = l]
  BY <1>1 DEF Goto, Return, Labels
<1>3. /\ UNCHANGED <<treeVars, status, failed, exited, cur, pend>>
      /\ state' = state \/ state' = "FINISHED"
  BY DEF loopVars, procVars
<1>4. UNCHANGED armed /\ aio'.op # "interval"
  <2>1. /\ UNCHANGED armed
        /\ UNCHANGED aio \/ aio' = [op |-> "closed", arg |-> 0]
           \/ aio' = [op |-> "reading", arg |-> 0]
    BY DEF PhaseInv, NothingNew
  <2> QED
    BY <2>1 DEF PhaseInv, NothingNew
<1>5. Closing => Closing'
  BY <1>0, <1>1, <1>2 DEF Closing
<1>6. Calm
  BY <1>0, <1>2, <1>3, <1>4, <1>5 DEF Calm, PhaseInv, NothingNew, StoppedListed
<1> QED
  BY <1>1, <1>6, StackKept

LEMMA SignalsAreCalm ==
  ASSUME QuietList, PhaseInv,
         \/ \E h \in Handlers : Deliver(h)
         \/ \E t \in Updaters : Expire(t)
         \/ Interrupt \/ \E c \in Commands : TypeLine(c)
         \/ UNCHANGED vars
  PROVE  Calm /\ CallStack'
<1>0. pc \in [Frames -> Labels] /\ level \in [Frames -> Nat]
  BY PhaseTypes
<1> USE DEF treeVars, listVars, loopVars, sigVars, procVars, flagVars
<1>1. ASSUME NEW h \in Handlers, Deliver(h)
      PROVE  Calm /\ CallStack'
  <2>1. PICK f \in Frames :
          /\ Running(f) /\ level' = [level EXCEPT ![h] = level[f] + 1]
          /\ pc' = [g \in Frames |->
                      IF g = h THEN "entry"
                      ELSE IF g = "main" /\ pc["main"] = "paused" THEN "check"
                      ELSE pc[g]]
    BY <1>1 DEF Deliver
  <2>2. h # "sigupdate" /\ h \in pend /\ pc[h] = "idle" /\ pend' = pend \ {h}
    BY <1>1 DEF Deliver, PhaseInv, NothingNew
  <2>3. CallStack'
    BY <1>0, <2>1 DEF PhaseInv, CallStack
  <2>4. /\ UNCHANGED <<treeVars, status, failed, exited, cur, state, armed, aio>>
    BY <1>1 DEF Deliver
  <2>5. /\ pc'["main"] \in Early <=> pc["main"] \in Early
        /\ pc'["main"] = "close" <=> pc["main"] = "close"
        /\ pc["main"] = "abort" => pc'["main"] = "abort"
        /\ pc["main"] = "start_timer" => pc'["main"] = "start_timer"
    BY <2>1 DEF Early
  <2>6. pc'["sigupdate"] = "idle"
    BY <2>1, <2>2 DEF PhaseInv, NothingNew
  <2>7. Closing => Closing'
    <3>1. \A g \in Frames : pc[g] \in {"close", "abort"} => pc'[g] = pc[g]
      BY <2>1, <2>2
    <3> QED
      BY <3>1 DEF Closing
  <2>8. \/ pc'["sigtimer"] = pc["sigtimer"]
        \/ pc["sigtimer"] = "idle" /\ pc'["sigtimer"] = "entry" /\ "sigtimer" \in pend
    BY <2>1, <2>2
  <2>9. "sigupdate" \notin armed' \cup pend' /\ aio'.op # "interval"
    BY <2>2, <2>4 DEF PhaseInv, NothingNew
  <2>10. pc'["main"] \in Early => pc["main"] \in Early /\ "sigtimer" \notin armed' \cup pend'
    BY <2>2, <2>4, <2>5 DEF PhaseInv, StoppedListed
  <2> QED
    BY <2>3, <2>4, <2>5, <2>6, <2>7, <2>8, <2>9, <2>10 DEF Calm
<1>2. CASE \/ \E t \in Updaters : Expire(t)
           \/ Interrupt \/ \E c \in Commands : TypeLine(c)
           \/ UNCHANGED vars
  <2>1. UNCHANGED <<pc, level, state, treeVars, cur, failed, status, exited>>
    BY <1>2 DEF Expire, Interrupt, TypeLine, vars
  <2>2. /\ "sigupdate" \notin armed' \cup pend' /\ aio'.op # "interval"
        /\ "sigtimer" \in armed' \cup pend' => "sigtimer" \in armed \cup pend
    BY <1>2 DEF Expire, AfterExpiry, Interrupt, TypeLine, vars, PhaseInv, NothingNew,
       QuietList
  <2>3. CallStack' /\ (Closing => Closing')
    BY <2>1 DEF PhaseInv, CallStack, Closing
  <2> QED
    BY <2>1, <2>2, <2>3 DEF Calm, PhaseInv, NothingNew, StoppedListed
<1> QED
  BY <1>1, <1>2

\* prepare_for_close resumes what it passes; when main comes to the terminator, nothing
\* is left stopped.
LEMMA PhaseClose ==
  ASSUME PhaseInv, NEW f \in Frames, CloseNext(f)
  PROVE  /\ NothingNew' /\ CallStack' /\ LoopsOK' /\ StoppedListed' /\ Finishing'
         /\ Phases' /\ RestoredAtExit'
<1>1. pc \in [Frames -> Labels] /\ cur \in [Frames -> Nat]
  BY PhaseTypes
<1>2. /\ UNCHANGED <<pc, level, state, armed, pend, aio, failed>> /\ UNCHANGED treeVars
      /\ exited = "no" /\ pc[f] \in {"close", "abort"}
      /\ pc[f] = "close" => f = "main"
  BY DEF CloseNext, At, Running, flagVars, sigVars, PhaseInv, CallStack
<1>3. UNCHANGED <<node, ok, new, stoppable, todo, stoppableList>>
  BY <1>2 DEF treeVars, nodeVars, listVars, todo
<1>4. CallStack' /\ Phases'
  BY <1>2 DEF PhaseInv, CallStack, Phases, Closing
<1>5. CASE Entry(cur[f]) > 0
  <2>1. /\ cur[f] \in 0..NPids /\ stoppableList[cur[f]] \in Pids
        /\ status' = AfterCont(stoppableList[cur[f]])
        /\ cur' = [cur EXCEPT ![f] = cur[f] + 1] /\ exited' = "no"
    BY <1>2, <1>5, EntryIsPid DEF CloseNext, PhaseInv, ListInv, TypeOK
  <2>2. \A p \in Pids : /\ IsStopped(p)' => IsStopped(p) /\ p # stoppableList[cur[f]]
                        /\ status[p] = "absent" => status'[p] = "absent"
    BY <2>1, PhaseTypes DEF AfterCont, IsStopped
  <2>3. NothingNew' /\ StoppedListed'
    BY <1>2, <1>3, <2>2 DEF PhaseInv, NothingNew, StoppedListed
  <2>4. LoopsOK'
    BY <1>1, <1>2, <1>3, <2>1 DEF PhaseInv, LoopsOK, Loops
  <2>5. Finishing'
    <3> SUFFICES ASSUME pc["main"] = "close", NEW i \in 0..NPids, i < cur'["main"],
                        NEW p \in Pids, stoppableList[i] = p
                 PROVE  ~IsStopped(p)'
      BY <1>2, <1>3 DEF PhaseInv, Finishing
    <3>1. i < cur["main"] \/ (f = "main" /\ i = cur[f])
      BY <1>1, <2>1
    <3> QED
      BY <2>2, <3>1 DEF PhaseInv, Finishing
  <2> QED
    BY <1>4, <2>1, <2>3, <2>4, <2>5 DEF RestoredAtExit
<1>6. CASE ~(Entry(cur[f]) > 0)
  <2>1. UNCHANGED <<status, cur>> /\ exited' = IF pc[f] = "close" THEN "ok" ELSE "fail"
    BY <1>6 DEF CloseNext
  <2>2. NothingNew' /\ LoopsOK' /\ StoppedListed' /\ Finishing'
    BY <1>2, <1>3, <2>1 DEF PhaseInv, NothingNew, LoopsOK, Loops, StoppedListed,
       Finishing, IsStopped
  <2>3. ASSUME pc[f] = "close", NEW p \in Pids, IsStopped(p)
        PROVE  FALSE
    <3>1. p \in stoppable /\ pc["sigtimer"] # "item"
      BY <1>2, <2>3 DEF PhaseInv, StoppedListed, Finishing
    <3>2. Listed(p)
      BY <3>1, ListIsStoppable
    <3>3. PICK i \in 0..NPids : stoppableList[i] = p /\ \A j \in 0..i : stoppableList[j] # 0
      BY <3>2 DEF Listed
    <3>4. cur["main"] \in 0..NPids => stoppableList[cur["main"]] = 0
      <4> DEFINE n == cur["main"]
      <4>1. n \in 0..NPids => Entry(n) = stoppableList[n] /\ stoppableList[n] \in 0..NPids
        BY PhaseTypes DEF Entry
      <4>2. ~(Entry(n) > 0)
        BY <1>2, <1>6, <2>3
      <4> QED
        BY <4>1, <4>2
    <3>5. i < cur["main"]
      BY <1>1, <3>3, <3>4
    <3> QED
      BY <1>2, <2>3, <3>3, <3>5 DEF PhaseInv, Finishing
  <2>4. RestoredAtExit'
    BY <2>1, <2>3 DEF RestoredAtExit, IsStopped
  <2> QED
    BY <1>4, <2>2, <2>4
<1> QED
  BY <1>5, <1>6

\* What the other processes do of themselves.
LEMMA PhaseProcess ==
  ASSUME QuietList, PhaseInv, NEW q \in Pids, Process(q)
  PROVE  /\ NothingNew' /\ CallStack' /\ LoopsOK' /\ StoppedListed' /\ Finishing'
         /\ Phases' /\ RestoredAtExit'
<1>1. /\ UNCHANGED <<pc, level, state, armed, pend, aio, failed, cur, treeVars>>
      /\ exited = "no" /\ exited' = "no"
  BY DEF Process, flagVars, loopVars, sigVars
<1>2. UNCHANGED <<node, ok, new, stoppable, todo, stoppableList>>
  BY <1>1 DEF treeVars, nodeVars, listVars, todo
<1>3. \A p \in Pids : /\ IsStopped(p)' => IsStopped(p)
                      /\ p \in stoppable /\ status'[p] = "running" => status[p] = "running"
                      /\ UpdateOnError /\ status[p] = "absent" => status'[p] = "absent"
  BY PhaseTypes DEF Process, TakeStop, Die, Begin, IsStopped, QuietList, PhaseInv,
     NothingNew
<1>4. NothingNew' /\ CallStack' /\ LoopsOK' /\ StoppedListed' /\ Finishing'
  BY <1>1, <1>2, <1>3 DEF PhaseInv, NothingNew, CallStack, LoopsOK, Loops,
     StoppedListed, Finishing
<1>5. Phases'
  <2> SUFFICES ASSUME ~Closing
               PROVE  Phases'
    BY <1>1 DEF Phases, Closing
  <2>1. \A p \in stoppable : InPhase(p) => InPhase(p)'
    BY <1>1, <1>3, PhaseTypes DEF InPhase
  <2>2. pc["sigtimer"] \in Loops =>
          \A i \in 0..NPids : i < cur["sigtimer"] => stoppableList[i] \in stoppable
    BY PassedListed, PhaseTypes DEF PhaseInv, LoopsOK, Loops
  <2>3. \A i \in 0..NPids : i < cur'["sigtimer"] <=> i < cur["sigtimer"]
    BY <1>1
  <2>4. pc'["sigtimer"] \notin Loops \cup {"sleep", "work"} =>
          \A p \in stoppable' : InPhase(p)'
    BY <1>1, <1>2, <2>1 DEF PhaseInv, Phases
  <2>5. /\ pc'["sigtimer"] = "stop_all" =>
             /\ state' # "WORKING"
             /\ \A i \in 0..NPids : i < cur'["sigtimer"] =>
                  \A p \in Pids : stoppableList'[i] = p => status'[p] # "running"
        /\ pc'["sigtimer"] = "cont_all" =>
             /\ state' # "SLEEPING"
             /\ \A i \in 0..NPids : i < cur'["sigtimer"] =>
                  \A p \in Pids : stoppableList'[i] = p => ~IsStopped(p)'
    BY <1>1, <1>2, <1>3, <2>2, <2>3 DEF PhaseInv, Phases, Loops
  <2> QED
    BY <2>4, <2>5 DEF Phases
<1> QED
  BY <1>1, <1>4, <1>5 DEF RestoredAtExit

\* Where a step of sigtimer_handler that signals nobody takes it.
TimerGoes(l) ==
  /\ pc' = [pc EXCEPT !["sigtimer"] = l]
  /\ \/ l \in {"idle", "test_sleeping", "check_errors", "rearm"}
     \/ l \in {"sleep", "rearm_on"} /\ state = "WORKING"
     \/ l \in {"work", "rearm_off"} /\ state = "SLEEPING"
     \/ l = "stop_all" /\ pc["sigtimer"] = "sleep" /\ state' = "SLEEPING"
     \/ l = "cont_all" /\ pc["sigtimer"] = "work" /\ state' = "WORKING"
     \/ l = "scan" /\ failed /\ pc["sigtimer"] = "check_errors"
     \/ l = "abort" /\ pc["sigtimer"] \in {"rearm_on", "rearm_off"}
  /\ state' = state \/ pc["sigtimer"] \in {"sleep", "work"}
  /\ pc["sigtimer"] \in {"sleep", "work"} => l \in Loops
  /\ cur' = [cur EXCEPT !["sigtimer"] = 0]
  /\ failed' => failed /\ pc["sigtimer"] # "check_errors"
  /\ pc["sigtimer"] \in Loops => l = "check_errors"
TimerLabels == {"idle", "test_sleeping", "sleep", "work", "stop_all", "cont_all",
                "check_errors", "scan", "rearm", "rearm_on", "rearm_off", "abort"}

LEMMA TimerMoves ==
  ASSUME PhaseInv, sigtimer_handler,
         ~(pc["sigtimer"] \in Loops /\ Entry(cur["sigtimer"]) > 0)
  PROVE  /\ Running("sigtimer") /\ pc["sigtimer"] \notin {"idle", "abort", "item"}
         /\ UNCHANGED <<treeVars, status, exited, pend, aio>>
         /\ "sigupdate" \in armed' => "sigupdate" \in armed
         /\ \E l \in TimerLabels : TimerGoes(l)
         /\ CallStack'
<1> USE DEF sigtimer_handler
<1>0. pc \in [Frames -> Labels] /\ cur \in [Frames -> Nat]
  BY PhaseTypes
<1>1. /\ Running("sigtimer") /\ pc["sigtimer"] \notin {"idle", "abort", "item"}
      /\ UNCHANGED <<treeVars, exited, pend, aio>>
      /\ "sigupdate" \in armed' => "sigupdate" \in armed
  BY DEF TestState, Sleep, Work, ChangeState, StopNext, ContNext, KillNext, CheckErrors,
     TestRearm, RearmOnOff, RearmWith, Rearm, RearmFails, At, Running
<1>2. CASE StopNext \/ ContNext
  <2>1. PICK label \in Loops, sig \in {"SIGSTOP", "SIGCONT"} : KillNext(label, sig)
    BY <1>2 DEF StopNext, ContNext, Loops
  <2>2. pc["sigtimer"] = label /\ ~(Entry(cur["sigtimer"]) > 0)
    BY <2>1 DEF KillNext, At
  <2>3. /\ Goto("sigtimer", "check_errors") /\ cur' = [cur EXCEPT !["sigtimer"] = 0]
        /\ UNCHANGED <<status, failed, state>>
    BY <2>1, <2>2 DEF KillNext
  <2>4. TimerGoes("check_errors")
    BY <2>2, <2>3 DEF TimerGoes, Goto, Loops
  <2> QED
    BY <1>1, <2>2, <2>3, <2>4, StackKept DEF TimerLabels, Labels, Loops
<1>3. CASE ~(StopNext \/ ContNext)
  <2>1. /\ UNCHANGED status /\ pc["sigtimer"] \notin Loops
        /\ UNCHANGED cur \/ cur' = [cur EXCEPT !["sigtimer"] = 0]
    BY <1>3 DEF TestState, Sleep, Work, ChangeState, CheckErrors, TestRearm, RearmOnOff,
       RearmWith, RearmFails, ErrExit, At, Loops, loopVars
  <2>2. cur' = [cur EXCEPT !["sigtimer"] = 0]
    BY <1>0, <1>1, <2>1 DEF PhaseInv, LoopsOK
  <2>3. PICK l \in TimerLabels :
          /\ Goto("sigtimer", l) \/ (l = "idle" /\ Return("sigtimer"))
          /\ \/ l \in {"idle", "test_sleeping", "check_errors", "rearm"}
             \/ l \in {"sleep", "rearm_on"} /\ state = "WORKING"
             \/ l \in {"work", "rearm_off"} /\ state = "SLEEPING"
             \/ l = "stop_all" /\ pc["sigtimer"] = "sleep" /\ state' = "SLEEPING"
             \/ l = "cont_all" /\ pc["sigtimer"] = "work" /\ state' = "WORKING"
             \/ l = "scan" /\ failed /\ pc["sigtimer"] = "check_errors"
             \/ l = "abort" /\ pc["sigtimer"] \in {"rearm_on", "rearm_off"}
          /\ state' = state \/ pc["sigtimer"] \in {"sleep", "work"}
          /\ pc["sigtimer"] \in {"sleep", "work"} => l \in Loops
          /\ failed' => failed /\ pc["sigtimer"] # "check_errors"
    BY <1>3 DEF TestState, Working, Sleep, Work, ChangeState, CheckErrors, UpdateDue,
       TestRearm, RearmOnOff, RearmWith, RearmFails, ErrExit, At, TimerLabels, Loops,
       loopVars
  <2>4. TimerGoes(l)
    BY <2>1, <2>2, <2>3 DEF TimerGoes, Goto, Return
  <2> QED
    BY <1>1, <2>1, <2>3, <2>4, StackKept DEF TimerLabels, Labels
<1> QED
  BY <1>2, <1>3

LEMMA PhaseTimerMoves ==
  ASSUME PhaseInv, sigtimer_handler,
         ~(pc["sigtimer"] \in Loops /\ Entry(cur["sigtimer"]) > 0)
  PROVE  /\ NothingNew' /\ CallStack' /\ LoopsOK' /\ StoppedListed' /\ Finishing'
         /\ Phases' /\ RestoredAtExit'
<1>1. /\ pc["sigtimer"] \notin {"idle", "abort", "item"} /\ exited = "no"
      /\ UNCHANGED <<treeVars, status, exited, pend, aio>>
      /\ "sigupdate" \in armed' => "sigupdate" \in armed
      /\ CallStack'
  BY TimerMoves DEF Running
<1>2. PICK l \in TimerLabels : TimerGoes(l)
  BY TimerMoves
<1>3. pc \in [Frames -> Labels] /\ cur \in [Frames -> Nat]
  BY PhaseTypes
<1>4. /\ pc'["sigtimer"] = l /\ pc'["main"] = pc["main"]
      /\ pc'["sigupdate"] = pc["sigupdate"]
      /\ cur'["sigtimer"] = 0 /\ cur'["main"] = cur["main"]
      /\ \A f \in Frames : f # "sigtimer" => pc'[f] = pc[f]
  BY <1>2, <1>3 DEF TimerGoes
<1>5. /\ UNCHANGED <<node, ok, new, stoppable, todo, stoppableList>>
      /\ \A p \in Pids : IsStopped(p)' <=> IsStopped(p)
  <2>1. \A f \in Updaters : pc[f] \notin ItemLabels
    BY <1>1 DEF PhaseInv, NothingNew, ItemLabels
  <2>2. \A f \in Updaters : pc'[f] \notin ItemLabels
    BY <1>2, <1>4, <2>1 DEF TimerLabels, ItemLabels
  <2>3. todo' = todo
    BY <2>1, <2>2 DEF todo
  <2> QED
    BY <1>1, <2>3 DEF treeVars, nodeVars, listVars, IsStopped
<1>6. NothingNew'
  BY <1>1, <1>2, <1>4, <1>5 DEF PhaseInv, NothingNew, TimerLabels
<1>7. LoopsOK'
  <2>1. failed' => l \in Loops \cup {"check_errors"}
    BY <1>1, <1>2 DEF TimerGoes, PhaseInv, LoopsOK, Loops
  <2> QED
    BY <1>3, <1>4, <1>5, <2>1 DEF PhaseInv, LoopsOK
<1>8. StoppedListed'
  BY <1>1, <1>4, <1>5 DEF PhaseInv, StoppedListed
<1>9. Finishing'
  <2> SUFFICES ASSUME pc["main"] = "close"
               PROVE  Finishing'
    BY <1>4 DEF Finishing
  <2>1. /\ state = "FINISHED" /\ ~failed
        /\ pc["sigtimer"] \in {"entry", "test_sleeping", "check_errors", "rearm"}
    BY <1>1 DEF PhaseInv, Finishing
  <2>2. /\ state' = "FINISHED" /\ ~failed'
        /\ l \in {"idle", "test_sleeping", "check_errors", "rearm"}
    BY <1>2, <2>1 DEF TimerGoes
  <2> QED
    BY <1>4, <1>5, <2>2 DEF PhaseInv, Finishing
<1>10. Phases'
  <2> SUFFICES ASSUME ~Closing'
               PROVE  Phases'
    BY DEF Phases
  <2>1. ~Closing
    BY <1>1, <1>4 DEF Closing, PhaseInv, CallStack
  <2>2. \A i \in 0..NPids : ~(i < cur'["sigtimer"])
    BY <1>4
  <2>3. l = "stop_all" => state' # "WORKING"
    BY <1>2 DEF TimerGoes
  <2>4. l = "cont_all" => state' # "SLEEPING"
    BY <1>2 DEF TimerGoes
  <2>5. ASSUME l \notin Loops \cup {"sleep", "work"}, NEW p \in stoppable
        PROVE  InPhase(p)'
    <3>1. state' = state /\ pc["sigtimer"] \notin {"sleep", "work"} /\ p \in Pids
      BY <1>2, <2>5, PhaseTypes DEF TimerGoes
    <3>2. InPhase(p)
      <4>1. CASE pc["sigtimer"] \notin Loops
        BY <2>1, <3>1, <4>1 DEF PhaseInv, Phases
      <4>2. CASE pc["sigtimer"] \in Loops
        <5>1. PICK i \in 0..NPids : i < cur["sigtimer"] /\ stoppableList[i] = p
          BY <1>1, <1>3, <4>2, PassedListed DEF PhaseInv, LoopsOK
        <5> QED
          BY <2>1, <3>1, <4>2, <5>1 DEF PhaseInv, Phases, InPhase, Loops
      <4> QED
        BY <4>1, <4>2
    <3> QED
      BY <1>1, <1>4, <1>5, <3>1, <3>2 DEF InPhase
  <2> QED
    BY <1>4, <1>5, <2>2, <2>3, <2>4, <2>5 DEF Phases
<1>11. RestoredAtExit'
  BY <1>1 DEF RestoredAtExit
<1> QED
  BY <1>1, <1>6, <1>7, <1>8, <1>9, <1>10, <1>11

\* One kill of a loop of sigtimer_handler.
LEMMA PhaseKill ==
  ASSUME PhaseInv, sigtimer_handler,
         pc["sigtimer"] \in Loops /\ Entry(cur["sigtimer"]) > 0
  PROVE  /\ NothingNew' /\ CallStack' /\ LoopsOK' /\ StoppedListed' /\ Finishing'
         /\ Phases' /\ RestoredAtExit'
<1> USE DEF sigtimer_handler
<1> DEFINE n == cur["sigtimer"]
           p == stoppableList[n]
<1>1. PICK sig \in {"SIGSTOP", "SIGCONT"} :
        /\ KillNext(pc["sigtimer"], sig)
        /\ sig = "SIGSTOP" <=> pc["sigtimer"] = "stop_all"
  <2>1. StopNext \/ ContNext
    BY DEF TestState, Sleep, Work, ChangeState, CheckErrors, TestRearm, RearmOnOff,
       RearmWith, At, Loops
  <2>2. StopNext => pc["sigtimer"] = "stop_all"
    BY DEF StopNext, KillNext, At
  <2>3. ContNext => pc["sigtimer"] = "cont_all"
    BY DEF ContNext, KillNext, At
  <2> QED
    BY <2>1, <2>2, <2>3 DEF StopNext, ContNext
<1>2. pc \in [Frames -> Labels] /\ cur \in [Frames -> Nat] /\ n \in Nat
  BY PhaseTypes
<1>3. n \in 0..NPids /\ Entry(n) = p /\ p \in Pids
  BY EntryIsPid DEF PhaseInv, ListInv, TypeOK
<1>4. /\ cur' = [cur EXCEPT !["sigtimer"] = n + 1]
      /\ status' = AfterKill(p, sig)
      /\ UNCHANGED <<pc, level, state, armed, pend, aio, exited>>
      /\ UNCHANGED <<node, ok, new, stoppable, todo, stoppableList>>
  BY <1>1, <1>3 DEF KillNext, treeVars, nodeVars, listVars, todo
<1>5. exited = "no" /\ pc["sigtimer"] \notin {"idle", "item"} /\ pc["main"] # "close"
  BY <1>1 DEF KillNext, At, Running, Loops, PhaseInv, Finishing
<1>6. p \in stoppable /\ \A i \in 0..NPids : i < n => stoppableList[i] \in stoppable
  BY <1>2, <1>5, PassedListed DEF PhaseInv, LoopsOK
<1> HIDE DEF p, n
<1>7. \A q \in Pids :
        /\ q # p => status'[q] = status[q]
        /\ status[q] = "absent" => status'[q] = "absent"
        /\ sig = "SIGSTOP" => status'[p] # "running"
        /\ sig = "SIGCONT" => status'[p] \notin {"stopping", "stopped"}
  BY <1>3, <1>4, PhaseTypes DEF AfterKill, AfterStop, AfterCont
<1>8. NothingNew' /\ CallStack'
  BY <1>4, <1>7 DEF PhaseInv, NothingNew, CallStack
<1>9. LoopsOK'
  <2>1. \A i \in 0..NPids : i < n + 1 => i < n \/ i = n
    BY <1>2
  <2>2. p # 0
    BY <1>3
  <2>3. \A i \in 0..NPids : i < cur'["sigtimer"] => stoppableList'[i] # 0
    BY <1>2, <1>4, <2>1, <2>2 DEF PhaseInv, LoopsOK, n, p
  <2> QED
    BY <1>2, <1>4, <2>3 DEF PhaseInv, LoopsOK
<1>10. StoppedListed'
  <2>1. \A q \in Pids : IsStopped(q)' => q \in stoppable
    BY <1>6, <1>7 DEF IsStopped, PhaseInv, StoppedListed
  <2> QED
    BY <1>4, <1>5, <2>1 DEF PhaseInv, StoppedListed
<1>11. Finishing' /\ RestoredAtExit'
  BY <1>4, <1>5 DEF Finishing, RestoredAtExit
<1>12. Phases'
  <2> SUFFICES ASSUME ~Closing
               PROVE  Phases'
    BY <1>4 DEF Phases, Closing
  <2>1. \A i \in 0..NPids : i < cur'["sigtimer"] => i < n \/ i = n
    BY <1>2, <1>4
  <2>2. pc["sigtimer"] = "stop_all" =>
          /\ state # "WORKING"
          /\ \A i \in 0..NPids : i < cur'["sigtimer"] =>
               \A q \in Pids : stoppableList[i] = q => status'[q] # "running"
    BY <1>1, <1>7, <2>1 DEF PhaseInv, Phases, n, p
  <2>3. pc["sigtimer"] = "cont_all" =>
          /\ state # "SLEEPING"
          /\ \A i \in 0..NPids : i < cur'["sigtimer"] =>
               \A q \in Pids : stoppableList[i] = q => ~IsStopped(q)'
    BY <1>1, <1>7, <2>1 DEF PhaseInv, Phases, IsStopped, n, p
  <2> QED
    BY <1>4, <2>2, <2>3 DEF Phases
<1> QED
  BY <1>8, <1>9, <1>10, <1>11, <1>12

\* An update of sigtimer_handler finds no new process; it drops those that ended.
LEMMA PhaseUpdate ==
  ASSUME QuietList, PhaseInv, NEW f \in Updaters, UpdateProcTree(f)
  PROVE  /\ NothingNew' /\ CallStack' /\ LoopsOK' /\ StoppedListed' /\ Finishing'
         /\ Phases' /\ RestoredAtExit'
<1>1. pc[f] \in {"scan", "item", "probe_cont", "probe_end"} /\ exited = "no"
  BY DEF UpdateProcTree, ScanFails, ScanProc, UpdateItem, EndUpdate, At, Running
<1>2. f = "sigtimer" /\ pc["sigtimer"] \in {"scan", "item"}
  BY <1>1 DEF PhaseInv, NothingNew
<1>3. /\ UpdateOnError /\ ~failed /\ pc["main"] \notin Early \cup {"close"}
      /\ cur["sigtimer"] = 0
  <2>1. UpdateOnError
    BY <1>2 DEF PhaseInv, ListInv, OneUpdater, ItemLabels
  <2>2. pc["main"] \notin Early \cup {"close"}
    BY <1>2 DEF PhaseInv, StoppedListed, Finishing
  <2>3. ~failed /\ cur["sigtimer"] = 0
    BY <1>2 DEF PhaseInv, LoopsOK, Loops
  <2> QED
    BY <2>1, <2>2, <2>3
<1>4. pc \in [Frames -> Labels] /\ cur \in [Frames -> Nat]
  BY PhaseTypes
<1>5. /\ UNCHANGED <<state, failed, armed, pend, aio, exited>>
      /\ new = {} /\ stoppable \cap Births = {}
      /\ \A p \in Pids : p \notin node \/ p \in todo \ ok => status[p] = "absent"
  BY <1>3 DEF UpdateProcTree, flagVars, sigVars, PhaseInv, NothingNew
<1>6. PICK l \in {"abort", "item", "rearm"} :
        /\ pc' = [pc EXCEPT !["sigtimer"] = l] /\ UNCHANGED status
        /\ cur' = [cur EXCEPT !["sigtimer"] = 0]
        /\ CallStack'
        /\ new' = {} /\ stoppable' \subseteq stoppable
        /\ \A p \in Pids : p \notin node' \/ p \in todo' \ ok' => status[p] = "absent"
        /\ \A p \in stoppable \ stoppable' : status[p] = "absent"
  <2>1. CASE ScanFails(f)
    <3>1. Goto("sigtimer", "abort") /\ cur' = [cur EXCEPT !["sigtimer"] = 0]
      BY <1>2, <2>1 DEF ScanFails, ErrExit
    <3>2. CallStack'
      BY <1>2, <3>1, StackKept DEF Labels
    <3>3. todo' = {}
      BY <1>2, <1>4, <2>1, <3>1, UpdateGoesOn DEF ScanFails, At, Goto, PhaseInv,
         ItemLabels, Labels
    <3> QED
      BY <1>5, <2>1, <3>1, <3>2, <3>3 DEF ScanFails, Goto, nodeVars
  <2>2. CASE ScanProc(f)
    <3>1. Goto("sigtimer", "item") /\ UNCHANGED <<cur, status, stoppable>>
      BY <1>2, <2>2 DEF ScanProc
    <3>2. CallStack'
      BY <1>2, <3>1, StackKept DEF Labels
    <3>3. cur' = [cur EXCEPT !["sigtimer"] = 0]
      BY <1>3, <1>4, <3>1
    <3>4. /\ new' = {}
          /\ \A p \in Pids : p \notin node' \/ p \in todo' \ ok' => status[p] = "absent"
      BY <1>5, <2>2 DEF ScanProc, Marked
    <3> QED
      BY <3>1, <3>2, <3>3, <3>4 DEF Goto
  <2>3. CASE UpdateItem(f)
    <3>1. PICK p \in Pids :
            \/ /\ At(f, "item") /\ IsNext(f, p)
               /\ RemoveItem(f, p) \/ KeepItem(f, p) \/ ProbeStop(f, p)
            \/ At(f, "probe_cont") /\ p = at[f] /\ ProbeCont(f, p)
            \/ At(f, "probe_end")  /\ p = at[f] /\ ProbeEnd(f, p)
      BY <2>3 DEF UpdateItem
    <3>2. UNCHANGED cur /\ ~ProbeStop(f, p)
      BY <1>5, <2>3 DEF UpdateItem, ProbeStop
    <3>3. /\ pc["sigtimer"] = "item" /\ IsNext("sigtimer", p)
          /\ RemoveItem("sigtimer", p) \/ KeepItem("sigtimer", p)
      BY <1>2, <3>1, <3>2 DEF At
    <3>4. /\ UNCHANGED <<pc, level, status>> /\ Past("sigtimer", p) /\ new' = {}
          /\ node' \in {node, node \ {p}}
          /\ stoppable' \subseteq stoppable
      BY <1>5, <3>3 DEF RemoveItem, KeepItem
    <3>5. CallStack'
      BY <3>3, <3>4, StackKept
    <3>6. pc' = [pc EXCEPT !["sigtimer"] = "item"] /\ cur' = [cur EXCEPT !["sigtimer"] = 0]
      BY <1>3, <1>4, <3>2, <3>3, <3>4
    <3>7. todo = Todo("sigtimer") /\ todo' = Todo("sigtimer")'
      <4>1. "item" \in ItemLabels /\ "item" \in Labels
        BY DEF ItemLabels, Labels
      <4> QED
        BY <3>3, <3>6, <4>1, UpdateGoesOn DEF PhaseInv
    <3>8. p \in todo /\ todo' = todo \ {p}
      <4>1. p \in Todo("sigtimer") /\ \A q \in Todo("sigtimer") : p <= q
        BY <3>3 DEF IsNext
      <4> QED
        BY <3>4, <3>7, <4>1, GoesPast DEF PhaseInv, ListInv
    <3>9. /\ \A q \in Pids : q \notin node' \/ q \in todo' \ ok' => status[q] = "absent"
          /\ \A q \in stoppable \ stoppable' : status[q] = "absent"
      <4>1. CASE RemoveItem("sigtimer", p)
        BY <1>5, <3>1, <3>8, <4>1 DEF RemoveItem
      <4>2. CASE KeepItem("sigtimer", p)
        BY <1>5, <3>1, <3>8, <4>2 DEF KeepItem
      <4> QED
        BY <3>3, <4>1, <4>2
    <3>10. status' = status /\ new' = {} /\ stoppable' \subseteq stoppable
      BY <3>4
    <3> QED
      BY <3>5, <3>6, <3>9, <3>10, Zenon
  <2>4. CASE EndUpdate(f)
    <3>1. /\ Goto("sigtimer", "rearm") /\ UNCHANGED <<cur, status>>
          /\ UNCHANGED <<node, ok, new, stoppable>>
      BY <1>2, <2>4 DEF EndUpdate
    <3>2. CallStack'
      BY <1>2, <3>1, StackKept DEF Labels
    <3>3. cur' = [cur EXCEPT !["sigtimer"] = 0]
      BY <1>3, <1>4, <3>1
    <3>4. todo' = {}
      BY <1>2, <1>4, <2>4, <3>1, UpdateGoesOn DEF EndUpdate, At, Goto, PhaseInv,
         ItemLabels, Labels
    <3> QED
      BY <1>5, <3>1, <3>2, <3>3, <3>4 DEF Goto
  <2> QED
    BY <2>1, <2>2, <2>3, <2>4 DEF UpdateProcTree
<1>7. /\ pc'["sigtimer"] = l /\ pc'["main"] = pc["main"]
      /\ pc'["sigupdate"] = pc["sigupdate"]
      /\ cur'["sigtimer"] = 0 /\ cur'["main"] = cur["main"]
      /\ \A g \in Frames : g # "sigtimer" => pc'[g] = pc[g]
  BY <1>3, <1>4, <1>6
<1>8. NothingNew'
  BY <1>5, <1>6, <1>7 DEF PhaseInv, NothingNew
<1>9. LoopsOK' /\ Finishing' /\ RestoredAtExit'
  BY <1>1, <1>3, <1>5, <1>7 DEF PhaseInv, LoopsOK, Loops, Finishing, RestoredAtExit
<1>10. StoppedListed'
  <2>1. \A p \in Pids : IsStopped(p)' => p \in stoppable'
    BY <1>6 DEF IsStopped, PhaseInv, StoppedListed
  <2> QED
    BY <1>3, <1>7, <2>1 DEF StoppedListed
<1>11. Phases'
  <2> SUFFICES ASSUME ~Closing'
               PROVE  Phases'
    BY DEF Phases
  <2>1. ~Closing
    BY <1>2, <1>7 DEF Closing
  <2>2. \A p \in stoppable : InPhase(p)
    BY <1>2, <2>1 DEF PhaseInv, Phases, Loops
  <2>3. \A p \in stoppable' : InPhase(p)'
    BY <1>5, <1>6, <1>7, <2>2 DEF InPhase, IsStopped
  <2> QED
    BY <1>7, <2>3 DEF Phases
<1> QED
  BY <1>6, <1>8, <1>9, <1>10, <1>11

LEMMA PhaseStep == QuietList /\ PhaseInv /\ [Next]_vars => PhaseInv'
<1> SUFFICES ASSUME QuietList, PhaseInv, [Next]_vars PROVE PhaseInv'
  OBVIOUS
<1>1. ListInv'
  BY ListStep DEF PhaseInv
<1>2. ASSUME Calm /\ CallStack'
      PROVE  PhaseInv'
  BY <1>1, <1>2, CalmStep DEF PhaseInv
<1>3. CASE sigtimer_handler
  BY <1>1, <1>3, PhaseTimerMoves, PhaseKill DEF PhaseInv
<1>4. ASSUME NEW f \in Updaters, UpdateProcTree(f)
      PROVE  PhaseInv'
  BY <1>1, <1>4, PhaseUpdate DEF PhaseInv
<1>5. ASSUME NEW f \in Frames, CloseNext(f)
      PROVE  PhaseInv'
  BY <1>1, <1>5, PhaseClose DEF PhaseInv
<1>6. ASSUME NEW p \in Pids, Process(p)
      PROVE  PhaseInv'
  BY <1>1, <1>6, PhaseProcess DEF PhaseInv
<1>7. ~sigupdate_handler
  BY DEF sigupdate_handler, At, PhaseInv, NothingNew
<1>8. CASE Exited \/ UNCHANGED vars
  BY <1>2, <1>8, SignalsAreCalm DEF Exited
<1>9. CASE \/ main \/ sigint_handler \/ sigaio_handler
           \/ \E f \in {"main", "sigaio"} : UpdateTimer(f)
  BY <1>2, <1>9, MainIsCalm, InterruptIsCalm, AioIsCalm, UpdateTimerIsCalm
<1>10. CASE \/ \E h \in Handlers : Deliver(h)
            \/ \E t \in Updaters : Expire(t)
            \/ Interrupt \/ \E c \in Commands : TypeLine(c)
  BY <1>2, <1>10, SignalsAreCalm
<1> QED
  BY <1>3, <1>4, <1>5, <1>6, <1>7, <1>8, <1>9, <1>10 DEF Next, Program, Environment

\* Without periodic updates, and with no births under -U: between two runs of
\* sigtimer_handler every listed process is in the phase that state names, however the
\* user's lines, the interrupts, the timer, ends of processes and updates fall.
THEOREM PhasesAlwaysHold == ASSUME QuietList PROVE Spec => []PhaseHolds
<1>1. PhaseInv => PhaseHolds
  <2> SUFFICES ASSUME PhaseInv, Started, pc["sigtimer"] = "idle", ~Closing,
                      NEW p \in Pids, Listed(p)
               PROVE  /\ state = "SLEEPING" => status[p] # "running"
                      /\ state = "WORKING"  => ~IsStopped(p)
    BY DEF PhaseHolds
  <2>1. p \in stoppable
    BY ListIsStoppable
  <2>2. InPhase(p)
    BY <2>1 DEF PhaseInv, Phases, Loops
  <2> QED
    BY <2>2 DEF InPhase, Started
<1> QED
  BY <1>1, PhaseInit, PhaseStep, PTL DEF Spec

\* ... and a program that runs to the end of main leaves no process stopped.
THEOREM AlwaysRestoredAtExit == ASSUME QuietList PROVE Spec => []RestoredAtExit
<1>1. PhaseInv => RestoredAtExit
  BY DEF PhaseInv
<1> QED
  BY <1>1, PhaseInit, PhaseStep, PTL DEF Spec
=============================================================================
