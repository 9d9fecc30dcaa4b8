------------------------- MODULE SignalInsertDelays -------------------------
(***************************************************************************)
(* signal_insert_delays limits the CPU time of other processes: a one-shot *)
(* timer makes it alternate between WORKING and SLEEPING, and at each      *)
(* change it sends SIGCONT or SIGSTOP to every process of its stoppable    *)
(* list (src/power_modulating_interfaces/signal_insert_delays).            *)
(*                                                                         *)
(* The program has one thread.  All the work is done in four signal        *)
(* handlers, installed with empty masks, so that a handler may be          *)
(* interrupted between any two of its statements by any handler but        *)
(* itself.  A frame is main or a handler; level orders the active frames   *)
(* as the call stack does, and only the frame on top may take a step.      *)
(***************************************************************************)
EXTENDS Integers, FiniteSets

CONSTANTS
  NPids,            \* PIDs are 1..NPids, numbered in the order of the trie
  Managed,          \* the PIDs below a parent that no exclusion covers
  DutyDen,          \* a duty cycle d stands for d / DutyDen
  TicksPerSec,      \* a tick stands for 1 / TicksPerSec s; also for 1 ns
  InitDuty, InitPeriod, InitInterval,   \* -d, -w, -u
  UpdateOnError,    \* -U
  Commands,         \* what the user may type, as [op, arg]
  MaxInterrupts,    \* bound: how often the user presses Ctrl+C
  Births, Deaths,   \* bound: the PIDs that may appear, or end
  MaxChurn          \* bound: how often processes appear or end

Pids     == 1..NPids
Handlers == {"sigint", "sigtimer", "sigupdate", "sigaio"}
Frames   == {"main"} \cup Handlers
Updaters == {"sigtimer", "sigupdate"}

ASSUME ConstantsAssumption ==
  /\ NPids \in Nat \ {0}
  /\ Managed \subseteq Pids
  /\ DutyDen \in Nat \ {0} /\ TicksPerSec \in Nat \ {0}
  /\ InitDuty \in 0..DutyDen /\ InitPeriod \in Nat /\ InitInterval \in Nat
  /\ UpdateOnError \in BOOLEAN
  /\ Commands \subseteq
       [op : {"duty", "period", "interval", "quit", "other", "eof"}, arg : Int]
  /\ MaxInterrupts \in Nat /\ MaxChurn \in Nat
  /\ Births \subseteq Pids /\ Deaths \subseteq Pids

VARIABLES
  state, sigint_count, update_on_error_count,
  duty, period, timer_on, timer_off,
  span,       \* ont and offt of the frame inside _update_timer
  node,       \* PIDs with a node in the process tree, and of these those
  ok, new,    \* marked FLAG_MARK_OK, FLAG_MARK_NEW
  stoppable,  \* and FLAG_STOPPABLE
  stoppableList, stoppableListSize, stoppableListIndex,
  at,         \* where the iteration of an updating frame is in the tree
  failed,     \* f > 0 in sigtimer_handler: some kill failed
  cur,        \* the index i of a frame's loop over stoppableList
  pc, level,  \* where each frame is, and its depth in the call stack
  armed,      \* timers that are running
  pend,       \* signals sent and not yet delivered
  aio,        \* the read request: "reading", "closed" or the line it got
  exited,     \* "no", "ok" (end of main) or "fail" (errExit)
  status,     \* of every PID
  churn

flagVars  == <<state, sigint_count, update_on_error_count>>
timerVars == <<duty, period, timer_on, timer_off, span>>
nodeVars  == <<node, ok, new, stoppable, at>>
listVars  == <<stoppableList, stoppableListSize, stoppableListIndex>>
treeVars  == <<nodeVars, listVars>>
loopVars  == <<cur, failed>>
sigVars   == <<armed, pend, aio>>
procVars  == <<status, churn>>
vars == <<flagVars, timerVars, treeVars, loopVars, pc, level, sigVars,
          exited, procVars>>

-----------------------------------------------------------------------------
(* Frames *)

Running(f) == /\ exited = "no"
              /\ pc[f] # "idle"
              /\ \A g \in Frames : level[g] <= level[f]

At(f, label)   == Running(f) /\ pc[f] = label
Goto(f, label) == pc' = [pc EXCEPT ![f] = label] /\ UNCHANGED level

\* errExit: the frame runs prepare_for_close and the program ends in it.
ErrExit(f) == Goto(f, "abort") /\ cur' = [cur EXCEPT ![f] = 0]

Return(h) == /\ pc' = [pc EXCEPT ![h] = "idle"]
             /\ level' = [level EXCEPT ![h] = 0]

\* A pending signal interrupts the running frame; it waits while its own
\* handler is active.  pause() in main ends when the handler returns.
Deliver(h) ==
  /\ h \in pend /\ pc[h] = "idle"
  /\ \E f \in Frames :
       /\ Running(f)
       /\ level' = [level EXCEPT ![h] = level[f] + 1]
       /\ pc' = [g \in Frames |->
                   IF g = h THEN "entry"
                   ELSE IF g = "main" /\ pc["main"] = "paused" THEN "check"
                   ELSE pc[g]]
  /\ pend' = pend \ {h}
  /\ UNCHANGED <<flagVars, timerVars, treeVars, loopVars, armed, aio, exited,
                 procVars>>

-----------------------------------------------------------------------------
(* The stoppable list and the processes on it *)

\* What the loops read; past the end of the block they stop.
Entry(i) == IF i \in 0..NPids THEN stoppableList[i] ELSE 0

\* SIGSTOP takes effect in the target some time after kill returned; SIGCONT
\* resumes it at once and discards a SIGSTOP that has not taken effect.
AfterStop(p) ==
  [status EXCEPT ![p] = IF @ = "running" THEN "stopping" ELSE @]
AfterCont(p) ==
  [status EXCEPT ![p] = IF @ \in {"stopping", "stopped"} THEN "running" ELSE @]
AfterKill(p, sig) == IF sig = "SIGSTOP" THEN AfterStop(p) ELSE AfterCont(p)

IsStopped(p) == status[p] \in {"stopping", "stopped"}
Listed(p) == \E i \in 0..NPids : /\ stoppableList[i] = p
                                 /\ \A j \in 0..i : stoppableList[j] # 0

-----------------------------------------------------------------------------
(* Durations: _update_timer writes four fields one after the other *)

OnTime(d, p)  == d * p
OffTime(d, p) == (DutyDen - d) * p
Sec(t) == t \div TicksPerSec

\* The nanoseconds are what remains of the local time after the seconds that the
\* shared structure holds now.
WithSec(t, n)  == [t EXCEPT !.sec = n]
WithRest(t, n) == [t EXCEPT !.nsec = n - t.sec * TicksPerSec]

\* Seeded fault: a duration of zero is left as it is.
AsIs(t) == t
AtLeast1ns(t) == IF t.sec = 0 /\ t.nsec <= 0 THEN [t EXCEPT !.nsec = 1] ELSE t

Clip(d) == IF d < 0 THEN 0 ELSE IF d > DutyDen THEN DutyDen ELSE d
Clip0(p) == IF p < 0 THEN 0 ELSE p

NoSpan == [on |-> 0, off |-> 0]

EnterUpdateTimer(f, d, p) ==
  /\ span' = [span EXCEPT ![f] = [on |-> OnTime(d, p), off |-> OffTime(d, p)]]
  /\ Goto(f, "on_sec")

AfterUpdateTimer(f) == IF f = "main" THEN "arm" ELSE "aio_read"

SetOnSec(f) ==
  /\ At(f, "on_sec") /\ Goto(f, "on_nsec")
  /\ timer_on' = WithSec(timer_on, Sec(span[f].on))
  /\ UNCHANGED timer_off
SetOnNsec(f) ==
  /\ At(f, "on_nsec") /\ Goto(f, "off_sec")
  /\ timer_on' = WithRest(timer_on, span[f].on)
  /\ UNCHANGED timer_off
SetOffSec(f) ==
  /\ At(f, "off_sec") /\ Goto(f, "off_nsec")
  /\ timer_off' = WithSec(timer_off, Sec(span[f].off))
  /\ UNCHANGED timer_on
SetOffNsec(f) ==
  /\ At(f, "off_nsec") /\ Goto(f, "fix_on")
  /\ timer_off' = WithRest(timer_off, span[f].off)
  /\ UNCHANGED timer_on
FixOn(f) ==
  /\ At(f, "fix_on") /\ Goto(f, "fix_off")
  /\ timer_on' = AtLeast1ns(timer_on)
  /\ UNCHANGED timer_off
FixOff(f) ==
  /\ At(f, "fix_off") /\ Goto(f, AfterUpdateTimer(f))
  /\ timer_off' = AtLeast1ns(timer_off)
  /\ UNCHANGED timer_on

\* The locals are forgotten when the procedure ends.
UpdateTimer(f) ==
  /\ \/ /\ \/ SetOnSec(f)  \/ SetOnNsec(f)  \/ FixOn(f)
           \/ SetOffSec(f) \/ SetOffNsec(f)
        /\ UNCHANGED span
     \/ FixOff(f) /\ span' = [span EXCEPT ![f] = NoSpan]
  /\ UNCHANGED <<flagVars, duty, period, treeVars, loopVars, sigVars,
                 exited, procVars>>

\* timer_settime with a zero it_value disarms the timer, and refuses nanoseconds
\* that are negative or make up a second.
Zero(t) == t.sec = 0 /\ t.nsec = 0
Refused(t) == t.nsec \notin 0..(TicksPerSec - 1)
Rearm(t) ==
  /\ ~Refused(t)
  /\ armed' = IF Zero(t) THEN armed \ {"sigtimer"} ELSE armed \cup {"sigtimer"}
RearmFails(f, t) == Refused(t) /\ ErrExit(f) /\ UNCHANGED armed

-----------------------------------------------------------------------------
(* update_proc_tree, called from sigupdate_handler and sigtimer_handler *)

\* trie_iterate visits the nodes in the order of their PIDs.  An update inside
\* another one has an iteration of its own, on the same nodes and the same list.
Todo(f) == {p \in node : at[f] <= p}
IsNext(f, p) == p \in Todo(f) /\ \A q \in Todo(f) : p <= q
Past(f, p) == at' = [at EXCEPT ![f] = p + 1]

\* Seeded fault: the block has room for the PIDs only.
RoomForPids(found) == Cardinality(found)
SizeFor(found) == Cardinality(found) + 1

Marked(found) == ok \cup found

Listable(p) == p \in stoppable

\* Seeded fault: the list is not terminated.
NoTerminator(list, i) == list
Terminated(list, i) == [list EXCEPT ![i] = 0]

\* /proc cannot be read: update_proc_tree returns -1.
ScanFails(f) ==
  /\ At(f, "scan") /\ ErrExit(f)
  /\ stoppableListIndex' = 0
  /\ UNCHANGED <<nodeVars, stoppableList, stoppableListSize, status>>

\* Mark what is in /proc, and get a larger list if need be: what malloc
\* returns holds arbitrary words.
ScanProc(f) ==
  LET found == {p \in Pids : status[p] # "absent"} IN
  /\ At(f, "scan") /\ Goto(f, "item")
  /\ node' = node \cup found
  /\ ok'   = Marked(found)
  /\ new'  = new \cup (found \ node)
  /\ at'   = [at EXCEPT ![f] = 1]
  /\ stoppableListIndex' = 0
  /\ IF SizeFor(found) > stoppableListSize
       THEN /\ stoppableListSize' = SizeFor(found)
            /\ stoppableList' \in [0..NPids -> 0..NPids]
       ELSE UNCHANGED <<stoppableList, stoppableListSize>>
  /\ UNCHANGED <<stoppable, cur, status>>

AddToList(p) ==
  /\ stoppableList' = [stoppableList EXCEPT ![stoppableListIndex] = p]
  /\ stoppableListIndex' = stoppableListIndex + 1
  /\ UNCHANGED stoppableListSize

\* update_proc_tree_item on the next node p: a node not marked OK is removed, ...
RemoveItem(f, p) ==
  /\ p \notin ok
  /\ node' = node \ {p} /\ new' = new \ {p} /\ stoppable' = stoppable \ {p}
  /\ Past(f, p)
  /\ UNCHANGED <<ok, listVars, pc, level, status>>

\* ... a node already classified, or outside the managed trees, keeps its class,
KeepItem(f, p) ==
  /\ p \in ok /\ ~(p \in new /\ p \in Managed)
  /\ ok' = ok \ {p} /\ new' = new \ {p} /\ Past(f, p)
  /\ IF Listable(p) THEN AddToList(p) ELSE UNCHANGED listVars
  /\ UNCHANGED <<node, stoppable, pc, level, status>>

\* ... and a new managed one is probed by get_stoppable_status: SIGSTOP,
ProbeStop(f, p) ==
  /\ p \in ok \cap new \cap Managed
  /\ ok' = ok \ {p} /\ new' = new \ {p}
  /\ status' = AfterStop(p)
  /\ IF status[p] = "absent"
       THEN Past(f, p) /\ UNCHANGED <<pc, level>>
       ELSE Goto(f, "probe_cont") /\ at' = [at EXCEPT ![f] = p]
  /\ UNCHANGED <<node, stoppable, listVars>>

\* ... then, unless it is seen not to have stopped, SIGCONT,
ProbeCont(f, p) ==
  /\ IF status[p] # "stopped"
       THEN Past(f, p) /\ Goto(f, "item") /\ UNCHANGED status
       ELSE status' = AfterCont(p) /\ Goto(f, "probe_end") /\ UNCHANGED at
  /\ UNCHANGED <<node, ok, new, stoppable, listVars>>

\* ... and it is stoppable unless it is seen still stopped.  A node that an inner
\* update has removed meanwhile is listed all the same.
ProbeEnd(f, p) ==
  /\ Goto(f, "item") /\ Past(f, p)
  /\ IF status[p] = "stopped"
       THEN UNCHANGED <<stoppable, listVars>>
       ELSE stoppable' = stoppable \cup ({p} \cap node) /\ AddToList(p)
  /\ UNCHANGED <<node, ok, new, status>>

UpdateItem(f) ==
  /\ \E p \in Pids :
       \/ /\ At(f, "item") /\ IsNext(f, p)
          /\ RemoveItem(f, p) \/ KeepItem(f, p) \/ ProbeStop(f, p)
       \/ At(f, "probe_cont") /\ p = at[f] /\ ProbeCont(f, p)
       \/ At(f, "probe_end")  /\ p = at[f] /\ ProbeEnd(f, p)
  /\ UNCHANGED cur

\* The list gets its terminator only now.
EndUpdate(f) ==
  /\ At(f, "item") /\ Todo(f) = {}
  /\ stoppableList' = Terminated(stoppableList, stoppableListIndex)
  /\ at' = [at EXCEPT ![f] = 1]
  /\ IF f = "sigtimer" THEN Goto(f, "rearm") ELSE Return(f)
  /\ UNCHANGED <<node, ok, new, stoppable, stoppableListSize,
                 stoppableListIndex, cur, status>>

UpdateProcTree(f) ==
  /\ ScanFails(f) \/ ScanProc(f) \/ UpdateItem(f) \/ EndUpdate(f)
  /\ UNCHANGED <<flagVars, timerVars, failed, sigVars, exited, churn>>

sigupdate_handler ==
  /\ At("sigupdate", "entry") /\ Goto("sigupdate", "scan")
  /\ UNCHANGED <<flagVars, timerVars, treeVars, loopVars, sigVars, exited,
                 procVars>>

-----------------------------------------------------------------------------
(* sigtimer_handler *)

\* Seeded fault: a finished program still stops the processes.
NotSleeping == state # "SLEEPING"
Working == state = "WORKING"

\* The two tests of state, and the assignments that follow them.
TestState ==
  /\ \/ At("sigtimer", "entry")
        /\ Goto("sigtimer", IF Working THEN "sleep" ELSE "test_sleeping")
     \/ At("sigtimer", "test_sleeping")
        /\ Goto("sigtimer", IF state = "SLEEPING" THEN "work" ELSE "check_errors")
  /\ UNCHANGED <<state, update_on_error_count, loopVars, armed, status>>
ChangeState(label, s, next) ==
  /\ At("sigtimer", label) /\ Goto("sigtimer", next)
  /\ state' = s
  /\ UNCHANGED <<update_on_error_count, loopVars, armed, status>>
Sleep == ChangeState("sleep", "SLEEPING", "stop_all")

\* Seeded fault: the two loops are the same.
WorkStops == ChangeState("work", "WORKING", "stop_all")
Work == ChangeState("work", "WORKING", "cont_all")

\* One kill per step; the loop ends at the terminator.
KillNext(label, sig) ==
  /\ At("sigtimer", label)
  /\ LET p == Entry(cur["sigtimer"]) IN
     IF p > 0
       THEN /\ status' = AfterKill(p, sig)
            /\ failed' = (failed \/ status[p] = "absent")
            /\ cur' = [cur EXCEPT !["sigtimer"] = @ + 1]
            /\ UNCHANGED <<pc, level>>
       ELSE /\ Goto("sigtimer", "check_errors")
            /\ cur' = [cur EXCEPT !["sigtimer"] = 0]
            /\ UNCHANGED <<status, failed>>
  /\ UNCHANGED <<state, update_on_error_count, armed>>
StopNext == KillNext("stop_all", "SIGSTOP")
ContNext == KillNext("cont_all", "SIGCONT")

UpdateDue == UpdateOnError /\ failed /\ update_on_error_count = 0

\* The statement that would reset the counter cannot be reached.
CheckErrors ==
  /\ At("sigtimer", "check_errors") /\ failed' = FALSE
  /\ IF UpdateDue
       THEN update_on_error_count' = 1 /\ Goto("sigtimer", "scan")
       ELSE UNCHANGED update_on_error_count /\ Goto("sigtimer", "rearm")
  /\ UNCHANGED <<state, cur, armed, status>>

TestRearm ==
  /\ At("sigtimer", "rearm")
  /\ \/ state = "WORKING"  /\ Goto("sigtimer", "rearm_on")
     \/ state = "SLEEPING" /\ Goto("sigtimer", "rearm_off")
     \/ state = "FINISHED" /\ Return("sigtimer")
  /\ UNCHANGED <<state, update_on_error_count, loopVars, armed, status>>
RearmWith(label, t) ==
  /\ At("sigtimer", label)
  /\ \/ Rearm(t) /\ Return("sigtimer") /\ UNCHANGED cur
     \/ RearmFails("sigtimer", t)
  /\ UNCHANGED <<state, update_on_error_count, failed, status>>
RearmOnOff == RearmWith("rearm_on", timer_on) \/ RearmWith("rearm_off", timer_off)

sigtimer_handler ==
  /\ \/ TestState \/ Sleep \/ Work \/ StopNext \/ ContNext
     \/ CheckErrors \/ TestRearm \/ RearmOnOff
  /\ UNCHANGED <<sigint_count, timerVars, treeVars, pend, aio, exited, churn>>

-----------------------------------------------------------------------------
(* sigint_handler and sigaio_handler *)

\* Seeded fault: the program takes one interrupt more before it aborts.
TakesThree == sigint_count < 3
TakesInterrupt == sigint_count < 2

sigint_handler ==
  /\ At("sigint", "entry")
  /\ IF TakesInterrupt
       THEN /\ state' = "FINISHED"
            /\ sigint_count' = sigint_count + 1
            /\ Return("sigint")
            /\ UNCHANGED cur
       ELSE ErrExit("sigint") /\ UNCHANGED <<state, sigint_count>>
  /\ UNCHANGED <<update_on_error_count, timerVars, treeVars, failed, sigVars,
                 exited, procVars>>

set_duty(d) ==
  /\ duty' = Clip(d)
  /\ EnterUpdateTimer("sigaio", Clip(d), period)
  /\ UNCHANGED <<state, period, armed, aio>>
set_period(p) ==
  /\ period' = Clip0(p)
  /\ EnterUpdateTimer("sigaio", duty, Clip0(p))
  /\ UNCHANGED <<state, duty, armed, aio>>
set_update_interval(u) ==
  /\ armed' = IF u < 0 THEN armed
              ELSE IF u = 0 THEN armed \ {"sigupdate"}
              ELSE armed \cup {"sigupdate"}
  /\ Goto("sigaio", "aio_read")
  /\ UNCHANGED <<state, duty, period, span, aio>>
quit ==
  /\ state' = "FINISHED" /\ Goto("sigaio", "aio_read")
  /\ UNCHANGED <<duty, period, span, armed, aio>>
ignore ==
  /\ Goto("sigaio", "aio_read")
  /\ UNCHANGED <<state, duty, period, span, armed, aio>>
end_of_file ==
  /\ aio' = [op |-> "closed", arg |-> 0] /\ Return("sigaio")
  /\ UNCHANGED <<state, duty, period, span, armed>>

\* The line that was read decides; after the end of the file, or an error, no
\* read is started.
ReadLine ==
  /\ At("sigaio", "entry")
  /\ \/ aio.op = "duty"     /\ set_duty(aio.arg)
     \/ aio.op = "period"   /\ set_period(aio.arg)
     \/ aio.op = "interval" /\ set_update_interval(aio.arg)
     \/ aio.op = "quit"     /\ quit
     \/ aio.op = "other"    /\ ignore
     \/ aio.op = "eof"      /\ end_of_file
ReadAgain ==
  /\ At("sigaio", "aio_read") /\ Return("sigaio")
  /\ aio' = [op |-> "reading", arg |-> 0]
  /\ UNCHANGED <<state, duty, period, span, armed>>

sigaio_handler ==
  /\ ReadLine \/ ReadAgain
  /\ UNCHANGED <<sigint_count, update_on_error_count, timer_on, timer_off,
                 treeVars, loopVars, pend, exited, procVars>>

-----------------------------------------------------------------------------
(* main, from start_timer on *)

StartTimer ==
  /\ At("main", "start_timer")
  /\ state' = "WORKING"
  /\ EnterUpdateTimer("main", duty, period)
  /\ UNCHANGED <<armed, cur>>
ArmTimer ==
  /\ At("main", "arm")
  /\ \/ Rearm(timer_on) /\ Goto("main", "start_updatetimer") /\ UNCHANGED cur
     \/ RearmFails("main", timer_on)
  /\ UNCHANGED <<state, span>>
StartUpdateTimer ==
  /\ At("main", "start_updatetimer") /\ Goto("main", "check")
  /\ armed' = IF InitInterval > 0 THEN armed \cup {"sigupdate"} ELSE armed
  /\ UNCHANGED <<state, span, cur>>

\* while(state != STATE_FINISHED) pause(): the test and the call are two steps.
CheckFinished ==
  /\ At("main", "check")
  /\ Goto("main", IF state = "FINISHED" THEN "close" ELSE "pause")
  /\ UNCHANGED <<state, span, armed, cur>>
Pause ==
  /\ At("main", "pause") /\ Goto("main", "paused")
  /\ UNCHANGED <<state, span, armed, cur>>

main ==
  /\ StartTimer \/ ArmTimer \/ StartUpdateTimer \/ CheckFinished \/ Pause
  /\ UNCHANGED <<sigint_count, update_on_error_count, duty, period, timer_on,
                 timer_off, treeVars, failed, pend, aio, exited, procVars>>

\* prepare_for_close, at the end of main or in the errExit of a handler.
CloseNext(f) ==
  LET p == Entry(cur[f]) IN
  /\ At(f, "close") \/ At(f, "abort")
  /\ IF p > 0
       THEN /\ status' = AfterCont(p)
            /\ cur' = [cur EXCEPT ![f] = @ + 1]
            /\ UNCHANGED exited
       ELSE /\ exited' = IF pc[f] = "close" THEN "ok" ELSE "fail"
            /\ UNCHANGED <<status, cur>>
  /\ UNCHANGED <<flagVars, timerVars, treeVars, failed, pc, level, sigVars,
                 churn>>

-----------------------------------------------------------------------------
(* The kernel, the user and the other processes *)

AfterExpiry(t) == IF t = "sigtimer" THEN armed \ {t} ELSE armed

\* The work timer is one-shot, the update timer periodic.
Expire(t) ==
  /\ exited = "no" /\ t \in armed
  /\ pend' = pend \cup {t}
  /\ armed' = AfterExpiry(t)
  /\ UNCHANGED <<flagVars, timerVars, treeVars, loopVars, pc, level, aio,
                 exited, procVars>>

Interrupt ==
  /\ exited = "no" /\ "sigint" \notin pend /\ pc["sigint"] = "idle"
  /\ sigint_count < MaxInterrupts
  /\ pend' = pend \cup {"sigint"}
  /\ UNCHANGED <<flagVars, timerVars, treeVars, loopVars, pc, level, armed,
                 aio, exited, procVars>>

\* The update interval is only typed once there is an update timer.
TypeLine(c) ==
  /\ exited = "no" /\ aio.op = "reading"
  /\ c.op = "interval" => pc["main"] \in {"check", "pause", "paused", "close"}
  /\ aio' = c
  /\ pend' = pend \cup {"sigaio"}
  /\ UNCHANGED <<flagVars, timerVars, treeVars, loopVars, pc, level, armed,
                 exited, procVars>>

TakeStop(p) ==
  /\ status[p] = "stopping"
  /\ status' = [status EXCEPT ![p] = "stopped"] /\ UNCHANGED churn
Die(p) ==
  /\ p \in Deaths /\ status[p] # "absent" /\ churn < MaxChurn
  /\ status' = [status EXCEPT ![p] = "absent"] /\ churn' = churn + 1
Begin(p) ==
  /\ p \in Births /\ status[p] = "absent" /\ churn < MaxChurn
  /\ status' = [status EXCEPT ![p] = "running"] /\ churn' = churn + 1
Process(p) ==
  /\ exited = "no"
  /\ TakeStop(p) \/ Die(p) \/ Begin(p)
  /\ UNCHANGED <<flagVars, timerVars, treeVars, loopVars, pc, level, sigVars,
                 exited>>

Exited == exited # "no" /\ UNCHANGED vars

-----------------------------------------------------------------------------
\* cmdline has built the process tree: some of the managed PIDs were found
\* stoppable.  PIDs in Births start later.
IsListOf(list, S) ==
  LET n == Cardinality(S) IN
  /\ \A p \in S : \E i \in 0..(n - 1) : list[i] = p
  /\ \A i \in 0..(n - 1) : list[i] \in S
  /\ \A i \in 0..(n - 1), j \in 0..(n - 1) : i < j => list[i] < list[j]
  /\ \A i \in n..NPids : list[i] = 0

Init ==
  LET present == Pids \ Births IN
  /\ state = "SLEEPING" /\ sigint_count = 0 /\ update_on_error_count = 0
  /\ duty = InitDuty /\ period = InitPeriod
  /\ timer_on = [sec |-> 0, nsec |-> 0] /\ timer_off = [sec |-> 0, nsec |-> 0]
  /\ span = [f \in Frames |-> NoSpan]
  /\ node = present /\ ok = {} /\ new = {} /\ at = [f \in Updaters |-> 1]
  /\ stoppable \in SUBSET (present \cap Managed)
  /\ stoppableList \in [0..NPids -> 0..NPids] /\ IsListOf(stoppableList, stoppable)
  /\ stoppableListSize = Cardinality(present) + 1
  /\ stoppableListIndex = Cardinality(stoppable)
  /\ failed = FALSE /\ cur = [f \in Frames |-> 0]
  /\ pc = [f \in Frames |-> IF f = "main" THEN "start_timer" ELSE "idle"]
  /\ level = [f \in Frames |-> 0]
  /\ armed = {} /\ pend = {} /\ aio = [op |-> "reading", arg |-> 0]
  /\ exited = "no"
  /\ status = [p \in Pids |-> IF p \in present THEN "running" ELSE "absent"]
  /\ churn = 0

Program ==
  \/ main \/ sigint_handler \/ sigtimer_handler \/ sigupdate_handler
  \/ sigaio_handler
  \/ \E f \in {"main", "sigaio"} : UpdateTimer(f)
  \/ \E f \in Updaters : UpdateProcTree(f)
  \/ \E f \in Frames : CloseNext(f)

Environment ==
  \/ \E h \in Handlers : Deliver(h)
  \/ \E t \in Updaters : Expire(t)
  \/ Interrupt
  \/ \E c \in Commands : TypeLine(c)
  \/ \E p \in Pids : Process(p)

Next == Program \/ Environment \/ Exited

Spec == Init /\ [][Next]_vars
-----------------------------------------------------------------------------
(* Fairness: the program goes on while any of its frames has something to do,
   the kernel delivers a signal whose handler is free, a running timer expires,
   and a SIGSTOP takes effect.  No frame is promised a turn of its own, and
   nothing is promised of the user and of births and deaths. *)

Fairness ==
  /\ WF_vars(Program)
  /\ \A h \in Handlers : WF_vars(Deliver(h))
  /\ \A t \in Updaters : WF_vars(Expire(t))
  /\ \A p \in Pids : WF_vars(TakeStop(p) /\ Process(p))

FairSpec == Spec /\ Fairness
=============================================================================
