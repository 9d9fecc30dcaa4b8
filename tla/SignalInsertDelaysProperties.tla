-------------------- MODULE SignalInsertDelaysProperties --------------------
(***************************************************************************)
(* What signal_insert_delays promises: the invariants and the liveness     *)
(* properties of SignalInsertDelays.  Line numbers without a file are of   *)
(* src/power_modulating_interfaces/signal_insert_delays/                   *)
(* signal_insert_delays.c.                                                 *)
(***************************************************************************)
EXTENDS SignalInsertDelays

Iterates(f) == pc[f] \in {"item", "probe_cont", "probe_end"}
Updating  == \E f \in Updaters : Iterates(f)
Started   == pc["main"] \in {"check", "pause", "paused", "close"}
Rewriting(f) ==
  pc[f] \in {"on_sec", "on_nsec", "off_sec", "off_nsec", "fix_on", "fix_off"}
Closing   == \E f \in Frames : pc[f] \in {"close", "abort"}

Labels ==
  {"idle", "entry", "close", "abort", "start_timer", "on_sec", "on_nsec", "off_sec",
   "off_nsec", "fix_on", "fix_off", "arm", "start_updatetimer", "check",
   "pause", "paused", "test_sleeping", "sleep", "work", "stop_all", "cont_all",
   "check_errors", "rearm", "rearm_on", "rearm_off", "scan", "item",
   "probe_cont", "probe_end", "aio_read"}

\* The type invariant, one conjunct for each group of variables.
FlagTypes ==
  /\ state \in {"FINISHED", "WORKING", "SLEEPING"}
  /\ sigint_count \in 0..2 /\ update_on_error_count \in 0..1
TimerTypes ==
  /\ duty \in 0..DutyDen /\ period \in Nat
  /\ timer_on  \in [sec : Nat, nsec : Int]
  /\ timer_off \in [sec : Nat, nsec : Int]
  /\ span \in [Frames -> [on : Nat, off : Nat]]
NodeTypes ==
  /\ node \subseteq Pids /\ ok \subseteq Pids /\ new \subseteq Pids
  /\ stoppable \subseteq Pids /\ at \in [Updaters -> 1..(NPids + 1)]
ListTypes ==
  /\ stoppableList \in [0..NPids -> 0..NPids]
  /\ stoppableListSize \in Nat /\ stoppableListIndex \in Nat
FrameTypes ==
  /\ failed \in BOOLEAN /\ cur \in [Frames -> Nat]
  /\ pc \in [Frames -> Labels] /\ level \in [Frames -> Nat]
SignalTypes ==
  /\ armed \subseteq Updaters /\ pend \subseteq Handlers
  /\ aio \in [op : {"duty", "period", "interval", "quit", "other", "eof",
                    "reading", "closed"}, arg : Int]
  /\ exited \in {"no", "ok", "fail"}
ProcessTypes ==
  /\ status \in [Pids -> {"absent", "running", "stopping", "stopped"}]
  /\ churn \in 0..MaxChurn
TypeOK == /\ FlagTypes  /\ TimerTypes  /\ NodeTypes    /\ ListTypes
          /\ FrameTypes /\ SignalTypes /\ ProcessTypes

\* When main has run to its end, no process is left stopped: the loop of
\* prepare_for_close has resumed each, and no handler that interrupted the loop
\* has stopped one again (lines 53-70 and 376-382).
RestoredAtExit == exited = "ok" => \A p \in Pids : ~IsStopped(p)

\* Between two runs of sigtimer_handler the processes on the list are in the
\* phase that state names, whatever signals interrupted the loops that put
\* them there (lines 208-233).
PhaseHolds ==
  Started /\ pc["sigtimer"] = "idle" /\ ~Closing =>
    \A p \in Pids : Listed(p) =>
      /\ state = "SLEEPING" => status[p] # "running"
      /\ state = "WORKING"  => ~IsStopped(p)

\* Outside _update_timer no duration is zero, whatever the user typed, in the middle
\* of the start or of a phase, so that no timer is disarmed for good by setting it:
\* what lines 171-177 correct is never undone by a rewrite that they interrupt.
DurationsRun ==
  pc["main"] # "start_timer" /\ ~Rewriting("main") /\ ~Rewriting("sigaio") =>
    ~Zero(timer_on) /\ ~Zero(timer_off)

\* Until the program is told to finish, the timer that makes it alternate is
\* running, or has expired and its signal waits: "Make sure the timer actually
\* goes, even if the duty/period calculations don't work out right" (line 171).
WorkTimerAlive ==
  Started /\ state # "FINISHED" /\ pc["sigtimer"] = "idle" /\ exited = "no" =>
    "sigtimer" \in armed \cup pend

\* Outside an update the list, up to its terminator, holds the processes that
\* the tree marks stoppable and no other (get_children.c:260-265, 366).
ListMatchesTree ==
  ~Updating => {p \in Pids : Listed(p)} = stoppable

\* The nodes that an iteration may still add.
Listing(f) == {p \in Todo(f) : p \in ok \/ (pc[f] # "item" /\ p = at[f])}

\* During an update there is room in the allocated block for every node that may
\* still be added, and for the terminator (get_children.c:263, 317-366).
ListInBounds == \A f \in Updaters :
  Iterates(f) => stoppableListIndex + Cardinality(Listing(f)) < stoppableListSize

\* Until the user presses Ctrl+C or the program ends, every listed process is
\* stopped again and again, and every stopped process resumed again: neither phase
\* lasts for ever (lines 208-255).
DutyCycleGoesOn == \A p \in Pids :
  LET over == sigint_count > 0 \/ exited # "no"
  IN  /\ (Listed(p) /\ status[p] = "running") ~>
           (IsStopped(p) \/ status[p] = "absent" \/ over)
      /\ IsStopped(p) ~> (~IsStopped(p) \/ over)

\* Until the program ends or is told to finish, a process that ended leaves the
\* list, so that its PID, once it is given to another program, is not taken for
\* it: the next update removes its node (get_children.c:267-271).  Only PIDs in Deaths
\* end.
DeadLeavesList == \A p \in Deaths :
  (Listed(p) /\ status[p] = "absent") ~>
    (\/ ~Listed(p) \/ status[p] # "absent"
     \/ state = "FINISHED" \/ exited # "no")
=============================================================================
