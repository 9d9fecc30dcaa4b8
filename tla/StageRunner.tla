----------------------------- MODULE StageRunner -----------------------------
(***************************************************************************)
(* The stages of an experiment (src/experiments/scripts/ua_power_exp/      *)
(* stage_runner.sh): each is a shell process that starts the power stream, *)
(* caps the executors over ssh, runs the queries on the driver, and undoes *)
(* both.  Commands for the executors run in the background, where Ctrl+C   *)
(* is ignored; Ctrl+C kills the script until it sets its trap.             *)
(***************************************************************************)
EXTENDS Naturals, Sequences, FiniteSets

CONSTANTS
  Executors,
  Caps,           \* the caps of the stages: "none", "cgroup" or "rapl"
  MaxStages,      \* bound: stages
  MaxInterrupts   \* bound: Ctrl+C, in all stages

ASSUME StageAssumption ==
  /\ Caps \subseteq {"none", "cgroup", "rapl"} /\ IsFiniteSet(Executors)
  /\ MaxStages \in Nat \ {0} /\ MaxInterrupts \in Nat

VARIABLES
  stage, powerCap,    \* the number and the cap of the stage
  stack,              \* where the script is, and, below, where traps return to
  trapSet, stagecleanedup,
  cap,                \* the mechanisms in force on each executor
  running,            \* background commands: [executor, op, batch]
  batch,              \* the number of the last batch of commands, counted from 1
                      \* whenever nothing runs
  failed,             \* a command of the last batch failed
  stream,             \* the power stream is on
  interrupts,
  fresh,              \* history: where no other command ran when the batch was
                      \* sent and, for a batch of caps, no cap was in force
  lifted              \* history: where the last lifting was fresh and reported
                      \* a success, and no script was killed since

scriptVars == <<stage, powerCap, trapSet, stagecleanedup>>
commandVars == <<cap, running, batch, failed, fresh>>
remoteVars == <<commandVars, lifted>>
vars == <<scriptVars, stack, remoteVars, stream, interrupts>>

At(label)    == stack[1] = label
Goto(label)  == stack' = <<label>> \o Tail(stack)
Over         == At("returned") \/ At("killed")
Batch        == {c \in running : c.batch = batch}

-----------------------------------------------------------------------------
(* The executors *)

\* stopPowerCap resets both mechanisms, one after the other; a cap is set with one
\* of them, and leaves the other as it is.
Lifts(op)      == op \in {"lift", "none"}
Mechanisms(op) == IF Lifts(op) THEN {"cgroup", "rapl"} ELSE {op}
AfterCommand(mechanisms, op, done) ==
  IF Lifts(op) THEN mechanisms \ done ELSE mechanisms \cup done

\* Seeded fault: the status is that of the first of the two resets.
FirstOne(op) == IF op = "rapl" THEN "rapl" ELSE "cgroup"
\* What a command reports is how its last reset or setting went.
Reported(op) == IF op = "cgroup" THEN "cgroup" ELSE "rapl"

\* Each part of a command is carried out, or not; ssh may report a failure either way.
Finish(c, done, success) ==
  /\ done \subseteq Mechanisms(c.op) /\ (success => Reported(c.op) \in done)
  /\ running' = running \ {c}
  /\ cap' = [cap EXCEPT ![c.executor] = AfterCommand(@, c.op, done)]
  /\ failed' = (failed \/ (c.batch = batch /\ ~ success))
  /\ lifted' = IF c.op = "lift" /\ c.batch = batch /\ success /\ c.executor \in fresh
                 THEN lifted \cup {c.executor} ELSE lifted
  /\ UNCHANGED <<scriptVars, stack, batch, stream, interrupts, fresh>>

\* runInBackground for each executor.
Launch(op) ==
  /\ batch' = (IF running = {} THEN 1 ELSE batch + 1) /\ failed' = FALSE
  /\ running' = running \cup
       {[executor |-> e, op |-> op, batch |-> batch'] : e \in Executors}
  /\ fresh' = {e \in Executors : /\ \A c \in running : c.executor # e
                                 /\ op = "lift" \/ cap[e] = {}}
  /\ lifted' = IF op = "lift" THEN {} ELSE lifted
  /\ UNCHANGED cap

\* Seeded fault: the first result is enough.
SomeDone == Cardinality(Batch) < Cardinality(Executors)
\* Seeded fault: the script waits for the files that successful commands touch.
AllTouched == Batch = {} /\ ~ failed
AllDone == Batch = {}

-----------------------------------------------------------------------------
(* run *)

\* The answer of the server may be lost, too.
startPowerMonitor ==
  /\ At("monitor")
  /\ \/ stream' = TRUE /\ Goto("start")
     \/ stream' \in BOOLEAN /\ Goto("stop")
  /\ UNCHANGED <<scriptVars, remoteVars, interrupts>>

StartCaps ==
  /\ At("start") /\ Goto("wait_start") /\ Launch(powerCap)
  /\ UNCHANGED <<scriptVars, stream, interrupts>>

CapsStarted ==
  /\ At("wait_start") /\ AllDone
  /\ Goto(IF failed THEN "lift" ELSE "query")
  /\ trapSet' = ~ failed
  /\ UNCHANGED <<stage, powerCap, stagecleanedup, remoteVars, stream, interrupts>>

AfterQueries(success) == IF success THEN "lift" ELSE "cleanup"

RunQueries ==
  /\ At("query")
  /\ \E success \in BOOLEAN : Goto(AfterQueries(success))
  /\ UNCHANGED <<scriptVars, remoteVars, stream, interrupts>>

LiftCaps ==
  /\ At("lift") /\ Goto("wait_lift") /\ Launch("lift")
  /\ UNCHANGED <<scriptVars, stream, interrupts>>

CapsLifted ==
  /\ At("wait_lift") /\ AllDone /\ Goto("stop")
  /\ UNCHANGED <<scriptVars, remoteVars, stream, interrupts>>

\* Nobody looks whether wget could stop the stream.
StreamStopped == stream' \in {FALSE, stream}

stopPowerMonitor ==
  /\ At("stop") /\ Goto("returned") /\ StreamStopped
  /\ UNCHANGED <<scriptVars, remoteVars, interrupts>>

\* The next stage is a new process.
NextStage ==
  /\ Over /\ stage < MaxStages
  /\ stage' = stage + 1 /\ powerCap' \in Caps
  /\ stack' = <<"monitor">>
  /\ trapSet' = FALSE /\ stagecleanedup' = FALSE
  /\ UNCHANGED <<remoteVars, stream, interrupts>>

-----------------------------------------------------------------------------
(* stagecleanup: called when the queries fail, and by the trap *)

\* Where a frame goes on when its cleanup is over.
Back == IF Len(stack) = 1 THEN <<"lift">> ELSE Tail(stack)

Cleanup ==
  /\ At("cleanup")
  /\ IF stagecleanedup THEN stack' = Back ELSE Goto("close_driver")
  /\ UNCHANGED <<scriptVars, remoteVars, stream, interrupts>>

\* go_cleanup.sh on the driver is over, or its ssh has failed.
LiftAll ==
  /\ At("close_driver") /\ Goto("wait_clean") /\ Launch("lift")
  /\ UNCHANGED <<scriptVars, stream, interrupts>>

Cleaned ==
  /\ At("wait_clean") /\ AllDone /\ Goto("stop_clean")
  /\ UNCHANGED <<scriptVars, remoteVars, stream, interrupts>>

StopClean ==
  /\ At("stop_clean")
  /\ stack' = Back /\ StreamStopped /\ stagecleanedup' = TRUE
  /\ UNCHANGED <<stage, powerCap, trapSet, remoteVars, interrupts>>

-----------------------------------------------------------------------------
(* Ctrl+C *)

\* Where the script goes on after the trap: the queries have been killed; wait
\* returns at once, and what it waited for runs on.
AfterTrap(label) ==
  CASE label = "query"      -> "cleanup"
    [] label = "wait_lift"  -> "stop"
    [] label = "wait_clean" -> "stop_clean"
    [] OTHER                -> label

interrupt ==
  /\ ~ Over /\ interrupts < MaxInterrupts /\ interrupts' = interrupts + 1
  /\ IF trapSet
       THEN /\ stack' = <<"cleanup", AfterTrap(stack[1])>> \o Tail(stack)
            /\ UNCHANGED lifted
       ELSE stack' = <<"killed">> /\ lifted' = {}
  /\ UNCHANGED <<scriptVars, commandVars, stream>>

-----------------------------------------------------------------------------
Init ==
  /\ stage = 1 /\ powerCap \in Caps /\ stack = <<"monitor">>
  /\ trapSet = FALSE /\ stagecleanedup = FALSE
  /\ cap = [e \in Executors |-> {}] /\ running = {} /\ batch = 0 /\ failed = FALSE
  /\ stream = FALSE /\ interrupts = 0
  /\ fresh = Executors /\ lifted = Executors

script ==
  \/ startPowerMonitor \/ StartCaps \/ CapsStarted \/ RunQueries \/ LiftCaps
  \/ CapsLifted \/ stopPowerMonitor \/ Cleanup \/ LiftAll \/ Cleaned \/ StopClean
ssh == \E c \in running, done \in SUBSET {"cgroup", "rapl"}, success \in BOOLEAN :
         Finish(c, done, success)

Next == script \/ ssh \/ NextStage \/ interrupt

Spec == Init /\ [][Next]_vars

\* The shell goes on, and no ssh hangs for ever.
FairSpec == Spec /\ WF_vars(script) /\ WF_vars(ssh)

-----------------------------------------------------------------------------
Labels == {"monitor", "start", "wait_start", "query", "lift", "wait_lift", "stop",
           "returned", "killed", "cleanup", "close_driver", "wait_clean", "stop_clean"}

\* The type invariant.
TypeOK ==
  /\ stage \in 1..MaxStages /\ powerCap \in Caps
  /\ stack \in Seq(Labels) /\ Len(stack) \in 1..MaxInterrupts + 1
  /\ trapSet \in BOOLEAN /\ stagecleanedup \in BOOLEAN /\ failed \in BOOLEAN
  /\ stream \in BOOLEAN
  /\ cap \in [Executors -> SUBSET {"cgroup", "rapl"}]
  /\ running \subseteq [executor : Executors, op : Caps \cup {"lift"}, batch : 1..batch]
  /\ fresh \subseteq Executors /\ lifted \subseteq Executors
  /\ batch \in Nat /\ interrupts \in 0..MaxInterrupts

\* When a stage has returned, an executor is under no RAPL cap, of this stage or an
\* earlier one, whatever failed or was interrupted before (stage_runner.sh:42: "you
\* still need to shut things down"): unless its last lifting reported a failure or
\* overlapped with another command, or an earlier stage was killed.  A control group
\* may stay capped, since stopPowerCap does not report that (functions_powerCap.sh:60).
NoCapLeft == At("returned") => \A e \in lifted : "rapl" \notin cap[e]

\* While the queries run, the power stream has been started, and an executor that was
\* free of caps and of commands before the stage is under the cap of the stage and
\* under no other: one mechanism at a time (functions_powerCap.sh:20).
CappedAsAsked ==
  At("query") => stream /\ \A e \in fresh : cap[e] = {powerCap} \ {"none"}

\* Every stage returns or is killed, whatever fails, and however the trap interrupts the
\* waits and itself.
StagesEnd == []<>Over
=============================================================================
