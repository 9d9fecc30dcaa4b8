----------------------------- MODULE FreqServer -----------------------------
(***************************************************************************)
(* The frequency server: a worker thread reads numbers from a serial line  *)
(* and hands each to a callback, until it is stopped or an exception ends  *)
(* it (src/remotePowerMeasurement/measurementServer/FreqServer.py).  The   *)
(* thread that starts and stops it is main.                                *)
(***************************************************************************)
CONSTANTS Threads   \* main, worker and any others

VARIABLES
  pc,
  running, workerThread,   \* workerThread = TRUE: the attribute is not None
  lock,                    \* of the serial line
  serial                   \* "ok", or "broken": every access raises

freqVars == <<running, workerThread, lock, serial>>

At(t, label)   == pc[t] = label
Goto(t, label) == pc' = [pc EXCEPT ![t] = label]

FreqInit == /\ running = FALSE /\ workerThread = FALSE
            /\ lock = "free" /\ serial = "ok"

-----------------------------------------------------------------------------
(* start, without autojoin *)

\* A command that raises leaves the lock of the serial line held.
start(next) ==
  /\ At("main", "start") /\ ~running /\ lock = "free"
  /\ running' = TRUE
  /\ IF serial = "ok"
       THEN /\ workerThread' = TRUE /\ UNCHANGED lock
            /\ pc' = [pc EXCEPT !["main"] = next, !["worker"] = "loop"]
       ELSE lock' = "lost" /\ Goto("main", "crashed") /\ UNCHANGED workerThread
  /\ UNCHANGED serial

-----------------------------------------------------------------------------
(* serve: the worker *)

TestRunning ==
  /\ At("worker", "loop") /\ Goto("worker", IF running THEN "read" ELSE "off")
  /\ UNCHANGED freqVars

\* A number, a timeout, or something int() rejects.
ReadLine ==
  /\ At("worker", "read")
  /\ \/ serial = "ok" /\ \E next \in {"callback", "loop"} : Goto("worker", next)
     \/ Goto("worker", "except")
  /\ UNCHANGED freqVars

\* The handler forgets the thread and then stops the server.
Except ==
  /\ At("worker", "except") /\ Goto("worker", "assert")
  /\ workerThread' = FALSE
  /\ UNCHANGED <<running, lock, serial>>

serve == TestRunning \/ ReadLine \/ Except

-----------------------------------------------------------------------------
(* stop, as main calls it and as the failed worker does *)

\* Seeded fault: the flag is not cleared.
LeftRunning == UNCHANGED running
ClearRunning == running' = FALSE

AfterAssertion(t) == IF t = "main" THEN "crashed" ELSE "off"
AssertRunning(t) ==
  /\ At(t, "assert")
  /\ Goto(t, IF running THEN "clear_running" ELSE AfterAssertion(t))
  /\ UNCHANGED freqVars
Clear(t) ==
  /\ At(t, "clear_running") /\ ClearRunning /\ Goto(t, "join")
  /\ UNCHANGED <<workerThread, lock, serial>>

\* join tests workerThread, and then evaluates it again to wait for it.
Join(t) ==
  /\ At(t, "join") /\ Goto(t, IF workerThread THEN "wait" ELSE "command")
  /\ UNCHANGED freqVars
Wait(t) ==
  /\ At(t, "wait") /\ Goto(t, IF workerThread THEN "joining" ELSE "crashed")
  /\ UNCHANGED freqVars
Joined(t) ==
  /\ At(t, "joining") /\ pc["worker"] = "off" /\ Goto(t, "command")
  /\ UNCHANGED freqVars

StopCommand(t, next) ==
  /\ At(t, "command") /\ lock = "free"
  /\ IF serial = "ok"
       THEN workerThread' = FALSE /\ Goto(t, next) /\ UNCHANGED lock
       ELSE lock' = "lost" /\ Goto(t, AfterAssertion(t)) /\ UNCHANGED workerThread
  /\ UNCHANGED <<running, serial>>

stop(t, next) ==
  \/ AssertRunning(t) \/ Clear(t) \/ Join(t) \/ Wait(t) \/ Joined(t)
  \/ StopCommand(t, next)

\* The device is unplugged.
Unplug == /\ serial = "ok" /\ serial' = "broken"
          /\ UNCHANGED <<pc, running, workerThread, lock>>
=============================================================================
