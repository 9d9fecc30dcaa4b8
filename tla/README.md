# A verification development for serverpower

serverpower limits and measures the power of servers: programs that make other
processes use less CPU time, a server that samples power meters and streams the
results, controllers that follow a power set-point, and the scripts of the
experiments. This directory holds TLA+ models of its concurrent core, the TLC
runs that check them on small instances, and TLAPS proofs of what holds for every
instance.

Short names of source files are explained in the first table; `PROJECT.json` has the
full path and the lines of every definition.

## 1. The system

| Component | State | Operations | What makes it correct | Status |
|---|---|---|---|---|
| Duty-cycle limiter (`src/power_modulating_interfaces/signal_insert_delays/signal_insert_delays.c`) | `state`, the two durations, the stoppable list, three signal counters and two POSIX timers | `sigtimer_handler`, `sigupdate_handler`, `sigint_handler`, `sigaio_handler`, `main`, `prepare_for_close` | the listed processes follow `state`; the timer goes on; the list follows what ends; nobody is left stopped | modelled |
| Process tree (`get_children.c`, beside it) | a node per PID with its parent and flags; the list, its size and index | `create_proc_tree`, `update_proc_tree`, `get_stoppable_status`, the snapshot | the list holds what the options ask for, inside its block; ended processes leave | modelled |
| Trie (`trie.c`) | binary trie keyed by the bits of a PID | insert, remove, value, iterate, deallocate | it is the map it stands for; removal while iterating is safe | modelled |
| Command line (`cmdline.c`) | the options, the first process tree | parse; snapshot for `-o`, `-x` | the first list holds what was asked for | partly: the modes, not the parsing |
| Stressor (`src/power_modulating_interfaces/stress/cstress.c`) | as the limiter, without other processes | timer and input handlers, a busy loop, a wait in `sigsuspend` | the timer goes on; no signal is lost before the wait | partly: not the parsing |
| Measurement server (`src/remotePowerMeasurement/measurementServer/PowerMeasurementServer.py`, `MeasurementServer.py`) | streams, hardware streams, sockets, two locks | start, stop, stop all, info, on request threads; two callbacks; main | a stream has an open socket; a lock is released; sampling goes on | modelled |
| Frequency worker (`FreqServer.py`) | a thread and its flags | start, serve, stop, join | stop returns; a failure ends the worker | partly |
| Ring buffer (`RingBuffer.py`) | rows, index, length, lock | append, extend, FIFO and LIFO reads | a reader gets the last rows, in order | modelled |
| Playback (`src/utilities/playback/playback.c`) | the position in a file and a timer | one row per expiry | nothing early, nothing forgotten | modelled |
| Integral controller (`src/utilities/integralController`) | an integral, the read-ahead of stdio | one round per line or per interval | the output is clamped and does not wind up; no line is lost | partly |
| Stages of an experiment (`src/experiments/scripts/ua_power_exp`) | the caps in force, background commands, the power stream, the trap | run, stagecleanup, Ctrl+C | no cap outlives a stage that has been told it was lifted | partly |
| Power-capped sessions (`src/profiling/bitSliceHadoop/bit-slice_powercap.sh` and `..._monitored.sh`, `src/utilities/multicast_tool`) | where the script is, the pipelines it has started on the hosts, datagrams under way | caps and `q` sent several times, the trap, the wait for the pipelines | queries run under their cap; pipelines close, and their caps with them | partly |
| RAPL limits (`src/power_modulating_interfaces/rapl/pgtc.c`, `rapl.c`) | the registers of the limits and their time windows | set a limit; obey `p`, `q`; reset at the exit | no limit outlives the program | partly: the loop of `pgtc.c` |
| Power streams from the shell, packets, data acquisition, energy counters, shell limiters, triangle wave, plots, vendored code | | | | section 7 |

How they interact: a controller or a playback program writes set-points to the
standard input of a limiter, a line at a time; the limiter signals the managed
processes; the measurement server samples their power and multicasts it to the
controllers; the scripts start and stop all of them over ssh and HTTP, and those of
`bitSliceHadoop` send the caps by multicast, unacknowledged, to a listener on every host
that prints them into the RAPL limiter.

What is hard: signal handlers that interrupt each other and `main` between any
two statements; data that one handler rewrites in place while another reads it; a
process table that changes by itself; dictionaries tested outside the lock that guards
their changes, and locks that an exception leaves held; a buffer whose slots are filled
after its lock is released; pipelines that shut down by text, some of it in datagrams that get lost; and scripts
whose interrupted waits, or ends, leave commands and pipelines under way. `PROJECT.json` lists each hazard at its line
with the properties that watch it.

## 2. The modules

| Module | Models | Composed of |
|---|---|---|
| `SignalInsertDelays`, `SignalInsertDelaysProperties` | the limiter with its handlers and updates | |
| `Trie`, `ProcTree` | the trie as operators; the updates of the tree against a changing `/proc` | `ProcTree` extends `Trie`, and implements `KeyMap` |
| `KeyMap` | abstract: a map in which a step changes the key it names | |
| `StreamServer`, `FreqServer`, `PowerMeasurementServer` | the streams and their locks; the worker; both with `main` and the sampler | the last extends the first and instantiates the second |
| `RingBuffer` | the buffer, one writer and several readers; implements `Fifo` | |
| `Fifo` | abstract: a queue of the last `Size` rows | |
| `Playback`, `IntegralController`, `ControlLoop` | the two programs; both in the pipeline with the limiter as a reader | the last extends the others |
| `StageRunner` | the stages, with caps, traps and background commands | |
| `Stressor` | cstress with its handlers | |
| `CappingSession` | the capped sessions: the script, the pipelines of all sessions, the network | |
| `MC...` | the instances for TLC | |
| `...Proofs` | the theorems (section 6) | |

Each module declares its parameters as constants with a named assumption and has one
action per operation. Recursion is by recursive functions. Operators marked *Seeded
fault* are variants that the model does not use; each is a plausible mistake at the
place where it stands, and a property notices it.

The plan was, in this order: the limiter; the process tree and the trie; the buffer; the
server with its worker; the control programs; the stages; the stressor; the capped sessions;
proofs of each. All of it is done except the proofs of the liveness properties; the end of
section 6 says why.

## 3. How the models correspond to the code

### 3.1 `SignalInsertDelays`

**Frames.** The program has one thread, and every handler is installed with an
empty mask and without `SA_NODEFER`. So a *frame* is `main` or one of the four
handlers; `pc[f]` is where it is and `level[f]` its depth in the call stack. `Running(f)`
holds of the frame on top. `Deliver(h)` puts a pending handler on top, between any two
steps of any other frame; a signal stays pending while its own handler is
active. Two signals of one kind that are pending at once are one: the timers never
queue more than one expiry, and Ctrl+C is a standard signal.

**Steps.** A step is an access of shared state that a handler could separate
from its neighbours:

| Code | Model |
|---|---|
| `if(state == ...)`, then `state = ...` (lines 212-224) | `TestState`, then `Sleep` or `Work` |
| the `kill` loops (216-230) | `StopNext`, `ContNext`: one entry and one `kill` per step, ending at the terminator |
| `f > 0`, update on error, and the unreachable reset (235-245) | `CheckErrors` with `UpdateDue` |
| the tests of `state` and `timer_settime` (247-254) | `TestRearm`, then `RearmOnOff`, which reads the duration only then: a zero disarms the timer (`Zero`), nanoseconds out of range are refused and end the program (`Refused`, `RearmFails`) |
| the four fields and the two corrections of `_update_timer` (166-177) | `SetOnSec`, `SetOnNsec`, `SetOffSec`, `SetOffNsec`, `FixOn`, `FixOff`, in source order; `span` holds the locals `ont` and `offt`, and the nanoseconds are computed from the seconds in the shared structure, as lines 167 and 169 do |
| `while(state != STATE_FINISHED) pause();` | `CheckFinished`, `Pause`; `Deliver` ends the pause |
| `sigaio_handler` | `ReadLine` (with `set_duty`, `set_period`, `set_update_interval`, `quit`, `ignore`, `end_of_file`), `UpdateTimer("sigaio")`, `ReadAgain` |
| `sigint_handler`, `errExit` | `sigint_handler`, `ErrExit`, `CloseNext` in the handler's own frame |
| `update_proc_tree` | `ScanProc` or `ScanFails`, then one `UpdateItem` per node, then `EndUpdate`, which writes the terminator; each update has a place of its own in the tree (`at`) |
| `get_stoppable_status` | `ProbeStop`, `ProbeCont`, `ProbeEnd`, with a `usleep` between them |
| `prepare_for_close` | `CloseNext`: one `kill(SIGCONT)` per step, then the exit |

**Environment.** `Expire` (the work timer is one-shot, the update timer periodic),
`Interrupt`, `TypeLine`, and the other processes: one that is sent SIGSTOP is
`"stopping"` until `TakeStop`, SIGCONT resumes it at once, `Die` and `Begin` let
processes end and PIDs be given again.

**The process tree** is here the set `node` of PIDs with a node, and of these the sets
`ok`, `new` and `stoppable` that carry the flags of the same names. `Managed` is the set of
PIDs that the walk over the parents would accept; how it does is the subject of
`ProcTree`. The list is an array of `NPids + 1` words that an update rewrites from its
start; a larger block, when one is allocated, holds arbitrary words, as `malloc` returns
them.

**Durations.** Time is counted in ticks, `TicksPerSec` to the second; a duty cycle
`d` stands for `d / DutyDen`. One tick also stands for the nanosecond by which
a zero duration is lengthened.

Left out:

- the fields of `_update_timer` are written in source order; a compiler could
  reorder them, which adds no kind of mixture that the order here lacks;
- one `kill` and the test before it are one step; so are a scan of `/proc` and the
  allocation after it, and the last test of `prepare_for_close` and the exit (the tree is
  freed in between while handlers may still run);
- a read of the standard input returns one line: when it returns several, the code
  obeys the first, and the model has the others as not typed (`ControlLoop` has them);
- `kill` fails only for a process that has ended; PIDs without permission are
  outside `Managed`;
- the update interval is typed only once the update timer exists (before,
  `timer_settime` has no timer to set);
- `-d` outside 0..1 and negative `-w`, which `cmdline.c` does not clip, are
  not among the initial states, and `-w` is always given: the default of
  the usage text is never assigned;
- the memory of the tree in nested updates: an inner update may free a node that the outer
  iteration is at (`trie.c:217`), and what the outer one then reads, or a node that a probed
  PID gets anew, is not followed. `at` goes on at the next PID.

**Start-up.** Input is read before the timer is started (lines 368 and 371), so that a line may
run `_update_timer` between the assignments of `main`'s own. The seconds then are those of one
call and the nanoseconds what is left of the other's time: negative, or a second and more.
`timer_settime` refuses such a value, and the program ends with an error (283-284, and 248-253
in the handler). `TypeOK` therefore promises integers of the nanoseconds and no more;
`DurationsRun` says that even so no duration is zero in the end, since the correction of
lines 172-177 of the last call sees all of it.

**Nested updates.** `-U` may come together with `-u`: the pipeline of
`closed_loop/signal_insert_delays.sh:32` runs `insertDelays -v -U -u 10 -w 0.3`
(`record_signal_insert_delays.sh:37` has `-u 0`). The timer handler may then interrupt an update
of `sigupdate_handler` and start another, on the same nodes, list and index. The model has this:
an inner update clears the marks that the outer one has set, so that the outer one goes on to
remove processes that run, and it moves the shared index. `ListMatchesTree` and `ListInBounds`
fail then, and so nothing is claimed of the list with both options; the runs and the theorems
about it say which one they have (`NeverNested` in section 6).

Behaviours of the model that no property excludes, each reached by changing a constant:

- `state` is tested and then assigned in `sigtimer_handler`: the FINISHED of a Ctrl+C in
  between is overwritten, so that one interrupt may be forgotten; a line or an interrupt
  that comes before `start_timer` has assigned WORKING is overwritten too;
- without an update timer, the program waits for ever if the signal that finishes it
  comes between the test of `state` and `pause()`;
- with an update timer, `RestoredAtExit` fails: the timer is not stopped before
  `prepare_for_close`, and an update rewrites the list under its loop; and a process that
  does not stop within the wait of the probe keeps its pending SIGSTOP;
- `errExit` on the third Ctrl+C resumes the processes from inside a handler that the timer
  handler may interrupt: such an abort can leave processes stopped.

### 3.2 `Trie` and `ProcTree`

A node of the trie is the sequence of the bits that lead to it, the lowest first, which is
how `trie.c` consumes a key; a trie is a function from the allocated nodes to the set of
their value (empty for NULL). `trie_insert`, `trie_value` and `trie_remove` are operators;
`Landing` is where the search of `trie_remove_recursive` ends, which for an absent key is
another node (line 108), and `Freed` the nodes that the recursion frees on its way back.
`Before` is the order of `trie_iterate`, and `ToVisit` what is left of a visit when the
callback removes the node it was called for.

`ProcTree` has the system's process table (`alive`, `parentOf`, PIDs given out in order,
`fork` and `exit` at any time) and one update of the tree, step by step: `ScanEntry` reads
one PID from `/proc`, `ReadPpid` its parent, which it may have lost since; `EndScan` sizes
the block; `UpdateItem` classifies, lists or removes one process, with the whole walk to its
ancestors; `EndUpdate`, and the snapshot of `-o`. `create_proc_tree` is part of `Init`
with the options as `cmdline.c` combines them. `crashed` is the state after a NULL parent
or the dangling link of a freed root branch was followed.

`ProcTreeAssumption` says of the processes that exist at the start that parents have smaller
PIDs than their children, as `fork` gives them out, and that PIDs 1 and 2 do not exit: on Linux
these are init and kthreadd, which live as long as the system. `MaxUpdates` and `MaxPid` are
any positive numbers.

Left out: PIDs never wrap, so that no PID is used twice (`SignalInsertDelays` has that);
`get_stoppable_status` is one step (`SignalInsertDelays` has its parts); an allocator that
overwrites freed words at once (newer ones do overwrite some); nodes allocated with the
size of a function pointer (`trie_node`), which the sizes of the platform make right;
the failure of `opendir`. Two facts about the code that the instance avoids and that a
reader should know: the link of the root to a freed branch stays in place (`trie.c:156`),
which needs all PIDs of one parity to end, and the immortal init, kthreadd and
limiter prevent that; and `-e` without the limiter's own PID does not exclude the limiter
(`cmdline.c:184-194`), against line 24 of its usage.

### 3.3 `StreamServer`, `FreqServer`, `PowerMeasurementServer`

A thread is a request of the web server, the sampler, the frequency worker or `main`.
`streams[s]` is the socket that the stream object holds, or 0 when neither dictionary has
it; whether a stream is in `streams` or `hardwareFreqStreams` is fixed by its identifier
(`Hardware`), as the type field of a request decides it. A step is one access of a
dictionary: `TestStream`, `TestSocket`, `CreateSocket`, `AddStream` are the four lines of
`_startStream` that another thread can separate. A lock is free, held by a thread, or
`"lost"`, when an exception left the thread between `acquire` and `release`; nobody ever
gets it again. `power_data_updated` and `hardware_freq_data_updated` visit the streams
under their lock, one per step.

`main` starts the worker and the sampling task, serves until Ctrl+C (`Shutdown`), waits
for the requests under way, stops the task, the worker and the streams. `FreqServer.stop` is
called by `main` and by the worker's own exception handler, with the assertion, the flag,
`join` (which evaluates `workerThread` twice) and the command to the device as steps. The command
that starts the device may fail like the one that stops it: `main` then ends by the exception,
and the lock of the serial line stays held.

`Orderly` names the circumstances in which the unguarded tests do no harm: no two requests
about one socket overlapped, no stream raises by itself, no stream of the frequency worker
shares its socket (`Shares`). The last is needed because `_stopStream` looks for other users of
the socket among the streams of the card only (line 295): stopping one of two streams of the
worker on one socket closes the socket under the other. The proof asks for it. Outside them the model has what the code does: two threads create the same socket,
a stream keeps a closed one, `del` raises under the lock, and the sampler blocks for ever;
the properties then say nothing, except `HoldersGoOn` and `ListsAreLeftAlone`, which hold
always.

Left out: the checks of the fields of a request; `updatePeriod`, which changes one number;
the stand-alone `main` of `FreqServer.py`. The log is treated like a socket: closing a
Python file twice is harmless, closing a multicast socket twice raises; the model
raises for both. The estimator `nlls` raises at every callback, and so does an unknown one:
`Raises` is the set of such streams.

### 3.4 `RingBuffer` and `Fifo`

A row is its number. `Reserve` is the part of `append` and `extend` under the lock,
`WriteRow` writes one row after the release; `extend` of more rows than there are slots writes
a slot several times. `Begin` is the part of a read under the lock (`popFIFO` reduces
`length` in it), `ReadRow` copies one row, `EndPop` ends `popLIFO`, which keeps the lock
while it reads. NumPy copies a slice in one go under the interpreter's lock, so that the
steps by rows allow more interleavings than the program. The thread that writes also reads,
in its callbacks, between two writes. `Queue` is the refinement mapping: the rows for which
the slots between `index - length` and `index` were reserved. `owner`, `expect`, `unwritten`
and `room` are history variables of the properties.

The docstring calls the access functions "threadsafe except in the case of buffer overflow"
(`RingBuffer.py:10`). They are not: a reader that takes the lock after a reservation and before
the rows are written gets what the slots held before. `OnlyUnwrittenAreStale` says how far
this goes, for every reader that the writer does not overtake: each row is the one promised,
unless that one was reserved and unwritten when the reader took the lock; then it may be an
older one. `room` is the overflow of the docstring: the slots beyond the oldest row to be
read, and what has been reserved of them since.

### 3.5 `Playback`, `IntegralController`, `ControlLoop`

The pipeline of `closed_loop/signal_insert_delays.sh`: a first subshell with the power
gadget and the playback, which ends both when the workload ends and then says `q`; the
controller; a second subshell that says `q` after it; the limiter, of which only the reading
of its input is here. A pipe is a sequence of at most `PipeSize` lines, and a writer
waits while it is full.

`handler` is the timer handler of the playback: it prints, reads a row, computes
the deadline and arms the timer. The nanoseconds of a deadline are added without a carry
(line 76): with times that are not whole seconds `timer_settime` may refuse the value and
the playback stops there, although its usage promises to schedule the row as soon as possible;
with `Rows <- HalfSeconds`
`PlaysToTheEnd` fails. The files of the experiments have whole seconds.

`checkStdin`, `readLine`, `compute` and `write` are one round of the controller. `select`
looks at the descriptor and `fgets` reads through a buffer: what was read ahead waits, in
`buffer`, until something new arrives. Outputs and integrals are doubled so that all
numbers are whole. The version without `-j` assigns to its integral a change that it never
adds (line 261), so its integral stays 0; the version with `-j` integrates by trapezoids
and calculates the integral back from the capped output. `FirstDeltas` is what the
uninitialised `prevTime` may yield in the first round.

`Patient` says that the limiter has read everything before the second `q` is written: the
script has a `sleep 1` for it. With `Patient = FALSE`, `PipelineEnds` fails: the `q` arrives
in one read with a duty cycle and is dropped, and what follows is the end of the file.

Left out: the lines that change gains, and the derivative (no script uses either); the
options `-s` and `-i` (both start at 0); the spinning at the end of the input is a round like any other.

### 3.6 `StageRunner`

One stage is one shell process: start the power stream, cap the executors in the background
and wait, set the trap, run the queries, lift the caps and wait, stop the stream. `stack` is
where the script is and, below, where the traps it is in return to. `Launch` starts one
command per executor; `Finish` ends one. A cap adds its mechanism to those in force
(`functions_powerCap.sh` sets one and does not undo the other); lifting resets both, one after
the other (lines 60-61), and each reset may fail by itself (`done` is what was carried out).
The script learns the status of the last part only, through an ssh that may fail although
everything was done: a reported success means that the `Reported` part was carried out, which
of a lifting is the reset of the registers. So a cap of the control group may outlive
a stage that was told that all was lifted; `NoCapLeft` is about the registers.

`interrupt` is Ctrl+C: before the trap is set it kills the script, and leaves in force
whatever was capped; after it, it runs `stagecleanup` on top of what was being done, and
the wait that it broke off is over. Its commands run on: `running` keeps them, with the batch
they belong to, and they take effect at any later time. `fresh` and `lifted` are history
variables: where no other command was under way when a batch was sent, and where the last
lifting was such a one and reported a success.

`stagecleanup` first ends the driver of the queries by ssh (`close_driver`), lifts the caps and
stops the stream. The requests to the power monitor may fail: an answer that starts it may be
lost, and nobody looks at the one that stops it (`StreamStopped`). When the queries fail,
`stopPowerMonitor` runs twice, in the cleanup and at the end of the stage. Setting up an
experiment, copying files and reading tables are left out.

### 3.7 `Stressor`

Frames, delivery and steps are those of `SignalInsertDelays`, with three handlers. What
differs is `main`: it computes while `state` is WORKING (`"work"`), then blocks the signals,
tests `state` and calls `sigsuspend`, which lets the signals through until a handler has
returned. `Open` says when a signal may be delivered; a handler runs with an empty mask, and
one that runs inside `sigsuspend` may be interrupted by the others. `Deliver` ends the call
of `sigsuspend`; `main` goes on when it is on top again.

`update_duty` writes the four fields and the two corrections one by one (lines 85-96), and
the timer handler reads a whole structure when it calls `timer_settime`; one that is zero
disarms the timer (`Rearm`). `main` does not block the signals while it computes, so a phase
may come and go without its noticing.

Only lines call `update_duty` once `main` runs, and they do not interrupt each other, so that
here, unlike in the limiter, the nanoseconds are always in range.

With a duty cycle of 0 or 1, which the ramps that `record_stress.sh` plays contain, one duration
is zero until the last lines of `_update_duty` lengthen it; a timer handler that comes before
them restarts the timer with zero, which stops it for good, although the comment at line 90 says
that the corrections are there to make sure that the timer goes. This is the defect that
`limiter_zero` shows of the limiter. `TimerGoesOn` says of every other moment that a timer that
is set runs, for all duty cycles and periods: what is disarmed is disarmed in that window
(`Rewriting`) and nowhere else. FINISHED is lost when it is set between the test
of `state` and the assignment in the timer handler (lines 163-170), as in the limiter.

Left out: the parsing of the options (`-i` falls through to the next case and sets the period
to the number in its argument, usually 0, unless `-p` follows), and the count of iterations.

### 3.8 `CappingSession`

A session is one run of the script. On the hosts that it reaches it starts a pipeline, a
listener and a limiter, so that a pipeline is a pair of a host and a session; those of earlier
sessions may still be there. A host may have no pipeline of the session: an ssh may fail, which
nobody notices, and the monitored script starts none on its first host, since `seq $numIPs`
counts from 1 what the array has from 0 (`bit-slice_powercap_monitored.sh:60-61`). And a limiter
may fail at its start (`"failed"`), while its listener stays until it next prints.
`listener`, `inbox`, `pipe` and `limiter` are the stages of a pipeline and what is between them, and `reg` is the limit of the host, which all its limiters set.

| Code | Model |
|---|---|
| `multicast_send.py`: one datagram per line | `Send`: it reaches any set of listeners that are up, each once |
| `multicast_listen.py` (41-59): print, or close when printing fails | `Forward`, `Closes` |
| `pgtc.c` (208-245): set the limit, or leave the loop at `q` | `Obey` with `SetLimit` and `Quits` |
| `pgtc.c` (355-375): the limits of the factory, then the exit | `Reset` |
| three `q` at the start (39-45) | `CloseOthers` |
| the pipelines, over ssh and in the background (47-50) | `Launch`, on any set of hosts; `Start` at any time after it |
| the cap three times, the queries (69-144) | `SendCap`, `Rest`, `RunQueries` |
| the last cap, `q` three times, `wait` (146-166) | `CloseDown`, `Wait` |
| Ctrl+C before, after and in the trap (104) | `Interrupt`: to `"killed"`, or to `Trap`, which begins again |

`NoCapLeft` says what a script that ends may leave: nothing on a host where its own limiter ran;
on a host where it had none, the cap that it has sent to a limiter of an earlier session, which
missed the `q`s at the start and those at the end, and still runs. The run reaches such states.

`Patient` says that a `sleep` lasts until what was sent before it has been obeyed; the
sleeps are a quarter of a second and more for what takes milliseconds. The trap has no
sleep, and its two `q` may both reach the limiter before it exits: then it lifts its cap, but
the listener stays until something more is sent, which is why `QuitIsObeyed` promises the
first only. `missed` is a history variable: how many datagrams of the last batch a listener
did not get. A listener that is not up when a cap is sent misses it; nobody waits for the
pipelines to be up.

Left out: the limits of the processors of one host, which are set together; datagrams that
arrive twice or in another order, on one Ethernet; the limits of cores and memory (`c`, `d`);
the experiments around the caps, which only repeat them, so that `Caps` may be any sequence;
the power log; the monitors of the other script; an ssh connection that breaks while the
pipeline that it has started goes on.

## 4. The runs

The `MC` modules name sets and functions for the configurations; nothing else is replaced.

| Run | Instance | Shows |
|---|---|---|
| `limiter_live` | 2 processes, `-U`, both may end; duty cycle 1; 3 Ctrl+C | `TypeOK`, `RestoredAtExit` and `PhaseHolds` without an update timer, `DutyCycleGoesOn` |
| `limiter_updates` | 2 PIDs that come and go three times, periodic updates; duty cycles below 0 and above 1, negative periods, intervals, `q`, the end of the input and lines that mean nothing | `ListMatchesTree`, `ListInBounds`, `DurationsRun` |
| `limiter_zero` | 1 process; duty cycles of 0 and 1 typed at any time | violates `WorkTimerAlive` |
| `limiter_second_death` | 2 processes that end, `-U` | violates `DeadLeavesList` |
| `proc_tree` | PIDs up to 6, three of which come and go; seven command lines; three updates | `ListsTheWanted`, `NeverLost`, `Trimmed`, `OnlyDeadLeave`, `ImplementsMap` |
| `orphan_walk` | the same, and parents may end before their children | violates `NeverLost` |
| `stream` | 2 request threads, 2 requests; the log, a second stream into its file, a hardware stream on a socket of its own | `StreamsHaveSockets`, `LocksReleased`, `ClosedAtExit`, `HoldersGoOn`, `ListsAreLeftAlone`, `ShutdownEnds`, `SamplingGoesOn` |
| `ring_buffer` | 3 slots, 2 symmetric readers, up to 4 rows in blocks of 1, 2 and 4 | `ImplementsFifo`, `CallbacksReadExactly`, `OnlyUnwrittenAreStale`, `EveryRowIsWritten` |
| `control_loop` | 2 rows one second apart, 2 samples, both versions of the controller, pipes of 2 lines | `NothingIsLost`, `NoWindup`, `NeverEarly`, `PlaysToTheEnd`, `PipelineEnds` |
| `stage_runner` | 2 executors, 2 stages, each mechanism and none, 2 Ctrl+C | `NoCapLeft`, `CappedAsAsked`, `StagesEnd` |
| `stress_lines` | duty cycles from 0 to 1, periods of 0 and more, `q`, the end of the input, 3 Ctrl+C | `NeverOversleeps`, `TimerGoesOn` |
| `capping_session` | 1 host, reached or not, 3 sessions, 2 caps, 2 Ctrl+C | `QueriesCapped`, `OthersClosed`, `NoCapLeft`, `WaitEnds`, `QuitIsObeyed` |

`TypeOK` of the limiter and of the process tree is checked in *limiter_live* and
*proc_tree*; that of the other models is proved (section 6). In *limiter_live* the duty
cycle of 1 makes one of the durations zero, which the code lengthens before the timer runs.

**Bounds.** Limiter: two PIDs are enough for a loop to be between two processes, and for
the entries of a shrinking list to move; three updates or births let a PID be used twice.
*limiter_updates* has a state constraint, `LinesApart`: lines that change the durations are
followed only while no process comes or goes and no update runs, and lines of other kinds only
while no duration has changed; the proofs of its three properties have no such restriction.
Process tree: six PIDs have keys of one to three bits, so that a key ends at an inner node
of another; three updates let a process be found, reclassified by nothing, and removed.
Server: two requests let one stream be started while another request is between its test and its
change, and be stopped by the shutdown; three sockets let one be created twice. Buffer: a
block of four in three slots overtakes itself and every reader. Control loop: a pipe of two lines
fills up, and `Starts` has a start at a fraction of a second. Stages: the second stage
finds what the first left; two interrupts nest one trap in another. Stressor: three
interrupts abort it. Capped sessions: with three sessions, pipelines of two earlier ones
listen at once; hosts do not influence each other, and the proofs are for any number of them.

**Deadlock** is not checked where the system may really stop: a finished limiter whose
signal came before `pause()`, a thread that waits for a lost lock, the end of an experiment
or of a pipeline, a script that waits for pipelines whose `q` was lost.

**The violations.** Each is a disagreement between the code and what the code says of itself.

- *limiter_zero*: a duty cycle of 0 or 1 makes one duration zero from its last assignment until
  lines 172-177 lengthen it. The timer handler may interrupt there: `timer_settime` gets the
  zero, which disarms the timer for good, and the processes stay as they are, stopped or running.
  The comment at line 171 says that these lines make sure that the timer goes.
- *limiter_second_death*: with `-U` the list is rebuilt after the first failed `kill`. The
  assignment that resets `update_on_error_count` (line 243) is in a branch that is never taken
  (line 235 has already tested `f > 0`), so that the second process that ends stays on the
  list, and so do all later ones; a process that gets its PID is stopped and resumed
  in its place. The usage calls `-U` "Update on error" (`cmdline.c:27`).
- *orphan_walk*: `update_proc_tree` asks for the parent of a process once.
  When the parent ends, its child is given to init, but keeps the old parent in the tree. A
  grandchild born after that is walked from its parent to the node that has been removed;
  `trie_value` returns NULL, and the flags are read through it (`get_children.c:213`), although
  the header says that the walk goes up to the top. Without such orphans (`proc_tree`), even
  with processes that come and go in the middle of a scan, the list is the one the options
  describe.

## 5. Fairness

- Limiter: weak fairness of the program as a whole (`Program`): whatever frame is on top goes on.
  No frame is promised a turn of its own, so that signals may interrupt a frame before each
  of its steps. Weak fairness of `Deliver` (the kernel delivers a signal whose handler is
  free), `Expire` and `TakeStop`. Nothing is assumed of the user, of births and deaths.
- Server: weak fairness of `main` and of the worker; strong fairness of the sampler and of each
  request, because they wait for locks that others release again and again, and a lock wakes a
  waiter. Nothing makes a request, Ctrl+C or a failure of the serial line come.
- Control loop: weak fairness of each program and of time, strong fairness of the two
  writers into the pipe to the controller, which share it: the kernel wakes both when it is
  emptied. The workload need not end.
- Stages: weak fairness of the script and of the commands over ssh.
- Stressor and process tree: no liveness property is stated, and no fairness assumed.
- Capped sessions: weak fairness of the script, of each listener and of each limiter. Nothing
  is assumed of the network: `WaitEnds` and `QuitIsObeyed` count what was lost. Nobody need
  press Ctrl+C or start another session.

## 6. The proofs

The theorems hold for every value of the constants that satisfies the assumptions of the
modules.

**`SignalInsertDelaysProofs`.** `TypeCorrect`: `TypeOK` is inductive; the lemmas follow the
groups of variables and the frames. It has no condition: nested updates and a start-up
that lines interrupt are included. The other five theorems are three arguments.

`DurationsAlwaysRun` has no condition either: for any duty cycles and periods, once
`_update_timer` is over neither duration is zero. `ZeroOpen` is the invariant: a zero structure
has a frame that is still to correct it, `main` at the start or the input handler. It does not
say that the timer is always armed, which is false (`limiter_zero`).

`ListAlwaysMatches` and `ListStaysInBounds` assume `NeverNested`: with `-U` there is no update
interval, given or typed. Section 3.1 says why they need it. `ListInv` adds

- `OneUpdater`: at most one handler is in an update, which `NeverNested` makes true;
- `NodesOK`: how the sets of nodes, flags and nodes still to visit are related, so that a
  process that is being probed is not on the list yet; and
- `WrittenOK`: the index is the number of stoppable processes visited so far, and the entries
  below it are these processes, each once. The bound then is one on cardinalities: what is
  written and what may still be is less than the block.

`PhasesAlwaysHold` and `AlwaysRestoredAtExit` assume `QuietList`: no update timer (`-u 0`, no
interval typed), and with `-U` no births. Both conditions are needed: a periodic update in the
middle of a handler's loop moves entries to where the loop has been, and `prepare_for_close`
does not stop the timer; a process that is born is found running in the phase of sleep, or may
be left with a SIGSTOP under way by the probe. Processes may end, their PIDs leave the list, and
the list is rebuilt under `-U`. Neither property is inductive; `PhaseInv` adds to `ListInv`

- `NothingNew`: no periodic update runs or waits, no update finds a new process, and with `-U` a
  PID without a node, or with one that the scan has not marked, is that of an ended process;
- `CallStack`: `main` is at the bottom of the stack, active handlers above it, so that none is
  active when `main` makes its last test;
- `LoopsOK`, `Phases`: where the two loops are, and that a loop has passed the entries which
  are in the phase that `state` names;
- `StoppedListed`: a stopped process is on the list; and
- `Finishing`: once `main` has left its loop, `state` is FINISHED, the timer handler is at a
  label from which it reaches no loop, and `prepare_for_close` has resumed what it has passed.

**`ProcTreeProofs`.** The trie, the walk over the bits of a key, `create_proc_tree` and the walk
to the ancestors are recursive functions. The induction theorems of the library cannot be used
here, since they take an operator as a parameter; `Induction` states the principle for sets of
numbers and is proved from the pigeonhole principle, which the library has in a usable form.
What a recursive function computes follows in two steps: a function that obeys the recursion
exists up to every bound, hence the one that TLA+ chooses obeys it (`PathUnfolds`,
`CreateUnfolds`, `AboveUnfolds`, `ReachUnfolds`); and what the recursion says of smaller
arguments carries over.

`TreeInv` is the first inductive invariant: the trie is well formed (`TrieOK`: nodes are reached
through nodes, hold the value of the key they are the path of, and lead to a value), parents have
smaller PIDs, so that every walk ends, and the mark OK tells in each stage which processes were
read (`MarksOK`): a running process that is still to be visited is marked, whether it was born
before or behind the position of the scan. With the lemmas on `trie_insert`, `trie_remove` (which
lands on a key that is there, frees what becomes useless, and leaves alone what another key
needs) and the order of `trie_iterate`, which is total, so that a visit may remove the node it
is called for, it gives `TypeCorrect`, `AlwaysTrimmed`, `OnlyTheDeadLeave` and
`TrieImplementsMap`, without any condition.

`NothingIsLost` assumes `~Orphans`: no process exits before its children. The run `orphan_walk`
shows that the code needs this. `LostInv` adds that a recorded parent is the true one
(`PpidsOK`), that the recorded parents of the processes that stay in the tree stay in it
(`WalksOK`), and that init and kthreadd keep both links of the root in use (`RootOK`).

`ListIsWanted` also assumes `Disjoint`: no command line with `-x` names one process as parent and
as exclusion (with `-p` and `-o` it may). Outside of it the exclusion overrides the parent in
`create_proc_tree`, so that `-p 4 -e 4 -x` controls nothing, although `cmdline.c:25` says of
`-x` that the children of the excluded may be controlled. `ListInv` adds to `LostInv`

- `OptionsOK`: in which stage `explicitParentList` is set, by `-p` or by the snapshot;
- `ListingOK`: named and early processes that run are in the tree;
- `RecordsOK`: the parents of all processes are recorded before the first walk needs one;
- `NewOK` and `FlagsOK`: the flags of a process that has been classified say what the options
  ask of it, and those of a new one do not contradict them; and
- `ListOK`: the list holds the stoppable ones of the processes visited in this update.

`FoundDescends` and `DescendsFound` are the core: what a walk over the recorded parents finds is
an ancestor by the process table, and an ancestor that carries a flag is found, although the
walk ends at whatever flag it meets first, and processes are born and exit between its steps.

**`PowerMeasurementServerProofs`.** `ServerInv` says where each thread may be (`ThreadsOK`:
requests that are about a stream have one; the worker is off until `main` has started it) and
`LocksOK`: a thread is between acquire and release exactly if it holds the lock. From it follow
`TypeCorrect`; `HoldersAlwaysGoOn`: every held lock has a holder that will release it; and
`ListsAreAlwaysLeftAlone`: a step that changes a dictionary needs the lock that its visitor
holds, and the actions that need both locks cannot get one of them.
`StreamsAlwaysHaveSockets`, `LocksAreAlwaysReleased` and `AllAreClosedAtExit` are about orderly
use (section 3.3). `SocketInv` says: the threads at work on a socket are about different ones
(`Apart`); an identifier has a socket of its own, which the streams in the dictionaries use, and
which is open unless one thread is about to forget it (`SocketOK`); every open socket is
registered; what a thread has tested is still so when it uses it (`Sees`), although it
holds no lock; a callback visits streams that are still there (`Visits`); and nothing is
open at the end. No access then raises, so that no lock is lost.

**`ControlLoopProofs`.** `TypeCorrect` with `LoopInv`: what is printed is within the limits
(`Printed`). `NeverWindsUp`: with `-j` an error that drives the output back moves it off its
limit at once; `Anchored` is the reason: after a round, the integral is the one that yields the
*capped* output. `NothingIsEverLost`: a controller that has obeyed `q` has obeyed the last
set-point printed; `FeedInv` says that until then that set-point is the last in the pipe or
the buffer, and that `q` is behind everything. `NothingIsEarly`: if all times are whole seconds
(`WholeTimes`), no set-point is printed before its time; `TimerInv` says that the timer is
never set to less than the time of the row that waits, and the lemmas on quotients and
remainders that the comparison of seconds and nanoseconds is one of times.

**`StageRunnerProofs`.** `StageInvariant` is about `StageInv`, which has `StackOK` (below the top
frame nothing remains to be capped; the trap is set only after the caps), `BatchOK` (the commands
of one batch ask for one thing), `LiftedOK` (where a lifting that overlapped with no other command
has reported a success, no cap of the registers is in force and none is under way, until caps are
set again) and `CapsStand` (where nothing else was in force or under way, the caps of the stage
are set or about to be). They give `TypeCorrect`, `NoCapIsLeft` and `QueriesAreCapped`, for any number of
executors, stages and interrupts, and whatever parts of whatever commands fail.

**`RingBufferProofs`.** `BufferInv` adds to the types that one thread at most is in `popLIFO`,
that it holds the lock, and that the rows it has to give back are in the buffer (`PopOK`);
what the writer has still to write (`WriteOK`); and that a slot has its row, or that the last
row that remains to be written there is its row (`SlotsOK`). It gives `TypeCorrect` and
`RowsAreWritten`. `CallbacksAreExact`: what the writer's own callbacks read are the rows that
they asked for; `CallbackInv` says that what has been read is the first part of them and
that the slots still to be read hold the rest. `StaleRowsWereUnwritten`: the reads of the other
threads are the rows promised but for those that were unwritten, as long as no more rows are
reserved than `room`, the slots beyond the oldest row to be read. `AgeOK` says that a slot never
holds a row younger than the one it was reserved for last; `ReadersOK`, of each reader, that what
has been read fits (`Fits`), that the slots still to be read hold the row promised, or will, or
held an older one because the row was unwritten (`Due`), and that neither the rows
still being written nor the next `room` rows fall into a slot that remains to be read. Each
reservation reduces `room` by as much as it moves the index, and the lemmas on remainders
(`ModShift`, `ModDistinct`) make these slots different ones.

`BufferImplementsFifo`: every behaviour of the buffer, seen through
the refinement mapping, is one of `Fifo`. The lemmas on remainders say that rows less than
`Size` apart are in different slots, so that a reservation overwrites exactly the rows that
the queue drops; each step of the buffer is then a push, a removal at one end, or a stutter.

**`StressorProofs`.** `TypeCorrect`. `NobodyOversleeps`: `SleepInv` adds that active handlers
lie above `main` (`Stacked`), and that between the test of `state` and the call the signals are
blocked and no handler is active (`Asleep`). `TimerAlwaysGoesOn`: outside of `Rewriting` neither structure is zero (`Durations`), for any duty
cycle and period that can be typed, so that a timer that is set then runs. Section 3.7 says why
the window has to be left out.

**`CappingSessionProofs`.** `TypeCorrect`, and `SessionsAreSafe`: with sleeps that are long
enough (`Patient`) queries run under their cap, two `q` of three close what an earlier session
left, and a script that ends leaves a cap at most where it had no limiter of its own, for any
number of hosts, sessions and interrupts and any losses. `SessionInv` says what may be under way at each point of the script: nothing
after a sleep (`QuietInv`); no `q` for the session's own pipelines before it closes down
(`OwnInv`); only one cap between its first copy and the queries (`CapInv`), which whoever
heard it has obeyed or will (`HeardInv`); who heard so many of the three `q` has come so far
in closing (`OthersInv`); at the end nothing but `q`, which sets no cap any more
(`ClosingInv`); and a host under a cap has a limiter that still runs (`CapHeld`).

**Only model-checked.**

- Liveness: `DutyCycleGoesOn`, `ShutdownEnds`, `SamplingGoesOn`, `PlaysToTheEnd`,
  `PipelineEnds`, `StagesEnd`, `WaitEnds`, `QuitIsObeyed`. The provers have no rule for fairness,
  whose definition needs `ENABLED`.
- `ProcTree` with orphans: `orphan_walk` shows that `NeverLost` fails then, and nothing is claimed
  of the list. The conditions of the other theorems are named with them.

Between them the runs take every action, so that the theorems are about behaviours that happen;
`proc_tree` satisfies both conditions of `ListIsWanted`.

## 7. Not modelled

- **The memory stressor** `pmstress.c`: a sequential program that polls its input between
  accesses of memory.
- **Data acquisition and signal processing** (`NI_DAQmx.py`, `PowerHarness.py`, `sineFit.py`,
  `freqDemodulate.py`): hardware and floating-point estimation. Its callback is the
  sampler of the server and the writer of the buffer.
- **Sockets and packets** (`Packet.py`, `PacketSocket.py`, `MulticastSocket.py`,
  `Endpoint.py`): thin wrappers. The server depends on whether a socket is open, and a capped
  session on which datagrams a listener got; both are modelled.
- **Triangle wave and timer tests**: open-loop generators with one timer, of the shape of the
  playback.
- **RAPL counters and topology** (`power_gadget.c`, `setMSR.c`, most of `rapl.c`): registers
  read and written in a straight line; the wrap of the energy counter is one modular
  subtraction. A window below the unit, such as the 0.0001 s of `pgtc.c:182`, is represented
  by no pair of `rapl.c:533-542`, so that `*Y` and `*F` are not assigned: the second window of
  the package silently gets the values of the first.
- **Shell limiters** (cpufreq, powerclamp, hypervisor, cgroups): each turns a number into
  one write to a file of the system.
- **Vendored and unused code, plots**: `src/unused` (with whole releases of libav, and
  programs no longer built), the Intel PCM, turbostat and feedgnuplot under
  `src/utilities`, the scripts that draw figures. These are nearly all of
  the repository's 700 000 lines, so that the part of the lines that is modelled is small,
  although the programs that the project itself wrote and runs concurrently are.
