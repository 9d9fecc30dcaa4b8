----------------------- MODULE PowerMeasurementServer -----------------------
(***************************************************************************)
(* The measurement server as it runs: request threads, the sampler of the  *)
(* data acquisition card, the frequency worker, and main, which starts     *)
(* them, waits in the web server until it is interrupted, and shuts down   *)
(* (src/remotePowerMeasurement/measurementServer).                         *)
(***************************************************************************)
EXTENDS StreamServer

VARIABLES
  running, workerThread, freqLock, serial,   \* the frequency server
  sampling                                   \* the sampling task is started

F == INSTANCE FreqServer WITH lock <- freqLock

freqVars == <<running, workerThread, freqLock, serial>>
vars == <<streamVars, freqVars, sampling>>

Init ==
  /\ StreamInit /\ F!FreqInit
  /\ sampling = FALSE
  /\ pc = [t \in Threads |-> IF t = "main" THEN "start"
                             ELSE IF t = "worker" THEN "off" ELSE "idle"]

-----------------------------------------------------------------------------
(* main: serve, then _stopAllStreams *)

StreamsKept == UNCHANGED <<dictVars, lockVars, req, todo, size, asked, raced>>

StartFreqServer ==
  /\ F!start("start_task") /\ StreamsKept /\ UNCHANGED sampling

StartTask ==
  /\ At("main", "start_task") /\ Goto("main", "serving")
  /\ sampling' = TRUE
  /\ StreamsKept /\ UNCHANGED freqVars

\* Ctrl+C: the web server takes no more requests, ...
Shutdown ==
  /\ At("main", "serving") /\ Goto("main", "draining")
  /\ StreamsKept /\ UNCHANGED <<freqVars, sampling>>

\* ... and gives those under way 5 s: only one that waits for a lost lock is
\* left behind.
Blocked(r) ==
  /\ pc[r] \in {"add", "del", "stopAll", "clear", "info", "info2"}
  /\ "lost" \in {streamsLock, hardwareFreqStreamsLock}
StopTask ==
  /\ At("main", "draining")
  /\ \A r \in Requests : pc[r] = "idle" \/ Blocked(r)
  /\ sampling' = FALSE
  /\ Goto("main", "test_running")
  /\ StreamsKept /\ UNCHANGED freqVars

TestRunning ==
  /\ At("main", "test_running")
  /\ Goto("main", IF running THEN "assert" ELSE "stopAll")
  /\ StreamsKept /\ UNCHANGED <<freqVars, sampling>>

StopFreqServer ==
  F!stop("main", "stopAll") /\ StreamsKept /\ UNCHANGED sampling

StopAllStreams ==
  _stopAllStreams("main") /\ UNCHANGED <<asked, raced, freqVars, sampling>>

main == \/ StartFreqServer \/ StartTask \/ StopTask \/ TestRunning
        \/ StopFreqServer \/ StopAllStreams

-----------------------------------------------------------------------------
(* The other threads *)

\* A callback that has begun goes on when the task is stopped.
sampler ==
  /\ sampling \/ ~At("sampler", "idle")
  /\ power_data_updated
  /\ UNCHANGED <<freqVars, sampling>>

worker ==
  \/ hardware_freq_data_updated /\ UNCHANGED <<freqVars, sampling>>
  \/ (F!serve \/ F!stop("worker", "off")) /\ StreamsKept /\ UNCHANGED sampling

request(r) == RequestStep(r) /\ UNCHANGED <<freqVars, sampling>>

NewRequest(r) ==
  /\ At("main", "serving") /\ \E q \in Ops : webApp(r, q)
  /\ UNCHANGED <<freqVars, sampling>>

Unplug == F!Unplug /\ StreamsKept /\ UNCHANGED sampling

\* After its end the process is gone; after a crash of main it only waits.
Over == pc["main"] \in {"end", "crashed"}

Next ==
  \/ /\ ~Over
     /\ \/ main \/ sampler \/ worker \/ \E r \in Requests : request(r)
        \/ Shutdown \/ Unplug \/ \E r \in Requests : NewRequest(r)
  \/ Over /\ UNCHANGED vars

Spec == Init /\ [][Next]_vars

-----------------------------------------------------------------------------
(* Fairness: every thread runs, and the sampler and a request that wait for a lock
   which is free again and again get it.  Nothing makes a request, Ctrl+C or a
   failure of the serial line come. *)

Fairness ==
  /\ WF_vars(~Over /\ main) /\ SF_vars(~Over /\ sampler) /\ WF_vars(~Over /\ worker)
  /\ \A r \in Requests : SF_vars(~Over /\ request(r))

FairSpec == Spec /\ Fairness
-----------------------------------------------------------------------------
Labels == {"idle", "each", "loop", "callback", "except", "start", "socket",
           "create",
           "add", "stop", "del", "users", "using", "close", "forget",
           "stopAll", "clear", "closeAll", "closing", "info", "info2", "end",
           "crashed", "read", "off", "assert", "join", "wait", "joining",
           "command", "clear_running", "start_task", "serving", "draining", "test_running"}
Holders == Threads \cup {"free", "lost"}

\* The type invariant.
TypeOK ==
  /\ streams \in [Streams -> 0..MaxSockets]
  /\ sockets \in [SocketIDs -> 0..MaxSockets]
  /\ created \in 0..MaxSockets /\ open \subseteq 1..MaxSockets
  /\ streamsLock \in Holders /\ hardwareFreqStreamsLock \in Holders
  /\ currentUnstreamedLen \in [Streams -> Nat]
  /\ req \in [Threads -> Ops \cup {NoRequest}]
  /\ todo \in [Threads -> SUBSET (Streams \cup SocketIDs)]
  /\ size \in [Threads -> Nat]
  /\ pc \in [Threads -> Labels]
  /\ asked \in 0..MaxRequests /\ raced \in BOOLEAN
  /\ running \in BOOLEAN /\ workerThread \in BOOLEAN
  /\ freqLock \in {"free", "lost"} /\ serial \in {"ok", "broken"}
  /\ sampling \in BOOLEAN

\* While the sampler visits the streams, the dictionary it visits does not
\* change: "Don't allow any changes to be made to the stream list while it's
\* updating" (PowerMeasurementServer.py:177); the frequency worker the same.
ListsAreLeftAlone ==
  [][/\ At("sampler", "each") =>
          \A s \in DAQ : (streams'[s] = 0) = (streams[s] = 0)
     /\ At("worker", "each") =>
          \A s \in Hardware : (streams'[s] = 0) = (streams[s] = 0)]_vars

\* The circumstances in which the unguarded tests do no harm: no two requests
\* about one socket overlapped, no stream raises by itself, and a stream of the
\* frequency worker has its socket to itself: _stopStream looks for other users
\* among the streams of the card only (line 295).
Shares(s) == \E u \in Streams \ {s} : SocketOf[u] = SocketOf[s]
Orderly == ~raced /\ Raises = {} /\ \A s \in Hardware : ~Shares(s)

\* Then every stream that runs has an open socket, and sending to it never
\* raises (lines 185-304).
StreamsHaveSockets ==
  Orderly => \A s \in Present : streams[s] \in open

\* ... no lock is left held by an exception ...
LocksReleased ==
  Orderly => "lost" \notin {streamsLock, hardwareFreqStreamsLock}

\* ... and when the program ends, every socket and log file is closed (lines
\* 271-274 and main).
ClosedAtExit == Orderly /\ pc["main"] = "end" => open = {}

\* A lock that is held is held by a thread that is about to release it.
HoldersGoOn ==
  /\ streamsLock \in Threads => At(streamsLock, "each") \/ At(streamsLock, "clear")
  /\ hardwareFreqStreamsLock \in Threads => At(hardwareFreqStreamsLock, "each")

\* After Ctrl+C the program ends, unless a lock was lost, or the worker and
\* main stop the frequency server at the same time (serve, lines 444-461).
ShutdownEnds ==
  At("main", "draining") ~>
    (Over \/ "lost" \in {streamsLock, hardwareFreqStreamsLock, freqLock})

\* The sampler gets its lock again and again, and so every stream its turn,
\* until the task is stopped or a lock is lost.
SamplingGoesOn ==
  (sampling /\ At("sampler", "idle")) ~>
     (\/ At("sampler", "each") \/ ~sampling
      \/ "lost" \in {streamsLock, hardwareFreqStreamsLock})
=============================================================================
