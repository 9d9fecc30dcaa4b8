-------------------- MODULE PowerMeasurementServerProofs --------------------
(***************************************************************************)
(* Proofs about PowerMeasurementServer, for any streams, sockets, requests *)
(* and threads of the web server: type correctness; that a held lock is    *)
(* held by a thread which is about to release it; that nobody changes a    *)
(* dictionary while it is being visited; and, as long as requests about    *)
(* one socket do not overlap, that every stream has an open socket, that   *)
(* no lock is lost, and that every socket is closed at the end.            *)
(***************************************************************************)
EXTENDS PowerMeasurementServer, FiniteSetTheorems, TLAPS

DataOK ==
  /\ streams \in [Streams -> 0..MaxSockets]
  /\ sockets \in [SocketIDs -> 0..MaxSockets]
  /\ created \in 0..MaxSockets /\ open \subseteq 1..MaxSockets
  /\ currentUnstreamedLen \in [Streams -> Nat]
  /\ size \in [Threads -> Nat]
  /\ asked \in 0..MaxRequests /\ raced \in BOOLEAN
FreqOK ==
  /\ running \in BOOLEAN /\ workerThread \in BOOLEAN
  /\ freqLock \in {"free", "lost"} /\ serial \in {"ok", "broken"}
  /\ sampling \in BOOLEAN

\* Where each thread may be, and which labels need a stream to be about.
AboutStream == {"start", "socket", "create", "add", "stop", "del", "users",
                "using", "close", "forget"}
Stopping == {"stopAll", "clear", "closeAll", "closing"}
StopFreq == {"assert", "clear_running", "join", "wait", "joining", "command"}
LabelsOf(t) ==
  IF t = "sampler" THEN {"idle", "each"}
  ELSE IF t = "worker"
    THEN {"off", "loop", "read", "callback", "each", "except", "crashed"} \cup StopFreq
  ELSE IF t = "main"
    THEN {"start", "start_task", "serving", "draining", "test_running", "end", "crashed"}
           \cup StopFreq \cup Stopping
  ELSE {"idle", "info", "info2"} \cup AboutStream \cup Stopping

ThreadsOK ==
  /\ pc \in [Threads -> Labels]
  /\ \A t \in Threads : pc[t] \in LabelsOf(t)
  /\ req \in [Threads -> Ops \cup {NoRequest}]
  /\ todo \in [Threads -> SUBSET (Streams \cup SocketIDs)]
  /\ \A r \in Requests : pc[r] \in AboutStream => req[r].stream \in Streams
  /\ pc["main"] = "start" => pc["worker"] = "off"

\* A thread is inside the block between acquire and release exactly if it holds
\* the lock.
LocksOK ==
  /\ streamsLock \in Holders \ {"worker"}
  /\ hardwareFreqStreamsLock \in {"free", "lost", "worker"}
  /\ \A t \in Threads : streamsLock = t <=> At(t, "clear") \/ (t = "sampler" /\ At(t, "each"))
  /\ hardwareFreqStreamsLock = "worker" <=> At("worker", "each")

ServerInv == DataOK /\ FreqOK /\ ThreadsOK /\ LocksOK

\* A step leaves the dictionaries that are being visited alone.
LeftAlone ==
  /\ At("sampler", "each") => \A s \in DAQ : streams'[s] = streams[s]
  /\ At("worker", "each") => \A s \in Hardware : streams'[s] = streams[s]

USE StreamServerAssumption

-----------------------------------------------------------------------------
(* One thread goes on *)

LEMMA LabelsInclude == \A t \in Threads : LabelsOf(t) \subseteq Labels
  BY DEF LabelsOf, Labels, AboutStream, Stopping, StopFreq

\* Thread t is now at l, and the others are where they were.
Moved(t, l) ==
  /\ ThreadsOK'
  /\ \A u \in Threads : pc'[u] = IF u = t THEN l ELSE pc[u]

LEMMA GotoMoves ==
  ASSUME ThreadsOK, NEW t \in Threads, NEW l \in LabelsOf(t), Goto(t, l),
         t = "main" => l # "start", t = "worker" => pc[t] # "off",
         l \in AboutStream /\ t \in Requests => pc[t] \in AboutStream,
         UNCHANGED req, todo' \in [Threads -> SUBSET (Streams \cup SocketIDs)]
  PROVE  Moved(t, l)
<1>1. l \in Labels
  BY LabelsInclude
<1>2. /\ pc' \in [Threads -> Labels]
      /\ \A u \in Threads : pc'[u] = IF u = t THEN l ELSE pc[u]
  BY <1>1 DEF ThreadsOK, Goto
<1>3. \A u \in Requests : u \in Threads
  BY DEF Threads
<1>4. \A r \in Requests : pc'[r] \in AboutStream => req'[r].stream \in Streams
  BY <1>2, <1>3 DEF ThreadsOK
<1>5. \A u \in Threads : pc'[u] \in LabelsOf(u)
  BY <1>2 DEF ThreadsOK
<1>6. pc'["main"] = "start" => pc'["worker"] = "off"
  BY <1>2 DEF ThreadsOK, Threads
<1> QED  BY <1>2, <1>4, <1>5, <1>6 DEF ThreadsOK, Moved

LEMMA StayMoves ==
  ASSUME ThreadsOK, NEW t \in Threads, NEW l \in LabelsOf(t), Stay(t, l),
         t = "main" => l # "start", t = "worker" => pc[t] # "off",
         l \in AboutStream /\ t \in Requests => pc[t] \in AboutStream
  PROVE  Moved(t, l)
<1>1. Goto(t, l) /\ req' = req /\ todo' \in [Threads -> SUBSET (Streams \cup SocketIDs)]
  BY DEF Stay, ThreadsOK
<1> QED  BY <1>1, GotoMoves

LEMMA LookMoves ==
  ASSUME ThreadsOK, NEW t \in Threads, NEW l \in LabelsOf(t),
         NEW at \in SUBSET (Streams \cup SocketIDs), Look(t, at, l),
         t = "main" => l # "start", t = "worker" => pc[t] # "off",
         l \in AboutStream /\ t \in Requests => pc[t] \in AboutStream
  PROVE  Moved(t, l)
<1>1. Goto(t, l) /\ req' = req /\ todo' \in [Threads -> SUBSET (Streams \cup SocketIDs)]
  BY DEF Look, ThreadsOK
<1> QED  BY <1>1, GotoMoves

LEMMA DoneMoves ==
  ASSUME ThreadsOK, NEW r \in Requests, Done(r)
  PROVE  Moved(r, "idle")
<1>1. r \in Threads /\ "idle" \in LabelsOf(r) /\ "idle" \in Labels
      /\ "idle" \notin AboutStream
  BY DEF Threads, LabelsOf, Labels, AboutStream
<1>2. /\ pc' \in [Threads -> Labels]
      /\ \A u \in Threads : pc'[u] = IF u = r THEN "idle" ELSE pc[u]
  BY <1>1 DEF ThreadsOK, Done
<1>3. /\ req' \in [Threads -> Ops \cup {NoRequest}]
      /\ \A u \in Threads : u # r => req'[u] = req[u]
      /\ todo' \in [Threads -> SUBSET (Streams \cup SocketIDs)]
  BY <1>1 DEF ThreadsOK, Done
<1>4. \A u \in Requests : u \in Threads
  BY DEF Threads
<1>5. pc'["main"] = "start" => pc'["worker"] = "off"
  BY <1>2 DEF ThreadsOK, Threads
<1> QED  BY <1>1, <1>2, <1>3, <1>4, <1>5 DEF ThreadsOK, Moved

-----------------------------------------------------------------------------
(* The locks *)

\* A thread that is outside of the blocks, and stays there, may at most find a
\* lock free and lose it.
LEMMA OutsideLocks ==
  ASSUME LocksOK, NEW t \in Threads, NEW l, Moved(t, l),
         pc[t] \notin {"clear", "each"}, l \notin {"clear", "each"},
         \/ streamsLock' = streamsLock
         \/ streamsLock = "free" /\ streamsLock' = "lost",
         \/ hardwareFreqStreamsLock' = hardwareFreqStreamsLock
         \/ hardwareFreqStreamsLock = "free" /\ hardwareFreqStreamsLock' = "lost"
  PROVE  LocksOK'
<1>1. "free" \notin Threads /\ "lost" \notin Threads /\ "worker" \in Threads
  BY DEF Threads
<1>2. \A u \in Threads : u # t => pc'[u] = pc[u]
  BY DEF Moved
<1>3. pc'[t] = l
  BY DEF Moved
<1>4. /\ streamsLock' \in Holders \ {"worker"}
      /\ hardwareFreqStreamsLock' \in {"free", "lost", "worker"}
  BY DEF LocksOK, Holders
<1>5. \A u \in Threads :
        streamsLock' = u <=> pc'[u] = "clear" \/ (u = "sampler" /\ pc'[u] = "each")
  <2> TAKE u \in Threads
  <2>1. streamsLock' = u <=> streamsLock = u
    BY <1>1
  <2>2. streamsLock = u <=> pc[u] = "clear" \/ (u = "sampler" /\ pc[u] = "each")
    BY DEF LocksOK, At
  <2> QED  BY <1>2, <1>3, <2>1, <2>2
<1>6. hardwareFreqStreamsLock' = "worker" <=> pc'["worker"] = "each"
  BY <1>1, <1>2, <1>3 DEF LocksOK, At
<1> QED  BY <1>4, <1>5, <1>6 DEF LocksOK, At

LEMMA KeepOrLose ==
  ASSUME NEW s, UnderLock(s), KeepLock(s)
  PROVE  /\ \/ streamsLock' = streamsLock
            \/ streamsLock = "free" /\ streamsLock' = "lost"
         /\ \/ hardwareFreqStreamsLock' = hardwareFreqStreamsLock
            \/ hardwareFreqStreamsLock = "free" /\ hardwareFreqStreamsLock' = "lost"
  BY DEF UnderLock, KeepLock, Free

\* A lock is taken, or both are given back, by thread t alone.
LEMMA TakesStreams ==
  ASSUME LocksOK, ThreadsOK, NEW t \in Threads \ {"worker"}, NEW l, Moved(t, l),
         AcquireStreams(t), UNCHANGED hardwareFreqStreamsLock,
         l = "clear" \/ (t = "sampler" /\ l = "each")
  PROVE  LocksOK'
<1>1. "free" \notin Threads /\ "lost" \notin Threads /\ "worker" \in Threads
  BY DEF Threads
<1>2. streamsLock = "free" /\ streamsLock' = t
  BY DEF AcquireStreams, Free
<1>3. \A u \in Threads : ~ (pc[u] = "clear" \/ (u = "sampler" /\ pc[u] = "each"))
  BY <1>1, <1>2 DEF LocksOK, At
<1>4. \A u \in Threads : pc'[u] = IF u = t THEN l ELSE pc[u]
  BY DEF Moved
<1>5. \A u \in Threads :
        streamsLock' = u <=> pc'[u] = "clear" \/ (u = "sampler" /\ pc'[u] = "each")
  BY <1>2, <1>3, <1>4
<1>6. hardwareFreqStreamsLock' = "worker" <=> pc'["worker"] = "each"
  BY <1>1, <1>4 DEF LocksOK, At
<1> QED  BY <1>1, <1>2, <1>5, <1>6 DEF LocksOK, At, Holders

LEMMA GivesStreams ==
  ASSUME LocksOK, ThreadsOK, NEW t \in Threads \ {"worker"}, NEW l, Moved(t, l),
         streamsLock = t, streamsLock' \in {"free", "lost"},
         hardwareFreqStreamsLock' = hardwareFreqStreamsLock, l \notin {"clear", "each"}
  PROVE  LocksOK'
<1>1. "free" \notin Threads /\ "lost" \notin Threads /\ "worker" \in Threads
  BY DEF Threads
<1>2. \A u \in Threads : u # t => ~ (pc[u] = "clear" \/ (u = "sampler" /\ pc[u] = "each"))
  BY <1>1 DEF LocksOK, At
<1>3. \A u \in Threads : pc'[u] = IF u = t THEN l ELSE pc[u]
  BY DEF Moved
<1>4. \A u \in Threads :
        streamsLock' = u <=> pc'[u] = "clear" \/ (u = "sampler" /\ pc'[u] = "each")
  BY <1>1, <1>2, <1>3
<1>5. hardwareFreqStreamsLock' = "worker" <=> pc'["worker"] = "each"
  BY <1>1, <1>3 DEF LocksOK, At
<1> QED  BY <1>1, <1>4, <1>5 DEF LocksOK, At, Holders

\* The worker, and the lock that nobody else takes for longer than an access.
LEMMA WorkerLocks ==
  ASSUME LocksOK, ThreadsOK, NEW l, Moved("worker", l), UNCHANGED streamsLock,
         l # "clear", hardwareFreqStreamsLock' \in {"free", "lost", "worker"},
         hardwareFreqStreamsLock' = "worker" <=> l = "each"
  PROVE  LocksOK'
<1>1. "worker" \in Threads /\ "worker" # "sampler"
  BY DEF Threads
<1>2. pc["worker"] # "clear"
  BY <1>1 DEF ThreadsOK, LabelsOf, StopFreq
<1>3. \A u \in Threads : pc'[u] = IF u = "worker" THEN l ELSE pc[u]
  BY DEF Moved
<1>4. \A u \in Threads :
        streamsLock' = u <=> pc'[u] = "clear" \/ (u = "sampler" /\ pc'[u] = "each")
  BY <1>1, <1>2, <1>3 DEF LocksOK, At
<1> QED  BY <1>1, <1>3, <1>4 DEF LocksOK, At

\* One access under a free lock is none that a loop over the dictionary sees.
LEMMA GuardedChange ==
  ASSUME LocksOK, DataOK, NEW s, UnderLock(s), NEW k,
         streams' = [streams EXCEPT ![s] = k]
  PROVE  LeftAlone
<1>1. \A u \in Streams : u # s => streams'[u] = streams[u]
  BY DEF DataOK
<1>2. \A u \in Streams : u \in DAQ <=> u \notin Hardware
  BY DEF DAQ
<1>3. "sampler" \in Threads /\ "free" \notin {"sampler", "worker"}
  BY DEF Threads
<1>4. At("sampler", "each") => streamsLock = "sampler"
  BY <1>3 DEF LocksOK
<1>5. At("worker", "each") => hardwareFreqStreamsLock = "worker"
  BY DEF LocksOK
<1>6. At("sampler", "each") => s \in Hardware
  BY <1>3, <1>4 DEF UnderLock, Free
<1>7. At("worker", "each") => s \notin Hardware
  BY <1>3, <1>5 DEF UnderLock, Free
<1> QED  BY <1>1, <1>2, <1>6, <1>7 DEF LeftAlone, DAQ

-----------------------------------------------------------------------------
(* _startStream and _stopStream *)

LEMMA RequestFacts ==
  \A r \in Requests : /\ r \in Threads \ {"main", "sampler", "worker"}
                      /\ LabelsOf(r) = {"idle", "info", "info2"} \cup AboutStream \cup Stopping
  BY DEF Threads, LabelsOf

\* What a request does after its step, if it touches no dictionary of streams.
LEMMA QuietRequest ==
  ASSUME ServerInv, NEW r \in Requests, NEW l, Moved(r, l), DataOK', FreqOK',
         pc[r] \notin {"clear", "each"}, l \notin {"clear", "each"},
         UNCHANGED <<lockVars, streams>>
  PROVE  ServerInv' /\ LeftAlone
<1>1. r \in Threads /\ LocksOK
  BY RequestFacts DEF ServerInv
<1>2. streamsLock' = streamsLock /\ hardwareFreqStreamsLock' = hardwareFreqStreamsLock
  BY DEF lockVars
<1>3. LocksOK'
  BY <1>1, <1>2, OutsideLocks
<1> QED  BY <1>3 DEF ServerInv, LeftAlone, Moved

LEMMA StartStep ==
  ASSUME ServerInv, NEW r \in Requests, _startStream(r),
         UNCHANGED <<size, asked, raced, freqVars, sampling>>
  PROVE  ServerInv' /\ LeftAlone
<1>1. /\ r \in Threads /\ ThreadsOK /\ LocksOK /\ DataOK /\ FreqOK'
      /\ {"socket", "create", "add"} \subseteq LabelsOf(r) \cap AboutStream
  BY RequestFacts DEF ServerInv, FreqOK, freqVars, AboutStream
<1>2. CASE TestStream(r)
  <2>1. pc[r] = "start" /\ UNCHANGED <<dictVars, lockVars>>
        /\ (Done(r) \/ Stay(r, "socket"))
    BY <1>2 DEF TestStream, At
  <2>2. Moved(r, "idle") \/ Moved(r, "socket")
    BY <1>1, <2>1, DoneMoves, StayMoves DEF AboutStream
  <2>3. DataOK' /\ UNCHANGED streams
    BY <1>1, <2>1 DEF DataOK, dictVars
  <2> QED  BY <1>1, <2>1, <2>2, <2>3, QuietRequest
<1>3. CASE TestSocket(r)
  <2>1. pc[r] = "socket" /\ UNCHANGED <<dictVars, lockVars>>
        /\ (Stay(r, "create") \/ Stay(r, "add"))
    BY <1>3 DEF TestSocket, At
  <2>2. Moved(r, "create") \/ Moved(r, "add")
    BY <1>1, <2>1, StayMoves DEF AboutStream
  <2>3. DataOK' /\ UNCHANGED streams
    BY <1>1, <2>1 DEF DataOK, dictVars
  <2> QED  BY <1>1, <2>1, <2>2, <2>3, QuietRequest
<1>4. CASE CreateFails(r)
  <2>1. pc[r] = "create" /\ UNCHANGED <<dictVars, lockVars>> /\ Done(r)
    BY <1>4 DEF CreateFails, At
  <2>2. Moved(r, "idle")
    BY <1>1, <2>1, DoneMoves
  <2>3. DataOK' /\ UNCHANGED streams
    BY <1>1, <2>1 DEF DataOK, dictVars
  <2> QED  BY <1>1, <2>1, <2>2, <2>3, QuietRequest
<1>5. CASE CreateSocket(r)
  <2>1. /\ pc[r] = "create" /\ Stay(r, "add") /\ created < MaxSockets
        /\ created' = created + 1 /\ open' = open \cup {created + 1}
        /\ sockets' = [sockets EXCEPT ![SocketOf[req[r].stream]] = created + 1]
        /\ UNCHANGED <<streams, currentUnstreamedLen, lockVars>>
    BY <1>5 DEF CreateSocket, At
  <2>2. Moved(r, "add")
    BY <1>1, <2>1, StayMoves DEF AboutStream
  <2>3. created + 1 \in 1..MaxSockets
    BY <1>1, <2>1 DEF DataOK
  <2>4. sockets' \in [SocketIDs -> 0..MaxSockets]
    <3>1. created + 1 \in 0..MaxSockets
      BY <2>3
    <3> QED  BY <1>1, <2>1, <3>1 DEF DataOK
  <2>5. open' \subseteq 1..MaxSockets /\ created' \in 0..MaxSockets
    BY <1>1, <2>1, <2>3 DEF DataOK
  <2>6. DataOK'
    BY <1>1, <2>1, <2>4, <2>5 DEF DataOK
  <2> QED  BY <1>1, <2>1, <2>2, <2>6, QuietRequest
<1>6. CASE AddStream(r)
  <2> DEFINE s == req[r].stream
             k == SocketOf[s]
  <2>1. /\ pc[r] = "add" /\ UnderLock(s) /\ Done(r)
        /\ UNCHANGED <<sockets, created, open>>
    BY <1>6 DEF AddStream, At
  <2>2. Moved(r, "idle")
    BY <1>1, <2>1, DoneMoves
  <2>3. s \in Streams /\ k \in SocketIDs
    <3>1. pc[r] \in AboutStream
      BY <2>1 DEF AboutStream
    <3> QED  BY <1>1, <3>1 DEF ThreadsOK
  <2>4. CASE sockets[k] = 0
    <3>1. KeepLock(s) /\ UNCHANGED <<streams, currentUnstreamedLen>>
      BY <1>6, <2>4 DEF AddStream
    <3>2. LocksOK'
      BY <1>1, <2>1, <2>2, <3>1, OutsideLocks, KeepOrLose
    <3>3. DataOK'
      BY <1>1, <2>1, <3>1 DEF DataOK
    <3> QED  BY <1>1, <2>2, <3>1, <3>2, <3>3 DEF ServerInv, LeftAlone, Moved
  <2>5. CASE sockets[k] # 0
    <3>1. /\ streams' = [streams EXCEPT ![s] = sockets[k]]
          /\ currentUnstreamedLen' = [currentUnstreamedLen EXCEPT ![s] = 0]
          /\ UNCHANGED lockVars
      BY <1>6, <2>5 DEF AddStream
    <3>2. LocksOK'
      BY <1>1, <2>1, <2>2, <3>1, OutsideLocks DEF lockVars
    <3>3. DataOK'
      BY <1>1, <2>1, <2>3, <3>1 DEF DataOK
    <3>4. LeftAlone
      BY <1>1, <2>1, <3>1, GuardedChange
    <3> QED  BY <1>1, <2>2, <3>2, <3>3, <3>4 DEF ServerInv, Moved
  <2> QED  BY <2>4, <2>5
<1> QED  BY <1>2, <1>3, <1>4, <1>5, <1>6 DEF _startStream

LEMMA StopStep ==
  ASSUME ServerInv, NEW r \in Requests, _stopStream(r),
         UNCHANGED <<size, asked, raced, freqVars, sampling>>
  PROVE  ServerInv' /\ LeftAlone
<1>1. /\ r \in Threads /\ ThreadsOK /\ LocksOK /\ DataOK /\ FreqOK'
      /\ {"del", "users", "using", "close", "forget"} \subseteq LabelsOf(r) \cap AboutStream
  BY RequestFacts DEF ServerInv, FreqOK, freqVars, AboutStream
<1>2. CASE TestStop(r)
  <2>1. /\ pc[r] = "stop" /\ UNCHANGED <<dictVars, lockVars>>
        /\ (Done(r) \/ Stay(r, "del"))
    BY <1>2 DEF TestStop, At
  <2>2. Moved(r, "idle") \/ Moved(r, "del")
    BY <1>1, <2>1, DoneMoves, StayMoves DEF AboutStream
  <2>3. DataOK' /\ UNCHANGED streams
    BY <1>1, <2>1 DEF DataOK, dictVars
  <2> QED  BY <1>1, <2>1, <2>2, <2>3, QuietRequest
<1>3. CASE DeleteStream(r)
  <2> DEFINE s == req[r].stream
  <2>1. /\ pc[r] = "del" /\ UnderLock(s) /\ UNCHANGED <<sockets, created, open>>
    BY <1>3 DEF DeleteStream, At
  <2>2. CASE streams[s] = 0
    <3>1. Done(r) /\ KeepLock(s) /\ UNCHANGED <<streams, currentUnstreamedLen>>
      BY <1>3, <2>2 DEF DeleteStream
    <3>2. Moved(r, "idle")
      BY <1>1, <3>1, DoneMoves
    <3>3. LocksOK'
      BY <1>1, <2>1, <3>1, <3>2, OutsideLocks, KeepOrLose
    <3>4. DataOK'
      BY <1>1, <2>1, <3>1 DEF DataOK
    <3> QED  BY <1>1, <3>1, <3>2, <3>3, <3>4 DEF ServerInv, LeftAlone, Moved
  <2>3. CASE streams[s] # 0
    <3>1. /\ streams' = [streams EXCEPT ![s] = 0] /\ Stay(r, "users")
          /\ currentUnstreamedLen' = [currentUnstreamedLen EXCEPT ![s] = 0]
          /\ UNCHANGED lockVars
      BY <1>3, <2>3 DEF DeleteStream
    <3>2. Moved(r, "users")
      BY <1>1, <2>1, <3>1, StayMoves DEF AboutStream
    <3>3. LocksOK'
      BY <1>1, <2>1, <3>1, <3>2, OutsideLocks DEF lockVars
    <3>4. 0 \in 0..MaxSockets
      OBVIOUS
    <3>5. DataOK'
      BY <1>1, <2>1, <3>1, <3>4 DEF DataOK
    <3>6. LeftAlone
      BY <1>1, <2>1, <3>1, GuardedChange
    <3> QED  BY <1>1, <3>2, <3>3, <3>5, <3>6 DEF ServerInv, Moved
  <2> QED  BY <2>2, <2>3
<1>4. CASE BeginFind(r)
  <2>1. /\ pc[r] = "users" /\ UNCHANGED <<dictVars, lockVars>>
        /\ Stay(r, "close") \/ Look(r, Present \cap DAQ, "using")
    BY <1>4 DEF BeginFind, At
  <2>2. Present \cap DAQ \in SUBSET (Streams \cup SocketIDs)
    BY DEF Present
  <2>3. Moved(r, "close") \/ Moved(r, "using")
    BY <1>1, <2>1, <2>2, LookMoves, StayMoves DEF AboutStream
  <2>4. DataOK' /\ UNCHANGED streams
    BY <1>1, <2>1 DEF DataOK, dictVars
  <2> QED  BY <1>1, <2>1, <2>3, <2>4, QuietRequest
<1>5. CASE EndFind(r)
  <2>1. /\ pc[r] = "using" /\ UNCHANGED <<dictVars, lockVars>>
        /\ Stay(r, "close") \/ Done(r)
    BY <1>5 DEF EndFind, At
  <2>2. Moved(r, "close") \/ Moved(r, "idle")
    BY <1>1, <2>1, DoneMoves, StayMoves DEF AboutStream
  <2>3. DataOK' /\ UNCHANGED streams
    BY <1>1, <2>1 DEF DataOK, dictVars
  <2> QED  BY <1>1, <2>1, <2>2, <2>3, QuietRequest
<1>6. CASE CloseSocket(r)
  <2>1. /\ pc[r] = "close"
        /\ UNCHANGED <<streams, sockets, created, currentUnstreamedLen, lockVars>>
        /\ \/ open' = open \ {sockets[SocketOf[req[r].stream]]} /\ Stay(r, "forget")
           \/ Done(r) /\ UNCHANGED open
    BY <1>6 DEF CloseSocket, At
  <2>2. Moved(r, "forget") \/ Moved(r, "idle")
    BY <1>1, <2>1, DoneMoves, StayMoves DEF AboutStream
  <2>3. open' \subseteq 1..MaxSockets
    BY <1>1, <2>1 DEF DataOK
  <2>4. DataOK'
    BY <1>1, <2>1, <2>3 DEF DataOK
  <2> QED  BY <1>1, <2>1, <2>2, <2>4, QuietRequest
<1>7. CASE ForgetSocket(r)
  <2>1. /\ pc[r] = "forget" /\ Done(r)
        /\ sockets' = [sockets EXCEPT ![SocketOf[req[r].stream]] = 0]
        /\ UNCHANGED <<streams, created, open, currentUnstreamedLen, lockVars>>
    BY <1>7 DEF ForgetSocket, At
  <2>2. Moved(r, "idle")
    BY <1>1, <2>1, DoneMoves
  <2>3. 0 \in 0..MaxSockets
    OBVIOUS
  <2>4. DataOK'
    BY <1>1, <2>1, <2>3 DEF DataOK
  <2> QED  BY <1>1, <2>1, <2>2, <2>4, QuietRequest
<1> QED  BY <1>2, <1>3, <1>4, <1>5, <1>6, <1>7 DEF _stopStream

-----------------------------------------------------------------------------
(* _stopAllStreams, info and a new request *)

LEMMA KeysFinite == Keys \in SUBSET SocketIDs /\ Cardinality(Keys) \in Nat
<1>1. Keys \in SUBSET SocketIDs
  BY DEF Keys
<1>2. IsFiniteSet(Keys)
  BY <1>1, FS_Subset
<1> QED  BY <1>1, <1>2, FS_CardinalityType

\* After the sockets: a request is answered, main ends.
LEMMA AfterStopAllMoves ==
  ASSUME ServerInv, NEW t \in Requests \cup {"main"}, AfterStopAll(t)
  PROVE  /\ Moved(t, "idle") \/ Moved(t, "end")
         /\ size' \in [Threads -> Nat]
<1>1. t \in Threads /\ ThreadsOK /\ DataOK
  BY DEF Threads, ServerInv
<1>2. size' \in [Threads -> Nat]
  BY <1>1 DEF AfterStopAll, DataOK
<1>3. CASE t = "main"
  <2>1. "end" \in LabelsOf(t) /\ "end" \notin AboutStream
    BY <1>3 DEF LabelsOf, AboutStream
  <2>2. Moved(t, "end")
    BY <1>1, <1>3, <2>1, StayMoves DEF AfterStopAll
  <2> QED  BY <1>2, <2>2
<1>4. CASE t # "main"
  <2>1. t \in Requests /\ Done(t)
    BY <1>4 DEF AfterStopAll
  <2> QED  BY <1>1, <1>2, <2>1, DoneMoves
<1> QED  BY <1>3, <1>4

LEMMA StopAllStep ==
  ASSUME ServerInv, NEW t \in Requests \cup {"main"}, _stopAllStreams(t),
         UNCHANGED <<asked, raced, freqVars, sampling>>
  PROVE  ServerInv' /\ LeftAlone
<1>1. /\ t \in Threads \ {"worker", "sampler"} /\ ThreadsOK /\ LocksOK /\ DataOK /\ FreqOK'
      /\ Stopping \subseteq LabelsOf(t) /\ Stopping \cap AboutStream = {}
      /\ {"clear", "closeAll", "closing"} \subseteq Stopping
  BY RequestFacts DEF ServerInv, FreqOK, freqVars, LabelsOf, AboutStream, Stopping, Threads
<1>2. CASE LockStreams(t) /\ UNCHANGED size
  <2>1. /\ pc[t] = "stopAll" /\ AcquireStreams(t) /\ Stay(t, "clear")
        /\ UNCHANGED <<dictVars, hardwareFreqStreamsLock>>
    BY <1>2 DEF LockStreams, TakeFirst, At
  <2>2. Moved(t, "clear")
    BY <1>1, <2>1, StayMoves
  <2>3. LocksOK'
    BY <1>1, <2>1, <2>2, TakesStreams
  <2>4. DataOK' /\ LeftAlone
    BY <1>1, <1>2, <2>1 DEF DataOK, dictVars, LeftAlone
  <2> QED  BY <1>1, <2>2, <2>3, <2>4 DEF ServerInv, Moved
<1>3. CASE ClearStreams(t) /\ UNCHANGED size
  <2>1. /\ pc[t] = "clear" /\ hardwareFreqStreamsLock = "free"
        /\ streamsLock' = "free" /\ hardwareFreqStreamsLock' = "free"
        /\ streams' = [s \in Streams |-> 0]
        /\ currentUnstreamedLen' = [s \in Streams |-> 0]
        /\ Stay(t, "closeAll") /\ UNCHANGED <<sockets, created, open>>
    BY <1>3 DEF ClearStreams, ReleaseBoth, Free, At
  <2>2. Moved(t, "closeAll")
    BY <1>1, <2>1, StayMoves
  <2>3. streamsLock = t
    BY <1>1, <2>1 DEF LocksOK, At
  <2>4. LocksOK'
    BY <1>1, <2>1, <2>2, <2>3, GivesStreams
  <2>5. 0 \in 0..MaxSockets
    OBVIOUS
  <2>6. DataOK'
    BY <1>1, <1>3, <2>1, <2>5 DEF DataOK
  <2>7. ~ At("sampler", "each") /\ ~ At("worker", "each")
    BY <1>1, <2>1, <2>3 DEF LocksOK, Threads
  <2> QED  BY <1>1, <2>2, <2>4, <2>6, <2>7 DEF ServerInv, Moved, LeftAlone
<1>4. CASE BeginClose(t)
  <2>1. /\ pc[t] = "closeAll" /\ Look(t, Keys, "closing")
        /\ size' = [size EXCEPT ![t] = Cardinality(Keys)]
        /\ UNCHANGED <<dictVars, lockVars>>
    BY <1>4 DEF BeginClose, At
  <2>2. Keys \in SUBSET (Streams \cup SocketIDs) /\ Cardinality(Keys) \in Nat
    BY KeysFinite
  <2>3. Moved(t, "closing")
    BY <1>1, <2>1, <2>2, LookMoves
  <2>4. DataOK' /\ LeftAlone
    BY <1>1, <2>1, <2>2 DEF DataOK, dictVars, LeftAlone
  <2>5. LocksOK'
    BY <1>1, <2>1, <2>3, OutsideLocks DEF lockVars
  <2> QED  BY <1>1, <2>3, <2>4, <2>5 DEF ServerInv, Moved
<1>5. CASE CloseNext(t)
  <2>1. /\ pc[t] = "closing"
        /\ UNCHANGED <<streams, sockets, created, currentUnstreamedLen, lockVars>>
        /\ \/ AfterStopAll(t) /\ UNCHANGED open
           \/ \E k \in todo[t] : /\ open' = open \ {sockets[k]}
                                 /\ Look(t, todo[t] \ {k}, "closing") /\ UNCHANGED size
    BY <1>5 DEF CloseNext, At
  <2>2. open' \subseteq 1..MaxSockets
    BY <1>1, <2>1 DEF DataOK
  <2>3. \A k : todo[t] \ {k} \in SUBSET (Streams \cup SocketIDs)
    BY <1>1 DEF ThreadsOK
  <2>4. (Moved(t, "idle") \/ Moved(t, "end") \/ Moved(t, "closing"))
        /\ size' \in [Threads -> Nat]
    BY <1>1, <2>1, <2>3, AfterStopAllMoves, LookMoves DEF DataOK
  <2>5. DataOK' /\ LeftAlone
    BY <1>1, <2>1, <2>2, <2>4 DEF DataOK, LeftAlone
  <2>6. LocksOK'
    BY <1>1, <2>1, <2>4, OutsideLocks DEF lockVars
  <2> QED  BY <1>1, <2>4, <2>5, <2>6 DEF ServerInv, Moved
<1>6. CASE ForgetAll(t)
  <2>1. /\ pc[t] = "closing" /\ AfterStopAll(t)
        /\ sockets' = [k \in SocketIDs |-> 0]
        /\ UNCHANGED <<streams, created, open, currentUnstreamedLen, lockVars>>
    BY <1>6 DEF ForgetAll, At
  <2>2. (Moved(t, "idle") \/ Moved(t, "end")) /\ size' \in [Threads -> Nat]
    BY <2>1, AfterStopAllMoves
  <2>3. 0 \in 0..MaxSockets
    OBVIOUS
  <2>4. DataOK' /\ LeftAlone
    BY <1>1, <2>1, <2>2, <2>3 DEF DataOK, LeftAlone
  <2>5. LocksOK'
    BY <1>1, <2>1, <2>2, OutsideLocks DEF lockVars
  <2> QED  BY <1>1, <2>2, <2>4, <2>5 DEF ServerInv, Moved
<1> QED  BY <1>2, <1>3, <1>4, <1>5, <1>6 DEF _stopAllStreams

LEMMA InfoStep ==
  ASSUME ServerInv, NEW r \in Requests, info(r),
         UNCHANGED <<size, asked, raced, freqVars, sampling>>
  PROVE  ServerInv' /\ LeftAlone
<1>1. /\ r \in Threads /\ ThreadsOK /\ DataOK /\ FreqOK'
      /\ "info2" \in LabelsOf(r) /\ "info2" \notin AboutStream
  BY RequestFacts DEF ServerInv, FreqOK, freqVars, AboutStream
<1>2. /\ pc[r] \in {"info", "info2"} /\ UNCHANGED <<dictVars, lockVars>>
      /\ Done(r) \/ Stay(r, "info2")
  BY DEF info, At
<1>3. Moved(r, "idle") \/ Moved(r, "info2")
  BY <1>1, <1>2, DoneMoves, StayMoves
<1>4. DataOK' /\ UNCHANGED streams
  BY <1>1, <1>2 DEF DataOK, dictVars
<1> QED  BY <1>1, <1>2, <1>3, <1>4, QuietRequest

LEMMA NewRequestStep ==
  ASSUME ServerInv, NEW r \in Requests, NEW q \in Ops, webApp(r, q),
         UNCHANGED <<freqVars, sampling>>
  PROVE  ServerInv' /\ LeftAlone
<1>1. r \in Threads \ {"main", "sampler", "worker"} /\ ThreadsOK /\ LocksOK /\ DataOK /\ FreqOK'
  BY RequestFacts DEF ServerInv, FreqOK, freqVars
<1>2. /\ pc[r] = "idle" /\ asked < MaxRequests /\ asked' = asked + 1
      /\ req' = [req EXCEPT ![r] = q] /\ pc' = [pc EXCEPT ![r] = q.op]
      /\ raced' \in BOOLEAN /\ UNCHANGED <<dictVars, lockVars, todo, size>>
  BY <1>1 DEF webApp, At, Goto, DataOK
<1>3. /\ q.op \in {"start", "stop", "stopAll", "info"}
      /\ q.op \in AboutStream => q.stream \in Streams
  BY DEF Ops, AboutStream
<1>4. q.op \in LabelsOf(r) /\ q.op \in Labels
  BY <1>3, RequestFacts DEF AboutStream, Stopping, Labels
<1>5. \A u \in Threads : /\ pc'[u] = IF u = r THEN q.op ELSE pc[u]
                         /\ req'[u] = IF u = r THEN q ELSE req[u]
  BY <1>1, <1>2 DEF ThreadsOK
<1>6. pc' \in [Threads -> Labels] /\ req' \in [Threads -> Ops \cup {NoRequest}]
  BY <1>1, <1>2, <1>4 DEF ThreadsOK
<1>7. \A u \in Requests : pc'[u] \in AboutStream => req'[u].stream \in Streams
  BY <1>1, <1>3, <1>5, RequestFacts DEF ThreadsOK
<1>8. Moved(r, q.op)
  <2>1. pc'["main"] = "start" => pc'["worker"] = "off"
    BY <1>1, <1>5 DEF ThreadsOK, Threads
  <2> QED  BY <1>1, <1>2, <1>4, <1>5, <1>6, <1>7, <2>1 DEF ThreadsOK, Moved
<1>9. DataOK'
  <2>1. asked' \in 0..MaxRequests
    BY <1>1, <1>2 DEF DataOK
  <2> QED  BY <1>1, <1>2, <2>1 DEF DataOK, dictVars
<1>10. UNCHANGED streams
  BY <1>2 DEF dictVars
<1> QED  BY <1>1, <1>2, <1>3, <1>8, <1>9, <1>10, QuietRequest

-----------------------------------------------------------------------------
(* The callbacks *)

LEMMA UnsentType ==
  ASSUME NEW s \in Streams, NEW n \in Nat
  PROVE  Unsent(n + SampleEvery, s) \in Nat
<1>1. StreamLength[s] \in Nat /\ n + SampleEvery \in Nat
  OBVIOUS
<1> QED  BY <1>1 DEF Unsent

LEMMA SamplerStep ==
  ASSUME ServerInv, power_data_updated, UNCHANGED <<freqVars, sampling>>
  PROVE  ServerInv' /\ LeftAlone
<1> DEFINE t == "sampler"
<1>1. /\ t \in Threads \ {"worker"} /\ t \notin Requests
      /\ ThreadsOK /\ LocksOK /\ DataOK /\ FreqOK'
      /\ "each" \in LabelsOf(t) /\ "idle" \in LabelsOf(t)
  BY DEF ServerInv, FreqOK, freqVars, LabelsOf, Threads
<1>2. CASE power_begin
  <2>1. /\ pc[t] = "idle" /\ AcquireStreams(t)
        /\ todo' = [todo EXCEPT ![t] = Present \cap DAQ] /\ Goto(t, "each")
        /\ UNCHANGED <<dictVars, hardwareFreqStreamsLock, req, size, asked, raced>>
    BY <1>2 DEF power_begin, At
  <2>2. Present \cap DAQ \in SUBSET (Streams \cup SocketIDs)
    BY DEF Present
  <2>3. todo' \in [Threads -> SUBSET (Streams \cup SocketIDs)]
    BY <1>1, <2>1, <2>2 DEF ThreadsOK
  <2>4. Moved(t, "each")
    BY <1>1, <2>1, <2>3, GotoMoves
  <2>5. LocksOK'
    BY <1>1, <2>1, <2>4, TakesStreams
  <2>6. DataOK' /\ LeftAlone
    BY <1>1, <2>1 DEF DataOK, dictVars, LeftAlone
  <2> QED  BY <1>1, <2>4, <2>5, <2>6 DEF ServerInv, Moved
<1>3. CASE power_each
  <2>1. PICK s \in todo[t] :
          /\ currentUnstreamedLen' = [currentUnstreamedLen EXCEPT ![s] =
               Unsent(@ + SampleEvery, s)]
          /\ \/ /\ streamsLock' = "lost" /\ todo' = [todo EXCEPT ![t] = {}]
                /\ Goto(t, "idle")
             \/ /\ todo' = [todo EXCEPT ![t] = @ \ {s}]
                /\ UNCHANGED <<streamsLock, pc>>
    BY <1>3 DEF power_each
  <2>2. /\ pc[t] = "each" /\ streamsLock = t
        /\ UNCHANGED <<streams, sockets, created, open, hardwareFreqStreamsLock, req,
                       size, asked, raced>>
    BY <1>1, <1>3 DEF power_each, At, LocksOK
  <2>3. todo' \in [Threads -> SUBSET (Streams \cup SocketIDs)]
    BY <1>1, <2>1 DEF ThreadsOK
  <2>4. DataOK'
    <3>1. currentUnstreamedLen' \in [Streams -> Nat]
      BY <1>1, <2>1, UnsentType DEF DataOK
    <3> QED  BY <1>1, <2>2, <3>1 DEF DataOK
  <2>5. CASE streamsLock' = "lost" /\ Goto(t, "idle")
    <3>1. Moved(t, "idle")
      BY <1>1, <2>2, <2>3, <2>5, GotoMoves
    <3>2. LocksOK'
      BY <1>1, <2>2, <2>5, <3>1, GivesStreams
    <3> QED  BY <1>1, <2>2, <2>4, <3>1, <3>2 DEF ServerInv, Moved, LeftAlone
  <2>6. CASE UNCHANGED <<streamsLock, pc>>
    <3>1. ThreadsOK' /\ LocksOK'
      BY <1>1, <2>2, <2>3, <2>6 DEF ThreadsOK, LocksOK, At
    <3> QED  BY <1>1, <2>2, <2>4, <3>1 DEF ServerInv, LeftAlone
  <2> QED  BY <2>1, <2>5, <2>6
<1>4. CASE power_end
  <2>1. /\ pc[t] = "each" /\ streamsLock = t /\ streamsLock' = "free" /\ Stay(t, "idle")
        /\ UNCHANGED <<dictVars, hardwareFreqStreamsLock, size, asked, raced>>
    BY <1>1, <1>4 DEF power_end, At, LocksOK
  <2>2. Moved(t, "idle")
    BY <1>1, <2>1, StayMoves
  <2>3. LocksOK'
    BY <1>1, <2>1, <2>2, GivesStreams
  <2>4. DataOK' /\ LeftAlone
    BY <1>1, <2>1 DEF DataOK, dictVars, LeftAlone
  <2> QED  BY <1>1, <2>2, <2>3, <2>4 DEF ServerInv, Moved
<1> QED  BY <1>2, <1>3, <1>4 DEF power_data_updated

LEMMA HardwareStep ==
  ASSUME ServerInv, hardware_freq_data_updated, UNCHANGED <<freqVars, sampling>>
  PROVE  ServerInv' /\ LeftAlone
<1> DEFINE t == "worker"
<1>1. /\ t \in Threads /\ t \notin Requests
      /\ ThreadsOK /\ LocksOK /\ DataOK /\ FreqOK'
      /\ {"each", "loop", "except"} \subseteq LabelsOf(t)
  BY DEF ServerInv, FreqOK, freqVars, LabelsOf, Threads
<1>2. CASE hardware_begin
  <2>1. /\ pc[t] = "callback" /\ hardwareFreqStreamsLock' = t
        /\ todo' = [todo EXCEPT ![t] = Present \cap Hardware] /\ Goto(t, "each")
        /\ UNCHANGED <<dictVars, streamsLock, req, size, asked, raced>>
    BY <1>2 DEF hardware_begin, AcquireHardware, At
  <2>2. Present \cap Hardware \in SUBSET (Streams \cup SocketIDs)
    BY DEF Present
  <2>3. todo' \in [Threads -> SUBSET (Streams \cup SocketIDs)]
    BY <1>1, <2>1, <2>2 DEF ThreadsOK
  <2>4. Moved(t, "each")
    BY <1>1, <2>1, <2>3, GotoMoves
  <2>5. LocksOK'
    BY <1>1, <2>1, <2>4, WorkerLocks
  <2>6. DataOK' /\ LeftAlone
    BY <1>1, <2>1 DEF DataOK, dictVars, LeftAlone
  <2> QED  BY <1>1, <2>4, <2>5, <2>6 DEF ServerInv, Moved
<1>3. CASE hardware_each
  <2>1. PICK s \in todo[t] :
          \/ /\ hardwareFreqStreamsLock' = "lost" /\ todo' = [todo EXCEPT ![t] = {}]
             /\ Goto(t, "except")
          \/ /\ todo' = [todo EXCEPT ![t] = @ \ {s}]
             /\ UNCHANGED <<hardwareFreqStreamsLock, pc>>
    BY <1>3 DEF hardware_each
  <2>2. pc[t] = "each" /\ UNCHANGED <<dictVars, streamsLock, req, size, asked, raced>>
    BY <1>3 DEF hardware_each, At
  <2>3. todo' \in [Threads -> SUBSET (Streams \cup SocketIDs)]
    BY <1>1, <2>1 DEF ThreadsOK
  <2>4. DataOK' /\ LeftAlone
    BY <1>1, <2>2 DEF DataOK, dictVars, LeftAlone
  <2>5. CASE hardwareFreqStreamsLock' = "lost" /\ Goto(t, "except")
    <3>1. Moved(t, "except")
      BY <1>1, <2>2, <2>3, <2>5, GotoMoves
    <3>2. LocksOK'
      BY <1>1, <2>2, <2>5, <3>1, WorkerLocks
    <3> QED  BY <1>1, <2>4, <3>1, <3>2 DEF ServerInv, Moved
  <2>6. CASE UNCHANGED <<hardwareFreqStreamsLock, pc>>
    <3>1. ThreadsOK' /\ LocksOK'
      BY <1>1, <2>2, <2>3, <2>6 DEF ThreadsOK, LocksOK, At
    <3> QED  BY <1>1, <2>4, <3>1 DEF ServerInv
  <2> QED  BY <2>1, <2>5, <2>6
<1>4. CASE hardware_end
  <2>1. /\ pc[t] = "each" /\ hardwareFreqStreamsLock' = "free" /\ Stay(t, "loop")
        /\ UNCHANGED <<dictVars, streamsLock, size, asked, raced>>
    BY <1>4 DEF hardware_end, At
  <2>2. Moved(t, "loop")
    BY <1>1, <2>1, StayMoves
  <2>3. LocksOK'
    BY <1>1, <2>1, <2>2, WorkerLocks
  <2>4. DataOK' /\ LeftAlone
    BY <1>1, <2>1 DEF DataOK, dictVars, LeftAlone
  <2> QED  BY <1>1, <2>2, <2>3, <2>4 DEF ServerInv, Moved
<1> QED  BY <1>2, <1>3, <1>4 DEF hardware_freq_data_updated

-----------------------------------------------------------------------------
(* The frequency server, main, and the whole *)

\* A step of main or the worker that leaves the streams alone.
LEMMA ElsewhereStep ==
  ASSUME ServerInv, NEW t \in {"main", "worker"}, NEW l \in LabelsOf(t),
         Goto(t, l), StreamsKept, FreqOK',
         pc[t] \notin {"off", "clear", "each"}, l \notin {"start", "clear", "each"}
  PROVE  ServerInv' /\ LeftAlone
<1>1. /\ t \in Threads /\ t \notin Requests /\ ThreadsOK /\ LocksOK /\ DataOK
      /\ UNCHANGED <<dictVars, lockVars, req, todo, size, asked, raced>>
  BY DEF ServerInv, StreamsKept, Threads
<1>2. todo' \in [Threads -> SUBSET (Streams \cup SocketIDs)]
  BY <1>1 DEF ThreadsOK
<1>3. Moved(t, l)
  BY <1>1, <1>2, GotoMoves
<1>4. LocksOK'
  BY <1>1, <1>3, OutsideLocks DEF lockVars
<1>5. DataOK' /\ LeftAlone
  BY <1>1 DEF DataOK, dictVars, LeftAlone
<1> QED  BY <1>3, <1>4, <1>5 DEF ServerInv, Moved

LEMMA StopFreqStep ==
  ASSUME ServerInv, NEW t \in {"main", "worker"}, NEW next \in {"off", "stopAll"},
         next \in LabelsOf(t), F!stop(t, next), StreamsKept, UNCHANGED sampling
  PROVE  ServerInv' /\ LeftAlone
<1>1. /\ FreqOK /\ StopFreq \cup {"crashed"} \subseteq LabelsOf(t)
      /\ t = "main" => F!AfterAssertion(t) = "crashed"
      /\ t = "worker" => F!AfterAssertion(t) = "off" /\ "off" \in LabelsOf(t)
  BY DEF ServerInv, LabelsOf, F!AfterAssertion
<1>2. \E l \in StopFreq \cup {"crashed", "off", "stopAll"} :
        l \in LabelsOf(t) /\ Goto(t, l)
  <2>1. CASE F!AssertRunning(t)
    BY <1>1, <2>1 DEF F!AssertRunning, F!Goto, F!AfterAssertion, Goto, StopFreq
  <2>2. CASE F!Clear(t)
    BY <1>1, <2>2 DEF F!Clear, F!Goto, Goto, StopFreq
  <2>3. CASE F!Join(t)
    BY <1>1, <2>3 DEF F!Join, F!Goto, Goto, StopFreq
  <2>4. CASE F!Wait(t)
    BY <1>1, <2>4 DEF F!Wait, F!Goto, Goto, StopFreq
  <2>5. CASE F!Joined(t)
    BY <1>1, <2>5 DEF F!Joined, F!Goto, Goto, StopFreq
  <2>6. CASE F!StopCommand(t, next)
    BY <1>1, <2>6 DEF F!StopCommand, F!Goto, F!AfterAssertion, Goto, StopFreq
  <2> QED  BY <2>1, <2>2, <2>3, <2>4, <2>5, <2>6 DEF F!stop
<1>3. pc[t] \in StopFreq
  BY DEF F!stop, F!AssertRunning, F!Clear, F!Join, F!Wait, F!Joined, F!StopCommand,
         F!At, StopFreq
<1>4. FreqOK'
  BY <1>1 DEF FreqOK, F!stop, F!AssertRunning, F!Clear, F!ClearRunning, F!Join, F!Wait,
              F!Joined, F!StopCommand, F!freqVars
<1> QED  BY <1>2, <1>3, <1>4, ElsewhereStep DEF StopFreq

LEMMA ServeStep ==
  ASSUME ServerInv, F!serve, StreamsKept, UNCHANGED sampling
  PROVE  ServerInv' /\ LeftAlone
<1>1. {"read", "off", "callback", "loop", "except", "assert"} \subseteq LabelsOf("worker")
  BY DEF LabelsOf, StopFreq
<1>2. \E l \in {"read", "off", "callback", "loop", "except", "assert"} : Goto("worker", l)
  BY DEF F!serve, F!TestRunning, F!ReadLine, F!Except, F!Goto, Goto
<1>3. pc["worker"] \in {"loop", "read", "except"}
  BY DEF F!serve, F!TestRunning, F!ReadLine, F!Except, F!At
<1>4. FreqOK'
  BY DEF ServerInv, FreqOK, F!serve, F!TestRunning, F!ReadLine, F!Except, F!freqVars
<1> QED  BY <1>1, <1>2, <1>3, <1>4, ElsewhereStep

LEMMA StartFreqStep ==
  ASSUME ServerInv, StartFreqServer, serial = "ok"
  PROVE  ServerInv' /\ LeftAlone
<1>1. /\ ThreadsOK /\ LocksOK /\ DataOK /\ FreqOK
      /\ {"main", "worker"} \subseteq Threads /\ "main" # "worker"
      /\ \A r \in Requests : r \in Threads \ {"main", "worker"}
  BY DEF ServerInv, Threads
<1>2. /\ pc["main"] = "start" /\ pc["worker"] = "off"
      /\ pc' = [pc EXCEPT !["main"] = "start_task", !["worker"] = "loop"]
      /\ UNCHANGED <<dictVars, lockVars, req, todo, size, asked, raced>>
  BY <1>1 DEF StartFreqServer, F!start, F!At, StreamsKept, ThreadsOK
<1>3. \A u \in Threads : pc'[u] = IF u = "main" THEN "start_task"
                                  ELSE IF u = "worker" THEN "loop" ELSE pc[u]
  BY <1>1, <1>2 DEF ThreadsOK
<1>4. pc' \in [Threads -> Labels]
  BY <1>1, <1>2 DEF ThreadsOK, Labels
<1>5. \A u \in Threads : pc'[u] \in LabelsOf(u)
  BY <1>1, <1>3 DEF ThreadsOK, LabelsOf
<1>6. ThreadsOK'
  BY <1>1, <1>2, <1>3, <1>4, <1>5 DEF ThreadsOK
<1>7. LocksOK'
  <2>1. \A u \in Threads : /\ pc'[u] = "clear" <=> pc[u] = "clear"
                           /\ pc'[u] = "each" <=> pc[u] = "each"
    <3>1. pc["main"] = "start" /\ pc["worker"] = "off"
      BY <1>2
    <3> TAKE u \in Threads
    <3>2. CASE u = "main"
      BY <1>3, <3>1, <3>2
    <3>3. CASE u = "worker"
      BY <1>3, <3>1, <3>3
    <3>4. CASE u \notin {"main", "worker"}
      BY <1>3, <3>4
    <3> QED  BY <3>2, <3>3, <3>4
  <2>2. streamsLock' = streamsLock /\ hardwareFreqStreamsLock' = hardwareFreqStreamsLock
    BY <1>2 DEF lockVars
  <2> QED  BY <1>1, <2>1, <2>2 DEF LocksOK, At
<1>8. FreqOK'
  BY <1>1 DEF FreqOK, StartFreqServer, F!start
<1>9. DataOK' /\ LeftAlone
  BY <1>1, <1>2 DEF DataOK, dictVars, LeftAlone
<1> QED  BY <1>6, <1>7, <1>8, <1>9 DEF ServerInv

LEMMA MainStep ==
  ASSUME ServerInv, main \/ Shutdown
  PROVE  ServerInv' /\ LeftAlone
<1>1. /\ FreqOK
      /\ {"serving", "draining", "test_running", "assert", "stopAll"}
           \subseteq LabelsOf("main")
  BY DEF ServerInv, LabelsOf, StopFreq, Stopping
<1>2. CASE StartFreqServer
  <2>1. CASE serial # "ok"
    <3>1. /\ pc["main"] = "start" /\ Goto("main", "crashed") /\ StreamsKept /\ FreqOK'
      BY <1>1, <1>2, <2>1 DEF StartFreqServer, F!start, F!At, F!Goto, Goto, FreqOK
    <3>2. "crashed" \in LabelsOf("main")
      BY DEF LabelsOf
    <3> QED  BY <3>1, <3>2, ElsewhereStep
  <2> QED  BY <1>2, <2>1, StartFreqStep
<1>3. CASE StartTask
  <2>1. /\ pc["main"] = "start_task" /\ Goto("main", "serving") /\ StreamsKept /\ FreqOK'
    BY <1>1, <1>3 DEF StartTask, At, FreqOK, freqVars
  <2> QED  BY <1>1, <2>1, ElsewhereStep
<1>4. CASE Shutdown
  <2>1. /\ pc["main"] = "serving" /\ Goto("main", "draining") /\ StreamsKept /\ FreqOK'
    BY <1>1, <1>4 DEF Shutdown, At, FreqOK, freqVars
  <2> QED  BY <1>1, <2>1, ElsewhereStep
<1>5. CASE StopTask
  <2>1. /\ pc["main"] = "draining" /\ Goto("main", "test_running") /\ StreamsKept /\ FreqOK'
    BY <1>1, <1>5 DEF StopTask, At, FreqOK, freqVars
  <2> QED  BY <1>1, <2>1, ElsewhereStep
<1>6. CASE TestRunning
  <2>1. /\ pc["main"] = "test_running" /\ StreamsKept /\ FreqOK'
        /\ Goto("main", "assert") \/ Goto("main", "stopAll")
    BY <1>1, <1>6 DEF TestRunning, At, FreqOK, freqVars
  <2> QED  BY <1>1, <2>1, ElsewhereStep
<1>7. CASE StopFreqServer
  BY <1>1, <1>7, StopFreqStep DEF StopFreqServer
<1>8. CASE StopAllStreams
  BY <1>8, StopAllStep DEF StopAllStreams
<1> QED  BY <1>2, <1>3, <1>4, <1>5, <1>6, <1>7, <1>8 DEF main

LEMMA ServerStep == ServerInv /\ [Next]_vars => ServerInv' /\ (LeftAlone \/ UNCHANGED vars)
<1> SUFFICES ASSUME ServerInv, [Next]_vars
             PROVE  ServerInv' /\ (LeftAlone \/ UNCHANGED vars)
  OBVIOUS
<1>1. CASE main \/ Shutdown
  BY <1>1, MainStep
<1>2. CASE sampler
  BY <1>2, SamplerStep DEF sampler
<1>3. CASE worker
  <2>1. "off" \in LabelsOf("worker")
    BY DEF LabelsOf
  <2> QED  BY <1>3, <2>1, HardwareStep, ServeStep, StopFreqStep DEF worker
<1>4. ASSUME NEW r \in Requests, request(r) PROVE ServerInv' /\ LeftAlone
  BY <1>4, StartStep, StopStep, StopAllStep, InfoStep DEF request, RequestStep
<1>5. ASSUME NEW r \in Requests, NewRequest(r) PROVE ServerInv' /\ LeftAlone
  BY <1>5, NewRequestStep DEF NewRequest
<1>6. CASE Unplug
  <2>1. UNCHANGED <<dictVars, lockVars, req, todo, size, asked, raced, pc>> /\ FreqOK'
    BY <1>6 DEF Unplug, F!Unplug, StreamsKept, ServerInv, FreqOK
  <2>2. DataOK' /\ ThreadsOK' /\ LocksOK' /\ LeftAlone
    BY <2>1 DEF ServerInv, DataOK, ThreadsOK, LocksOK, LeftAlone, At, dictVars, lockVars
  <2> QED  BY <2>1, <2>2 DEF ServerInv
<1>7. CASE UNCHANGED vars
  <2>1. UNCHANGED <<dictVars, lockVars, req, todo, size, asked, raced, pc, freqVars, sampling>>
    BY <1>7 DEF vars, streamVars, threadVars
  <2>2. DataOK' /\ ThreadsOK' /\ LocksOK' /\ FreqOK'
    BY <2>1 DEF ServerInv, DataOK, ThreadsOK, LocksOK, FreqOK, At, dictVars, lockVars, freqVars
  <2> QED  BY <1>7, <2>2 DEF ServerInv
<1> QED  BY <1>1, <1>2, <1>3, <1>4, <1>5, <1>6, <1>7 DEF Next

LEMMA ServerInit == Init => ServerInv
<1> SUFFICES ASSUME Init PROVE ServerInv
  OBVIOUS
<1>1. /\ StreamInit /\ F!FreqInit /\ sampling = FALSE
      /\ pc = [t \in Threads |-> IF t = "main" THEN "start"
                                 ELSE IF t = "worker" THEN "off" ELSE "idle"]
  BY DEF Init
<1>2. /\ \E logged \in {{}, {LogStream}} :
           /\ created = Cardinality(logged) /\ open = 1..created
           /\ streams = [s \in Streams |-> IF s \in logged THEN 1 ELSE 0]
           /\ sockets = [k \in SocketIDs |->
                           IF k \in {SocketOf[s] : s \in logged} THEN 1 ELSE 0]
      /\ streamsLock = "free" /\ hardwareFreqStreamsLock = "free"
      /\ currentUnstreamedLen = [s \in Streams |-> 0]
      /\ req = [t \in Threads |-> NoRequest]
      /\ todo = [t \in Threads |-> {}] /\ size = [t \in Threads |-> 0]
      /\ asked = 0 /\ raced = FALSE
  BY <1>1 DEF StreamInit
<1>3. created \in {0, 1}
  BY <1>2, FS_EmptySet, FS_Singleton
<1>4. created \in 0..MaxSockets /\ open \subseteq 1..MaxSockets
      /\ 0 \in 0..MaxSockets /\ 1 \in 0..MaxSockets
  BY <1>2, <1>3
<1>5. DataOK
  <2>1. streams \in [Streams -> 0..MaxSockets] /\ sockets \in [SocketIDs -> 0..MaxSockets]
    BY <1>2, <1>4
  <2>2. currentUnstreamedLen \in [Streams -> Nat] /\ size \in [Threads -> Nat]
    BY <1>2
  <2>3. asked = 0 /\ raced = FALSE
    BY <1>2
  <2>4. asked \in 0..MaxRequests
    BY <2>3
  <2>5. raced \in BOOLEAN
    BY <2>3
  <2> QED  BY <1>4, <2>1, <2>2, <2>4, <2>5 DEF DataOK
<1>6. FreqOK
  BY <1>1 DEF FreqOK, F!FreqInit
<1>7. ThreadsOK
  <2>1. pc \in [Threads -> Labels] /\ pc["main"] = "start" /\ pc["worker"] = "off"
    BY <1>1 DEF Labels, Threads
  <2>2. \A t \in Threads : pc[t] \in LabelsOf(t)
    BY <1>1 DEF LabelsOf, Threads
  <2>3. \A r \in Requests : pc[r] = "idle"
    BY <1>1 DEF Threads
  <2> QED  BY <1>2, <2>1, <2>2, <2>3 DEF ThreadsOK, AboutStream
<1>8. LocksOK
  BY <1>1, <1>2 DEF LocksOK, Holders, Threads, At
<1> QED  BY <1>5, <1>6, <1>7, <1>8 DEF ServerInv

\* Every reachable state satisfies ServerInv.
THEOREM ServerInvariant == Spec => []ServerInv
<1>1. ServerInv /\ [Next]_vars => ServerInv'
  BY ServerStep
<1> QED  BY <1>1, ServerInit, PTL DEF Spec

-----------------------------------------------------------------------------
(* Streams and their sockets, when requests are orderly *)

Actors == Requests \cup {"main"}
Socket(r) == SocketOf[req[r].stream]
\* main from the test of the frequency server on: requests are over.
Last == {"test_running", "end"} \cup StopFreq \cup Stopping

\* A thread at work on a socket is the only one, for the requests under way are
\* about different sockets and main shuts down after them.
Apart ==
  /\ \A r, u \in Requests : r # u => About(req[r]) \cap About(req[u]) = {}
  /\ \A r \in Requests :
       /\ pc[r] \in AboutStream => req[r].op \in {"start", "stop"}
       /\ pc[r] \in Stopping => req[r].op = "stopAll"
       /\ pc[r] = "idle" => req[r] = NoRequest
  /\ pc["main"] \in Last => \A r \in Requests : pc[r] = "idle"

\* Who takes the socket of k away.
Closes(t, k) == \/ t \in Requests /\ pc[t] = "forget" /\ Socket(t) = k
                \/ pc[t] = "closing" /\ k \notin todo[t]

\* An identifier has a socket of its own; the streams in the dictionaries use the
\* one that is registered; and it is open unless a thread is closing it.
SocketOK(k) ==
  /\ sockets[k] \in 0..created
  /\ \A j \in SocketIDs : j # k /\ sockets[j] = sockets[k] => sockets[k] = 0
  /\ \A s \in Streams : SocketOf[s] = k /\ streams[s] # 0 => streams[s] = sockets[k]
  /\ \/ sockets[k] = 0 \/ sockets[k] \in open
     \/ \E t \in Actors : Closes(t, k)

Unused(k) == \A s \in Streams : SocketOf[s] = k => streams[s] = 0

\* What a thread has seen is still so.
StartSees(r) ==
  /\ pc[r] = "create" => sockets[Socket(r)] = 0
  /\ pc[r] = "add" => sockets[Socket(r)] # 0
StopSees(r) ==
  /\ pc[r] = "del" => streams[req[r].stream] # 0
  /\ pc[r] \in {"users", "using", "close", "forget"} => streams[req[r].stream] = 0
  /\ pc[r] = "using" => \A s \in DAQ :
       SocketOf[s] = Socket(r) /\ streams[s] # 0 => s \in todo[r]
  /\ pc[r] \in {"close", "forget"} => Unused(Socket(r))
  /\ pc[r] = "forget" => sockets[Socket(r)] \notin open
StopAllSees(t) ==
  /\ pc[t] \in {"closeAll", "closing"} => \A s \in Streams : streams[s] = 0
  /\ pc[t] = "closing" =>
       /\ todo[t] \subseteq Keys /\ size[t] = Cardinality(Keys)
       /\ \A k \in Keys : sockets[k] \in open <=> k \in todo[t]
Sees(t) == (t \in Requests => StartSees(t) /\ StopSees(t)) /\ StopAllSees(t)

\* What a callback visits.
Visits ==
  /\ At("sampler", "each") => \A s \in todo["sampler"] : s \in DAQ /\ streams[s] # 0
  /\ At("worker", "each") => \A s \in todo["worker"] : s \in Hardware /\ streams[s] # 0

NoneLost == streamsLock # "lost" /\ hardwareFreqStreamsLock # "lost"

SocketInv ==
  /\ Apart /\ \A k \in SocketIDs : SocketOK(k)
  /\ \A n \in open : n <= created /\ \E k \in SocketIDs : sockets[k] = n
  /\ \A t \in Actors : Sees(t)
  /\ Visits /\ NoneLost
  /\ pc["main"] = "end" => open = {}

-----------------------------------------------------------------------------
(* Nobody else is at work on a socket *)

LEMMA ActorFacts == \A t \in Actors : t \in Threads \ {"sampler", "worker"}
  BY DEF Actors, Threads

LEMMA AloneOnSocket ==
  ASSUME ServerInv, Apart, NEW r \in Requests, pc[r] \in AboutStream,
         NEW t \in Actors, t # r
  PROVE  /\ Socket(r) \in SocketIDs /\ pc[t] \notin Stopping
         /\ t \in Requests /\ pc[t] \in AboutStream => Socket(t) # Socket(r)
<1>1. req[r].stream \in Streams /\ Socket(r) \in SocketIDs
  BY DEF ServerInv, ThreadsOK, Socket
<1>2. About(req[r]) = {Socket(r)}
  BY DEF Apart, About, Socket
<1>3. CASE t = "main"
  <2>1. pc[r] # "idle"
    BY DEF AboutStream
  <2>2. pc["main"] \notin Last
    BY <2>1 DEF Apart
  <2>3. "main" \notin Requests
    OBVIOUS
  <2> QED  BY <1>1, <1>3, <2>2, <2>3 DEF Last
<1>4. CASE t \in Requests
  <2>1. About(req[t]) \cap About(req[r]) = {}
    BY <1>4 DEF Apart
  <2>2. pc[t] \in Stopping => About(req[t]) = SocketIDs
    BY <1>4 DEF Apart, About
  <2>3. pc[t] \in AboutStream => About(req[t]) = {Socket(t)}
    BY <1>4 DEF Apart, About, Socket
  <2> QED  BY <1>1, <1>2, <2>1, <2>2, <2>3
<1> QED  BY <1>3, <1>4 DEF Actors

LEMMA AloneStopping ==
  ASSUME ServerInv, Apart, NEW t \in Actors, pc[t] \in Stopping,
         NEW u \in Actors, u # t
  PROVE  pc[u] \notin Stopping /\ (u \in Requests => pc[u] \notin AboutStream)
<1>1. "idle" \notin Stopping \cup AboutStream /\ Stopping \subseteq Last
  BY DEF Stopping, AboutStream, Last
<1>2. CASE t = "main"
  <2>1. u \in Requests /\ pc[u] = "idle"
    BY <1>1, <1>2 DEF Actors, Apart
  <2> QED  BY <1>1, <2>1
<1>3. CASE t \in Requests
  <2>1. u = "main" => pc[u] \notin Stopping /\ u \notin Requests
    BY <1>1, <1>3 DEF Apart
  <2>2. ASSUME u \in Requests, pc[u] \in AboutStream
        PROVE  FALSE
    BY <1>3, <2>2, AloneOnSocket
  <2>3. ASSUME u \in Requests, pc[u] \in Stopping
        PROVE  FALSE
    <3>1. About(req[t]) = SocketIDs /\ About(req[u]) = SocketIDs
      BY <1>3, <2>3 DEF Apart, About
    <3>2. About(req[t]) \cap About(req[u]) = {}
      BY <1>3, <2>3 DEF Apart
    <3>3. SocketOf[LogStream] \in SocketIDs
      OBVIOUS
    <3> QED  BY <3>1, <3>2, <3>3
  <2> QED  BY <2>1, <2>2, <2>3 DEF Actors
<1> QED  BY <1>2, <1>3 DEF Actors

\* A request finds its socket open unless it has closed it itself, ...
LEMMA OwnSocket ==
  ASSUME ServerInv, SocketInv, NEW r \in Requests, pc[r] \in AboutStream, pc[r] # "forget"
  PROVE  sockets[Socket(r)] = 0 \/ sockets[Socket(r)] \in open
<1>1. Apart /\ Socket(r) \in SocketIDs /\ "closing" \in Stopping /\ "forget" \in AboutStream
  BY DEF SocketInv, ServerInv, ThreadsOK, Socket, Stopping, AboutStream
<1>2. ASSUME NEW t \in Actors, Closes(t, Socket(r))
      PROVE  FALSE
  <2>1. CASE t = r
    BY <1>2, <2>1 DEF Closes, AboutStream
  <2>2. CASE t # r
    BY <1>1, <1>2, <2>2, AloneOnSocket DEF Closes
  <2> QED  BY <2>1, <2>2
<1> QED  BY <1>1, <1>2 DEF SocketInv, SocketOK

\* ... and so does _stopAllStreams all of them.
LEMMA AllSockets ==
  ASSUME ServerInv, SocketInv, NEW t \in Actors, pc[t] \in Stopping \ {"closing"}
  PROVE  \A k \in SocketIDs : sockets[k] = 0 \/ sockets[k] \in open
<1>1. Apart /\ "closing" \in Stopping /\ "forget" \in AboutStream /\ "forget" \notin Stopping
  BY DEF SocketInv, Stopping, AboutStream
<1>2. ASSUME NEW u \in Actors, NEW k, Closes(u, k)
      PROVE  FALSE
  <2>1. CASE u = t
    BY <1>1, <1>2, <2>1 DEF Closes
  <2>2. CASE u # t
    BY <1>1, <1>2, <2>2, AloneStopping DEF Closes
  <2> QED  BY <2>1, <2>2
<1> QED  BY <1>2 DEF SocketInv, SocketOK

-----------------------------------------------------------------------------
(* What a step leaves as it was *)

Untouched(k) ==
  /\ sockets'[k] = sockets[k] /\ (sockets[k] \in open' <=> sockets[k] \in open)
  /\ \A s \in Streams : SocketOf[s] = k => streams'[s] = streams[s]

LEMMA OthersSee ==
  ASSUME NEW t \in Actors, Sees(t), pc'[t] = pc[t], req'[t] = req[t],
         todo'[t] = todo[t], size'[t] = size[t],
         t \in Requests /\ pc[t] \in AboutStream =>
           req[t].stream \in Streams /\ Untouched(Socket(t)),
         pc[t] \in Stopping => UNCHANGED <<streams, sockets, open>>
  PROVE  Sees(t)'
<1>1. Socket(t)' = Socket(t)
  BY DEF Socket
<1>2. ASSUME t \in Requests
      PROVE  StartSees(t)' /\ StopSees(t)'
  <2>1. CASE pc[t] \in AboutStream
    <3>1. /\ req[t].stream \in Streams /\ sockets'[Socket(t)] = sockets[Socket(t)]
          /\ sockets[Socket(t)] \in open' <=> sockets[Socket(t)] \in open
          /\ streams'[req[t].stream] = streams[req[t].stream]
          /\ \A s \in Streams : SocketOf[s] = Socket(t) => streams'[s] = streams[s]
      BY <1>2, <2>1 DEF Untouched, Socket
    <3>2. StartSees(t)'
      BY <1>1, <1>2, <3>1 DEF Sees, StartSees
    <3>3. /\ pc'[t] = "del" => streams'[req'[t].stream] # 0
          /\ pc'[t] \in {"users", "using", "close", "forget"} =>
               streams'[req'[t].stream] = 0
      BY <1>2, <3>1 DEF Sees, StopSees
    <3>4. pc'[t] = "using" => \A s \in DAQ :
            SocketOf[s] = Socket(t)' /\ streams'[s] # 0 => s \in todo'[t]
      BY <1>1, <1>2, <3>1 DEF Sees, StopSees, DAQ
    <3>5. pc'[t] \in {"close", "forget"} => Unused(Socket(t))'
      BY <1>1, <1>2, <3>1 DEF Sees, StopSees, Unused
    <3>6. pc'[t] = "forget" => sockets'[Socket(t)'] \notin open'
      BY <1>1, <1>2, <3>1 DEF Sees, StopSees
    <3> QED  BY <3>2, <3>3, <3>4, <3>5, <3>6 DEF StopSees
  <2>2. CASE pc[t] \notin AboutStream
    BY <2>2 DEF AboutStream, StartSees, StopSees
  <2> QED  BY <2>1, <2>2
<1>3. StopAllSees(t)'
  <2>1. CASE pc[t] \in Stopping
    <3>1. streams' = streams /\ sockets' = sockets /\ open' = open /\ Keys' = Keys
      BY <2>1 DEF Keys
    <3> QED  BY <3>1 DEF Sees, StopAllSees
  <2>2. CASE pc[t] \notin Stopping
    BY <2>2 DEF Stopping, StopAllSees
  <2> QED  BY <2>1, <2>2
<1> QED  BY <1>2, <1>3 DEF Sees

LEMMA OtherSockets ==
  ASSUME NEW k \in SocketIDs, SocketOK(k), Untouched(k), created \in Nat,
         created' \in Nat, created <= created',
         \A j \in SocketIDs : sockets'[j] \in {sockets[j], 0, created + 1},
         \A t \in Actors : Closes(t, k) => Closes(t, k)'
  PROVE  SocketOK(k)'
<1>1. sockets'[k] = sockets[k] /\ sockets[k] \in 0..created
  BY DEF Untouched, SocketOK
<1>2. ASSUME NEW j \in SocketIDs, j # k, sockets'[j] = sockets'[k]
      PROVE  sockets'[k] = 0
  <2>1. CASE sockets'[j] = sockets[j]
    BY <1>1, <1>2, <2>1 DEF SocketOK
  <2>2. CASE sockets'[j] = 0
    BY <1>2, <2>2
  <2>3. CASE sockets'[j] = created + 1
    BY <1>1, <1>2, <2>3
  <2> QED  BY <2>1, <2>2, <2>3
<1>3. \A s \in Streams : SocketOf[s] = k /\ streams'[s] # 0 => streams'[s] = sockets'[k]
  BY <1>1 DEF Untouched, SocketOK
<1>4. sockets'[k] = 0 \/ sockets'[k] \in open' \/ \E t \in Actors : Closes(t, k)'
  BY <1>1 DEF Untouched, SocketOK
<1>5. sockets'[k] \in 0..created'
  BY <1>1
<1> QED  BY <1>2, <1>3, <1>4, <1>5 DEF SocketOK, Actors

LEMMA VisitsKept ==
  ASSUME Visits, LeftAlone, NEW t, t \in {"sampler", "worker"} => FALSE,
         \A u \in Threads : u # t => pc'[u] = pc[u] /\ todo'[u] = todo[u]
  PROVE  Visits'
<1>1. {"sampler", "worker"} \subseteq Threads
  BY DEF Threads
<1>2. /\ pc'["sampler"] = pc["sampler"] /\ todo'["sampler"] = todo["sampler"]
      /\ pc'["worker"] = pc["worker"] /\ todo'["worker"] = todo["worker"]
  BY <1>1
<1> QED  BY <1>2 DEF Visits, LeftAlone, At

\* The others are where they were.
Alone(t) == \A u \in Threads : u # t =>
  pc'[u] = pc[u] /\ req'[u] = req[u] /\ todo'[u] = todo[u] /\ size'[u] = size[u]

OpenOK == \A n \in open : n <= created /\ \E k \in SocketIDs : sockets[k] = n

\* A step of a request about one socket.
LEMMA AboutOneSocket ==
  ASSUME ServerInv, SocketInv, NEW r \in Requests, pc[r] \in AboutStream,
         NEW k \in SocketIDs, k = Socket(r), Alone(r), LeftAlone, UNCHANGED lockVars,
         \/ req'[r] = req[r] /\ pc'[r] \in AboutStream
         \/ req'[r] = NoRequest /\ pc'[r] = "idle",
         created' \in Nat, created <= created',
         \A j \in SocketIDs : j # k => Untouched(j),
         sockets'[k] \in {sockets[k], 0, created + 1},
         SocketOK(k)', OpenOK', Sees(r)'
  PROVE  SocketInv'
<1>1. /\ Apart /\ Visits /\ NoneLost /\ created \in Nat /\ r \in Actors /\ r \in Threads
      /\ r \notin {"main", "sampler", "worker"} /\ "main" \in Actors
      /\ \A t \in Actors : t \in Threads
  BY ActorFacts DEF SocketInv, ServerInv, DataOK, Actors
<1>2. /\ \A t \in Actors : t # r => /\ pc'[t] = pc[t] /\ req'[t] = req[t]
                                    /\ todo'[t] = todo[t] /\ size'[t] = size[t]
      /\ pc["main"] \notin Last /\ pc'["main"] = pc["main"]
  <2>1. pc[r] # "idle"
    BY DEF AboutStream
  <2> QED  BY <1>1, <2>1 DEF Alone, Apart
<1>3. Apart'
  <2>1. \A t \in Requests : About(req'[t]) \subseteq About(req[t])
    <3>1. About(NoRequest) = {}
      BY DEF About, NoRequest
    <3> QED  BY <1>2, <3>1 DEF Actors
  <2>2. \A t, u \in Requests : t # u => About(req'[t]) \cap About(req'[u]) = {}
    BY <1>1, <2>1 DEF Apart
  <2>3. \A t \in Requests : t # r => /\ pc'[t] \in AboutStream => req'[t].op \in {"start", "stop"}
                                     /\ pc'[t] \in Stopping => req'[t].op = "stopAll"
                                     /\ pc'[t] = "idle" => req'[t] = NoRequest
    BY <1>1, <1>2 DEF Apart, Actors
  <2>4. /\ pc'[r] \in AboutStream => req'[r].op \in {"start", "stop"}
        /\ pc'[r] \notin Stopping
        /\ pc'[r] = "idle" => req'[r] = NoRequest
    BY <1>1 DEF Apart, AboutStream, Stopping
  <2> QED  BY <1>2, <2>2, <2>3, <2>4 DEF Apart
<1>4. \A t \in Actors : t # r => Sees(t)'
  <2> SUFFICES ASSUME NEW t \in Actors, t # r PROVE Sees(t)'
    OBVIOUS
  <2>1. /\ pc[t] \notin Stopping
        /\ t \in Requests /\ pc[t] \in AboutStream => Socket(t) # Socket(r)
    BY <1>1, AloneOnSocket
  <2>2. t \in Requests /\ pc[t] \in AboutStream =>
          req[t].stream \in Streams /\ Socket(t) \in SocketIDs
    BY DEF ServerInv, ThreadsOK, Socket
  <2>3. Sees(t)
    BY DEF SocketInv
  <2> QED  BY <1>2, <2>1, <2>2, <2>3, OthersSee
<1>5. \A j \in SocketIDs : SocketOK(j)'
  <2> SUFFICES ASSUME NEW j \in SocketIDs, j # k PROVE SocketOK(j)'
    OBVIOUS
  <2>1. \A i \in SocketIDs : sockets'[i] \in {sockets[i], 0, created + 1}
    BY DEF Untouched
  <2>2. ASSUME NEW t \in Actors, Closes(t, j) PROVE Closes(t, j)'
    <3>1. t # r
      BY <2>2 DEF Closes, AboutStream
    <3>2. pc'[t] = pc[t] /\ todo'[t] = todo[t] /\ Socket(t)' = Socket(t)
      BY <1>2, <3>1 DEF Socket
    <3> QED  BY <2>2, <3>2 DEF Closes
  <2> QED  BY <1>1, <2>1, <2>2, OtherSockets DEF SocketInv
<1>6. Visits'
  <2>1. \A u \in Threads : u # r => pc'[u] = pc[u] /\ todo'[u] = todo[u]
    BY DEF Alone
  <2> QED  BY <1>1, <2>1, VisitsKept
<1>7. NoneLost' /\ pc'["main"] # "end"
  BY <1>1, <1>2 DEF NoneLost, lockVars, Last
<1> QED  BY <1>3, <1>4, <1>5, <1>6, <1>7 DEF SocketInv, OpenOK, Actors

-----------------------------------------------------------------------------
(* _startStream and _stopStream with their sockets *)

LEMMA StepsAlone ==
  ASSUME ThreadsOK, NEW t \in Threads
  PROVE  /\ Done(t) /\ UNCHANGED size =>
              Alone(t) /\ pc'[t] = "idle" /\ req'[t] = NoRequest
         /\ \A l : Stay(t, l) /\ UNCHANGED size =>
              Alone(t) /\ pc'[t] = l /\ req'[t] = req[t] /\ todo'[t] = todo[t]
         /\ \A l, at : Look(t, at, l) /\ UNCHANGED size =>
              Alone(t) /\ pc'[t] = l /\ req'[t] = req[t] /\ todo'[t] = at
  BY DEF ThreadsOK, Done, Stay, Look, Goto, Alone

\* A thread whose label says nothing about sockets.
Looking == {"create", "add", "del", "users", "using", "close", "forget",
            "closeAll", "closing"}

LEMMA SeesNothing ==
  ASSUME NEW t, pc'[t] \notin Looking
  PROVE  Sees(t)'
  BY DEF Looking, Sees, StartSees, StopSees, StopAllSees

LEMMA RequestAtWork ==
  ASSUME ServerInv, SocketInv, NEW r \in Requests, pc[r] \in AboutStream
  PROVE  /\ r \in Threads /\ r \in Actors /\ ThreadsOK /\ LocksOK /\ DataOK
         /\ req[r].stream \in Streams /\ Socket(r) \in SocketIDs
         /\ Socket(r) = SocketOf[req[r].stream]
         /\ SocketOK(Socket(r)) /\ StartSees(r) /\ StopSees(r) /\ OpenOK
         /\ created \in Nat /\ \A k \in SocketIDs : sockets[k] \in 0..created
         /\ \A n \in open : n # 0
<1>1. /\ r \in Threads /\ r \in Actors /\ ThreadsOK /\ LocksOK /\ DataOK
      /\ req[r].stream \in Streams
  BY DEF ServerInv, ThreadsOK, Threads, Actors
<1>2. Socket(r) \in SocketIDs /\ Socket(r) = SocketOf[req[r].stream]
  BY <1>1 DEF Socket
<1>3. Sees(r) /\ OpenOK /\ \A k \in SocketIDs : SocketOK(k)
  BY <1>1 DEF SocketInv, OpenOK
<1>4. created \in Nat /\ \A n \in open : n # 0
  BY <1>1 DEF DataOK
<1> QED  BY <1>1, <1>2, <1>3, <1>4 DEF Sees, SocketOK

\* A step of a request that only looks at the dictionaries.
LEMMA LookStep ==
  ASSUME ServerInv, SocketInv, NEW r \in Requests, pc[r] \in AboutStream, pc[r] # "forget",
         Alone(r), UNCHANGED <<dictVars, lockVars>>,
         \/ req'[r] = req[r] /\ pc'[r] \in AboutStream
         \/ req'[r] = NoRequest /\ pc'[r] = "idle",
         Sees(r)'
  PROVE  SocketInv'
<1>1. PICK k \in SocketIDs : k = Socket(r)
  BY RequestAtWork
<1>2. /\ SocketOK(k) /\ OpenOK /\ created \in Nat
      /\ sockets[k] = 0 \/ sockets[k] \in open
  BY <1>1, RequestAtWork, OwnSocket
<1>3. streams' = streams /\ sockets' = sockets /\ created' = created /\ open' = open
  BY DEF dictVars
<1>4. SocketOK(k)'
  BY <1>2, <1>3 DEF SocketOK
<1>5. OpenOK' /\ LeftAlone /\ \A j \in SocketIDs : Untouched(j)
  BY <1>2, <1>3 DEF OpenOK, LeftAlone, Untouched
<1>6. sockets'[k] \in {sockets[k], 0, created + 1} /\ created' \in Nat /\ created <= created'
  BY <1>2, <1>3
<1> QED  BY <1>1, <1>4, <1>5, <1>6, AboutOneSocket

LEMMA StartSockets ==
  ASSUME ServerInv, SocketInv, NEW r \in Requests, _startStream(r), LeftAlone,
         UNCHANGED <<size, asked, raced, freqVars, sampling>>
  PROVE  SocketInv'
<1>1. pc[r] \in {"start", "socket", "create", "add"}
  BY DEF _startStream, TestStream, TestSocket, CreateFails, CreateSocket, AddStream, At
<1>2. /\ pc[r] \in AboutStream /\ pc[r] # "forget"
      /\ {"socket", "create", "add"} \subseteq AboutStream /\ "idle" \notin Looking
      /\ UNCHANGED size
  BY <1>1 DEF AboutStream, Looking
<1>3. PICK k \in SocketIDs : k = Socket(r)
  BY <1>2, RequestAtWork
<1>4. /\ r \in Threads /\ r \in Actors /\ ThreadsOK /\ DataOK
      /\ req[r].stream \in Streams /\ k = SocketOf[req[r].stream]
      /\ SocketOK(k) /\ StartSees(r) /\ OpenOK /\ created \in Nat
      /\ \A j \in SocketIDs : sockets[j] \in 0..created
      /\ \A n \in open : n # 0
      /\ sockets[k] = 0 \/ sockets[k] \in open
  BY <1>2, <1>3, RequestAtWork, OwnSocket
<1>5. CASE TestStream(r) \/ CreateFails(r)
  <2>1. UNCHANGED <<dictVars, lockVars>> /\ (Done(r) \/ Stay(r, "socket"))
    BY <1>5 DEF TestStream, CreateFails
  <2>2. Alone(r) /\ \/ req'[r] = req[r] /\ pc'[r] = "socket"
                    \/ req'[r] = NoRequest /\ pc'[r] = "idle"
    BY <1>2, <1>4, <2>1, StepsAlone
  <2>3. Sees(r)'
    BY <2>2, SeesNothing DEF Looking
  <2> QED  BY <1>2, <2>1, <2>2, <2>3, LookStep
<1>6. CASE TestSocket(r)
  <2>1. /\ UNCHANGED <<dictVars, lockVars>>
        /\ \/ Stay(r, "create") /\ sockets[k] = 0
           \/ Stay(r, "add") /\ sockets[k] # 0
    BY <1>4, <1>6 DEF TestSocket
  <2>2. /\ Alone(r) /\ req'[r] = req[r] /\ pc'[r] \in {"create", "add"}
        /\ pc'[r] = "create" => sockets[k] = 0
        /\ pc'[r] = "add" => sockets[k] # 0
    BY <1>2, <1>4, <2>1, StepsAlone
  <2>3. Sees(r)'
    BY <1>3, <2>1, <2>2 DEF Sees, StartSees, StopSees, StopAllSees, Socket, dictVars
  <2> QED  BY <1>2, <2>1, <2>2, <2>3, LookStep
<1>7. CASE CreateSocket(r)
  <2>1. /\ pc[r] = "create" /\ Stay(r, "add") /\ created' = created + 1
        /\ open' = open \cup {created + 1}
        /\ sockets' = [sockets EXCEPT ![k] = created + 1]
        /\ streams' = streams /\ UNCHANGED lockVars
    BY <1>4, <1>7 DEF CreateSocket, At
  <2>2. Alone(r) /\ req'[r] = req[r] /\ pc'[r] = "add"
    BY <1>2, <1>4, <2>1, StepsAlone
  <2>3. sockets[k] = 0
    BY <1>3, <2>1, <1>4 DEF StartSees
  <2>4. /\ sockets'[k] = created + 1
        /\ \A j \in SocketIDs : j # k => sockets'[j] = sockets[j]
    BY <1>4, <2>1 DEF DataOK
  <2>5. \A j \in SocketIDs : j # k => Untouched(j)
    BY <1>4, <2>1, <2>4 DEF Untouched
  <2>6. SocketOK(k)'
    <3>1. \A s \in Streams : SocketOf[s] = k => streams[s] = 0
      BY <1>4, <2>3 DEF SocketOK
    <3>2. \A j \in SocketIDs : j # k => sockets'[j] # sockets'[k]
      BY <1>4, <2>4
    <3>3. sockets'[k] \in 0..created' /\ sockets'[k] \in open'
      BY <1>4, <2>1, <2>4
    <3> QED  BY <2>1, <3>1, <3>2, <3>3 DEF SocketOK
  <2>7. OpenOK'
    <3> SUFFICES ASSUME NEW n \in open'
                 PROVE  n <= created' /\ \E j \in SocketIDs : sockets'[j] = n
      BY DEF OpenOK
    <3>1. CASE n = created + 1
      BY <1>4, <2>1, <2>4, <3>1
    <3>2. CASE n \in open
      <4>1. PICK j \in SocketIDs : sockets[j] = n
        BY <1>4, <3>2 DEF OpenOK
      <4>2. j # k /\ n \in 0..created
        BY <1>4, <2>3, <3>2, <4>1
      <4> QED  BY <1>4, <2>1, <2>4, <4>1, <4>2
    <3> QED  BY <2>1, <3>1, <3>2
  <2>8. Sees(r)'
    <3>1. Socket(r)' = k /\ sockets'[k] # 0
      BY <1>3, <1>4, <2>2, <2>4 DEF Socket
    <3> QED  BY <2>2, <3>1 DEF Sees, StartSees, StopSees, StopAllSees
  <2>9. created' \in Nat /\ created <= created'
    BY <1>4, <2>1
  <2> QED  BY <1>2, <1>3, <2>1, <2>2, <2>4, <2>5, <2>6, <2>7, <2>8, <2>9, AboutOneSocket
<1>8. CASE AddStream(r)
  <2>1. pc[r] = "add"
    BY <1>8 DEF AddStream, At
  <2>2. sockets[k] # 0
    BY <1>3, <1>4, <2>1 DEF StartSees
  <2>3. /\ Done(r) /\ streams' = [streams EXCEPT ![req[r].stream] = sockets[k]]
        /\ UNCHANGED <<lockVars, sockets, created, open>>
    BY <1>4, <1>8, <2>2 DEF AddStream
  <2>4. Alone(r) /\ req'[r] = NoRequest /\ pc'[r] = "idle"
    BY <1>2, <1>4, <2>3, StepsAlone
  <2>5. \A s \in Streams :
          streams'[s] = IF s = req[r].stream THEN sockets[k] ELSE streams[s]
    BY <1>4, <2>3 DEF DataOK
  <2>6. \A j \in SocketIDs : j # k => Untouched(j)
    BY <1>4, <2>3, <2>5 DEF Untouched
  <2>7. SocketOK(k)'
    BY <1>4, <2>3, <2>5 DEF SocketOK
  <2>8. Sees(r)'
    BY <1>2, <2>4, SeesNothing
  <2>9. OpenOK' /\ created' \in Nat /\ created <= created'
        /\ sockets'[k] \in {sockets[k], 0, created + 1}
    BY <1>4, <2>3 DEF OpenOK
  <2> QED  BY <1>2, <1>3, <2>3, <2>4, <2>6, <2>7, <2>8, <2>9, AboutOneSocket
<1> QED  BY <1>5, <1>6, <1>7, <1>8 DEF _startStream

\* No other stream of the frequency worker is on the socket.
LEMMA OnlyOfTheCard ==
  ASSUME Orderly, NEW s \in Streams, streams[s] = 0,
         \A u \in DAQ : SocketOf[u] = SocketOf[s] => streams[u] = 0
  PROVE  Unused(SocketOf[s])
<1> SUFFICES ASSUME NEW u \in Streams, SocketOf[u] = SocketOf[s] PROVE streams[u] = 0
  BY DEF Unused
<1>1. u # s => u \notin Hardware
  BY DEF Orderly, Shares
<1> QED  BY <1>1 DEF DAQ

LEMMA StopSockets ==
  ASSUME ServerInv, SocketInv, Orderly, NEW r \in Requests, _stopStream(r), LeftAlone,
         UNCHANGED <<size, asked, raced, freqVars, sampling>>
  PROVE  SocketInv'
<1>1. pc[r] \in {"stop", "del", "users", "using", "close", "forget"}
  BY DEF _stopStream, TestStop, DeleteStream, BeginFind, EndFind, CloseSocket, ForgetSocket, At
<1>2. /\ pc[r] \in AboutStream /\ UNCHANGED size /\ "idle" \notin Looking
      /\ {"del", "users", "using", "close", "forget"} \subseteq AboutStream
  BY <1>1 DEF AboutStream, Looking
<1>3. PICK k \in SocketIDs : k = Socket(r)
  BY <1>2, RequestAtWork
<1>4. PICK s \in Streams : s = req[r].stream
  BY <1>2, RequestAtWork
<1>5. /\ r \in Threads /\ r \in Actors /\ ThreadsOK /\ DataOK /\ k = SocketOf[s]
      /\ SocketOK(k) /\ StopSees(r) /\ OpenOK /\ created \in Nat
      /\ \A j \in SocketIDs : sockets[j] \in 0..created
      /\ \A n \in open : n # 0
      /\ pc[r] # "forget" => sockets[k] = 0 \/ sockets[k] \in open
  BY <1>2, <1>3, <1>4, RequestAtWork, OwnSocket
<1>6. pc[r] \in {"users", "using", "close", "forget"} => streams[s] = 0
  BY <1>4, <1>5 DEF StopSees
<1>7. CASE TestStop(r)
  <2>1. /\ pc[r] = "stop" /\ UNCHANGED <<dictVars, lockVars>>
        /\ Done(r) \/ (Stay(r, "del") /\ streams[s] # 0)
    BY <1>4, <1>7 DEF TestStop, At
  <2>2. Alone(r) /\ \/ req'[r] = req[r] /\ pc'[r] = "del" /\ streams[s] # 0
                    \/ req'[r] = NoRequest /\ pc'[r] = "idle"
    BY <1>2, <1>5, <2>1, StepsAlone
  <2>3. Sees(r)'
    <3>1. CASE pc'[r] = "idle"
      BY <1>2, <3>1, SeesNothing
    <3>2. CASE pc'[r] = "del"
      BY <1>4, <2>1, <2>2, <3>2 DEF Sees, StartSees, StopSees, StopAllSees, dictVars
    <3> QED  BY <2>2, <3>1, <3>2
  <2> QED  BY <1>2, <2>1, <2>2, <2>3, LookStep
<1>8. CASE DeleteStream(r)
  <2>1. pc[r] = "del" /\ streams[s] # 0
    BY <1>4, <1>5, <1>8 DEF DeleteStream, At, StopSees
  <2>2. /\ Stay(r, "users") /\ streams' = [streams EXCEPT ![s] = 0]
        /\ UNCHANGED <<lockVars, sockets, created, open>>
    BY <1>4, <1>8, <2>1 DEF DeleteStream
  <2>3. Alone(r) /\ req'[r] = req[r] /\ pc'[r] = "users"
    BY <1>2, <1>5, <2>2, StepsAlone
  <2>4. \A u \in Streams : streams'[u] = IF u = s THEN 0 ELSE streams[u]
    BY <1>5, <2>2 DEF DataOK
  <2>5. \A j \in SocketIDs : j # k => Untouched(j)
    BY <1>5, <2>2, <2>4 DEF Untouched
  <2>6. SocketOK(k)'
    BY <1>2, <1>5, <2>1, <2>2, <2>4 DEF SocketOK
  <2>7. Sees(r)'
    BY <1>4, <2>3, <2>4 DEF Sees, StartSees, StopSees, StopAllSees
  <2>8. OpenOK' /\ created' \in Nat /\ created <= created'
        /\ sockets'[k] \in {sockets[k], 0, created + 1}
    BY <1>5, <2>2 DEF OpenOK
  <2> QED  BY <1>2, <1>3, <2>2, <2>3, <2>5, <2>6, <2>7, <2>8, AboutOneSocket
<1>9. CASE BeginFind(r)
  <2>1. /\ pc[r] = "users" /\ UNCHANGED <<dictVars, lockVars>>
        /\ \/ Stay(r, "close") /\ Present \cap DAQ = {}
           \/ Look(r, Present \cap DAQ, "using")
    BY <1>9 DEF BeginFind, At
  <2>2. /\ Alone(r) /\ req'[r] = req[r] /\ pc'[r] \in {"close", "using"}
        /\ pc'[r] = "close" => Present \cap DAQ = {}
        /\ pc'[r] = "using" => todo'[r] = Present \cap DAQ
    BY <1>2, <1>5, <2>1, StepsAlone
  <2>3. pc'[r] = "close" => Unused(k)
    <3>1. Present \cap DAQ = {} => \A u \in DAQ : streams[u] = 0
      BY DEF Present, DAQ
    <3> QED  BY <1>5, <1>6, <2>1, <2>2, <3>1, OnlyOfTheCard
  <2>4. pc'[r] = "using" => \A u \in DAQ : streams[u] # 0 => u \in todo'[r]
    BY <2>2 DEF Present, DAQ
  <2>5. streams' = streams /\ streams[s] = 0 /\ Socket(r)' = k
    BY <1>3, <1>6, <2>1, <2>2 DEF dictVars, Socket
  <2>6. Unused(k) => Unused(k)'
    BY <2>5 DEF Unused
  <2>7. StopSees(r)'
    BY <1>4, <2>2, <2>3, <2>4, <2>5, <2>6 DEF StopSees, DAQ
  <2>8. Sees(r)'
    BY <2>2, <2>7 DEF Sees, StartSees, StopAllSees
  <2> QED  BY <1>2, <2>1, <2>2, <2>8, LookStep
<1>10. CASE EndFind(r)
  <2>1. /\ pc[r] = "using" /\ UNCHANGED <<dictVars, lockVars>>
        /\ Done(r) \/ (Stay(r, "close") /\ Users(k, todo[r]) = {})
    BY <1>4, <1>5, <1>10 DEF EndFind, At
  <2>2. /\ Alone(r)
        /\ \/ req'[r] = req[r] /\ pc'[r] = "close" /\ Users(k, todo[r]) = {}
           \/ req'[r] = NoRequest /\ pc'[r] = "idle"
    BY <1>2, <1>5, <2>1, StepsAlone
  <2>3. Sees(r)'
    <3>1. CASE pc'[r] = "idle"
      BY <1>2, <3>1, SeesNothing
    <3>2. CASE pc'[r] = "close"
      <4>1. ASSUME NEW u \in DAQ, SocketOf[u] = k, streams[u] # 0
            PROVE  FALSE
        <5>1. u \in todo[r]
          BY <1>3, <1>5, <2>1, <4>1 DEF StopSees
        <5>2. u \in Users(k, todo[r])
          BY <4>1, <5>1 DEF Users
        <5> QED  BY <2>2, <3>2, <5>2
      <4>2. Unused(k)
        BY <1>5, <1>6, <2>1, <4>1, OnlyOfTheCard
      <4>3. streams' = streams /\ streams[s] = 0 /\ Socket(r)' = k /\ req'[r] = req[r]
        BY <1>3, <1>6, <2>1, <2>2, <3>2 DEF dictVars, Socket
      <4>4. Unused(k)'
        BY <4>2, <4>3 DEF Unused
      <4> QED  BY <1>4, <3>2, <4>3, <4>4 DEF Sees, StartSees, StopSees, StopAllSees
    <3> QED  BY <2>2, <3>1, <3>2
  <2> QED  BY <1>2, <2>1, <2>2, <2>3, LookStep
<1>11. CASE CloseSocket(r)
  <2>1. /\ pc[r] = "close"
        /\ streams' = streams /\ sockets' = sockets /\ created' = created
        /\ UNCHANGED lockVars
        /\ \/ /\ sockets[k] \in open /\ open' = open \ {sockets[k]} /\ Stay(r, "forget")
           \/ Done(r) /\ UNCHANGED open
    BY <1>4, <1>5, <1>11 DEF CloseSocket, At
  <2>2. Unused(k)
    BY <1>3, <1>5, <2>1 DEF StopSees
  <2>3. CASE Done(r) /\ UNCHANGED open
    <3>1. Alone(r) /\ req'[r] = NoRequest /\ pc'[r] = "idle"
      BY <1>2, <1>5, <2>3, StepsAlone
    <3>2. Sees(r)'
      BY <1>2, <3>1, SeesNothing
    <3>3. SocketOK(k)'
      BY <1>5, <2>1, <2>3 DEF SocketOK
    <3>4. \A j \in SocketIDs : j # k => Untouched(j)
      BY <2>1, <2>3 DEF Untouched
    <3>5. OpenOK' /\ created' \in Nat /\ created <= created'
          /\ sockets'[k] \in {sockets[k], 0, created + 1}
      BY <1>5, <2>1, <2>3 DEF OpenOK
    <3> QED  BY <1>2, <1>3, <2>1, <3>1, <3>2, <3>3, <3>4, <3>5, AboutOneSocket
  <2>4. CASE /\ sockets[k] \in open /\ open' = open \ {sockets[k]} /\ Stay(r, "forget")
    <3>1. Alone(r) /\ req'[r] = req[r] /\ pc'[r] = "forget"
      BY <1>2, <1>5, <2>4, StepsAlone
    <3>2. Socket(r)' = k /\ Unused(k)'
      BY <1>3, <2>1, <2>2, <3>1 DEF Socket, Unused
    <3>3. Sees(r)'
      BY <1>4, <1>6, <2>1, <2>4, <3>1, <3>2 DEF Sees, StartSees, StopSees, StopAllSees
    <3>4. Closes(r, k)'
      BY <3>1, <3>2 DEF Closes
    <3>5. SocketOK(k)'
      BY <1>5, <2>1, <3>4 DEF SocketOK
    <3>6. \A j \in SocketIDs : j # k => Untouched(j)
      BY <1>5, <2>1, <2>4 DEF Untouched, SocketOK
    <3>7. OpenOK' /\ created' \in Nat /\ created <= created'
          /\ sockets'[k] \in {sockets[k], 0, created + 1}
      BY <1>5, <2>1, <2>4 DEF OpenOK
    <3> QED  BY <1>2, <1>3, <2>1, <3>1, <3>3, <3>5, <3>6, <3>7, AboutOneSocket
  <2> QED  BY <2>1, <2>3, <2>4
<1>12. CASE ForgetSocket(r)
  <2>1. /\ pc[r] = "forget" /\ Done(r) /\ sockets' = [sockets EXCEPT ![k] = 0]
        /\ streams' = streams /\ created' = created /\ open' = open
        /\ UNCHANGED lockVars
    BY <1>4, <1>5, <1>12 DEF ForgetSocket, At
  <2>2. Unused(k) /\ sockets[k] \notin open
    BY <1>3, <1>5, <2>1 DEF StopSees
  <2>3. Alone(r) /\ req'[r] = NoRequest /\ pc'[r] = "idle"
    BY <1>2, <1>5, <2>1, StepsAlone
  <2>4. sockets'[k] = 0 /\ \A j \in SocketIDs : j # k => sockets'[j] = sockets[j]
    BY <1>5, <2>1 DEF DataOK
  <2>5. Sees(r)'
    BY <1>2, <2>3, SeesNothing
  <2>6. SocketOK(k)'
    BY <1>5, <2>1, <2>2, <2>4 DEF SocketOK, Unused
  <2>7. \A j \in SocketIDs : j # k => Untouched(j)
    BY <2>1, <2>4 DEF Untouched
  <2>8. OpenOK' /\ created' \in Nat /\ created <= created'
        /\ sockets'[k] \in {sockets[k], 0, created + 1}
    BY <1>5, <2>1, <2>2, <2>4 DEF OpenOK
  <2> QED  BY <1>2, <1>3, <2>1, <2>3, <2>5, <2>6, <2>7, <2>8, AboutOneSocket
<1> QED  BY <1>7, <1>8, <1>9, <1>10, <1>11, <1>12 DEF _stopStream

-----------------------------------------------------------------------------
(* _stopAllStreams with the sockets *)

\* t is through: a request is answered, main ends.
Through(t) == \/ t \in Requests /\ req'[t] = NoRequest /\ pc'[t] = "idle"
              \/ t = "main" /\ pc'[t] = "end"

\* A step of the only thread at work.
LEMMA AboutAllSockets ==
  ASSUME ServerInv, SocketInv, NEW t \in Actors, pc[t] \in Stopping,
         \A u \in Threads : u # t => pc'[u] = pc[u] /\ req'[u] = req[u] /\ todo'[u] = todo[u],
         LeftAlone, NoneLost',
         (req'[t] = req[t] /\ pc'[t] \in Stopping) \/ (Through(t) /\ open' = {})
           \/ (Through(t) /\ t \in Requests),
         \A k \in SocketIDs : SocketOK(k)', OpenOK', Sees(t)'
  PROVE  SocketInv'
<1>1. /\ Apart /\ Visits /\ t \in Threads \ {"sampler", "worker"} /\ "main" \in Actors
      /\ "main" \notin Requests /\ Stopping \subseteq Last
      /\ \A u \in Actors : u \in Threads
  BY ActorFacts DEF SocketInv, Actors, Last
<1>2. \A u \in Actors : u # t => /\ pc[u] \notin Stopping
                                 /\ u \in Requests => pc[u] \notin AboutStream
  BY <1>1, AloneStopping
<1>3. \A u \in Actors : u # t => Sees(u)'
  <2> SUFFICES ASSUME NEW u \in Actors, u # t PROVE Sees(u)'
    OBVIOUS
  <2>1. pc'[u] = pc[u]
    BY <1>1
  <2>2. pc[u] \notin Stopping /\ (u \in Requests => pc[u] \notin AboutStream)
    BY <1>2
  <2> QED  BY <2>1, <2>2 DEF Sees, StartSees, StopSees, StopAllSees, Stopping, AboutStream
<1>4. Apart'
  <2>1. \A u \in Requests : About(req'[u]) \subseteq About(req[u])
    <3>1. About(NoRequest) = {}
      BY DEF About, NoRequest
    <3> QED  BY <1>1, <3>1 DEF Actors, Through
  <2>2. \A u, v \in Requests : u # v => About(req'[u]) \cap About(req'[v]) = {}
    BY <1>1, <2>1 DEF Apart
  <2>3. ASSUME NEW u \in Requests
        PROVE  /\ pc'[u] \in AboutStream => req'[u].op \in {"start", "stop"}
               /\ pc'[u] \in Stopping => req'[u].op = "stopAll"
               /\ pc'[u] = "idle" => req'[u] = NoRequest
    <3>1. CASE u # t
      BY <1>1, <3>1 DEF Apart, Actors
    <3>2. CASE u = t
      BY <1>1, <3>2 DEF Apart, Through, Stopping, AboutStream
    <3> QED  BY <3>1, <3>2
  <2>4. pc'["main"] \in Last => \A u \in Requests : pc'[u] = "idle"
    <3>1. CASE t = "main"
      BY <1>1, <3>1 DEF Apart, Actors
    <3>2. CASE t # "main"
      <4>1. t \in Requests /\ pc[t] # "idle" /\ pc'["main"] = pc["main"]
        BY <1>1, <3>2 DEF Actors, Stopping
      <4> QED  BY <1>1, <4>1 DEF Apart
    <3> QED  BY <3>1, <3>2
  <2> QED  BY <2>2, <2>3, <2>4 DEF Apart
<1>5. Visits'
  BY <1>1, VisitsKept
<1>6. pc'["main"] = "end" => open' = {}
  <2>1. CASE t = "main"
    <3>1. t \notin Requests /\ "end" \notin Stopping
      BY <1>1, <2>1 DEF Stopping
    <3> QED  BY <2>1, <3>1
  <2>2. CASE t # "main"
    <3>1. t \in Requests /\ pc[t] # "idle" /\ pc'["main"] = pc["main"]
      BY <1>1, <2>2 DEF Actors, Stopping
    <3>2. pc["main"] # "end"
      BY <3>1 DEF Apart, SocketInv, Last
    <3> QED  BY <3>1, <3>2
  <2> QED  BY <2>1, <2>2
<1> QED  BY <1>3, <1>4, <1>5, <1>6 DEF SocketInv, OpenOK, Actors

LEMMA AfterStopAllAlone ==
  ASSUME ThreadsOK, NEW t \in Actors, AfterStopAll(t)
  PROVE  /\ Through(t) /\ pc'[t] \notin Looking
         /\ \A u \in Threads : u # t =>
              pc'[u] = pc[u] /\ req'[u] = req[u] /\ todo'[u] = todo[u]
  BY ActorFacts DEF ThreadsOK, AfterStopAll, Done, Stay, Goto, Through, Looking, Actors

LEMMA StopAllSockets ==
  ASSUME ServerInv, SocketInv, NEW t \in Actors, _stopAllStreams(t), LeftAlone
  PROVE  SocketInv'
<1>1. pc[t] \in Stopping
  BY DEF _stopAllStreams, LockStreams, ClearStreams, BeginClose, CloseNext, ForgetAll,
         At, Stopping
<1>2. /\ t \in Threads /\ ThreadsOK /\ DataOK /\ LocksOK /\ NoneLost /\ Sees(t) /\ OpenOK
      /\ created \in Nat /\ "lost" # t
      /\ \A k \in SocketIDs : SocketOK(k)
      /\ \A n \in open : n # 0
      /\ {"clear", "closeAll", "closing"} \subseteq Stopping
      /\ Keys = {k \in SocketIDs : sockets[k] # 0}
  BY ActorFacts DEF ServerInv, SocketInv, DataOK, OpenOK, Keys, Stopping, Threads
<1>3. pc[t] # "closing" => \A k \in SocketIDs : sockets[k] = 0 \/ sockets[k] \in open
  BY <1>1, AllSockets
<1>4. CASE LockStreams(t) /\ UNCHANGED size
  <2>1. /\ pc[t] = "stopAll" /\ Stay(t, "clear") /\ UNCHANGED size
        /\ streams' = streams /\ sockets' = sockets /\ created' = created /\ open' = open
        /\ streamsLock' = t /\ hardwareFreqStreamsLock' = hardwareFreqStreamsLock
    BY <1>4 DEF LockStreams, TakeFirst, AcquireStreams, At, dictVars
  <2>2. Alone(t) /\ pc'[t] = "clear" /\ req'[t] = req[t]
    BY <1>2, <2>1, StepsAlone
  <2>3. Sees(t)'
    BY <2>2, SeesNothing DEF Looking
  <2>4. \A k \in SocketIDs : SocketOK(k)'
    BY <1>2, <1>3, <2>1 DEF SocketOK
  <2>5. OpenOK' /\ NoneLost'
    BY <1>2, <2>1 DEF OpenOK, NoneLost
  <2> QED  BY <1>1, <1>2, <2>2, <2>3, <2>4, <2>5, AboutAllSockets DEF Alone
<1>5. CASE ClearStreams(t) /\ UNCHANGED size
  <2>1. /\ pc[t] = "clear" /\ Stay(t, "closeAll") /\ UNCHANGED size
        /\ streams' = [s \in Streams |-> 0]
        /\ sockets' = sockets /\ created' = created /\ open' = open
        /\ streamsLock' = "free" /\ hardwareFreqStreamsLock' = "free"
    BY <1>5 DEF ClearStreams, ReleaseBoth, At
  <2>2. Alone(t) /\ pc'[t] = "closeAll" /\ req'[t] = req[t]
    BY <1>2, <2>1, StepsAlone
  <2>3. Sees(t)'
    BY <2>1, <2>2 DEF Sees, StartSees, StopSees, StopAllSees
  <2>4. \A k \in SocketIDs : SocketOK(k)'
    BY <1>2, <1>3, <2>1 DEF SocketOK
  <2>5. OpenOK' /\ NoneLost'
    BY <1>2, <2>1 DEF OpenOK, NoneLost
  <2> QED  BY <1>1, <1>2, <2>2, <2>3, <2>4, <2>5, AboutAllSockets DEF Alone
<1>6. CASE BeginClose(t)
  <2>1. /\ pc[t] = "closeAll" /\ Look(t, Keys, "closing")
        /\ size' = [size EXCEPT ![t] = Cardinality(Keys)]
        /\ streams' = streams /\ sockets' = sockets /\ created' = created /\ open' = open
        /\ UNCHANGED lockVars
    BY <1>6 DEF BeginClose, At, dictVars
  <2>2. /\ pc'[t] = "closing" /\ req'[t] = req[t] /\ todo'[t] = Keys
        /\ size'[t] = Cardinality(Keys) /\ Keys' = Keys
        /\ \A u \in Threads : u # t =>
             pc'[u] = pc[u] /\ req'[u] = req[u] /\ todo'[u] = todo[u]
    BY <1>2, <2>1 DEF Look, Goto, ThreadsOK, DataOK, Keys
  <2>3. Sees(t)'
    <3>1. \A s \in Streams : streams[s] = 0
      BY <1>2, <2>1 DEF Sees, StopAllSees
    <3>2. \A k \in Keys : sockets[k] \in open
      BY <1>2, <1>3, <2>1
    <3> QED  BY <2>1, <2>2, <3>1, <3>2 DEF Sees, StartSees, StopSees, StopAllSees
  <2>4. \A k \in SocketIDs : SocketOK(k)'
    BY <1>2, <1>3, <2>1 DEF SocketOK
  <2>5. OpenOK' /\ NoneLost'
    BY <1>2, <2>1 DEF OpenOK, NoneLost, lockVars
  <2> QED  BY <1>1, <1>2, <2>2, <2>3, <2>4, <2>5, AboutAllSockets
<1>7. ASSUME pc[t] = "closing"
      PROVE  /\ \A s \in Streams : streams[s] = 0
             /\ todo[t] \subseteq Keys /\ size[t] = Cardinality(Keys)
             /\ \A k \in Keys : sockets[k] \in open <=> k \in todo[t]
  BY <1>2, <1>7 DEF Sees, StopAllSees
<1>8. CASE CloseNext(t)
  <2>1. /\ pc[t] = "closing" /\ streams' = streams /\ sockets' = sockets /\ created' = created
        /\ UNCHANGED lockVars
    BY <1>8 DEF CloseNext, At
  <2>2. PICK k \in todo[t] : /\ open' = open \ {sockets[k]}
                             /\ Look(t, todo[t] \ {k}, "closing") /\ UNCHANGED size
    <3>1. PICK k \in todo[t] :
            IF sockets[k] \in open
              THEN /\ open' = open \ {sockets[k]}
                   /\ Look(t, todo[t] \ {k}, "closing")
                   /\ UNCHANGED size
              ELSE AfterStopAll(t) /\ UNCHANGED open
      BY <1>7, <1>8, <2>1 DEF CloseNext
    <3>2. sockets[k] \in open
      BY <1>7, <2>1
    <3> QED  BY <3>1, <3>2
  <2>3. /\ Alone(t) /\ pc'[t] = "closing" /\ req'[t] = req[t]
        /\ todo'[t] = todo[t] \ {k} /\ Keys' = Keys /\ k \in Keys /\ size'[t] = size[t]
    BY <1>2, <1>7, <2>1, <2>2, StepsAlone DEF Keys
  <2>4. \A j \in Keys : sockets[j] \in open' <=> j \in todo'[t]
    <3>1. \A j \in Keys : j # k => sockets[j] # sockets[k]
      BY <1>2, <2>3 DEF SocketOK
    <3> QED  BY <1>7, <2>1, <2>2, <2>3, <3>1
  <2>5. Sees(t)'
    BY <1>7, <2>1, <2>3, <2>4 DEF Sees, StartSees, StopSees, StopAllSees
  <2>6. \A j \in SocketIDs : SocketOK(j)'
    <3> SUFFICES ASSUME NEW j \in SocketIDs PROVE SocketOK(j)'
      OBVIOUS
    <3>1. sockets'[j] = 0 \/ sockets'[j] \in open' \/ Closes(t, j)'
      BY <1>2, <2>1, <2>3, <2>4 DEF Closes
    <3> QED  BY <1>2, <2>1, <3>1 DEF SocketOK
  <2>7. OpenOK' /\ NoneLost'
    BY <1>2, <2>1, <2>2 DEF OpenOK, NoneLost, lockVars
  <2> QED  BY <1>1, <1>2, <2>3, <2>5, <2>6, <2>7, AboutAllSockets DEF Alone
<1>9. CASE ForgetAll(t)
  <2>1. /\ pc[t] = "closing" /\ todo[t] = {} /\ AfterStopAll(t)
        /\ sockets' = [k \in SocketIDs |-> 0]
        /\ streams' = streams /\ created' = created /\ open' = open
        /\ UNCHANGED lockVars
    BY <1>9 DEF ForgetAll, At
  <2>2. open = {}
    <3> SUFFICES ASSUME NEW n \in open PROVE FALSE
      OBVIOUS
    <3>1. PICK k \in SocketIDs : sockets[k] = n
      BY <1>2 DEF OpenOK
    <3> QED  BY <1>2, <1>7, <2>1, <3>1
  <2>3. /\ Through(t) /\ Sees(t)'
        /\ \A u \in Threads : u # t =>
             pc'[u] = pc[u] /\ req'[u] = req[u] /\ todo'[u] = todo[u]
    BY <1>2, <2>1, AfterStopAllAlone, SeesNothing
  <2>4. \A k \in SocketIDs : SocketOK(k)'
    BY <1>2, <1>7, <2>1 DEF SocketOK
  <2>5. OpenOK' /\ NoneLost'
    BY <1>2, <2>1, <2>2 DEF OpenOK, NoneLost, lockVars
  <2> QED  BY <1>1, <1>2, <2>1, <2>2, <2>3, <2>4, <2>5, AboutAllSockets
<1> QED  BY <1>4, <1>5, <1>6, <1>8, <1>9 DEF _stopAllStreams

-----------------------------------------------------------------------------
(* The other steps: no socket is created, closed or forgotten *)

LEMMA NoSockets ==
  ASSUME ServerInv, SocketInv, UNCHANGED <<streams, sockets, created, open>>,
         Apart', Visits', NoneLost', pc'["main"] # "end" \/ pc'["main"] = pc["main"],
         \A t \in Actors :
           \/ pc'[t] = pc[t] /\ req'[t] = req[t] /\ todo'[t] = todo[t] /\ size'[t] = size[t]
           \/ pc[t] \notin Looking /\ pc'[t] \notin Looking
  PROVE  SocketInv'
<1>1. /\ streams' = streams /\ sockets' = sockets /\ created' = created /\ open' = open
  OBVIOUS
<1>2. \A t \in Actors : Sees(t)'
  <2> SUFFICES ASSUME NEW t \in Actors PROVE Sees(t)'
    OBVIOUS
  <2>1. CASE pc'[t] = pc[t] /\ req'[t] = req[t] /\ todo'[t] = todo[t] /\ size'[t] = size[t]
    <3>1. Untouched(Socket(t))
      BY <1>1 DEF Untouched
    <3>2. t \in Requests /\ pc[t] \in AboutStream => req[t].stream \in Streams
      BY DEF ServerInv, ThreadsOK
    <3>3. Sees(t)
      BY DEF SocketInv
    <3> QED  BY <2>1, <3>1, <3>2, <3>3, OthersSee
  <2>2. CASE pc'[t] \notin Looking
    BY <2>2, SeesNothing
  <2> QED  BY <2>1, <2>2
<1>3. \A k \in SocketIDs : SocketOK(k)'
  <2> SUFFICES ASSUME NEW k \in SocketIDs PROVE SocketOK(k)'
    OBVIOUS
  <2>1. ASSUME NEW t \in Actors, Closes(t, k) PROVE Closes(t, k)'
    <3>1. pc[t] \in Looking
      BY <2>1 DEF Closes, Looking
    <3>2. pc'[t] = pc[t] /\ req'[t] = req[t] /\ todo'[t] = todo[t]
      BY <3>1
    <3> QED  BY <2>1, <3>2 DEF Closes, Socket
  <2>2. SocketOK(k)
    BY DEF SocketInv
  <2> QED  BY <1>1, <2>1, <2>2 DEF SocketOK
<1>4. pc'["main"] = "end" => open' = {}
  BY <1>1 DEF SocketInv
<1>5. \A n \in open' : n <= created' /\ \E k \in SocketIDs : sockets'[k] = n
  BY <1>1 DEF SocketInv
<1> QED  BY <1>2, <1>3, <1>4, <1>5 DEF SocketInv

LEMMA InfoSockets ==
  ASSUME ServerInv, SocketInv, NEW r \in Requests, info(r), LeftAlone, UNCHANGED size
  PROVE  SocketInv'
<1>1. /\ r \in Threads \ {"main", "sampler", "worker"} /\ r \in Actors /\ ThreadsOK
      /\ "main" \in Threads /\ Apart /\ Visits /\ NoneLost
      /\ pc[r] \in {"info", "info2"} /\ (Done(r) \/ Stay(r, "info2"))
      /\ UNCHANGED <<dictVars, lockVars>>
  BY RequestFacts DEF ServerInv, SocketInv, info, At, Actors, Threads
<1>2. Alone(r) /\ \/ pc'[r] = "idle" /\ req'[r] = NoRequest
                  \/ pc'[r] = "info2" /\ req'[r] = req[r]
  BY <1>1, StepsAlone
<1>3. /\ pc["main"] \notin Last /\ pc'["main"] = pc["main"]
      /\ \A u \in Requests : u # r => pc'[u] = pc[u] /\ req'[u] = req[u]
  <2>1. \A u \in Requests : u \in Threads
    BY DEF Threads
  <2>2. pc["main"] \notin Last
    BY <1>1 DEF Apart
  <2> QED  BY <1>1, <1>2, <2>1, <2>2 DEF Alone
<1>4. Apart'
  <2>1. About(NoRequest) = {}
    BY DEF About, NoRequest
  <2>2. \A u \in Requests : About(req'[u]) \subseteq About(req[u])
    BY <1>2, <1>3, <2>1
  <2>3. \A u, v \in Requests : u # v => About(req'[u]) \cap About(req'[v]) = {}
    BY <1>1, <2>2 DEF Apart
  <2>4. ASSUME NEW u \in Requests
        PROVE  /\ pc'[u] \in AboutStream => req'[u].op \in {"start", "stop"}
               /\ pc'[u] \in Stopping => req'[u].op = "stopAll"
               /\ pc'[u] = "idle" => req'[u] = NoRequest
    BY <1>1, <1>2, <1>3 DEF Apart, AboutStream, Stopping
  <2> QED  BY <1>3, <2>3, <2>4 DEF Apart
<1>5. Visits'
  BY <1>1, <1>2, VisitsKept DEF Alone
<1>6. NoneLost' /\ UNCHANGED <<streams, sockets, created, open>>
  BY <1>1 DEF NoneLost, lockVars, dictVars
<1>7. \A t \in Actors :
        \/ pc'[t] = pc[t] /\ req'[t] = req[t] /\ todo'[t] = todo[t] /\ size'[t] = size[t]
        \/ pc[t] \notin Looking /\ pc'[t] \notin Looking
  BY <1>1, <1>2, ActorFacts DEF Alone, Looking
<1> QED  BY <1>3, <1>4, <1>5, <1>6, <1>7, NoSockets

\* A request that overlaps with none about the same socket.
LEMMA NewRequestSockets ==
  ASSUME ServerInv, SocketInv, NEW r \in Requests, NewRequest(r), LeftAlone, ~raced'
  PROVE  SocketInv'
<1>1. PICK q \in Ops : webApp(r, q)
  BY DEF NewRequest
<1>2. /\ r \in Threads \ {"main", "sampler", "worker"} /\ r \in Actors /\ ThreadsOK
      /\ "main" \in Threads /\ Apart /\ Visits /\ NoneLost
      /\ pc["main"] = "serving" /\ pc[r] = "idle"
      /\ req' = [req EXCEPT ![r] = q] /\ pc' = [pc EXCEPT ![r] = q.op]
      /\ \A u \in Requests \ {r} : About(req[u]) \cap About(q) = {}
      /\ UNCHANGED <<dictVars, lockVars, todo, size>>
  BY <1>1, RequestFacts
     DEF NewRequest, ServerInv, SocketInv, webApp, At, Goto, Actors, Threads
<1>3. /\ req'[r] = q /\ pc'[r] = q.op
      /\ \A u \in Threads : u # r => pc'[u] = pc[u] /\ req'[u] = req[u]
  BY <1>2 DEF ThreadsOK
<1>4. /\ \A u \in Requests : u # r => pc'[u] = pc[u] /\ req'[u] = req[u]
      /\ pc'["main"] = "serving" /\ "serving" \notin Last
  <2>1. \A u \in Requests : u \in Threads
    BY DEF Threads
  <2> QED  BY <1>2, <1>3, <2>1 DEF Last, StopFreq, Stopping
<1>5. q.op \in {"start", "stop", "stopAll", "info"}
  BY DEF Ops
<1>6. Apart'
  <2>1. \A u, v \in Requests : u # v => About(req'[u]) \cap About(req'[v]) = {}
    BY <1>2, <1>3, <1>4 DEF Apart
  <2>2. ASSUME NEW u \in Requests
        PROVE  /\ pc'[u] \in AboutStream => req'[u].op \in {"start", "stop"}
               /\ pc'[u] \in Stopping => req'[u].op = "stopAll"
               /\ pc'[u] = "idle" => req'[u] = NoRequest
    BY <1>2, <1>3, <1>4, <1>5 DEF Apart, AboutStream, Stopping
  <2> QED  BY <1>4, <2>1, <2>2 DEF Apart
<1>7. Visits'
  BY <1>2, <1>3, VisitsKept
<1>8. NoneLost' /\ UNCHANGED <<streams, sockets, created, open>>
  BY <1>2 DEF NoneLost, lockVars, dictVars
<1>9. \A t \in Actors :
        \/ pc'[t] = pc[t] /\ req'[t] = req[t] /\ todo'[t] = todo[t] /\ size'[t] = size[t]
        \/ pc[t] \notin Looking /\ pc'[t] \notin Looking
  BY <1>2, <1>3, <1>5, ActorFacts DEF Looking
<1> QED  BY <1>4, <1>6, <1>7, <1>8, <1>9, NoSockets

\* Sending does not raise, for what a callback visits has an open socket.
LEMMA PresentAreOpen ==
  ASSUME ServerInv, SocketInv, NEW s \in Streams, streams[s] # 0
  PROVE  streams[s] \in open
<1>1. PICK k \in SocketIDs : k = SocketOf[s]
  OBVIOUS
<1>2. SocketOK(k) /\ streams[s] = sockets[k]
  BY <1>1 DEF SocketInv, SocketOK
<1>3. ASSUME NEW t \in Actors, Closes(t, k)
      PROVE  FALSE
  <2>1. Sees(t)
    BY DEF SocketInv
  <2>2. pc[t] # "closing"
    BY <2>1 DEF Sees, StopAllSees
  <2>3. t \in Requests /\ pc[t] = "forget" /\ Socket(t) = k
    BY <1>3, <2>2 DEF Closes
  <2> QED  BY <1>1, <2>1, <2>3 DEF Sees, StopSees, Unused
<1> QED  BY <1>2, <1>3 DEF SocketOK

\* A step of the sampler or the worker is none of a request or main.
LEMMA CallbackSockets ==
  ASSUME ServerInv, SocketInv, NEW t \in {"sampler", "worker"},
         \A u \in Threads : u # t => pc'[u] = pc[u] /\ todo'[u] = todo[u],
         UNCHANGED <<streams, sockets, created, open, req, size>>, NoneLost', Visits'
  PROVE  SocketInv'
<1>1. /\ \A u \in Actors : u \in Threads /\ u # t
      /\ \A u \in Requests : u \in Actors /\ pc'[u] = pc[u]
      /\ pc'["main"] = pc["main"]
  BY ActorFacts DEF Actors, Threads
<1>2. Apart'
  BY <1>1 DEF SocketInv, Apart
<1> QED  BY <1>1, <1>2, NoSockets

LEMMA SamplerSockets ==
  ASSUME ServerInv, SocketInv, Orderly, power_data_updated
  PROVE  SocketInv'
<1> DEFINE t == "sampler"
<1>1. /\ t \in Threads /\ t # "worker" /\ ThreadsOK /\ LocksOK /\ Visits /\ NoneLost
      /\ DAQ \subseteq Streams /\ Present \cap DAQ = {s \in DAQ : streams[s] # 0}
  BY DEF ServerInv, SocketInv, Threads, DAQ, Present
<1>2. UNCHANGED <<streams, sockets, created, open, hardwareFreqStreamsLock, req, size>>
  BY DEF power_data_updated, power_begin, power_each, power_end, Stay, dictVars
<1>3. CASE power_begin
  <2>1. /\ todo' = [todo EXCEPT ![t] = Present \cap DAQ] /\ pc' = [pc EXCEPT ![t] = "each"]
        /\ streamsLock' = t
    BY <1>3 DEF power_begin, AcquireStreams, Goto
  <2>2. /\ \A u \in Threads : u # t => pc'[u] = pc[u] /\ todo'[u] = todo[u]
        /\ todo'[t] = Present \cap DAQ /\ "worker" \in Threads
    BY <1>1, <2>1 DEF ThreadsOK, Threads
  <2>3. Visits' /\ NoneLost'
    BY <1>1, <1>2, <2>1, <2>2 DEF Visits, NoneLost, At, DAQ
  <2> QED  BY <1>2, <2>2, <2>3, CallbackSockets
<1>4. CASE power_each
  <2>1. pc[t] = "each" /\ \A s \in todo[t] : s \in DAQ /\ streams[s] # 0
    BY <1>1, <1>4 DEF power_each, At, Visits
  <2>2. \A s \in todo[t] : ~ Fails(s)
    BY <1>1, <2>1, PresentAreOpen DEF Fails, Orderly
  <2>3. PICK s \in todo[t] :
          todo' = [todo EXCEPT ![t] = @ \ {s}] /\ UNCHANGED <<streamsLock, pc>>
    BY <1>4, <2>2 DEF power_each
  <2>4. /\ \A u \in Threads : u # t => pc'[u] = pc[u] /\ todo'[u] = todo[u]
        /\ todo'[t] \subseteq todo[t] /\ "worker" \in Threads
    BY <1>1, <2>3 DEF ThreadsOK, Threads
  <2>5. Visits' /\ NoneLost'
    BY <1>1, <1>2, <2>1, <2>3, <2>4 DEF Visits, NoneLost, At, DAQ
  <2> QED  BY <1>2, <2>4, <2>5, CallbackSockets
<1>5. CASE power_end
  <2>1. streamsLock' = "free" /\ pc' = [pc EXCEPT ![t] = "idle"] /\ todo' = todo
    BY <1>5 DEF power_end, Stay, Goto
  <2>2. /\ \A u \in Threads : u # t => pc'[u] = pc[u] /\ todo'[u] = todo[u]
        /\ pc'[t] = "idle" /\ "worker" \in Threads
    BY <1>1, <2>1 DEF ThreadsOK, Threads
  <2>3. Visits' /\ NoneLost'
    BY <1>1, <1>2, <2>1, <2>2 DEF Visits, NoneLost, At
  <2> QED  BY <1>2, <2>2, <2>3, CallbackSockets
<1> QED  BY <1>3, <1>4, <1>5 DEF power_data_updated

LEMMA HardwareSockets ==
  ASSUME ServerInv, SocketInv, Orderly, hardware_freq_data_updated
  PROVE  SocketInv'
<1> DEFINE t == "worker"
<1>1. /\ t \in Threads /\ t # "sampler" /\ ThreadsOK /\ LocksOK /\ Visits /\ NoneLost
      /\ Present \cap Hardware = {s \in Hardware : streams[s] # 0}
  BY DEF ServerInv, SocketInv, Threads, Present
<1>2. UNCHANGED <<streams, sockets, created, open, streamsLock, req, size>>
  BY DEF hardware_freq_data_updated, hardware_begin, hardware_each, hardware_end, Stay,
         dictVars
<1>3. CASE hardware_begin
  <2>1. /\ todo' = [todo EXCEPT ![t] = Present \cap Hardware]
        /\ pc' = [pc EXCEPT ![t] = "each"] /\ hardwareFreqStreamsLock' = t
    BY <1>3 DEF hardware_begin, AcquireHardware, Goto
  <2>2. /\ \A u \in Threads : u # t => pc'[u] = pc[u] /\ todo'[u] = todo[u]
        /\ todo'[t] = Present \cap Hardware /\ "sampler" \in Threads
    BY <1>1, <2>1 DEF ThreadsOK, Threads
  <2>3. Visits' /\ NoneLost'
    BY <1>1, <1>2, <2>1, <2>2 DEF Visits, NoneLost, At, DAQ
  <2> QED  BY <1>2, <2>2, <2>3, CallbackSockets
<1>4. CASE hardware_each
  <2>1. pc[t] = "each" /\ \A s \in todo[t] : s \in Hardware /\ streams[s] # 0
    BY <1>1, <1>4 DEF hardware_each, At, Visits
  <2>2. \A s \in todo[t] : ~ Fails(s)
    BY <1>1, <2>1, PresentAreOpen DEF Fails, Orderly
  <2>3. PICK s \in todo[t] :
          todo' = [todo EXCEPT ![t] = @ \ {s}] /\ UNCHANGED <<hardwareFreqStreamsLock, pc>>
    BY <1>4, <2>2 DEF hardware_each
  <2>4. /\ \A u \in Threads : u # t => pc'[u] = pc[u] /\ todo'[u] = todo[u]
        /\ todo'[t] \subseteq todo[t] /\ "sampler" \in Threads
    BY <1>1, <2>3 DEF ThreadsOK, Threads
  <2>5. Visits' /\ NoneLost'
    BY <1>1, <1>2, <2>1, <2>3, <2>4 DEF Visits, NoneLost, At, DAQ
  <2> QED  BY <1>2, <2>4, <2>5, CallbackSockets
<1>5. CASE hardware_end
  <2>1. hardwareFreqStreamsLock' = "free" /\ pc' = [pc EXCEPT ![t] = "loop"] /\ todo' = todo
    BY <1>5 DEF hardware_end, Stay, Goto
  <2>2. /\ \A u \in Threads : u # t => pc'[u] = pc[u] /\ todo'[u] = todo[u]
        /\ pc'[t] = "loop" /\ "sampler" \in Threads
    BY <1>1, <2>1 DEF ThreadsOK, Threads
  <2>3. Visits' /\ NoneLost'
    BY <1>1, <1>2, <2>1, <2>2 DEF Visits, NoneLost, At
  <2> QED  BY <1>2, <2>2, <2>3, CallbackSockets
<1> QED  BY <1>3, <1>4, <1>5 DEF hardware_freq_data_updated

\* A step of main or the worker outside of the streams.
LEMMA ElsewhereSockets ==
  ASSUME ServerInv, SocketInv, LeftAlone, NEW t \in {"main", "worker"}, NEW l, Goto(t, l),
         StreamsKept, pc[t] \notin Looking \cup {"end"}, l \notin Looking \cup {"end"},
         t = "worker" => l # "each",
         t = "main" /\ l \in Last => pc[t] \in Last \/ \A r \in Requests : pc[r] = "idle"
  PROVE  SocketInv'
<1>1. /\ t \in Threads /\ ThreadsOK /\ Apart /\ Visits /\ NoneLost
      /\ UNCHANGED <<dictVars, lockVars, req, todo, size>>
      /\ \A u \in Threads : pc'[u] = IF u = t THEN l ELSE pc[u]
      /\ \A u \in Requests : u \in Threads /\ u # t
      /\ {"main", "worker", "sampler"} \subseteq Threads
  BY DEF ServerInv, SocketInv, StreamsKept, Threads, ThreadsOK, Goto
<1>2. Apart'
  BY <1>1 DEF Apart
<1>3. Visits'
  BY <1>1 DEF Visits, LeftAlone, At
<1>4. NoneLost' /\ UNCHANGED <<streams, sockets, created, open>>
  BY <1>1 DEF NoneLost, lockVars, dictVars
<1>5. pc'["main"] # "end" \/ pc'["main"] = pc["main"]
  BY <1>1
<1>6. \A u \in Actors :
        \/ pc'[u] = pc[u] /\ req'[u] = req[u] /\ todo'[u] = todo[u] /\ size'[u] = size[u]
        \/ pc[u] \notin Looking /\ pc'[u] \notin Looking
  BY <1>1, ActorFacts
<1> QED  BY <1>2, <1>3, <1>4, <1>5, <1>6, NoSockets

LEMMA StopFreqSockets ==
  ASSUME ServerInv, SocketInv, LeftAlone, NEW t \in {"main", "worker"},
         NEW next \in {"off", "stopAll"}, F!stop(t, next), StreamsKept
  PROVE  SocketInv'
<1>1. PICK l \in StopFreq \cup {"crashed", "off", "stopAll"} : Goto(t, l)
  <2>1. F!AfterAssertion(t) \in {"crashed", "off"}
    BY DEF F!AfterAssertion
  <2>2. CASE F!AssertRunning(t)
    BY <2>1, <2>2 DEF F!AssertRunning, F!Goto, Goto, StopFreq
  <2>3. CASE F!Clear(t)
    BY <2>3 DEF F!Clear, F!Goto, Goto, StopFreq
  <2>4. CASE F!Join(t) \/ F!Wait(t) \/ F!Joined(t)
    BY <2>4 DEF F!Join, F!Wait, F!Joined, F!Goto, Goto, StopFreq
  <2>5. CASE F!StopCommand(t, next)
    BY <2>1, <2>5 DEF F!StopCommand, F!Goto, Goto, StopFreq
  <2> QED  BY <2>2, <2>3, <2>4, <2>5 DEF F!stop
<1>2. pc[t] \in StopFreq
  BY DEF F!stop, F!AssertRunning, F!Clear, F!Join, F!Wait, F!Joined, F!StopCommand,
         F!At, StopFreq
<1>3. pc[t] \in Last /\ pc[t] \notin Looking \cup {"end"} /\ l \notin Looking \cup {"end"}
      /\ l # "each"
  BY <1>1, <1>2 DEF Last, StopFreq, Looking
<1> QED  BY <1>1, <1>3, ElsewhereSockets

LEMMA StartFreqSockets ==
  ASSUME ServerInv, SocketInv, StartFreqServer, serial = "ok"
  PROVE  SocketInv'
<1>1. /\ ThreadsOK /\ Apart /\ Visits /\ NoneLost
      /\ {"main", "worker", "sampler"} \subseteq Threads
      /\ \A r \in Requests : r \in Threads \ {"main", "worker"}
      /\ \A r \in Actors : r \in Threads \ {"worker"}
  BY ActorFacts DEF ServerInv, SocketInv, Threads
<1>2. /\ pc["main"] = "start"
      /\ pc' = [pc EXCEPT !["main"] = "start_task", !["worker"] = "loop"]
      /\ UNCHANGED <<dictVars, lockVars, req, todo, size>>
  BY DEF StartFreqServer, F!start, F!At, StreamsKept
<1>3. \A u \in Threads : pc'[u] = IF u = "main" THEN "start_task"
                                  ELSE IF u = "worker" THEN "loop" ELSE pc[u]
  BY <1>1, <1>2 DEF ThreadsOK
<1>4. Apart'
  <2>1. pc'["main"] \notin Last /\ \A r \in Requests : pc'[r] = pc[r]
    BY <1>1, <1>3 DEF Last, StopFreq, Stopping
  <2> QED  BY <1>1, <1>2, <2>1 DEF Apart
<1>5. Visits'
  <2>1. pc'["sampler"] = pc["sampler"] /\ pc'["worker"] = "loop"
    BY <1>1, <1>3
  <2>2. todo' = todo /\ streams' = streams
    BY <1>2 DEF dictVars
  <2> QED  BY <1>1, <2>1, <2>2 DEF Visits, At
<1>6. NoneLost' /\ UNCHANGED <<streams, sockets, created, open>>
  BY <1>1, <1>2 DEF NoneLost, lockVars, dictVars
<1>7. \A u \in Actors :
        \/ pc'[u] = pc[u] /\ req'[u] = req[u] /\ todo'[u] = todo[u] /\ size'[u] = size[u]
        \/ pc[u] \notin Looking /\ pc'[u] \notin Looking
  <2> SUFFICES ASSUME NEW u \in Actors
               PROVE  \/ /\ pc'[u] = pc[u] /\ req'[u] = req[u]
                         /\ todo'[u] = todo[u] /\ size'[u] = size[u]
                      \/ pc[u] \notin Looking /\ pc'[u] \notin Looking
    OBVIOUS
  <2>1. CASE u = "main"
    <3>1. pc[u] = "start" /\ pc'[u] = "start_task"
      BY <1>1, <1>2, <1>3, <2>1
    <3> QED  BY <3>1 DEF Looking
  <2>2. CASE u # "main"
    <3>1. u \in Threads /\ u # "worker"
      BY <1>1
    <3>2. pc'[u] = pc[u]
      BY <1>3, <2>2, <3>1
    <3> QED  BY <1>2, <3>2
  <2> QED  BY <2>1, <2>2
<1>8. pc'["main"] # "end"
  BY <1>1, <1>3
<1> QED  BY <1>4, <1>5, <1>6, <1>7, <1>8, NoSockets

LEMMA MainSockets ==
  ASSUME ServerInv, SocketInv, LeftAlone, main \/ Shutdown
  PROVE  SocketInv'
<1>1. /\ {"start_task", "serving", "draining", "test_running", "assert", "stopAll"}
           \cap (Looking \cup {"end"}) = {}
      /\ {"serving", "draining"} \cap Last = {} /\ "test_running" \in Last
  BY DEF Looking, Last, StopFreq, Stopping
<1>2. CASE StartFreqServer
  <2>1. CASE serial # "ok"
    <3>1. pc["main"] = "start" /\ Goto("main", "crashed") /\ StreamsKept
      BY <1>2, <2>1 DEF StartFreqServer, F!start, F!At, F!Goto, Goto
    <3>2. "start" \notin Looking \cup {"end"} /\ "crashed" \notin Looking \cup {"end"} \cup Last
      BY DEF Looking, Last, StopFreq, Stopping
    <3> QED  BY <3>1, <3>2, ElsewhereSockets
  <2> QED  BY <1>2, <2>1, StartFreqSockets
<1>3. CASE StartTask
  <2>1. pc["main"] = "start_task" /\ Goto("main", "serving") /\ StreamsKept
    BY <1>3 DEF StartTask, At
  <2> QED  BY <1>1, <2>1, ElsewhereSockets
<1>4. CASE Shutdown
  <2>1. pc["main"] = "serving" /\ Goto("main", "draining") /\ StreamsKept
    BY <1>4 DEF Shutdown, At
  <2> QED  BY <1>1, <2>1, ElsewhereSockets
<1>5. CASE StopTask
  <2>1. pc["main"] = "draining" /\ Goto("main", "test_running") /\ StreamsKept
    BY <1>5 DEF StopTask, At
  <2>2. \A r \in Requests : pc[r] = "idle"
    BY <1>5 DEF StopTask, Blocked, SocketInv, NoneLost
  <2> QED  BY <1>1, <2>1, <2>2, ElsewhereSockets
<1>6. CASE TestRunning
  <2>1. /\ pc["main"] = "test_running" /\ StreamsKept
        /\ Goto("main", "assert") \/ Goto("main", "stopAll")
    BY <1>6 DEF TestRunning, At
  <2> QED  BY <1>1, <2>1, ElsewhereSockets
<1>7. CASE StopFreqServer
  BY <1>7, StopFreqSockets DEF StopFreqServer
<1>8. CASE StopAllStreams
  BY <1>8, StopAllSockets DEF StopAllStreams, Actors
<1> QED  BY <1>2, <1>3, <1>4, <1>5, <1>6, <1>7, <1>8 DEF main

LEMMA WorkerSockets ==
  ASSUME ServerInv, SocketInv, Orderly, LeftAlone, worker
  PROVE  SocketInv'
<1>1. CASE hardware_freq_data_updated
  BY <1>1, HardwareSockets
<1>2. CASE F!serve /\ StreamsKept
  <2>1. PICK l \in {"read", "off", "callback", "loop", "except", "assert"} :
          Goto("worker", l)
    BY <1>2 DEF F!serve, F!TestRunning, F!ReadLine, F!Except, F!Goto, Goto
  <2>2. pc["worker"] \in {"loop", "read", "except"}
    BY <1>2 DEF F!serve, F!TestRunning, F!ReadLine, F!Except, F!At
  <2>3. pc["worker"] \notin Looking \cup {"end"} /\ l \notin Looking \cup {"end"} /\ l # "each"
    BY <2>1, <2>2 DEF Looking
  <2> QED  BY <1>2, <2>1, <2>3, ElsewhereSockets
<1>3. CASE F!stop("worker", "off") /\ StreamsKept
  BY <1>3, StopFreqSockets
<1> QED  BY <1>1, <1>2, <1>3 DEF worker

LEMMA SocketStep ==
  ASSUME ServerInv, SocketInv, Orderly, ~raced', [Next]_vars
  PROVE  SocketInv'
<1>1. LeftAlone \/ UNCHANGED vars
  BY ServerStep
<1>2. CASE UNCHANGED vars
  <2>1. UNCHANGED <<dictVars, lockVars, req, todo, size, pc>>
    BY <1>2 DEF vars, streamVars, threadVars
  <2>2. UNCHANGED <<streams, sockets, created, open, streamsLock, hardwareFreqStreamsLock>>
    BY <2>1 DEF dictVars, lockVars
  <2>3. Apart' /\ Visits' /\ NoneLost'
    BY <2>1, <2>2 DEF SocketInv, Apart, Visits, NoneLost, At
  <2> QED  BY <2>1, <2>2, <2>3, NoSockets
<1>3. ASSUME LeftAlone, Next, ~ UNCHANGED vars
      PROVE  SocketInv'
  <2>1. CASE main \/ Shutdown
    BY <1>3, <2>1, MainSockets
  <2>2. CASE sampler
    BY <2>2, SamplerSockets DEF sampler
  <2>3. CASE worker
    BY <1>3, <2>3, WorkerSockets
  <2>4. ASSUME NEW r \in Requests, request(r) PROVE SocketInv'
    <3>1. RequestStep(r) /\ UNCHANGED <<freqVars, sampling, asked, raced>> /\ r \in Actors
      BY <2>4 DEF request, RequestStep, Actors
    <3>2. CASE _startStream(r) /\ UNCHANGED size
      BY <1>3, <3>1, <3>2, StartSockets
    <3>3. CASE _stopStream(r) /\ UNCHANGED size
      BY <1>3, <3>1, <3>3, StopSockets
    <3>4. CASE info(r) /\ UNCHANGED size
      BY <1>3, <3>4, InfoSockets
    <3>5. CASE _stopAllStreams(r)
      BY <1>3, <3>1, <3>5, StopAllSockets
    <3> QED  BY <3>1, <3>2, <3>3, <3>4, <3>5 DEF RequestStep
  <2>5. ASSUME NEW r \in Requests, NewRequest(r) PROVE SocketInv'
    BY <1>3, <2>5, NewRequestSockets
  <2>6. CASE Unplug
    <3>1. /\ UNCHANGED <<dictVars, lockVars, req, todo, size, pc>>
      BY <2>6 DEF Unplug, F!Unplug, StreamsKept
    <3>2. UNCHANGED <<streams, sockets, created, open, streamsLock, hardwareFreqStreamsLock>>
      BY <3>1 DEF dictVars, lockVars
    <3>3. Apart' /\ Visits' /\ NoneLost'
      BY <3>1, <3>2 DEF SocketInv, Apart, Visits, NoneLost, At
    <3> QED  BY <3>1, <3>2, <3>3, NoSockets
  <2> QED  BY <1>3, <2>1, <2>2, <2>3, <2>4, <2>5, <2>6 DEF Next
<1> QED  BY <1>1, <1>2, <1>3

\* Requests that have overlapped stay so.
LEMMA RacedStays == ServerInv /\ raced /\ [Next]_vars => raced'
<1> SUFFICES ASSUME ServerInv, raced, [Next]_vars PROVE raced'
  OBVIOUS
<1>1. CASE UNCHANGED raced
  BY <1>1
<1>2. ASSUME NEW r \in Requests, NewRequest(r) PROVE raced'
  BY <1>2 DEF NewRequest, webApp
<1>3. CASE main \/ Shutdown
  BY <1>1, <1>3 DEF main, Shutdown, StartFreqServer, StartTask, StopTask, TestRunning,
                    StopFreqServer, StopAllStreams, StreamsKept
<1>4. CASE sampler
  BY <1>1, <1>4 DEF sampler, power_data_updated, power_begin, power_each, power_end
<1>5. CASE worker
  BY <1>1, <1>5 DEF worker, hardware_freq_data_updated, hardware_begin, hardware_each,
                    hardware_end, StreamsKept
<1>6. ASSUME NEW r \in Requests, request(r) PROVE raced'
  BY <1>1, <1>6 DEF request, RequestStep
<1>7. CASE Unplug
  BY <1>1, <1>7 DEF Unplug, StreamsKept
<1>8. CASE UNCHANGED vars
  BY <1>1, <1>8 DEF vars, streamVars
<1> QED  BY <1>2, <1>3, <1>4, <1>5, <1>6, <1>7, <1>8 DEF Next

LEMMA SocketInit == Init => SocketInv
<1> SUFFICES ASSUME Init PROVE SocketInv
  OBVIOUS
<1>1. /\ streamsLock = "free" /\ hardwareFreqStreamsLock = "free"
      /\ pc = [t \in Threads |-> IF t = "main" THEN "start"
                                 ELSE IF t = "worker" THEN "off" ELSE "idle"]
      /\ req = [t \in Threads |-> NoRequest]
  BY DEF Init, StreamInit
<1>2. PICK logged \in {{}, {LogStream}} :
        /\ created = Cardinality(logged) /\ open = 1..created
        /\ streams = [s \in Streams |-> IF s \in logged THEN 1 ELSE 0]
        /\ sockets = [k \in SocketIDs |->
                        IF k \in {SocketOf[s] : s \in logged} THEN 1 ELSE 0]
  BY DEF Init, StreamInit
<1>3. /\ \A t \in Actors : pc[t] \in {"start", "idle"}
      /\ \A r \in Requests : pc[r] = "idle" /\ req[r] = NoRequest
      /\ pc["main"] = "start" /\ pc["sampler"] = "idle" /\ pc["worker"] = "off"
  BY <1>1 DEF Actors, Threads
<1>4. Apart
  <2>1. About(NoRequest) = {}
    BY DEF About, NoRequest
  <2> QED  BY <1>3, <2>1 DEF Apart, AboutStream, Stopping
<1>5. \A t \in Actors : Sees(t)
  BY <1>3 DEF Sees, StartSees, StopSees, StopAllSees
<1>6. Visits /\ NoneLost
  BY <1>1, <1>3 DEF Visits, NoneLost, At
<1>7. CASE logged = {}
  <2>1. created = 0 /\ open = {}
    BY <1>2, <1>7, FS_EmptySet
  <2>2. \A k \in SocketIDs : SocketOK(k)
    BY <1>2, <1>7, <2>1 DEF SocketOK
  <2> QED  BY <1>3, <1>4, <1>5, <1>6, <2>1, <2>2 DEF SocketInv
<1>8. CASE logged = {LogStream}
  <2>1. created = 1 /\ open = {1}
    <3>1. created = 1
      BY <1>2, <1>8, FS_Singleton
    <3> QED  BY <1>2, <3>1
  <2>2. /\ \A s \in Streams : streams[s] = IF s = LogStream THEN 1 ELSE 0
        /\ \A k \in SocketIDs : sockets[k] = IF k = SocketOf[LogStream] THEN 1 ELSE 0
    BY <1>2, <1>8
  <2>3. \A k \in SocketIDs : SocketOK(k)
    BY <2>1, <2>2 DEF SocketOK
  <2>4. SocketOf[LogStream] \in SocketIDs
    OBVIOUS
  <2> QED  BY <1>3, <1>4, <1>5, <1>6, <2>1, <2>2, <2>3, <2>4 DEF SocketInv
<1> QED  BY <1>7, <1>8

\* Every reachable state in orderly circumstances satisfies SocketInv.
THEOREM SocketInvariant == Spec => [](Orderly => SocketInv)
<1>1. ServerInv /\ (Orderly => SocketInv) /\ [Next]_vars => (Orderly => SocketInv)'
  <2> SUFFICES ASSUME ServerInv, Orderly => SocketInv, [Next]_vars, Orderly'
               PROVE  SocketInv'
    OBVIOUS
  <2>1. ~raced' /\ ~raced
    BY RacedStays DEF Orderly
  <2>2. Orderly
    BY <2>1 DEF Orderly, Shares
  <2> QED  BY <2>1, <2>2, SocketStep
<1> QED  BY <1>1, SocketInit, ServerInvariant, PTL DEF Spec

-----------------------------------------------------------------------------
(* The claims *)

\* Every reachable state is well typed (PowerMeasurementServer.py:142-153).
THEOREM TypeCorrect == Spec => []TypeOK
<1>1. ServerInv => TypeOK
  BY DEF ServerInv, DataOK, FreqOK, ThreadsOK, LocksOK, TypeOK, Holders, Threads
<1> QED  BY <1>1, ServerInvariant, PTL

\* A thread that holds a lock is inside the block that ends with its release
\* (PowerMeasurementServer.py:171-182 and 261-269), so that only an exception
\* there can keep the others waiting.
THEOREM HoldersAlwaysGoOn == Spec => []HoldersGoOn
<1>1. ASSUME ServerInv PROVE HoldersGoOn
  <2>1. LocksOK
    BY <1>1 DEF ServerInv
  <2> QED  BY <2>1 DEF HoldersGoOn, LocksOK, Threads
<1> QED  BY <1>1, ServerInvariant, PTL

\* No dictionary of streams changes while a callback visits it
\* (PowerMeasurementServer.py:177).
THEOREM ListsAreAlwaysLeftAlone == Spec => ListsAreLeftAlone
<1>1. ASSUME ServerInv, [Next]_vars
      PROVE  [/\ At("sampler", "each") =>
                   \A s \in DAQ : (streams'[s] = 0) = (streams[s] = 0)
              /\ At("worker", "each") =>
                   \A s \in Hardware : (streams'[s] = 0) = (streams[s] = 0)]_vars
  <2>1. LeftAlone \/ UNCHANGED vars
    BY <1>1, ServerStep
  <2> QED  BY <2>1 DEF LeftAlone
<1> QED  BY <1>1, ServerInvariant, PTL DEF Spec, ListsAreLeftAlone

\* As long as the requests about one socket come one after the other, no stream
\* raises by itself and the frequency worker's streams have their sockets to
\* themselves, every stream that runs has an open socket, although the socket is
\* tested, created, searched for users and closed outside of the locks
\* (PowerMeasurementServer.py:206-304).
THEOREM StreamsAlwaysHaveSockets == Spec => []StreamsHaveSockets
<1>1. ServerInv /\ (Orderly => SocketInv) => StreamsHaveSockets
  BY PresentAreOpen DEF StreamsHaveSockets, Present
<1> QED  BY <1>1, ServerInvariant, SocketInvariant, PTL

\* In the same circumstances no exception leaves a lock held for ever: neither
\* those of del and of the lookup of the socket in the blocks of the requests, nor
\* one of sendto in those of the callbacks (lines 171-182 and 261-289).
THEOREM LocksAreAlwaysReleased == Spec => []LocksReleased
<1>1. (Orderly => SocketInv) => LocksReleased
  BY DEF LocksReleased, SocketInv, NoneLost
<1> QED  BY <1>1, SocketInvariant, PTL

\* And when the program ends, it has closed every socket and log file it has
\* opened (lines 271-274).
THEOREM AllAreClosedAtExit == Spec => []ClosedAtExit
<1>1. (Orderly => SocketInv) => ClosedAtExit
  BY DEF ClosedAtExit, SocketInv
<1> QED  BY <1>1, SocketInvariant, PTL
=============================================================================
