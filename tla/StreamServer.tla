---------------------------- MODULE StreamServer ----------------------------
(***************************************************************************)
(* The streams of the measurement server: two dictionaries of streams,     *)
(* each changed under a lock of its own, and a dictionary of sockets that  *)
(* no lock guards.  Request threads start and stop streams; the sampler    *)
(* and the frequency worker send the new data to every stream              *)
(* (src/remotePowerMeasurement/measurementServer).                         *)
(*                                                                         *)
(* A step is one access of a dictionary.  A lock that is acquired for a    *)
(* single access is acquired, used and released in one step; a thread that *)
(* an exception ends between acquire and release leaves it "lost".         *)
(***************************************************************************)
EXTENDS Integers, FiniteSets

CONSTANTS
  Requests,     \* the threads of the web server
  Streams,      \* stream identifiers address:port:uniqueid
  Hardware,     \* of these, the ones of type freq, estimator hardware
  LogStream,    \* the stream that --log sets up
  Raises,       \* the ones whose data_updated raises whatever the socket
  SocketIDs,    \* address:port
  SocketOf,     \* the socket identifier that a stream identifier begins with
  Extends,      \* of a socket, the sockets whose identifier begins with its own
  StreamLength, \* samples per packet of a stream
  SampleEvery,  \* samples per callback
  MaxSockets,   \* bound: how many sockets are ever created
  MaxRequests   \* bound: how many requests are made

Threads == Requests \cup {"main", "sampler", "worker"}

ASSUME StreamServerAssumption ==
  /\ Requests \cap {"main", "sampler", "worker", "free", "lost"} = {}
  /\ Hardware \subseteq Streams /\ Raises \subseteq Streams
  /\ LogStream \in Streams \ Hardware
  /\ SocketOf \in [Streams -> SocketIDs] /\ IsFiniteSet(SocketIDs)
  /\ Extends \in [SocketIDs -> SUBSET SocketIDs]
  /\ \A k \in SocketIDs : k \in Extends[k]
  /\ SampleEvery \in Nat \ {0}
  /\ StreamLength \in [Streams -> Nat \ {0}]
  /\ MaxSockets \in Nat \ {0} /\ MaxRequests \in Nat

VARIABLES
  streams,        \* streams and hardwareFreqStreams: of each stream its socket
  sockets,        \* of each identifier its socket, 0 if it has none
  created,        \* sockets created so far: they are 1..created
  open,           \* and the ones of them that are open
  streamsLock, hardwareFreqStreamsLock,
  currentUnstreamedLen,
  req,            \* the request of a thread, as [op, stream]
  todo,           \* what a loop of a thread has still to visit
  size,           \* of the dictionary of sockets, when its loop began
  pc,
  asked,          \* requests made
  raced           \* history: two requests about one socket overlapped

dictVars   == <<streams, sockets, created, open, currentUnstreamedLen>>
lockVars   == <<streamsLock, hardwareFreqStreamsLock>>
threadVars == <<req, todo, size, pc>>
streamVars == <<dictVars, lockVars, threadVars, asked, raced>>

NoRequest == [op |-> "none", stream |-> "none"]
Ops == [op : {"start", "stop"}, stream : Streams]
         \cup {[op |-> o, stream |-> "none"] : o \in {"stopAll", "info"}}

At(t, label)   == pc[t] = label
Goto(t, label) == pc' = [pc EXCEPT ![t] = label]

\* A request that is answered, or ended by an exception.
Done(r) == /\ pc' = [pc EXCEPT ![r] = "idle"]
           /\ req' = [req EXCEPT ![r] = NoRequest]
           /\ todo' = [todo EXCEPT ![r] = {}]
Stay(r, label) == Goto(r, label) /\ UNCHANGED <<req, todo>>
Look(r, at, label) == /\ Goto(r, label) /\ UNCHANGED req
                      /\ todo' = [todo EXCEPT ![r] = at]

Present == {s \in Streams : streams[s] # 0}
DAQ     == Streams \ Hardware

-----------------------------------------------------------------------------
(* The callbacks: power_data_updated of the sampler, and
   hardware_freq_data_updated of the frequency worker.  They hold their lock
   while they visit every stream. *)

Free(lock) == lock = "free"

AcquireStreams(t)  == Free(streamsLock) /\ streamsLock' = t
AcquireHardware(t) == Free(hardwareFreqStreamsLock) /\ hardwareFreqStreamsLock' = t

Unsent(n, s) == IF n >= StreamLength[s] THEN n - StreamLength[s] ELSE n

\* data_updated of PowerStream and LogStream sends when a packet is full;
\* sendto on a closed socket raises.
Sends(s) == currentUnstreamedLen[s] + SampleEvery >= StreamLength[s]
Fails(s) == s \in Raises \/ streams[s] \notin open

power_begin ==
  /\ At("sampler", "idle") /\ AcquireStreams("sampler")
  /\ todo' = [todo EXCEPT !["sampler"] = Present \cap DAQ]
  /\ Goto("sampler", "each")
  /\ UNCHANGED <<dictVars, hardwareFreqStreamsLock, req, size, asked, raced>>

power_each ==
  /\ At("sampler", "each")
  /\ \E s \in todo["sampler"] :
       /\ currentUnstreamedLen' = [currentUnstreamedLen EXCEPT ![s] =
            Unsent(@ + SampleEvery, s)]
       /\ IF Sends(s) /\ Fails(s)
            THEN /\ streamsLock' = "lost"
                 /\ todo' = [todo EXCEPT !["sampler"] = {}]
                 /\ Goto("sampler", "idle")
            ELSE /\ todo' = [todo EXCEPT !["sampler"] = @ \ {s}]
                 /\ UNCHANGED <<streamsLock, pc>>
  /\ UNCHANGED <<streams, sockets, created, open, hardwareFreqStreamsLock, req,
                 size, asked, raced>>

power_end ==
  /\ At("sampler", "each") /\ todo["sampler"] = {}
  /\ streamsLock' = "free" /\ Stay("sampler", "idle")
  /\ UNCHANGED <<dictVars, hardwareFreqStreamsLock, size, asked, raced>>

power_data_updated == power_begin \/ power_each \/ power_end

hardware_begin ==
  /\ At("worker", "callback") /\ AcquireHardware("worker")
  /\ todo' = [todo EXCEPT !["worker"] = Present \cap Hardware]
  /\ Goto("worker", "each")
  /\ UNCHANGED <<dictVars, streamsLock, req, size, asked, raced>>

\* HardwareFreqStream sends every time.
hardware_each ==
  /\ At("worker", "each")
  /\ \E s \in todo["worker"] :
       IF Fails(s)
         THEN /\ hardwareFreqStreamsLock' = "lost"
              /\ todo' = [todo EXCEPT !["worker"] = {}]
              /\ Goto("worker", "except")
         ELSE /\ todo' = [todo EXCEPT !["worker"] = @ \ {s}]
              /\ UNCHANGED <<hardwareFreqStreamsLock, pc>>
  /\ UNCHANGED <<dictVars, streamsLock, req, size, asked, raced>>

hardware_end ==
  /\ At("worker", "each") /\ todo["worker"] = {}
  /\ hardwareFreqStreamsLock' = "free" /\ Stay("worker", "loop")
  /\ UNCHANGED <<dictVars, streamsLock, size, asked, raced>>

hardware_freq_data_updated == hardware_begin \/ hardware_each \/ hardware_end

-----------------------------------------------------------------------------
(* _startStream *)

\* One access under the lock of the dictionary that holds s; an exception
\* there keeps the lock.
UnderLock(s) == IF s \in Hardware THEN Free(hardwareFreqStreamsLock)
                                  ELSE Free(streamsLock)
KeepLock(s) ==
  IF s \in Hardware
    THEN hardwareFreqStreamsLock' = "lost" /\ UNCHANGED streamsLock
    ELSE streamsLock' = "lost" /\ UNCHANGED hardwareFreqStreamsLock

AlreadyThere(s) == streams[s] # 0

TestStream(r) ==
  /\ At(r, "start")
  /\ IF AlreadyThere(req[r].stream) THEN Done(r) ELSE Stay(r, "socket")
  /\ UNCHANGED <<dictVars, lockVars>>

TestSocket(r) ==
  /\ At(r, "socket")
  /\ Stay(r, IF sockets[SocketOf[req[r].stream]] = 0 THEN "create" ELSE "add")
  /\ UNCHANGED <<dictVars, lockVars>>

\* A bad address: the request is refused.
CreateFails(r) ==
  /\ At(r, "create") /\ Done(r)
  /\ UNCHANGED <<dictVars, lockVars>>

CreateSocket(r) ==
  /\ At(r, "create") /\ Stay(r, "add")
  /\ created < MaxSockets
  /\ created' = created + 1
  /\ open' = open \cup {created + 1}
  /\ sockets' = [sockets EXCEPT ![SocketOf[req[r].stream]] = created + 1]
  /\ UNCHANGED <<streams, currentUnstreamedLen, lockVars>>

\* self.sockets[socketID] is looked up while the lock is held.
AddStream(r) ==
  LET s == req[r].stream
      k == SocketOf[s] IN
  /\ At(r, "add") /\ UnderLock(s) /\ Done(r)
  /\ IF sockets[k] = 0
       THEN KeepLock(s) /\ UNCHANGED <<streams, currentUnstreamedLen>>
       ELSE /\ streams' = [streams EXCEPT ![s] = sockets[k]]
            /\ currentUnstreamedLen' = [currentUnstreamedLen EXCEPT ![s] = 0]
            /\ UNCHANGED lockVars
  /\ UNCHANGED <<sockets, created, open>>

_startStream(r) ==
  TestStream(r) \/ TestSocket(r) \/ CreateFails(r) \/ CreateSocket(r)
    \/ AddStream(r)

-----------------------------------------------------------------------------
(* _stopStream *)

TestStop(r) ==
  /\ At(r, "stop")
  /\ IF streams[req[r].stream] = 0 THEN Done(r) ELSE Stay(r, "del")
  /\ UNCHANGED <<dictVars, lockVars>>

DeleteStream(r) ==
  LET s == req[r].stream IN
  /\ At(r, "del") /\ UnderLock(s)
  /\ IF streams[s] = 0
       THEN Done(r) /\ KeepLock(s) /\ UNCHANGED <<streams, currentUnstreamedLen>>
       ELSE /\ Stay(r, "users")
            /\ streams' = [streams EXCEPT ![s] = 0]
            /\ currentUnstreamedLen' = [currentUnstreamedLen EXCEPT ![s] = 0]
            /\ UNCHANGED lockVars
  /\ UNCHANGED <<sockets, created, open>>

\* Seeded fault: whether another stream uses the socket is not looked at.
NoUsers(k, among) == {}
Users(k, among) == {s \in among : SocketOf[s] \in Extends[k]}

\* Only self.streams is searched, and by prefix.
BeginFind(r) ==
  LET s == Present \cap DAQ IN
  /\ At(r, "users")
  /\ IF s = {} THEN Stay(r, "close") ELSE Look(r, s, "using")
  /\ UNCHANGED <<dictVars, lockVars>>

\* The loop ends at the first user; it raises when another thread has added
\* or removed a stream, unless _stopAllStreams has put a new dictionary there.
EndFind(r) ==
  /\ At(r, "using")
  /\ \/ /\ Users(SocketOf[req[r].stream], todo[r]) = {}
        /\ Stay(r, "close")
     \/ /\ \/ Users(SocketOf[req[r].stream], todo[r]) # {}
           \/ Cardinality(Present \cap DAQ) # Cardinality(todo[r])
        /\ Done(r)
  /\ UNCHANGED <<dictVars, lockVars>>

\* close raises for a socket that is closed, and the lookups if it is gone.
CloseSocket(r) ==
  LET k == SocketOf[req[r].stream] IN
  /\ At(r, "close")
  /\ IF sockets[k] \in open
       THEN open' = open \ {sockets[k]} /\ Stay(r, "forget")
       ELSE Done(r) /\ UNCHANGED open
  /\ UNCHANGED <<streams, sockets, created, currentUnstreamedLen, lockVars>>
ForgetSocket(r) ==
  /\ At(r, "forget") /\ Done(r)
  /\ sockets' = [sockets EXCEPT ![SocketOf[req[r].stream]] = 0]
  /\ UNCHANGED <<streams, created, open, currentUnstreamedLen, lockVars>>

_stopStream(r) ==
  \/ TestStop(r)    \/ DeleteStream(r) \/ BeginFind(r) \/ EndFind(r)
  \/ CloseSocket(r) \/ ForgetSocket(r)

-----------------------------------------------------------------------------
(* _stopAllStreams: both locks, in this order; the sockets after both *)

\* Seeded fault: the streams are taken away under the second lock only.
SkipFirst(t) == UNCHANGED streamsLock
TakeFirst(t) == AcquireStreams(t)

LockStreams(t) ==
  /\ At(t, "stopAll") /\ TakeFirst(t) /\ Stay(t, "clear")
  /\ UNCHANGED <<dictVars, hardwareFreqStreamsLock>>

\* Seeded fault: the second lock is not released.
ReleaseOne(t) == streamsLock' = "free" /\ hardwareFreqStreamsLock' = t
ReleaseBoth(t) == streamsLock' = "free" /\ hardwareFreqStreamsLock' = "free"

ClearStreams(t) ==
  /\ At(t, "clear") /\ Free(hardwareFreqStreamsLock) /\ ReleaseBoth(t)
  /\ streams' = [s \in Streams |-> 0]
  /\ currentUnstreamedLen' = [s \in Streams |-> 0]
  /\ Stay(t, "closeAll")
  /\ UNCHANGED <<sockets, created, open>>

\* Seeded fault: the sockets are forgotten without being closed.
NoKeys == {}
Keys == {k \in SocketIDs : sockets[k] # 0}
AfterStopAll(t) == /\ IF t = "main" THEN Stay(t, "end") ELSE Done(t)
                   /\ size' = [size EXCEPT ![t] = 0]

BeginClose(t) ==
  /\ At(t, "closeAll") /\ Look(t, Keys, "closing")
  /\ size' = [size EXCEPT ![t] = Cardinality(Keys)]
  /\ UNCHANGED <<dictVars, lockVars>>

\* The loop raises when the dictionary has gained or lost a key, when the
\* socket is gone, and when it is closed already.
CloseNext(t) ==
  /\ At(t, "closing")
  /\ IF Cardinality(Keys) # size[t]
       THEN AfterStopAll(t) /\ UNCHANGED open
       ELSE \E k \in todo[t] :
              IF sockets[k] \in open
                THEN /\ open' = open \ {sockets[k]}
                     /\ Look(t, todo[t] \ {k}, "closing")
                     /\ UNCHANGED size
                ELSE AfterStopAll(t) /\ UNCHANGED open
  /\ UNCHANGED <<streams, sockets, created, currentUnstreamedLen, lockVars>>
ForgetAll(t) ==
  /\ At(t, "closing") /\ todo[t] = {} /\ Cardinality(Keys) = size[t]
  /\ AfterStopAll(t)
  /\ sockets' = [k \in SocketIDs |-> 0]
  /\ UNCHANGED <<streams, created, open, currentUnstreamedLen, lockVars>>

_stopAllStreams(t) ==
  \/ (LockStreams(t) \/ ClearStreams(t)) /\ UNCHANGED size
  \/ BeginClose(t) \/ CloseNext(t) \/ ForgetAll(t)

-----------------------------------------------------------------------------
(* webApp: a request is taken up; info takes each lock in turn *)

About(q) == IF q.op \in {"start", "stop"} THEN {SocketOf[q.stream]}
            ELSE IF q.op = "stopAll" THEN SocketIDs ELSE {}

webApp(r, q) ==
  /\ At(r, "idle") /\ asked < MaxRequests
  /\ req' = [req EXCEPT ![r] = q] /\ Goto(r, q.op)
  /\ asked' = asked + 1
  /\ raced' = (raced \/ \E p \in Requests \ {r} :
                          About(req[p]) \cap About(q) # {})
  /\ UNCHANGED <<dictVars, lockVars, todo, size>>

info(r) ==
  /\ \/ At(r, "info")  /\ Free(streamsLock) /\ Stay(r, "info2")
     \/ At(r, "info2") /\ Free(hardwareFreqStreamsLock) /\ Done(r)
  /\ UNCHANGED <<dictVars, lockVars>>

RequestStep(r) ==
  /\ \/ (_startStream(r) \/ _stopStream(r) \/ info(r)) /\ UNCHANGED size
     \/ _stopAllStreams(r)
  /\ UNCHANGED <<asked, raced>>

\* With --log a stream and its file are there from the start.
StreamInit ==
  /\ \E logged \in {{}, {LogStream}} :
       /\ created = Cardinality(logged) /\ open = 1..created
       /\ streams = [s \in Streams |-> IF s \in logged THEN 1 ELSE 0]
       /\ sockets = [k \in SocketIDs |->
                       IF k \in {SocketOf[s] : s \in logged} THEN 1 ELSE 0]
  /\ streamsLock = "free" /\ hardwareFreqStreamsLock = "free"
  /\ currentUnstreamedLen = [s \in Streams |-> 0]
  /\ req = [t \in Threads |-> NoRequest]
  /\ todo = [t \in Threads |-> {}] /\ size = [t \in Threads |-> 0]
  /\ asked = 0 /\ raced = FALSE
=============================================================================
