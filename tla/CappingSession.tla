---------------------------- MODULE CappingSession ----------------------------
(***************************************************************************)
(* Power-capped experiments over multicast                                 *)
(* (src/profiling/bitSliceHadoop/bit-slice_powercap.sh and                 *)
(* bit-slice_powercap_monitored.sh).  On the hosts it reaches the script   *)
(* starts a pipeline: a listener                                           *)
(* (src/utilities/multicast_tool/multicast_listen.py) prints the datagrams *)
(* it gets, and the RAPL limiter (src/power_modulating_interfaces/rapl/    *)
(* pgtc.c) obeys the lines.  Nothing is acknowledged: caps and q are sent  *)
(* several times, and a pipeline that missed its q's survives the script,  *)
(* which sends q to such ones when it is started again.                    *)
(***************************************************************************)
EXTENDS Naturals, Sequences

CONSTANTS
  Hosts,
  Caps,          \* the caps of the experiments in their order, in watts
  LastCap,       \* the cap sent at the end
  Patient,       \* a sleep lasts until what was sent has been obeyed
  MaxSessions,   \* bound: how often the script is run
  MaxInterrupts  \* bound: Ctrl+C, in all sessions

ASSUME SessionAssumption ==
  /\ Caps \in Seq(Nat \ {0}) /\ Len(Caps) > 0 /\ LastCap \in Nat \ {0}
  /\ Patient \in BOOLEAN
  /\ MaxSessions \in Nat \ {0} /\ MaxInterrupts \in Nat

Factory == 0     \* the register has the limits of the factory
q       == 0     \* the line q; a cap p22 is the number 22
Watts   == {Caps[i] : i \in 1..Len(Caps)} \cup {LastCap}

\* One pipeline per host and session.
Pipelines == Hosts \X (1..MaxSessions)

VARIABLES
  session, at, index, trapSet, interrupts,    \* the script
  listener,   \* of each pipeline: "none", "starting", "up" or "closed"
  inbox,      \* datagrams in the socket of the listener
  pipe,       \* lines between the listener and the limiter
  limiter,    \* "none", "reading", "resetting", "closed", or "failed" at its start
  reg,        \* the package limit of each host
  missed      \* history: datagrams of the last batch that a listener did not get

scriptVars   == <<session, index, trapSet, interrupts>>
pipelineVars == <<listener, inbox, pipe, limiter, reg, missed>>
vars == <<scriptVars, at, pipelineVars>>

Own == {p \in Pipelines : p[2] = session}
Gone(p)   == limiter[p] \in {"closed", "failed"}
Closed(p) == listener[p] = "closed" /\ Gone(p)

-----------------------------------------------------------------------------
(* The pipelines *)

\* A limiter that finds no registers ends at once, and its listener does not notice
\* before it prints.
Start(p) ==
  /\ listener[p] = "starting"
  /\ listener' = [listener EXCEPT ![p] = "up"]
  /\ \E started \in {"reading", "failed"} : limiter' = [limiter EXCEPT ![p] = started]
  /\ UNCHANGED <<scriptVars, at, inbox, pipe, reg, missed>>

\* Seeded fault: a broken pipe goes unnoticed.
WritesOn(p) ==
  UNCHANGED listener /\ inbox' = [inbox EXCEPT ![p] = Tail(@)]
Closes(p) ==
  listener' = [listener EXCEPT ![p] = "closed"] /\ inbox' = [inbox EXCEPT ![p] = <<>>]

\* The listener prints a datagram; once the limiter has gone that fails.
Forward(p) ==
  /\ listener[p] = "up" /\ inbox[p] # <<>>
  /\ \/ /\ ~ Gone(p)
        /\ inbox' = [inbox EXCEPT ![p] = Tail(@)]
        /\ pipe' = [pipe EXCEPT ![p] = Append(@, Head(inbox[p]))]
        /\ UNCHANGED listener
     \/ /\ Gone(p)
        /\ Closes(p) /\ UNCHANGED pipe
  /\ UNCHANGED <<scriptVars, at, limiter, reg, missed>>

SetLimit(p) ==
  /\ reg' = [reg EXCEPT ![p[1]] = Head(pipe[p])] /\ UNCHANGED limiter

\* Seeded fault: q is not told from a word that means nothing.
Ignores(p) == UNCHANGED <<limiter, reg>>
Quits(p)   == limiter' = [limiter EXCEPT ![p] = "resetting"] /\ UNCHANGED reg

Obey(p) ==
  /\ limiter[p] = "reading" /\ pipe[p] # <<>>
  /\ pipe' = [pipe EXCEPT ![p] = Tail(@)]
  /\ \/ Head(pipe[p]) # q /\ SetLimit(p)
     \/ Head(pipe[p]) = q /\ Quits(p)
  /\ UNCHANGED <<scriptVars, at, listener, inbox, missed>>

\* Seeded fault: the limits stay as they are, as after SIGINT.
NoReset(p) == UNCHANGED reg
FactoryReset(p) == reg' = [reg EXCEPT ![p[1]] = Factory]

\* What is still in the pipe is lost.
Reset(p) ==
  /\ limiter[p] = "resetting"
  /\ limiter' = [limiter EXCEPT ![p] = "closed"]
  /\ pipe' = [pipe EXCEPT ![p] = <<>>]
  /\ FactoryReset(p)
  /\ UNCHANGED <<scriptVars, at, listener, inbox, missed>>

-----------------------------------------------------------------------------
(* Sending and sleeping *)

Pass(label, next) == at = label /\ at' = next

\* The count goes on, or begins with the first datagram of a batch.
Missed(p, first) == IF first THEN 0 ELSE missed[p]

\* A datagram reaches any of the listeners, each at most once.
Send(label, next, c, first) ==
  /\ Pass(label, next)
  /\ \E S \in SUBSET {p \in Pipelines : listener[p] = "up"} :
       /\ inbox' = [p \in Pipelines |-> IF p \in S THEN Append(inbox[p], c) ELSE inbox[p]]
       /\ missed' = [p \in Pipelines |->
                       IF p \in S THEN Missed(p, first) ELSE Missed(p, first) + 1]
  /\ UNCHANGED <<scriptVars, listener, pipe, limiter, reg>>

\* Seeded fault: the sleeps are left out.
Hurries == TRUE
Settled == \A p \in Pipelines :
             inbox[p] = <<>> /\ pipe[p] = <<>> /\ limiter[p] # "resetting"

Sleep(label, next) ==
  /\ Pass(label, next)
  /\ Patient => Settled
  /\ UNCHANGED <<scriptVars, pipelineVars>>

-----------------------------------------------------------------------------
(* The script *)

\* Send q 3x just in case the remote listeners are still running.
CloseOthers ==
  \/ Send("q1", "sleep_q1", q, TRUE)  \/ Sleep("sleep_q1", "q2")
  \/ Send("q2", "sleep_q2", q, FALSE) \/ Sleep("sleep_q2", "q3")
  \/ Send("q3", "sleep_q3", q, FALSE) \/ Sleep("sleep_q3", "launch")

\* Nobody waits for the pipelines to be up, nor asks whether ssh has reached the host.
\* The monitored script counts its hosts from 1 and so leaves out the first.
Launch ==
  /\ at = "launch" /\ at' = "p1"
  /\ \E Reached \in SUBSET Own :
       listener' = [p \in Pipelines |-> IF p \in Reached THEN "starting" ELSE listener[p]]
  /\ UNCHANGED <<scriptVars, inbox, pipe, limiter, reg, missed>>

\* Send it 3x, just in case.
SendCap ==
  LET c == Caps[index] IN
  \/ Send("p1", "sleep_p1", c, TRUE)  \/ Sleep("sleep_p1", "p2")
  \/ Send("p2", "sleep_p2", c, FALSE) \/ Sleep("sleep_p2", "p3")
  \/ Send("p3", "rest", c, FALSE)

\* The trap is set with the first queries, and stays.
Rest ==
  /\ at = "rest" /\ at' = "query" /\ trapSet' = TRUE
  /\ Patient => Settled
  /\ UNCHANGED <<session, index, interrupts, pipelineVars>>

RunQueries ==
  /\ at = "query"
  /\ \/ index < Len(Caps) /\ index' = index + 1 /\ at' = "p1"
     \/ index = Len(Caps) /\ UNCHANGED index /\ at' = "last_cap"
  /\ UNCHANGED <<session, trapSet, interrupts, pipelineVars>>

\* Just in case the "reset on exit" doesn't work; then q for the limiter, for the
\* listener, and one for good measure.
CloseDown ==
  \/ Send("last_cap", "sleep_last", LastCap, TRUE)
  \/ Sleep("sleep_last", "first_q")
  \/ Send("first_q", "sleep_first", q, TRUE)
  \/ Sleep("sleep_first", "second_q")
  \/ Send("second_q", "sleep_second", q, FALSE)
  \/ Sleep("sleep_second", "third_q")
  \/ Send("third_q", "wait", q, FALSE)

\* wait for every ssh that has reached its host.
Wait ==
  /\ at = "wait" /\ at' = "ended"
  /\ \A p \in Own : listener[p] = "none" \/ Closed(p)
  /\ UNCHANGED <<scriptVars, pipelineVars>>

Over == at \in {"ended", "killed", "exited"}

\* Ctrl+C reaches the script and what it waits for, not the commands in the
\* background.  In the trap it runs the trap again, or kills one sender, whose q is
\* then one of those that reach nobody.
Interrupt ==
  /\ ~ Over
  /\ interrupts < MaxInterrupts /\ interrupts' = interrupts + 1
  /\ at' = IF trapSet THEN "trap_q1" ELSE "killed"
  /\ UNCHANGED <<session, index, trapSet, pipelineVars>>

\* The trap says q twice without a pause.
Trap ==
  \/ Send("trap_q1", "trap_q2", q, TRUE) \/ Send("trap_q2", "exited", q, FALSE)

NextSession ==
  /\ Over /\ session < MaxSessions
  /\ session' = session + 1
  /\ at' = "q1" /\ index' = 1 /\ trapSet' = FALSE
  /\ UNCHANGED <<interrupts, pipelineVars>>

-----------------------------------------------------------------------------
Init ==
  /\ session = 1 /\ at = "q1"
  /\ index = 1 /\ trapSet = FALSE /\ interrupts = 0
  /\ listener = [p \in Pipelines |-> "none"] /\ limiter = [p \in Pipelines |-> "none"]
  /\ inbox = [p \in Pipelines |-> <<>>] /\ pipe = [p \in Pipelines |-> <<>>]
  /\ reg = [h \in Hosts |-> Factory] /\ missed = [p \in Pipelines |-> 0]

script ==
  \/ CloseOthers \/ Launch \/ SendCap \/ Rest \/ RunQueries \/ CloseDown \/ Wait \/ Trap
pipeline(p) == Start(p) \/ Forward(p) \/ Obey(p) \/ Reset(p)

Next == script \/ Interrupt \/ NextSession \/ \E p \in Pipelines : pipeline(p)

Spec == Init /\ [][Next]_vars

\* The script and the programs of the pipelines go on.
FairSpec == Spec /\ WF_vars(script) /\ \A p \in Pipelines : WF_vars(pipeline(p))

-----------------------------------------------------------------------------
Labels ==
  {"q1", "sleep_q1", "q2", "sleep_q2", "q3", "sleep_q3", "launch", "p1", "sleep_p1",
   "p2", "sleep_p2", "p3", "rest", "query", "last_cap", "sleep_last", "first_q",
   "sleep_first", "second_q", "sleep_second", "third_q", "wait", "ended", "killed",
   "trap_q1", "trap_q2", "exited"}

\* The type invariant: among others, a pipeline has a limiter once its listener is up,
\* and the pipe of a limiter that has gone is empty.
TypeOK ==
  /\ session \in 1..MaxSessions
  /\ at \in Labels /\ index \in 1..Len(Caps)
  /\ trapSet \in BOOLEAN /\ interrupts \in 0..MaxInterrupts
  /\ listener \in [Pipelines -> {"none", "starting", "up", "closed"}]
  /\ limiter \in [Pipelines -> {"none", "reading", "resetting", "closed", "failed"}]
  /\ inbox \in [Pipelines -> Seq(Watts \cup {q})]
  /\ pipe \in [Pipelines -> Seq(Watts \cup {q})]
  /\ reg \in [Hosts -> Watts \cup {Factory}]
  /\ missed \in [Pipelines -> 0..3]
  /\ \A p \in Pipelines :
       /\ listener[p] \in {"none", "starting"} <=> limiter[p] = "none"
       /\ limiter[p] \notin {"reading", "resetting"} => pipe[p] = <<>>
       /\ listener[p] # "up" => inbox[p] = <<>>

\* While the queries run, a host whose listener got one copy of the cap or more is
\* under that cap, whatever pipelines of earlier sessions still run
\* (bit-slice_powercap.sh:73: "Send it 3x, just in case").
QueriesCapped ==
  Patient /\ at = "query" =>
    \A p \in Own : listener[p] = "up" /\ missed[p] < 3 => reg[p[1]] = Caps[index]

\* Of three q's two are enough to close a pipeline that an earlier session has left
\* (bit-slice_powercap.sh:39-45).
OthersClosed ==
  Patient /\ at = "launch" =>
    \A p \in Pipelines : listener[p] # "none" /\ missed[p] < 2 => Closed(p)

\* A script that ends leaves a cap only on a host where it had no limiter of its own, and
\* where the limiter of an earlier session has missed the q's and still runs
\* (bit-slice_powercap.sh:146-166; pgtc.c:359-372).
NoCapLeft == Patient /\ at = "ended" =>
  \A h \in Hosts : reg[h] # Factory =>
    /\ limiter[<<h, session>>] \in {"none", "failed"}
    /\ \E p \in Pipelines : /\ p[1] = h /\ p[2] < session
                           /\ limiter[p] \in {"reading", "resetting"}

\* If the network loses at most one of the q's for a pipeline, the script ends
\* (bit-slice_powercap.sh:151-153: "The first q gets sent to the power controller, and
\* causes it to quit.  The second one (can be anything) causes the streamListener to
\* realize that it doesn't have an output stream, which causes it to quit").
WaitEnds ==
  (at = "wait" /\ \A p \in Own : listener[p] = "none" \/ missed[p] < 2 \/ Closed(p)) ~> Over

\* One q of the trap that was heard makes the limiter lift its cap.
QuitIsObeyed == \A p \in Pipelines :
  (at = "exited" /\ missed[p] < 2 /\ ~ Gone(p)) ~> (limiter[p] = "closed")
=============================================================================
