------------------------- MODULE CappingSessionProofs -------------------------
(***************************************************************************)
(* Theorems about CappingSession, for any hosts, caps, numbers of sessions *)
(* and interrupts, and any losses of the network: typing, and, if the      *)
(* sleeps of the script are long enough, that the queries run under their  *)
(* cap, that two q's close what an earlier session has left, and that a    *)
(* script that ends leaves no cap where it had a limiter.                  *)
(***************************************************************************)
EXTENDS CappingSession, SequenceTheorems, TLAPS

-----------------------------------------------------------------------------
(* The inductive invariant *)

BeforeLaunch == {"q1", "sleep_q1", "q2", "sleep_q2", "q3", "sleep_q3", "launch"}
Capping      == {"p1", "sleep_p1", "p2", "sleep_p2", "p3", "rest", "query", "last_cap",
                 "sleep_last"}
Closing      == {"first_q", "sleep_first", "second_q", "sleep_second", "third_q", "wait",
                 "ended"}

\* The pipelines of sessions to come are not there yet.
Unborn == \A p \in Pipelines :
  p[2] > session \/ (p[2] = session /\ at \in BeforeLaunch) => listener[p] = "none"

\* A batch misses no more datagrams than have been sent.
SentOnce  == {"sleep_q1", "q2", "sleep_p1", "p2", "sleep_first", "second_q", "trap_q2"}
SentTwice == {"sleep_q2", "q3", "sleep_p2", "p3", "sleep_second", "third_q"}
MissedInv == \A p \in Pipelines :
  /\ at \in SentOnce  => missed[p] < 2
  /\ at \in SentTwice => missed[p] < 3

TypeInv == TypeOK /\ Unborn /\ MissedInv

\* After a sleep nothing is under way.
QuietInv == at \in {"launch", "p1", "query", "last_cap"} => Settled

\* The limiter of p has obeyed q or will; its listener has closed or will.
HasQ(s)    == \E i \in 1..Len(s) : s[i] = q
Told(p)    == limiter[p] = "resetting" \/ Gone(p) \/ HasQ(inbox[p]) \/ HasQ(pipe[p])
Leaving(p) == Gone(p) /\ (listener[p] = "closed" \/ inbox[p] # <<>>)

\* The three q's at the start, one after the other.
OthersInv == \A p \in Pipelines : listener[p] # "none" =>
  /\ at = "sleep_q1" /\ missed[p] = 0 => Told(p)
  /\ at = "q2"       /\ missed[p] = 0 => Gone(p)
  /\ at = "sleep_q2" /\ missed[p] = 0 => Leaving(p)
  /\ at = "sleep_q2" /\ missed[p] = 1 => Told(p)
  /\ at = "q3"       /\ missed[p] = 0 => Closed(p)
  /\ at = "q3"       /\ missed[p] = 1 => Gone(p)
  /\ at = "sleep_q3" /\ missed[p] < 2 => Leaving(p)
  /\ at = "launch"   /\ missed[p] < 2 => Closed(p)

\* The pipelines of the session hear no q before it closes down.
OwnInv == at \in Capping => \A p \in Own :
  /\ limiter[p] \in {"none", "reading", "failed"}
  /\ inbox[p] \in Seq(Watts) /\ pipe[p] \in Seq(Watts)

\* Between the first datagram of a cap and the queries only that cap is under way, and a
\* pipeline that heard it has obeyed it or will, or has no limiter.
CapInv == at \in {"sleep_p1", "p2", "sleep_p2", "p3", "rest"} => \A p \in Pipelines :
  /\ limiter[p] # "resetting"
  /\ inbox[p] \in Seq({Caps[index]}) /\ pipe[p] \in Seq({Caps[index]})

Heard(p) == \/ at \in {"sleep_p1", "p2"} /\ missed[p] < 1
            \/ at \in {"sleep_p2", "p3"} /\ missed[p] < 2
            \/ at \in {"rest", "query"}  /\ missed[p] < 3
HeardInv == \A p \in Own :
  Heard(p) => \/ listener[p] = "closed"
              \/ inbox[p] # <<>> \/ pipe[p] # <<>> \/ reg[p[1]] = Caps[index]

\* While the session closes down only q is under way, and a limiter of the session that
\* has closed has lifted the cap.
ClosingInv == at \in Closing =>
  /\ \A p \in Pipelines : inbox[p] \in Seq({q}) /\ pipe[p] \in Seq({q})
  /\ \A p \in Own : limiter[p] = "closed" => reg[p[1]] = Factory
  /\ at = "ended" => \A p \in Own : listener[p] = "none" \/ Closed(p)

\* Whoever set a cap still runs, or somebody else on that host who will lift it.
CapHeld == \A h \in Hosts : reg[h] # Factory =>
  \E p \in Pipelines : p[1] = h /\ limiter[p] \in {"reading", "resetting"}

SessionInv == /\ TypeInv /\ QuietInv /\ OthersInv /\ OwnInv
              /\ CapInv /\ HeardInv /\ ClosingInv

-----------------------------------------------------------------------------
(* Typing *)

Lines == Watts \cup {q}

LEMMA WattsAreCaps == Watts \subseteq Nat \ {0} /\ LastCap \in Watts
                      /\ \A i \in 1..Len(Caps) : Caps[i] \in Watts
BY SessionAssumption, ElementOfSeq DEF Watts

LEMMA HeadTail == ASSUME NEW V, NEW s \in Seq(V), s # <<>>
                  PROVE  Head(s) \in V /\ Tail(s) \in Seq(V)
BY HeadTailProperties

LEMMA InitTyped == Init => TypeInv
<1> SUFFICES ASSUME Init PROVE TypeInv
  OBVIOUS
<1> USE SessionAssumption DEF Init
<1>1. <<>> \in Seq(Watts \cup {q})
  OBVIOUS
<1>2. /\ session \in 1..MaxSessions /\ at \in Labels /\ index \in 1..Len(Caps)
      /\ interrupts \in 0..MaxInterrupts /\ Len(Caps) \in Nat
  BY LenProperties DEF Labels
<1>3. /\ listener \in [Pipelines -> {"none", "starting", "up", "closed"}]
      /\ limiter \in [Pipelines -> {"none", "reading", "resetting", "closed", "failed"}]
      /\ inbox \in [Pipelines -> Seq(Watts \cup {q})]
      /\ pipe \in [Pipelines -> Seq(Watts \cup {q})]
      /\ reg \in [Hosts -> Watts \cup {Factory}]
      /\ missed \in [Pipelines -> 0..3]
  BY <1>1
<1>4. trapSet \in BOOLEAN
  OBVIOUS
<1>5. \A p \in Pipelines :
       /\ listener[p] \in {"none", "starting"} <=> limiter[p] = "none"
       /\ limiter[p] \notin {"reading", "resetting"} => pipe[p] = <<>>
       /\ listener[p] # "up" => inbox[p] = <<>>
  OBVIOUS
<1>6. Unborn /\ MissedInv
  BY DEF Unborn, MissedInv, SentOnce, SentTwice
<1> QED
  BY <1>2, <1>3, <1>4, <1>5, <1>6 DEF TypeInv, TypeOK

LEMMA PipelineTyped == ASSUME TypeInv, NEW p \in Pipelines, pipeline(p) PROVE TypeInv'
<1> USE DEF TypeInv
<1>1. UNCHANGED <<scriptVars, at, missed>>
  BY DEF pipeline, Start, Forward, Obey, Reset
<1>2. TypeOK'
  <2> USE DEF TypeOK, scriptVars
  <2>1. CASE Start(p)
    BY <1>1, <2>1 DEF Start
  <2>2. CASE Forward(p)
    <3>1. Head(inbox[p]) \in Lines /\ Tail(inbox[p]) \in Seq(Lines)
      BY <2>2, HeadTail DEF Forward, Lines
    <3>2. Append(pipe[p], Head(inbox[p])) \in Seq(Lines) /\ <<>> \in Seq(Lines)
      BY <3>1, AppendProperties DEF Lines
    <3>3. UNCHANGED <<reg, limiter>> /\ listener[p] = "up"
      BY <2>2 DEF Forward
    <3>4. CASE ~ Gone(p)
      <4>1. /\ inbox' = [inbox EXCEPT ![p] = Tail(@)] /\ UNCHANGED listener
            /\ pipe' = [pipe EXCEPT ![p] = Append(@, Head(inbox[p]))]
        BY <2>2, <3>4 DEF Forward
      <4>2. limiter[p] \in {"reading", "resetting"}
        BY <3>3, <3>4 DEF Gone
      <4>3. /\ inbox' \in [Pipelines -> Seq(Watts \cup {q})]
            /\ pipe' \in [Pipelines -> Seq(Watts \cup {q})]
        BY <3>1, <3>2, <4>1 DEF Lines
      <4> QED
        BY <1>1, <3>3, <4>1, <4>2, <4>3
    <3>5. CASE Gone(p)
      <4>1. Closes(p) /\ UNCHANGED pipe
        BY <2>2, <3>5 DEF Forward
      <4> QED
        BY <1>1, <3>2, <3>3, <3>5, <4>1 DEF Closes, Lines, Gone
    <3> QED
      BY <3>4, <3>5
  <2>3. CASE Obey(p)
    <3>1. Head(pipe[p]) \in Lines /\ Tail(pipe[p]) \in Seq(Lines) /\ p[1] \in Hosts
      BY <2>3, HeadTail DEF Obey, Lines, Pipelines
    <3> QED
      BY <1>1, <2>3, <3>1 DEF Obey, SetLimit, Quits, Lines
  <2>4. CASE Reset(p)
    <3>1. <<>> \in Seq(Lines) /\ p[1] \in Hosts
      BY DEF Pipelines
    <3> QED
      BY <1>1, <2>4, <3>1 DEF Reset, FactoryReset, Lines
  <2> QED
    BY <2>1, <2>2, <2>3, <2>4 DEF pipeline
<1>3. \A r \in Pipelines : listener[r] = "none" => listener'[r] = "none"
  BY DEF pipeline, Start, Forward, Closes, Obey, Reset, TypeOK
<1>4. Unborn' /\ MissedInv'
  BY <1>1, <1>3 DEF Unborn, MissedInv, scriptVars
<1> QED
  BY <1>2, <1>4

\* What the script does to the pipelines when it sends a line.
Sent(c, first) ==
  /\ \E S \in SUBSET {p \in Pipelines : listener[p] = "up"} :
       /\ inbox' = [p \in Pipelines |-> IF p \in S THEN Append(inbox[p], c) ELSE inbox[p]]
       /\ missed' = [p \in Pipelines |->
                       IF p \in S THEN Missed(p, first) ELSE Missed(p, first) + 1]
  /\ UNCHANGED <<scriptVars, listener, pipe, limiter, reg>>

LEMMA SentTyped ==
  ASSUME TypeOK, NEW c \in Lines, NEW first \in BOOLEAN, at' \in Labels,
         Sent(c, first),
         first \/ \A p \in Pipelines : missed[p] < 3
  PROVE  TypeOK'
<1> USE DEF TypeOK, scriptVars, Lines
<1>1. \A p \in Pipelines : Append(inbox[p], c) \in Seq(Lines)
  BY AppendProperties
<1>2. PICK S \in SUBSET {p \in Pipelines : listener[p] = "up"} :
        /\ inbox' = [p \in Pipelines |->
                       IF p \in S THEN Append(inbox[p], c) ELSE inbox[p]]
        /\ missed' = [p \in Pipelines |->
                        IF p \in S THEN Missed(p, first) ELSE Missed(p, first) + 1]
  BY DEF Sent
<1>3. \A p \in Pipelines : Missed(p, first) \in 0..2
  BY DEF Missed
<1>4. missed' \in [Pipelines -> 0..3] /\ inbox' \in [Pipelines -> Seq(Watts \cup {q})]
  BY <1>1, <1>2, <1>3
<1>5. \A p \in Pipelines : listener[p] # "up" => inbox'[p] = <<>>
  BY <1>2
<1> QED
  BY <1>4, <1>5 DEF Sent

\* What a step of the script does that sends a line.
LEMMA SendReaches ==
  ASSUME NEW label, NEW next, NEW c, NEW first, Send(label, next, c, first)
  PROVE  at = label /\ at' = next /\ Sent(c, first)
BY DEF Send, Pass, Sent

\* A line is sent in its turn: the first of a batch, the second, or a third.
LEMMA SendsTyped ==
  ASSUME TypeInv, NEW c \in Lines, NEW first \in BOOLEAN, at' \in Labels,
         Sent(c, first),
         first \/ at \in SentOnce \cup SentTwice,
         at' \in SentOnce => first,
         at' \in SentTwice => at \in SentOnce,
         at' \in BeforeLaunch => at \in BeforeLaunch
  PROVE  TypeInv'
<1> USE DEF TypeInv
<1>1. \A p \in Pipelines : missed[p] \in 0..3
  BY DEF TypeOK
<1>2. first \/ \A p \in Pipelines : missed[p] < 3
  BY <1>1 DEF MissedInv
<1>3. TypeOK'
  BY <1>2, SentTyped
<1>4. Unborn'
  BY DEF Unborn, Sent, scriptVars
<1>5. \A p \in Pipelines : missed'[p] \in {Missed(p, first), Missed(p, first) + 1}
  BY DEF Sent
<1>6. MissedInv'
  BY <1>1, <1>5 DEF MissedInv, Missed
<1> QED
  BY <1>3, <1>4, <1>6

\* A step of the script that leaves the pipelines alone.
LEMMA PausesTyped ==
  ASSUME TypeInv, UNCHANGED pipelineVars, at' \in Labels,
         session' = session \/ (session' \in 1..MaxSessions /\ session' = session + 1),
         index' \in 1..Len(Caps), trapSet' \in BOOLEAN, interrupts' \in 0..MaxInterrupts,
         at' \in SentOnce => at \in SentOnce,
         at' \in SentTwice => at \in SentTwice,
         at' \in BeforeLaunch => at \in BeforeLaunch \/ session' = session + 1
  PROVE  TypeInv'
<1> USE DEF TypeInv, pipelineVars
<1>1. session \in Nat /\ session' \in 1..MaxSessions /\ \A p \in Pipelines : p[2] \in Nat
  BY SessionAssumption DEF TypeOK, Pipelines
<1>2. TypeOK'
  BY <1>1 DEF TypeOK
<1>3. Unborn'
  BY <1>1 DEF Unborn
<1>4. MissedInv'
  BY DEF MissedInv
<1> QED
  BY <1>2, <1>3, <1>4

LEMMA LaunchTyped == TypeInv /\ Launch => TypeInv'
<1> SUFFICES ASSUME TypeInv, Launch PROVE TypeInv'
  OBVIOUS
<1> USE DEF TypeInv, Launch, scriptVars
<1>1. \A p \in Own : listener[p] = "none"
  BY DEF Unborn, Own, BeforeLaunch
<1>2. TypeOK'
  BY <1>1 DEF TypeOK, Labels, Own
<1>3. \A p \in Pipelines : p[2] \in Nat /\ session \in Nat
  BY SessionAssumption DEF TypeOK, Pipelines
<1>4. Unborn'
  BY <1>3 DEF Unborn, Own, BeforeLaunch, TypeOK
<1>5. MissedInv'
  BY DEF MissedInv, SentOnce, SentTwice
<1> QED
  BY <1>2, <1>4, <1>5

LEMMA CapsAreLines == q \in Lines /\ LastCap \in Lines /\ (TypeOK => Caps[index] \in Lines)
BY WattsAreCaps DEF TypeOK, Lines

\* The labels of a send.
LEMMA SendsMove ==
  ASSUME TypeInv, NEW label, NEW next, NEW c \in Lines, NEW first \in BOOLEAN,
         Send(label, next, c, first),
         next \in Labels, first \/ label \in SentOnce \cup SentTwice,
         next \in SentOnce => first, next \in SentTwice => label \in SentOnce,
         next \in BeforeLaunch => label \in BeforeLaunch
  PROVE  TypeInv'
BY SendReaches, SendsTyped

LEMMA SleepsTyped ==
  ASSUME TypeInv, NEW label, NEW next, Sleep(label, next), next \in Labels,
         next \in SentOnce => label \in SentOnce,
         next \in SentTwice => label \in SentTwice,
         next \in BeforeLaunch => label \in BeforeLaunch
  PROVE  TypeInv'
<1>1. /\ at = label /\ at' = next
      /\ UNCHANGED <<session, index, trapSet, interrupts>>
      /\ UNCHANGED pipelineVars
  BY DEF Sleep, Pass, scriptVars
<1>2. index' \in 1..Len(Caps) /\ trapSet' \in BOOLEAN /\ interrupts' \in 0..MaxInterrupts
  BY <1>1 DEF TypeInv, TypeOK
<1> QED
  BY <1>1, <1>2, PausesTyped

LEMMA CloseOthersTyped == TypeInv /\ CloseOthers => TypeInv'
<1> SUFFICES ASSUME TypeInv, CloseOthers PROVE TypeInv'
  OBVIOUS
<1> USE CapsAreLines, SendsMove, SleepsTyped
        DEF Labels, SentOnce, SentTwice, BeforeLaunch
<1>1. CASE Send("q1", "sleep_q1", q, TRUE)
  BY <1>1
<1>2. CASE Sleep("sleep_q1", "q2")
  BY <1>2
<1>3. CASE Send("q2", "sleep_q2", q, FALSE)
  BY <1>3
<1>4. CASE Sleep("sleep_q2", "q3")
  BY <1>4
<1>5. CASE Send("q3", "sleep_q3", q, FALSE)
  BY <1>5
<1>6. CASE Sleep("sleep_q3", "launch")
  BY <1>6
<1> QED
  BY <1>1, <1>2, <1>3, <1>4, <1>5, <1>6 DEF CloseOthers

LEMMA SendCapTyped == TypeInv /\ SendCap => TypeInv'
<1> SUFFICES ASSUME TypeInv, SendCap PROVE TypeInv'
  OBVIOUS
<1>c. Caps[index] \in Lines
  BY CapsAreLines DEF TypeInv
<1> USE <1>c, SendsMove, SleepsTyped DEF Labels, SentOnce, SentTwice, BeforeLaunch
<1>1. CASE Send("p1", "sleep_p1", Caps[index], TRUE)
  BY <1>1
<1>2. CASE Sleep("sleep_p1", "p2")
  BY <1>2
<1>3. CASE Send("p2", "sleep_p2", Caps[index], FALSE)
  BY <1>3
<1>4. CASE Sleep("sleep_p2", "p3")
  BY <1>4
<1>5. CASE Send("p3", "rest", Caps[index], FALSE)
  BY <1>5
<1> QED
  BY <1>1, <1>2, <1>3, <1>4, <1>5 DEF SendCap

LEMMA CloseDownTyped == TypeInv /\ CloseDown => TypeInv'
<1> SUFFICES ASSUME TypeInv, CloseDown PROVE TypeInv'
  OBVIOUS
<1> USE CapsAreLines, SendsMove, SleepsTyped
        DEF Labels, SentOnce, SentTwice, BeforeLaunch
<1>1. CASE Send("last_cap", "sleep_last", LastCap, TRUE)
  BY <1>1
<1>2. CASE Sleep("sleep_last", "first_q")
  BY <1>2
<1>3. CASE Send("first_q", "sleep_first", q, TRUE)
  BY <1>3
<1>4. CASE Sleep("sleep_first", "second_q")
  BY <1>4
<1>5. CASE Send("second_q", "sleep_second", q, FALSE)
  BY <1>5
<1>6. CASE Sleep("sleep_second", "third_q")
  BY <1>6
<1>7. CASE Send("third_q", "wait", q, FALSE)
  BY <1>7
<1> QED
  BY <1>1, <1>2, <1>3, <1>4, <1>5, <1>6, <1>7 DEF CloseDown

LEMMA TrapTyped == TypeInv /\ Trap => TypeInv'
<1> SUFFICES ASSUME TypeInv, Trap PROVE TypeInv'
  OBVIOUS
<1> USE CapsAreLines, SendsMove DEF Labels, SentOnce, SentTwice, BeforeLaunch
<1>1. CASE Send("trap_q1", "trap_q2", q, TRUE)
  BY <1>1
<1>2. CASE Send("trap_q2", "exited", q, FALSE)
  BY <1>2
<1> QED
  BY <1>1, <1>2 DEF Trap

LEMMA NextSessionTyped == TypeInv /\ NextSession => TypeInv'
<1> SUFFICES ASSUME TypeInv, NextSession PROVE TypeInv'
  OBVIOUS
<1>1. /\ session' = session + 1 /\ session' \in 1..MaxSessions
      /\ at' = "q1" /\ UNCHANGED pipelineVars
  BY SessionAssumption DEF NextSession, TypeInv, TypeOK
<1>2. Len(Caps) \in Nat /\ Len(Caps) > 0
  BY SessionAssumption, LenProperties
<1>3. index' \in 1..Len(Caps) /\ trapSet' \in BOOLEAN /\ interrupts' \in 0..MaxInterrupts
  <2>1. index' = 1 /\ trapSet' = FALSE /\ interrupts' = interrupts
    BY DEF NextSession
  <2>2. interrupts \in 0..MaxInterrupts
    BY DEF TypeInv, TypeOK
  <2>3. index' \in 1..Len(Caps)
    BY <1>2, <2>1
  <2> QED
    BY <2>1, <2>2, <2>3, Zenon
<1>4. /\ at' \in Labels /\ at' \in BeforeLaunch
      /\ at' \notin SentOnce /\ at' \notin SentTwice
  BY <1>1 DEF Labels, BeforeLaunch, SentOnce, SentTwice
<1> QED
  BY <1>1, <1>3, <1>4, PausesTyped

LEMMA RestTyped == TypeInv /\ Rest => TypeInv'
<1> SUFFICES ASSUME TypeInv, Rest PROVE TypeInv'
  OBVIOUS
<1>1. /\ session' = session /\ index' = index /\ interrupts' = interrupts
      /\ UNCHANGED pipelineVars /\ at' = "query" /\ trapSet' = TRUE
  BY DEF Rest
<1>2. /\ session' \in 1..MaxSessions /\ index' \in 1..Len(Caps)
      /\ interrupts' \in 0..MaxInterrupts /\ trapSet' \in BOOLEAN
  BY <1>1, Zenon DEF TypeInv, TypeOK
<1>3. /\ at' \in Labels /\ at' \notin BeforeLaunch
      /\ at' \notin SentOnce /\ at' \notin SentTwice
  BY <1>1 DEF Labels, BeforeLaunch, SentOnce, SentTwice
<1> QED
  BY <1>1, <1>2, <1>3, PausesTyped

LEMMA RunQueriesTyped == TypeInv /\ RunQueries => TypeInv'
<1> SUFFICES ASSUME TypeInv, RunQueries PROVE TypeInv'
  OBVIOUS
<1>1. /\ session' = session /\ trapSet' = trapSet /\ interrupts' = interrupts
      /\ UNCHANGED pipelineVars /\ (at' = "p1" \/ at' = "last_cap")
      /\ index' = index \/ (index < Len(Caps) /\ index' = index + 1)
  BY DEF RunQueries
<1>2. /\ session' \in 1..MaxSessions /\ interrupts' \in 0..MaxInterrupts
      /\ trapSet' \in BOOLEAN /\ index \in 1..Len(Caps)
  BY <1>1, Zenon DEF TypeInv, TypeOK
<1>3. Len(Caps) \in Nat
  BY SessionAssumption, LenProperties
<1>4. index' \in 1..Len(Caps)
  BY <1>1, <1>2, <1>3
<1>5. /\ at' \in Labels /\ at' \notin BeforeLaunch
      /\ at' \notin SentOnce /\ at' \notin SentTwice
  BY <1>1 DEF Labels, BeforeLaunch, SentOnce, SentTwice
<1> QED
  BY <1>1, <1>2, <1>4, <1>5, PausesTyped

LEMMA WaitTyped == TypeInv /\ Wait => TypeInv'
<1> SUFFICES ASSUME TypeInv, Wait PROVE TypeInv'
  OBVIOUS
<1>1. /\ session' = session /\ index' = index /\ trapSet' = trapSet
      /\ interrupts' = interrupts /\ UNCHANGED pipelineVars /\ at' = "ended"
  BY DEF Wait, scriptVars
<1>2. /\ session' \in 1..MaxSessions /\ index' \in 1..Len(Caps)
      /\ interrupts' \in 0..MaxInterrupts /\ trapSet' \in BOOLEAN
  BY <1>1, Zenon DEF TypeInv, TypeOK
<1>3. /\ at' \in Labels /\ at' \notin BeforeLaunch
      /\ at' \notin SentOnce /\ at' \notin SentTwice
  BY <1>1 DEF Labels, BeforeLaunch, SentOnce, SentTwice
<1> QED
  BY <1>1, <1>2, <1>3, PausesTyped

LEMMA InterruptTyped == TypeInv /\ Interrupt => TypeInv'
<1> SUFFICES ASSUME TypeInv, Interrupt PROVE TypeInv'
  OBVIOUS
<1>1. /\ session' = session /\ index' = index /\ trapSet' = trapSet
      /\ interrupts < MaxInterrupts /\ interrupts' = interrupts + 1
      /\ UNCHANGED pipelineVars /\ at' \in {"trap_q1", "killed"}
  BY DEF Interrupt
<1>2. /\ session' \in 1..MaxSessions /\ index' \in 1..Len(Caps)
      /\ interrupts \in 0..MaxInterrupts /\ trapSet' \in BOOLEAN
  BY <1>1, Zenon DEF TypeInv, TypeOK
<1>3. interrupts' \in 0..MaxInterrupts
  BY <1>1, <1>2, SessionAssumption
<1>4. /\ at' \in Labels /\ at' \notin BeforeLaunch
      /\ at' \notin SentOnce /\ at' \notin SentTwice
  BY <1>1 DEF Labels, BeforeLaunch, SentOnce, SentTwice
<1> QED
  BY <1>1, <1>2, <1>3, <1>4, PausesTyped

LEMMA OthersTyped ==
  TypeInv /\ (Rest \/ RunQueries \/ Wait \/ Interrupt \/ NextSession) => TypeInv'
  BY RestTyped, RunQueriesTyped, WaitTyped, InterruptTyped, NextSessionTyped

LEMMA NextTyped == TypeInv /\ [Next]_vars => TypeInv'
<1>1. TypeInv /\ UNCHANGED vars => TypeInv'
  BY DEF vars, scriptVars, pipelineVars, TypeInv, TypeOK, Unborn, MissedInv
<1> QED
  BY <1>1, PipelineTyped, CloseOthersTyped, LaunchTyped, SendCapTyped, CloseDownTyped,
     TrapTyped, OthersTyped DEF Next, script

\* Every reachable state is well typed: among others a socket is empty once its
\* listener has gone, and no batch misses more datagrams than it has.
THEOREM TypeCorrect == Spec => []TypeOK
<1>1. Init => TypeInv
  BY InitTyped
<1>2. TypeInv /\ [Next]_vars => TypeInv'
  BY NextTyped
<1>3. TypeInv => TypeOK
  BY DEF TypeInv
<1> QED
  BY <1>1, <1>2, <1>3, PTL DEF Spec

-----------------------------------------------------------------------------
(* What a step of a pipeline keeps *)

LEMMA TailHasQ == ASSUME NEW s \in Seq(Lines), s # <<>>, HasQ(s)
                  PROVE  Head(s) = q \/ HasQ(Tail(s))
<1>1. PICK i \in 1..Len(s) : s[i] = q
  BY DEF HasQ
<1>2. CASE i = 1
  BY <1>1, <1>2, HeadTailProperties
<1>3. CASE i # 1
  <2>1. i - 1 \in 1..Len(Tail(s)) /\ Tail(s)[i - 1] = s[i]
    BY <1>3, HeadTailProperties, LenProperties
  <2> QED
    BY <1>1, <2>1 DEF HasQ
<1> QED
  BY <1>2, <1>3

LEMMA AppendHasQ == ASSUME NEW s \in Seq(Lines), NEW c \in Lines
                    PROVE  /\ HasQ(s) \/ c = q => HasQ(Append(s, c))
                           /\ Append(s, c) # <<>>
<1>1. /\ Len(Append(s, c)) = Len(s) + 1 /\ Append(s, c)[Len(s) + 1] = c
      /\ \A i \in 1..Len(s) : Append(s, c)[i] = s[i]
      /\ Len(s) \in Nat
  BY AppendProperties, LenProperties
<1> QED
  BY <1>1, EmptySeq DEF HasQ

\* A pipeline that has been told to quit stays so, one that has closed stays closed.
LEMMA PipelineKeeps ==
  ASSUME TypeInv, NEW p \in Pipelines, pipeline(p), NEW r \in Pipelines
  PROVE  /\ Told(r) => Told(r)'
         /\ Gone(r) => Gone(r)'
         /\ Leaving(r) => Leaving(r)'
         /\ Closed(r) => Closed(r)'
         /\ listener'[r] = "none" => listener[r] = "none"
<1> USE DEF TypeInv
<1>1. inbox[p] \in Seq(Lines) /\ pipe[p] \in Seq(Lines)
  BY DEF TypeOK, Lines
<1>0. /\ listener[p] # "up" => inbox[p] = <<>>
      /\ listener[p] \in {"none", "starting"} <=> limiter[p] = "none"
  BY DEF TypeOK
<1>2. CASE r # p
  BY <1>2 DEF pipeline, Start, Forward, Closes, Obey, SetLimit, Quits, Reset, TypeOK,
              Told, Leaving, Closed, Gone
<1>3. CASE r = p /\ Start(p)
  BY <1>0, <1>3 DEF Start, TypeOK, Told, Leaving, Closed, Gone
<1>4. CASE r = p /\ Forward(p)
  <2>1. CASE Gone(p)
    BY <1>4, <2>1 DEF Forward, Closes, TypeOK, Told, Leaving, Closed, Gone
  <2>2. CASE ~ Gone(p)
    <3>1. /\ listener[p] = "up" /\ inbox[p] # <<>> /\ UNCHANGED <<listener, limiter>>
          /\ inbox'[p] = Tail(inbox[p]) /\ pipe'[p] = Append(pipe[p], Head(inbox[p]))
      BY <1>4, <2>2 DEF Forward, TypeOK
    <3>2. Head(inbox[p]) \in Lines
      BY <1>1, <3>1, HeadTail
    <3>3. HasQ(inbox[p]) \/ HasQ(pipe[p]) => HasQ(inbox'[p]) \/ HasQ(pipe'[p])
      BY <1>1, <3>1, <3>2, TailHasQ, AppendHasQ
    <3> QED
      BY <1>4, <2>2, <3>1, <3>3 DEF Told, Leaving, Closed, Gone
  <2> QED
    BY <2>1, <2>2
<1>5. CASE r = p /\ Obey(p)
  <2>1. /\ limiter[p] = "reading" /\ pipe[p] # <<>> /\ UNCHANGED <<listener, inbox>>
        /\ pipe'[p] = Tail(pipe[p]) /\ (Head(pipe[p]) = q => limiter'[p] = "resetting")
    BY <1>5 DEF Obey, Quits, TypeOK
  <2>2. HasQ(pipe[p]) => HasQ(pipe'[p]) \/ Head(pipe[p]) = q
    BY <1>1, <2>1, TailHasQ
  <2> QED
    BY <1>5, <2>1, <2>2 DEF Told, Leaving, Closed, Gone
<1>6. CASE r = p /\ Reset(p)
  BY <1>6 DEF Reset, TypeOK, Told, Leaving, Closed, Gone
<1> QED
  BY <1>2, <1>3, <1>4, <1>5, <1>6 DEF pipeline

\* The lines under way stay in the set they are from.
LEMMA PipelineLines ==
  ASSUME TypeInv, NEW V, NEW p \in Pipelines, pipeline(p), NEW r \in Pipelines,
         inbox[r] \in Seq(V), pipe[r] \in Seq(V)
  PROVE  inbox'[r] \in Seq(V) /\ pipe'[r] \in Seq(V)
<1> USE DEF TypeInv
<1>1. <<>> \in Seq(V)
  OBVIOUS
<1>2. CASE r # p \/ Start(p) \/ Reset(p)
  BY <1>1, <1>2 DEF pipeline, Start, Forward, Closes, Obey, SetLimit, Quits, Reset, TypeOK
<1>3. CASE r = p /\ Forward(p)
  <2>1. Head(inbox[p]) \in V /\ Tail(inbox[p]) \in Seq(V)
    BY <1>3, HeadTail DEF Forward
  <2>2. Append(pipe[p], Head(inbox[p])) \in Seq(V)
    BY <1>3, <2>1, AppendProperties
  <2>3. /\ inbox'[p] = Tail(inbox[p]) \/ inbox'[p] = <<>>
        /\ pipe'[p] = Append(pipe[p], Head(inbox[p])) \/ pipe'[p] = pipe[p]
    BY <1>3 DEF Forward, Closes, TypeOK
  <2> QED
    BY <1>1, <1>3, <2>1, <2>2, <2>3
<1>4. CASE r = p /\ Obey(p)
  <2>1. Tail(pipe[p]) \in Seq(V)
    BY <1>4, HeadTail DEF Obey
  <2> QED
    BY <1>4, <2>1 DEF Obey, TypeOK
<1> QED
  BY <1>2, <1>3, <1>4 DEF pipeline

-----------------------------------------------------------------------------
(* The invariant of a session *)

SessionParts == QuietInv /\ OthersInv /\ OwnInv /\ CapInv /\ HeardInv /\ ClosingInv

LEMMA SessionInit == Init => SessionInv
BY InitTyped DEF Init, SessionInv, QuietInv, OthersInv, OwnInv, Capping, CapInv, HeardInv,
                 Heard, ClosingInv, Closing

LEMMA PipelineSession ==
  ASSUME SessionInv, NEW p \in Pipelines, pipeline(p) PROVE SessionParts'
<1>t. TypeInv
  BY DEF SessionInv
<1>1. UNCHANGED <<scriptVars, at, missed>> /\ Own' = Own
  BY DEF pipeline, Start, Forward, Obey, Reset, Own, scriptVars
<1>2. QuietInv'
  <2> SUFFICES ASSUME at \in {"launch", "p1", "query", "last_cap"} PROVE Settled'
    BY <1>1 DEF QuietInv
  <2>1. Settled /\ Start(p)
    BY DEF SessionInv, QuietInv, Settled, pipeline, Forward, Obey, Reset
  <2> QED
    BY <1>t, <2>1 DEF Settled, Start, TypeInv, TypeOK
<1>3. OthersInv'
  <2>1. ASSUME NEW r \in Pipelines
        PROVE  /\ Told(r) => Told(r)'
               /\ Gone(r) => Gone(r)'
               /\ Leaving(r) => Leaving(r)'
               /\ Closed(r) => Closed(r)'
               /\ listener'[r] = "none" <=> listener[r] = "none"
    <3>1. listener[r] = "none" => listener'[r] = "none"
      BY <1>t DEF pipeline, Start, Forward, Closes, Obey, Reset, TypeInv, TypeOK
    <3> QED
      BY <1>t, <3>1, PipelineKeeps
  <2>2. at' = at /\ missed' = missed
    BY <1>1
  <2> QED
    BY <2>1, <2>2 DEF SessionInv, OthersInv
<1>4. OwnInv'
  <2> SUFFICES ASSUME at \in Capping, NEW r \in Own
               PROVE  /\ limiter'[r] \in {"none", "reading", "failed"}
                      /\ inbox'[r] \in Seq(Watts) /\ pipe'[r] \in Seq(Watts)
    BY <1>1 DEF OwnInv
  <2>1. /\ limiter[r] \in {"none", "reading", "failed"} /\ r \in Pipelines
        /\ inbox[r] \in Seq(Watts) /\ pipe[r] \in Seq(Watts)
    BY DEF SessionInv, OwnInv, Own
  <2>2. inbox'[r] \in Seq(Watts) /\ pipe'[r] \in Seq(Watts)
    BY <1>t, <2>1, PipelineLines
  <2>3. r = p /\ pipe[p] # <<>> => Head(pipe[p]) # q
    <3>1. ASSUME r = p, pipe[p] # <<>> PROVE Head(pipe[p]) # q
      <4>1. Head(pipe[p]) \in Watts
        BY <2>1, <3>1, HeadTail
      <4> QED
        BY <4>1, WattsAreCaps DEF q
    <3> QED
      BY <3>1
  <2>4. limiter'[r] \in {"none", "reading", "failed"}
    BY <1>t, <2>1, <2>3 DEF pipeline, Start, Forward, Obey, SetLimit, Quits, Reset,
                            TypeInv, TypeOK
  <2> QED
    BY <2>2, <2>4
<1>5. CapInv' /\ HeardInv'
  <2>1. CASE at \in {"sleep_p1", "p2", "sleep_p2", "p3", "rest"}
    <3>1. \A r \in Pipelines : /\ limiter[r] # "resetting"
                               /\ inbox[r] \in Seq({Caps[index]})
                               /\ pipe[r] \in Seq({Caps[index]})
      BY <2>1 DEF SessionInv, CapInv
    <3>2. \A r \in Pipelines : /\ inbox'[r] \in Seq({Caps[index]})
                               /\ pipe'[r] \in Seq({Caps[index]})
      BY <1>t, <3>1, PipelineLines
    <3>3. Caps[index] # q /\ (pipe[p] # <<>> => Head(pipe[p]) = Caps[index])
      BY <1>t, <3>1, HeadTail, WattsAreCaps DEF q, TypeInv, TypeOK
    <3>4. ~ Reset(p) /\ (Obey(p) => SetLimit(p))
      BY <3>1, <3>3 DEF Reset, Obey
    <3>5. \A r \in Pipelines : limiter'[r] # "resetting"
      BY <1>t, <3>1, <3>4 DEF pipeline, Start, Forward, Obey, SetLimit, TypeInv, TypeOK
    <3>6. CapInv'
      BY <1>1, <3>2, <3>5 DEF CapInv, scriptVars
    <3>7. ASSUME NEW r \in Own, Heard(r)
          PROVE  \/ listener'[r] = "closed"
                 \/ inbox'[r] # <<>> \/ pipe'[r] # <<>> \/ reg'[r[1]] = Caps[index]
      <4>1. /\ r \in Pipelines /\ r[1] \in Hosts
            /\ \/ listener[r] = "closed"
               \/ inbox[r] # <<>> \/ pipe[r] # <<>> \/ reg[r[1]] = Caps[index]
        BY <3>7 DEF SessionInv, HeardInv, Own, Pipelines
      <4>2. CASE Start(p)
        BY <1>t, <4>1, <4>2 DEF Start, TypeInv, TypeOK
      <4>3. CASE Forward(p)
        <5>1. UNCHANGED reg
          BY <4>3 DEF Forward
        <5>4. CASE r = p /\ Gone(p)
          BY <1>t, <4>3, <5>4 DEF Forward, Closes, TypeInv, TypeOK
        <5>2. CASE r = p /\ ~ Gone(p)
          <6>1. /\ pipe'[p] = Append(pipe[p], Head(inbox[p]))
                /\ Head(inbox[p]) \in {Caps[index]}
            BY <1>t, <3>1, <4>1, <4>3, <5>2, HeadTail DEF Forward, TypeInv, TypeOK
          <6>2. pipe'[p] # <<>>
            BY <3>1, <6>1, AppendProperties
          <6> QED
            BY <5>2, <6>2
        <5>3. CASE r # p
          BY <1>t, <4>1, <4>3, <5>1, <5>3 DEF Forward, Closes, TypeInv, TypeOK
        <5> QED
          BY <5>2, <5>3, <5>4
      <4>4. CASE Obey(p)
        <5>1. reg' = [reg EXCEPT ![p[1]] = Caps[index]] /\ UNCHANGED <<inbox, listener>>
              /\ pipe' = [pipe EXCEPT ![p] = Tail(@)]
          BY <3>3, <3>4, <4>4 DEF Obey, SetLimit
        <5> QED
          BY <1>t, <4>1, <5>1 DEF TypeInv, TypeOK, Pipelines
      <4> QED
        BY <3>4, <4>2, <4>3, <4>4 DEF pipeline
    <3>8. HeardInv'
      BY <1>1, <3>7 DEF HeardInv, Heard, scriptVars
    <3> QED
      BY <3>6, <3>8
  <2>2. CASE at = "query"
    <3>1. Start(p)
      BY <2>2 DEF SessionInv, QuietInv, Settled, pipeline, Forward, Obey, Reset
    <3> QED
      BY <1>1, <1>t, <2>2, <3>1 DEF Start, SessionInv, CapInv, HeardInv, Heard, scriptVars,
                                    Own, TypeInv, TypeOK
  <2>3. CASE at \notin {"sleep_p1", "p2", "sleep_p2", "p3", "rest", "query"}
    BY <1>1, <2>3 DEF CapInv, HeardInv, Heard
  <2> QED
    BY <2>1, <2>2, <2>3
<1>6. ClosingInv'
  <2> SUFFICES ASSUME at \in Closing PROVE ClosingInv'
    BY <1>1 DEF ClosingInv
  <2>1. /\ \A r \in Pipelines : inbox[r] \in Seq({q}) /\ pipe[r] \in Seq({q})
        /\ \A r \in Own : r \in Pipelines /\ r[1] \in Hosts
                          /\ (limiter[r] = "closed" => reg[r[1]] = Factory)
    BY DEF SessionInv, ClosingInv, Own, Pipelines
  <2>2. \A r \in Pipelines : inbox'[r] \in Seq({q}) /\ pipe'[r] \in Seq({q})
    BY <1>t, <2>1, PipelineLines
  <2>3. ~ (Obey(p) /\ Head(pipe[p]) # q)
    BY <2>1, HeadTail DEF Obey
  <2>4. \/ UNCHANGED reg /\ \A r \in Own : limiter'[r] = "closed" => limiter[r] = "closed"
        \/ /\ reg' = [reg EXCEPT ![p[1]] = Factory]
           /\ \A r \in Own : limiter'[r] = "closed" => limiter[r] = "closed" \/ r = p
    BY <1>t, <2>1, <2>3 DEF pipeline, Start, Forward, Obey, Quits, Reset, FactoryReset,
                            TypeInv, TypeOK
  <2>5. \A r \in Own : limiter'[r] = "closed" => reg'[r[1]] = Factory
    BY <1>t, <2>1, <2>4 DEF TypeInv, TypeOK
  <2>6. at = "ended" => \A r \in Own : listener'[r] = "none" \/ Closed(r)'
    <3>1. \A r \in Pipelines : listener[r] = "none" => listener'[r] = "none"
      BY <1>t DEF pipeline, Start, Forward, Closes, Obey, Reset, TypeInv, TypeOK
    <3> QED
      BY <1>t, <2>1, <3>1, PipelineKeeps DEF SessionInv, ClosingInv
  <2> QED
    BY <1>1, <2>2, <2>5, <2>6 DEF ClosingInv
<1> QED
  BY <1>2, <1>3, <1>4, <1>5, <1>6 DEF SessionParts

\* The three q's at the start, one after the other.
LEMMA StartingQs ==
  ASSUME SessionInv,
         \/ at = "q1" /\ at' = "sleep_q1" /\ Sent(q, TRUE)
         \/ at = "q2" /\ at' = "sleep_q2" /\ Sent(q, FALSE)
         \/ at = "q3" /\ at' = "sleep_q3" /\ Sent(q, FALSE)
  PROVE  SessionParts'
<1>t. TypeInv /\ q \in Lines
  BY CapsAreLines DEF SessionInv
<1>1. /\ QuietInv' /\ OwnInv' /\ CapInv' /\ HeardInv' /\ ClosingInv'
  BY DEF QuietInv, OwnInv, Capping, CapInv, HeardInv, Heard, ClosingInv, Closing
<1>2. ASSUME NEW p \in Pipelines, listener'[p] # "none"
      PROVE  /\ at' = "sleep_q1" /\ missed'[p] = 0 => Told(p)'
             /\ at' = "sleep_q2" /\ missed'[p] = 0 => Leaving(p)'
             /\ at' = "sleep_q2" /\ missed'[p] = 1 => Told(p)'
             /\ at' = "sleep_q3" /\ missed'[p] < 2 => Leaving(p)'
  <2>1. UNCHANGED <<listener, limiter, pipe>>
    BY DEF Sent
  <2>2. missed[p] \in 0..3 /\ inbox[p] \in Seq(Lines)
    BY <1>t DEF TypeInv, TypeOK, Lines
  <2>3. \/ /\ inbox'[p] = Append(inbox[p], q)
           /\ missed'[p] = IF at = "q1" THEN 0 ELSE missed[p]
        \/ /\ inbox'[p] = inbox[p]
           /\ missed'[p] = IF at = "q1" THEN 1 ELSE missed[p] + 1
    BY DEF Sent, Missed
  <2>4. inbox'[p] = Append(inbox[p], q) => HasQ(inbox'[p]) /\ inbox'[p] # <<>>
    BY <1>t, <2>2, AppendHasQ
  <2>5. HasQ(inbox[p]) => HasQ(inbox'[p])
    BY <1>t, <2>2, <2>3, AppendHasQ
  <2>6. listener[p] # "none"
    BY <1>2, <2>1
  <2>7. CASE at = "q1"
    BY <2>1, <2>3, <2>4, <2>7 DEF Told
  <2>8. CASE at = "q2"
    <3>1. missed[p] = 0 => Gone(p)
      BY <2>6, <2>8 DEF SessionInv, OthersInv
    <3> QED
      BY <2>1, <2>2, <2>3, <2>4, <2>8, <3>1 DEF Told, Leaving, Gone
  <2>9. CASE at = "q3"
    <3>1. /\ missed[p] = 0 => Closed(p)
          /\ missed[p] = 1 => Gone(p)
      BY <2>6, <2>9 DEF SessionInv, OthersInv
    <3> QED
      BY <2>1, <2>2, <2>3, <2>4, <2>9, <3>1 DEF Leaving, Closed, Gone
  <2> QED
    BY <2>7, <2>8, <2>9
<1>3. OthersInv'
  BY <1>2 DEF OthersInv
<1> QED
  BY <1>1, <1>3 DEF SessionParts

\* After a sleep everything sent has been obeyed.
LEMMA StartingSleeps ==
  ASSUME SessionInv, Settled, UNCHANGED <<scriptVars, pipelineVars>>,
         \/ at = "sleep_q1" /\ at' = "q2"
         \/ at = "sleep_q2" /\ at' = "q3"
         \/ at = "sleep_q3" /\ at' = "launch"
  PROVE  SessionParts'
<1>1. QuietInv' /\ OwnInv' /\ CapInv' /\ HeardInv' /\ ClosingInv'
  BY DEF QuietInv, Settled, pipelineVars, OwnInv, Capping, CapInv, HeardInv, Heard,
         ClosingInv, Closing
<1>2. ASSUME NEW p \in Pipelines
      PROVE  (Told(p) => Gone(p)) /\ (Leaving(p) => Closed(p))
  <2>1. inbox[p] = <<>> /\ pipe[p] = <<>> /\ limiter[p] # "resetting"
    BY DEF Settled
  <2>2. ~ HasQ(<<>>)
    BY EmptySeq DEF HasQ
  <2> QED
    BY <2>1, <2>2 DEF Told, Leaving, Closed, Gone
<1>3. OthersInv'
  <2> SUFFICES ASSUME NEW p \in Pipelines, listener'[p] # "none"
               PROVE  /\ at' = "q2" /\ missed'[p] = 0 => Gone(p)'
                      /\ at' = "q3" /\ missed'[p] = 0 => Closed(p)'
                      /\ at' = "q3" /\ missed'[p] = 1 => Gone(p)'
                      /\ at' = "launch" /\ missed'[p] < 2 => Closed(p)'
    BY DEF OthersInv
  <2>1. Closed(p)' = Closed(p) /\ Gone(p)' = Gone(p) /\ UNCHANGED <<listener, missed>>
    BY DEF Closed, Gone, pipelineVars
  <2> QED
    BY <1>2, <2>1 DEF SessionInv, OthersInv
<1> QED
  BY <1>1, <1>3 DEF SessionParts

LEMMA LaunchSession == SessionInv /\ Launch => SessionParts'
<1> SUFFICES ASSUME SessionInv, Launch PROVE SessionParts'
  OBVIOUS
<1>1. Settled /\ UNCHANGED <<inbox, pipe, limiter, session>> /\ at = "launch" /\ at' = "p1"
  BY DEF SessionInv, QuietInv, Launch, scriptVars
<1>2. QuietInv'
  BY <1>1 DEF QuietInv, Settled
<1>3. \A p \in Own : listener[p] = "none" /\ limiter[p] = "none" /\ p \in Pipelines
  BY <1>1 DEF SessionInv, TypeInv, TypeOK, Unborn, Own, BeforeLaunch
<1>4. \A p \in Own : inbox[p] = <<>> /\ pipe[p] = <<>>
  BY <1>1, <1>3 DEF Settled
<1>5. Own' = Own /\ <<>> \in Seq(Watts)
  BY <1>1 DEF Own
<1>6. OwnInv'
  BY <1>1, <1>3, <1>4, <1>5 DEF OwnInv
<1> QED
  BY <1>1, <1>2, <1>6 DEF SessionParts, OthersInv, CapInv, HeardInv, Heard, ClosingInv,
                          Closing

\* The cap is sent to any of the listeners.
LEMMA SendsCap ==
  ASSUME SessionInv,
         \/ at = "p1" /\ at' = "sleep_p1" /\ Sent(Caps[index], TRUE)
         \/ at = "p2" /\ at' = "sleep_p2" /\ Sent(Caps[index], FALSE)
         \/ at = "p3" /\ at' = "rest" /\ Sent(Caps[index], FALSE)
  PROVE  SessionParts'
<1>t. TypeInv /\ Caps[index] \in Watts /\ Caps[index] \in Lines
  BY WattsAreCaps DEF SessionInv, TypeInv, TypeOK, Lines
<1>1. QuietInv' /\ OthersInv' /\ ClosingInv'
  BY DEF QuietInv, OthersInv, ClosingInv, Closing
<1>2. UNCHANGED <<session, index, listener, pipe, limiter, reg>> /\ Own' = Own
  BY DEF Sent, scriptVars, Own
<1>3. \A p \in Pipelines :
        \/ /\ inbox'[p] = Append(inbox[p], Caps[index])
           /\ missed'[p] = IF at = "p1" THEN 0 ELSE missed[p]
        \/ /\ inbox'[p] = inbox[p]
           /\ missed'[p] = IF at = "p1" THEN 1 ELSE missed[p] + 1
  BY DEF Sent, Missed
<1>4. OwnInv'
  <2> SUFFICES ASSUME NEW p \in Own
               PROVE  /\ limiter[p] \in {"none", "reading", "failed"}
                      /\ inbox'[p] \in Seq(Watts) /\ pipe[p] \in Seq(Watts)
    BY <1>2 DEF OwnInv
  <2>1. /\ limiter[p] \in {"none", "reading", "failed"} /\ p \in Pipelines
        /\ inbox[p] \in Seq(Watts) /\ pipe[p] \in Seq(Watts)
    BY DEF SessionInv, OwnInv, Capping, Own
  <2>2. Append(inbox[p], Caps[index]) \in Seq(Watts)
    BY <1>t, <2>1, AppendProperties
  <2> QED
    BY <1>3, <2>1, <2>2
<1>5. CapInv'
  <2> SUFFICES ASSUME NEW p \in Pipelines
               PROVE  /\ limiter[p] # "resetting"
                      /\ inbox'[p] \in Seq({Caps[index]}) /\ pipe[p] \in Seq({Caps[index]})
    BY <1>2 DEF CapInv
  <2>1. <<>> \in Seq({Caps[index]})
    OBVIOUS
  <2>2. /\ limiter[p] # "resetting"
        /\ inbox[p] \in Seq({Caps[index]}) /\ pipe[p] \in Seq({Caps[index]})
    BY <2>1 DEF SessionInv, QuietInv, Settled, CapInv
  <2>3. Append(inbox[p], Caps[index]) \in Seq({Caps[index]})
    BY <2>2, AppendProperties
  <2> QED
    BY <1>3, <2>2, <2>3
<1>6. HeardInv'
  <2> SUFFICES ASSUME NEW p \in Own, Heard(p)'
               PROVE  \/ listener[p] = "closed"
                      \/ inbox'[p] # <<>> \/ pipe[p] # <<>> \/ reg[p[1]] = Caps[index]
    BY <1>2 DEF HeardInv
  <2>1. p \in Pipelines /\ missed[p] \in 0..3 /\ inbox[p] \in Seq(Lines)
    BY <1>t DEF Own, TypeInv, TypeOK, Lines
  <2>2. Append(inbox[p], Caps[index]) # <<>>
    BY <1>t, <2>1, AppendHasQ
  <2>3. CASE inbox'[p] = Append(inbox[p], Caps[index])
    BY <2>2, <2>3
  <2>4. CASE /\ inbox'[p] = inbox[p]
             /\ missed'[p] = IF at = "p1" THEN 1 ELSE missed[p] + 1
    <3>1. CASE at = "p1"
      BY <2>4, <3>1 DEF Heard
    <3>2. CASE at = "p2" \/ at = "p3"
      <4>0. missed'[p] = missed[p] + 1 /\ missed[p] \in Int
        BY <2>1, <2>4, <3>2
      <4>1. \/ at = "p2" /\ missed'[p] < 2
            \/ at = "p3" /\ missed'[p] < 3
        BY <3>2 DEF Heard
      <4>2. Heard(p)
        BY <4>0, <4>1 DEF Heard
      <4> QED
        BY <2>4, <4>2 DEF SessionInv, HeardInv
    <3> QED
      BY <3>1, <3>2
  <2> QED
    BY <1>3, <2>1, <2>3, <2>4
<1> QED
  BY <1>1, <1>4, <1>5, <1>6 DEF SessionParts

\* Pauses of the script while it caps.
LEMMA CappingPauses ==
  ASSUME SessionInv, UNCHANGED <<session, pipelineVars>>,
         \/ at = "sleep_p1" /\ at' = "p2" /\ UNCHANGED index
         \/ at = "sleep_p2" /\ at' = "p3" /\ UNCHANGED index
         \/ at = "rest" /\ at' = "query" /\ UNCHANGED index /\ Settled
         \/ at = "query" /\ (at' = "p1" \/ at' = "last_cap")
  PROVE  SessionParts'
<1>1. OthersInv' /\ ClosingInv'
  BY DEF OthersInv, ClosingInv, Closing
<1>2. Own' = Own /\ Settled' = Settled
  BY DEF Own, Settled, pipelineVars
<1>3. QuietInv'
  BY <1>2 DEF SessionInv, QuietInv
<1>4. OwnInv'
  BY <1>2 DEF SessionInv, OwnInv, Capping, pipelineVars
<1>5. CapInv'
  BY DEF SessionInv, CapInv, pipelineVars
<1>6. HeardInv'
  <2> SUFFICES ASSUME NEW p \in Own, Heard(p)'
               PROVE  \/ listener'[p] = "closed"
                      \/ inbox'[p] # <<>> \/ pipe'[p] # <<>> \/ reg'[p[1]] = Caps[index]'
    BY <1>2 DEF HeardInv
  <2>1. Heard(p) /\ UNCHANGED index
    BY DEF Heard, pipelineVars
  <2> QED
    BY <2>1 DEF SessionInv, HeardInv, pipelineVars
<1> QED
  BY <1>1, <1>3, <1>4, <1>5, <1>6 DEF SessionParts

\* The last cap is a line too.
LEMMA LastCapSession ==
  ASSUME SessionInv, at = "last_cap", at' = "sleep_last",
         Sent(LastCap, TRUE)
  PROVE  SessionParts'
<1>1. QuietInv' /\ OthersInv' /\ CapInv' /\ HeardInv' /\ ClosingInv'
  BY DEF QuietInv, OthersInv, CapInv, HeardInv, Heard, ClosingInv, Closing
<1>2. UNCHANGED <<pipe, limiter>> /\ Own' = Own
  BY DEF Sent, scriptVars, Own
<1>3. \A p \in Pipelines : inbox'[p] = Append(inbox[p], LastCap) \/ inbox'[p] = inbox[p]
  BY DEF Sent
<1>4. OwnInv'
  <2> SUFFICES ASSUME NEW p \in Own
               PROVE  /\ limiter[p] \in {"none", "reading", "failed"}
                      /\ inbox'[p] \in Seq(Watts) /\ pipe[p] \in Seq(Watts)
    BY <1>2 DEF OwnInv
  <2>1. /\ limiter[p] \in {"none", "reading", "failed"} /\ p \in Pipelines
        /\ inbox[p] \in Seq(Watts) /\ pipe[p] \in Seq(Watts)
    BY DEF SessionInv, OwnInv, Capping, Own
  <2>2. Append(inbox[p], LastCap) \in Seq(Watts)
    BY WattsAreCaps, <2>1, AppendProperties
  <2> QED
    BY <1>3, <2>1, <2>2
<1> QED
  BY <1>1, <1>4 DEF SessionParts

\* From the sleep after it on nothing but q is sent.
LEMMA ClosingSession ==
  ASSUME SessionInv, UNCHANGED <<session, limiter, reg, pipe>>, at' \in Closing,
         \A p \in Pipelines : inbox'[p] = Append(inbox[p], q) \/ inbox'[p] = inbox[p],
         (at \in Closing /\ at # "ended") \/ (at = "sleep_last" /\ Settled),
         at' = "ended" => \A p \in Own : listener'[p] = "none" \/ Closed(p)'
  PROVE  SessionParts'
<1>1. QuietInv' /\ OthersInv' /\ OwnInv' /\ CapInv' /\ HeardInv'
  BY DEF QuietInv, OthersInv, OwnInv, Capping, CapInv, HeardInv, Heard, Closing
<1>2. \A p \in Pipelines : inbox[p] \in Seq({q}) /\ pipe[p] \in Seq({q})
  <2>1. <<>> \in Seq({q})
    OBVIOUS
  <2> QED
    BY <2>1 DEF SessionInv, ClosingInv, Settled
<1>3. \A p \in Pipelines : Append(inbox[p], q) \in Seq({q})
  BY <1>2, AppendProperties
<1>4. \A p \in Own : limiter[p] = "closed" => reg[p[1]] = Factory
  BY DEF SessionInv, ClosingInv, OwnInv, Capping
<1>5. ClosingInv'
  <2>1. Own' = Own
    BY DEF Own
  <2> QED
    BY <1>2, <1>3, <1>4, <2>1 DEF ClosingInv
<1> QED
  BY <1>1, <1>5 DEF SessionParts

\* Of a session that is over, or is about to be, nothing is promised.
LEMMA ElsewhereSession ==
  ASSUME at' \in {"trap_q1", "trap_q2", "exited", "killed", "q1"} PROVE SessionParts'
BY DEF SessionParts, QuietInv, OthersInv, OwnInv, Capping, CapInv, HeardInv, Heard,
       ClosingInv, Closing

-----------------------------------------------------------------------------
(* Every step *)

LEMMA SleepIsPause == ASSUME Patient, NEW label, NEW next, Sleep(label, next)
                      PROVE  /\ at = label /\ at' = next /\ Settled
                             /\ UNCHANGED <<scriptVars, pipelineVars>>
BY DEF Sleep, Pass

LEMMA CloseOthersSession == Patient /\ SessionInv /\ CloseOthers => SessionParts'
<1> SUFFICES ASSUME Patient, SessionInv, CloseOthers PROVE SessionParts'
  OBVIOUS
<1>1. CASE Send("q1", "sleep_q1", q, TRUE)
  BY <1>1, SendReaches, StartingQs
<1>2. CASE Send("q2", "sleep_q2", q, FALSE)
  BY <1>2, SendReaches, StartingQs
<1>3. CASE Send("q3", "sleep_q3", q, FALSE)
  BY <1>3, SendReaches, StartingQs
<1>4. CASE Sleep("sleep_q1", "q2") \/ Sleep("sleep_q2", "q3") \/ Sleep("sleep_q3", "launch")
  <2>1. Settled /\ UNCHANGED <<scriptVars, pipelineVars>>
    BY <1>4, SleepIsPause
  <2>2. \/ at = "sleep_q1" /\ at' = "q2"
        \/ at = "sleep_q2" /\ at' = "q3"
        \/ at = "sleep_q3" /\ at' = "launch"
    BY <1>4, SleepIsPause
  <2> QED
    BY <2>1, <2>2, StartingSleeps
<1> QED
  BY <1>1, <1>2, <1>3, <1>4 DEF CloseOthers

LEMMA SendCapSession == Patient /\ SessionInv /\ SendCap => SessionParts'
<1> SUFFICES ASSUME Patient, SessionInv, SendCap PROVE SessionParts'
  OBVIOUS
<1>1. CASE Send("p1", "sleep_p1", Caps[index], TRUE)
  BY <1>1, SendReaches, SendsCap
<1>2. CASE Send("p2", "sleep_p2", Caps[index], FALSE)
  BY <1>2, SendReaches, SendsCap
<1>3. CASE Send("p3", "rest", Caps[index], FALSE)
  BY <1>3, SendReaches, SendsCap
<1>4. CASE Sleep("sleep_p1", "p2") \/ Sleep("sleep_p2", "p3")
  BY <1>4, SleepIsPause, CappingPauses DEF scriptVars
<1> QED
  BY <1>1, <1>2, <1>3, <1>4 DEF SendCap

LEMMA CloseDownSession == Patient /\ SessionInv /\ CloseDown => SessionParts'
<1> SUFFICES ASSUME Patient, SessionInv, CloseDown PROVE SessionParts'
  OBVIOUS
<1>1. CASE Send("last_cap", "sleep_last", LastCap, TRUE)
  BY <1>1, SendReaches, LastCapSession
<1>2. CASE \/ Sleep("sleep_last", "first_q") \/ Sleep("sleep_first", "second_q")
           \/ Sleep("sleep_second", "third_q")
  BY <1>2, SleepIsPause, ClosingSession DEF Closing, scriptVars, pipelineVars
<1>3. CASE \/ Send("first_q", "sleep_first", q, TRUE)
           \/ Send("second_q", "sleep_second", q, FALSE)
           \/ Send("third_q", "wait", q, FALSE)
  <2> DEFINE QSent == Sent(q, TRUE) \/ Sent(q, FALSE)
  <2>1. QSent /\ at \in Closing /\ at # "ended" /\ at' \in Closing /\ at' # "ended"
    <3>1. CASE Send("first_q", "sleep_first", q, TRUE)
      <4>1. at = "first_q" /\ at' = "sleep_first" /\ Sent(q, TRUE)
        BY <3>1, SendReaches
      <4> QED
        BY <4>1 DEF Closing
    <3>2. CASE Send("second_q", "sleep_second", q, FALSE)
      <4>1. at = "second_q" /\ at' = "sleep_second" /\ Sent(q, FALSE)
        BY <3>2, SendReaches
      <4> QED
        BY <4>1 DEF Closing
    <3>3. CASE Send("third_q", "wait", q, FALSE)
      <4>1. at = "third_q" /\ at' = "wait" /\ Sent(q, FALSE)
        BY <3>3, SendReaches
      <4> QED
        BY <4>1 DEF Closing
    <3> QED
      BY <1>3, <3>1, <3>2, <3>3
  <2>2. /\ UNCHANGED <<session, limiter, reg, pipe>>
        /\ \A p \in Pipelines : inbox'[p] = Append(inbox[p], q) \/ inbox'[p] = inbox[p]
    BY <2>1 DEF Sent, scriptVars
  <2> QED
    BY <2>1, <2>2, ClosingSession
<1> QED
  BY <1>1, <1>2, <1>3 DEF CloseDown

LEMMA OthersSession ==
  Patient /\ SessionInv /\ (Rest \/ RunQueries \/ Wait \/ Trap \/ Interrupt \/ NextSession)
    => SessionParts'
<1> SUFFICES ASSUME Patient, SessionInv,
                    Rest \/ RunQueries \/ Wait \/ Trap \/ Interrupt \/ NextSession
             PROVE  SessionParts'
  OBVIOUS
<1>1. CASE Rest
  BY <1>1, CappingPauses DEF Rest
<1>2. CASE RunQueries
  BY <1>2, CappingPauses DEF RunQueries
<1>3. CASE Wait
  BY <1>3, ClosingSession DEF Wait, Closed, Gone, Closing, Own, scriptVars, pipelineVars
<1>4. CASE Trap
  BY <1>4, SendReaches, ElsewhereSession DEF Trap
<1>5. CASE Interrupt
  BY <1>5, ElsewhereSession DEF Interrupt
<1>6. CASE NextSession
  BY <1>6, ElsewhereSession DEF NextSession
<1> QED
  BY <1>1, <1>2, <1>3, <1>4, <1>5, <1>6

LEMMA SessionKept == Patient /\ SessionInv /\ [Next]_vars => SessionInv'
<1> SUFFICES ASSUME Patient, SessionInv, [Next]_vars PROVE SessionInv'
  OBVIOUS
<1>1. TypeInv'
  BY NextTyped DEF SessionInv
<1>2. CASE UNCHANGED vars
  <2>1. SessionParts
    BY DEF SessionInv, SessionParts
  <2> QED
    BY <1>1, <1>2, <2>1
       DEF vars, scriptVars, pipelineVars, SessionInv, SessionParts, QuietInv, Settled,
           OthersInv, Told, Leaving, Closed, Gone, OwnInv, Own, CapInv, HeardInv, Heard,
           ClosingInv
<1>3. CASE Next
  <2>1. SessionParts'
    BY <1>3, PipelineSession, CloseOthersSession, LaunchSession, SendCapSession,
       CloseDownSession, OthersSession DEF Next, script
  <2> QED
    BY <1>1, <2>1 DEF SessionInv, SessionParts
<1> QED
  BY <1>2, <1>3

\* A cap is in force only on a host where a limiter runs: only limiters set one, and each
\* of them lifts it when it closes.
LEMMA CapHeldKept == TypeInv /\ CapHeld /\ [Next]_vars => CapHeld'
<1> SUFFICES ASSUME TypeInv, CapHeld, [Next]_vars PROVE CapHeld'
  OBVIOUS
<1>1. CASE UNCHANGED <<reg, limiter>>
  BY <1>1 DEF CapHeld
<1>2. ASSUME NEW p \in Pipelines, pipeline(p) PROVE CapHeld'
  <2>1. reg \in [Hosts -> Watts \cup {Factory}] /\ p[1] \in Hosts
    BY DEF TypeInv, TypeOK, Pipelines
  <2>2. /\ \A r \in Pipelines \ {p} : limiter'[r] = limiter[r]
        /\ \A h \in Hosts \ {p[1]} : reg'[h] = reg[h]
    BY <1>2, <2>1 DEF pipeline, Start, Forward, Obey, SetLimit, Quits, Reset, FactoryReset,
                      TypeInv, TypeOK
  <2>3. \/ reg'[p[1]] = Factory
        \/ limiter'[p] \in {"reading", "resetting"}
        \/ reg'[p[1]] = reg[p[1]] /\ limiter[p] \notin {"reading", "resetting"}
        \/ reg'[p[1]] = reg[p[1]] /\ limiter'[p] = limiter[p]
    BY <1>2, <2>1 DEF pipeline, Start, Forward, Obey, SetLimit, Quits, Reset, FactoryReset,
                      TypeInv, TypeOK
  <2> SUFFICES ASSUME NEW h \in Hosts, reg'[h] # Factory
               PROVE  \E r \in Pipelines : r[1] = h /\ limiter'[r] \in {"reading", "resetting"}
    BY DEF CapHeld
  <2>4. CASE h = p[1] /\ limiter'[p] \in {"reading", "resetting"}
    BY <2>4
  <2>5. CASE ~ (h = p[1] /\ limiter'[p] \in {"reading", "resetting"})
    <3>1. reg[h] # Factory
      BY <2>2, <2>3, <2>5
    <3>2. PICK r \in Pipelines : r[1] = h /\ limiter[r] \in {"reading", "resetting"}
      BY <3>1 DEF CapHeld
    <3> QED
      BY <2>2, <2>3, <2>5, <3>2
  <2> QED
    BY <2>4, <2>5
<1>3. CASE script \/ Interrupt \/ NextSession \/ UNCHANGED vars
  BY <1>1, <1>3 DEF script, CloseOthers, Launch, SendCap, Rest, RunQueries, CloseDown, Wait,
                    Trap, Send, Sleep, Interrupt, NextSession, vars, pipelineVars
<1> QED
  BY <1>2, <1>3 DEF Next

\* With sleeps that are long enough, the queries run under their cap on every host whose
\* listener got one copy of it, two of three q's close what an earlier session has left,
\* and a script that ends leaves a cap at most where it had no limiter and an earlier one
\* runs: whatever is lost, however often the scripts are run and interrupted.
THEOREM SessionsAreSafe == Spec => [](QueriesCapped /\ OthersClosed /\ NoCapLeft)
<1>1. CASE Patient
  <2>1. Init => SessionInv /\ CapHeld
    BY SessionInit DEF Init, CapHeld
  <2>2. SessionInv /\ CapHeld /\ [Next]_vars => SessionInv' /\ CapHeld'
    BY <1>1, SessionKept, CapHeldKept DEF SessionInv
  <2>3. SessionInv => QueriesCapped
    BY EmptySeq DEF SessionInv, HeardInv, Heard, QuietInv, Settled, QueriesCapped, Own
  <2>4. SessionInv => OthersClosed
    BY DEF SessionInv, OthersInv, OthersClosed
  <2>5. SessionInv /\ CapHeld => NoCapLeft
    <3> SUFFICES ASSUME SessionInv, CapHeld, at = "ended", NEW h \in Hosts, reg[h] # Factory
                 PROVE  /\ limiter[<<h, session>>] \in {"none", "failed"}
                        /\ \E p \in Pipelines : /\ p[1] = h /\ p[2] < session
                                               /\ limiter[p] \in {"reading", "resetting"}
      BY DEF NoCapLeft
    <3>1. PICK p \in Pipelines : p[1] = h /\ limiter[p] \in {"reading", "resetting"}
      BY DEF CapHeld
    <3> DEFINE o == <<h, session>>
    <3>2. o \in Own /\ o[1] = h
      BY DEF SessionInv, TypeInv, TypeOK, Own, Pipelines
    <3>3. /\ listener[o] = "none" \/ Closed(o)
          /\ limiter[o] # "closed" /\ o \in Pipelines
      BY <3>2 DEF SessionInv, ClosingInv, Closing, Own
    <3>4. limiter[o] \in {"none", "failed"}
      BY <3>3 DEF SessionInv, TypeInv, TypeOK, Closed, Gone
    <3>5. listener[p] \notin {"none", "starting"}
      BY <3>1 DEF SessionInv, TypeInv, TypeOK
    <3>6. p[2] \in Nat /\ session \in Nat /\ p = <<h, p[2]>>
      BY <3>1, SessionAssumption DEF SessionInv, TypeInv, TypeOK, Pipelines
    <3>7. p[2] # session
      BY <3>1, <3>4, <3>6
    <3>8. ~ (p[2] > session)
      BY <3>5 DEF SessionInv, TypeInv, Unborn
    <3>9. p[2] < session
      BY <3>6, <3>7, <3>8
    <3> QED
      BY <3>1, <3>4, <3>9
  <2> QED
    BY <2>1, <2>2, <2>3, <2>4, <2>5, PTL DEF Spec
<1>2. CASE ~ Patient
  <2>1. QueriesCapped /\ OthersClosed /\ NoCapLeft
    BY <1>2 DEF QueriesCapped, OthersClosed, NoCapLeft
  <2> QED
    BY <2>1, PTL
<1> QED
  BY <1>1, <1>2

\* The queries run under their cap on every host whose listener got one copy of it.
THEOREM QueriesAlwaysCapped == Spec => []QueriesCapped
BY SessionsAreSafe, PTL

\* Two q's of the three at the start close a pipeline that an earlier session has left.
THEOREM OthersAreClosed == Spec => []OthersClosed
BY SessionsAreSafe, PTL

\* A script that ends leaves a cap only on a host where it had no limiter of its own and
\* the limiter of an earlier session still runs.
THEOREM NoCapIsLeft == Spec => []NoCapLeft
BY SessionsAreSafe, PTL
=============================================================================
