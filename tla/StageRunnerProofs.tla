-------------------------- MODULE StageRunnerProofs --------------------------
(***************************************************************************)
(* Proofs about StageRunner, for any number of executors, stages and       *)
(* interrupts: type correctness, and the two claims about caps.      *)
(***************************************************************************)
EXTENDS StageRunner, SequenceTheorems, TLAPS

\* The labels up to the end of the queries, and those of stagecleanup.
Early == {"monitor", "start", "wait_start", "query"}
Cleaning == {"cleanup", "close_driver", "wait_clean", "stop_clean"}

\* The frame of run.
Bottom == stack[Len(stack)]

\* The trap is set only when the caps are; above the frame of run there are only
\* cleanups, and then it has nothing to start.
StackOK ==
  /\ Len(stack) <= interrupts + 1
  /\ stack[1] \in {"monitor", "start", "wait_start"} => ~ trapSet
  /\ \A i \in 1..Len(stack) - 1 : stack[i] \in Cleaning
  /\ Len(stack) > 1 => Bottom \notin Early

\* The commands of one batch ask for one thing; where the batch was fresh, no other
\* command is under way.
BatchOK ==
  /\ \A c, d \in Batch : c.op = d.op
  /\ \A c \in running : c.executor \in fresh => c \in Batch
  /\ At("wait_start") => \A c \in Batch : c.op = powerCap
  /\ At("query") => Batch = {} /\ ~ failed
  /\ stack[1] \in {"start", "wait_start", "query"} => stream

\* A lifting that was fresh and a success stays the last word on RAPL until run asks for
\* new caps.
Final(e) == "rapl" \notin cap[e] /\ \A c \in running : c.executor = e => c.op = "lift"
Settled == {"monitor", "start", "wait_lift", "stop", "returned", "killed"}
LiftedOK == Bottom \in Settled => \A e \in lifted : Final(e)

\* An executor that was free waits for its command, has had it, or the stage
\* knows of a failure.
Capped(e) == \/ cap[e] = {} /\ \E c \in Batch : c.executor = e
             \/ cap[e] = {powerCap} \ {"none"}
             \/ failed
CapsStand == At("wait_start") \/ At("query") => \A e \in fresh : Capped(e)

StageInv == TypeOK /\ StackOK /\ BatchOK /\ LiftedOK /\ CapsStand

USE StageAssumption

-----------------------------------------------------------------------------
(* The stack *)

\* Going on to a label changes the top frame only.
LEMMA GotoStack ==
  ASSUME TypeOK, StackOK, NEW l \in Labels, Goto(l),
         l \in Cleaning \/ stack[1] \notin Cleaning
  PROVE  /\ stack' \in Seq(Labels) /\ Len(stack') = Len(stack)
         /\ stack'[1] = l
         /\ Bottom' = IF Len(stack) = 1 THEN l ELSE Bottom
         /\ \A i \in 1..Len(stack') - 1 : stack'[i] \in Cleaning
         /\ Len(stack) > 1 => l \in Cleaning
<1>1. stack \in Seq(Labels) /\ Len(stack) >= 1 /\ Len(stack) \in Nat
  BY DEF TypeOK
<1>2. Tail(stack) \in Seq(Labels) /\ Len(Tail(stack)) = Len(stack) - 1
  BY <1>1
<1>3. \A i \in 1..Len(stack) - 1 : Tail(stack)[i] = stack[i + 1]
  BY <1>1
<1>4. stack' = <<l>> \o Tail(stack)
  BY DEF Goto
<1>5. /\ stack' \in Seq(Labels) /\ Len(stack') = Len(stack) /\ stack'[1] = l
      /\ \A i \in 2..Len(stack) : stack'[i] = stack[i]
  BY <1>1, <1>2, <1>3, <1>4
<1>6. Bottom' = IF Len(stack) = 1 THEN l ELSE Bottom
  BY <1>1, <1>5 DEF Bottom
<1>7. Len(stack) > 1 => stack[1] \in Cleaning
  BY <1>1 DEF StackOK
<1>8. \A i \in 1..Len(stack) - 1 : i = 1 \/ i \in 2..Len(stack)
  BY <1>1
<1>9. \A i \in 1..Len(stack') - 1 : stack'[i] \in Cleaning
  BY <1>1, <1>5, <1>7, <1>8 DEF StackOK
<1> QED  BY <1>1, <1>5, <1>6, <1>7, <1>9

LEMMA OneLess ==
  \A n \in Nat : n >= 1 /\ n # 1 => /\ n > 1 /\ n - 1 \in 1..n
                                   /\ n - 1 \in 1..n - 1 /\ (n - 1) + 1 = n
  OBVIOUS

LEMMA NoMore == \A n \in Nat \ {0} : ~ (n > 1) => n = 1
  OBVIOUS

\* A frame that is popped leaves the one below, or run about to lift the caps.
LEMMA BackStack ==
  ASSUME TypeOK, StackOK, stack' = Back
  PROVE  /\ stack' \in Seq(Labels) /\ Len(stack') \in 1..Len(stack)
         /\ stack'[1] \notin Early
         /\ \A i \in 1..Len(stack') - 1 : stack'[i] \in Cleaning
         /\ Bottom' \notin Early
         /\ Bottom' = "lift" \/ Bottom' = Bottom
<1>1. stack \in Seq(Labels) /\ Len(stack) >= 1 /\ Len(stack) \in Nat
  BY DEF TypeOK
<1>2. CASE Len(stack) = 1
  <2>1. stack' = <<"lift">>
    BY <1>2 DEF Back
  <2> QED  BY <1>1, <2>1 DEF Labels, Early, Bottom
<1>3. CASE Len(stack) # 1
  <2>1. stack' = Tail(stack)
    BY <1>3 DEF Back
  <2>2. Tail(stack) \in Seq(Labels) /\ Len(Tail(stack)) = Len(stack) - 1
    BY <1>1
  <2>3. \A i \in 1..Len(stack) - 1 : Tail(stack)[i] = stack[i + 1]
    BY <1>1
  <2>4. \A i \in 1..Len(stack) - 1 : stack'[i] = stack[i + 1]
    BY <2>1, <2>3
  <2>5. stack' \in Seq(Labels) /\ Len(stack') = Len(stack) - 1
    BY <2>1, <2>2
  <2>6. Len(stack) - 1 \in 1..Len(stack)
    BY <1>1, <1>3, OneLess
  <2>7. Bottom' = Bottom /\ Bottom \notin Early
    <3>1. Len(stack) - 1 \in 1..Len(stack) - 1 /\ (Len(stack) - 1) + 1 = Len(stack)
      BY <1>1, <1>3, OneLess
    <3>2. Bottom' = Bottom
      BY <2>4, <2>5, <3>1 DEF Bottom
    <3>3. Len(stack) > 1
      BY <1>1, <1>3, OneLess
    <3> QED  BY <3>2, <3>3 DEF StackOK
  <2>8. \A i \in 1..Len(stack') - 1 : stack'[i] \in Cleaning
    <3>1. \A i \in 1..Len(stack) - 2 : i \in 1..Len(stack) - 1 /\ i + 1 \in 1..Len(stack) - 1
      BY <1>1
    <3>2. \A i \in 1..Len(stack) - 2 : stack'[i] \in Cleaning
      BY <2>4, <3>1 DEF StackOK
    <3> QED  BY <1>1, <2>5, <3>2
  <2>9. stack'[1] \notin Early
    <3>1. CASE Len(stack') = 1
      BY <2>7, <3>1 DEF Bottom
    <3>2. CASE Len(stack') # 1
      <4>1. 1 \in 1..Len(stack') - 1
        BY <1>1, <1>3, <2>5, <3>2
      <4> QED  BY <2>8, <4>1 DEF Cleaning, Early
    <3> QED  BY <3>1, <3>2
  <2> QED  BY <2>5, <2>6, <2>7, <2>8, <2>9
<1> QED  BY <1>2, <1>3

-----------------------------------------------------------------------------
(* The commands *)

\* A new batch: nothing else is in it, and where it is fresh nothing else runs.
LEMMA LaunchStep ==
  ASSUME TypeOK, NEW op \in Caps \cup {"lift"}, Launch(op)
  PROVE  /\ batch' \in Nat /\ failed' = FALSE
         /\ running' \subseteq [executor : Executors, op : Caps \cup {"lift"},
                                batch : 1..batch']
         /\ Batch' = {[executor |-> e, op |-> op, batch |-> batch'] : e \in Executors}
         /\ fresh' \subseteq Executors /\ lifted' \subseteq Executors
         /\ \A c \in running' : c.executor \in fresh' => c \in Batch'
         /\ op # "lift" => \A e \in fresh' : cap[e] = {}
         /\ lifted' = IF op = "lift" THEN {} ELSE lifted
         /\ cap' = cap
<1>1. /\ batch' = (IF running = {} THEN 1 ELSE batch + 1) /\ batch \in Nat
      /\ failed' = FALSE
      /\ running' = running \cup
           {[executor |-> e, op |-> op, batch |-> batch'] : e \in Executors}
      /\ fresh' = {e \in Executors : /\ \A c \in running : c.executor # e
                                     /\ op = "lift" \/ cap[e] = {}}
      /\ lifted' = IF op = "lift" THEN {} ELSE lifted
      /\ cap' = cap /\ lifted \subseteq Executors
      /\ running \subseteq [executor : Executors, op : Caps \cup {"lift"}, batch : 1..batch]
  BY DEF Launch, TypeOK
<1>2. batch' \in Nat /\ batch' >= 1
      /\ \A c \in running : batch' = batch + 1
  BY <1>1
<1>3. \A c \in running : c.batch # batch' /\ c.batch \in 1..batch'
  <2> SUFFICES ASSUME NEW c \in running PROVE c.batch # batch' /\ c.batch \in 1..batch'
    OBVIOUS
  <2>1. c.batch \in 1..batch
    BY <1>1
  <2>2. batch' = batch + 1
    BY <1>2
  <2> QED  BY <1>1, <2>1, <2>2
<1>4. Batch' = {[executor |-> e, op |-> op, batch |-> batch'] : e \in Executors}
  <2>1. Batch' = {c \in running' : c.batch = batch'}
    BY DEF Batch
  <2> QED  BY <1>1, <1>3, <2>1
<1>5. running' \subseteq [executor : Executors, op : Caps \cup {"lift"}, batch : 1..batch']
  <2>1. \A c \in running : c \in [executor : Executors, op : Caps \cup {"lift"},
                                  batch : 1..batch']
    BY <1>1, <1>3
  <2>2. batch' \in 1..batch'
    BY <1>2
  <2>3. \A e \in Executors :
          [executor |-> e, op |-> op, batch |-> batch']
            \in [executor : Executors, op : Caps \cup {"lift"}, batch : 1..batch']
    BY <2>2
  <2> QED  BY <1>1, <2>1, <2>3
<1>6. \A c \in running' : c.executor \in fresh' => c \in Batch'
  <2>1. \A c \in running : c.executor \notin fresh'
    BY <1>1
  <2> QED  BY <1>1, <1>4, <2>1
<1> QED  BY <1>1, <1>2, <1>4, <1>5, <1>6

\* Steps that leave the executors alone, and go on to where no cap is asked for.
LEMMA RemoteSame ==
  ASSUME StageInv, UNCHANGED remoteVars,
         stack'[1] \notin {"wait_start", "query"}, stack'[1] = "start" => stream',
         Bottom' \in Settled => Bottom \in Settled
  PROVE  BatchOK' /\ LiftedOK' /\ CapsStand'
<1>1. Batch' = Batch /\ UNCHANGED <<running, cap, fresh, lifted>>
  BY DEF remoteVars, commandVars, Batch
<1>2. BatchOK'
  BY <1>1 DEF BatchOK, StageInv, At
<1>3. LiftedOK'
  BY <1>1 DEF LiftedOK, Final, StageInv
<1>4. CapsStand'
  BY DEF CapsStand, At
<1> QED  BY <1>2, <1>3, <1>4

\* A lifting that the script, or its cleanup, goes on to wait for.
LEMMA LiftSent ==
  ASSUME StageInv, Launch("lift"), stack'[1] \notin {"start", "wait_start", "query"}
  PROVE  BatchOK' /\ LiftedOK' /\ CapsStand'
<1>1. /\ Batch' = {[executor |-> e, op |-> "lift", batch |-> batch'] : e \in Executors}
      /\ \A c \in running' : c.executor \in fresh' => c \in Batch'
      /\ lifted' = {}
  BY LaunchStep DEF StageInv
<1>2. BatchOK'
  <2>1. \A c \in Batch' : c.op = "lift"
    BY <1>1
  <2> QED  BY <1>1, <2>1 DEF BatchOK, At
<1>3. LiftedOK'
  BY <1>1 DEF LiftedOK
<1>4. CapsStand'
  BY DEF CapsStand, At
<1> QED  BY <1>2, <1>3, <1>4

-----------------------------------------------------------------------------
(* StageInv is an invariant *)

LEMMA StageInit == Init => StageInv
<1> SUFFICES ASSUME Init PROVE StageInv
  OBVIOUS
<1> USE DEF Init
<1>1. TypeOK
  <2>1. stack \in Seq(Labels) /\ Len(stack) = 1
    BY DEF Labels
  <2>2. cap \in [Executors -> SUBSET {"cgroup", "rapl"}]
    OBVIOUS
  <2>3. fresh \subseteq Executors /\ lifted \subseteq Executors
    OBVIOUS
  <2>4. /\ trapSet \in BOOLEAN /\ stagecleanedup \in BOOLEAN /\ failed \in BOOLEAN
        /\ stream \in BOOLEAN
    OBVIOUS
  <2>5. stage \in 1..MaxStages /\ interrupts \in 0..MaxInterrupts
        /\ Len(stack) \in 1..MaxInterrupts + 1
    BY <2>1
  <2>6. powerCap \in Caps /\ batch \in Nat
        /\ running \subseteq [executor : Executors, op : Caps \cup {"lift"},
                             batch : 1..batch]
    OBVIOUS
  <2> QED  BY <2>1, <2>2, <2>3, <2>4, <2>5, <2>6 DEF TypeOK
<1>2. stack[1] = "monitor" /\ Len(stack) = 1 /\ running = {} /\ ~ trapSet
      /\ interrupts = 0 /\ \A e \in Executors : cap[e] = {}
  OBVIOUS
<1>3. StackOK
  BY <1>2 DEF StackOK
<1>4. Batch = {}
  BY <1>2 DEF Batch
<1>5. BatchOK
  BY <1>2, <1>4 DEF BatchOK, At
<1>6. LiftedOK
  BY <1>2 DEF LiftedOK, Final
<1>7. CapsStand
  BY <1>2 DEF CapsStand, At
<1> QED  BY <1>1, <1>3, <1>5, <1>6, <1>7 DEF StageInv

\* The caps of the stage are asked for.
LEMMA StartCapsStep == StageInv /\ StartCaps => StageInv'
<1> SUFFICES ASSUME StageInv, StartCaps PROVE StageInv'
  OBVIOUS
<1>1. /\ TypeOK /\ StackOK /\ BatchOK /\ LiftedOK
      /\ stack[1] = "start" /\ powerCap \in Caps
  BY DEF StageInv, StartCaps, At, TypeOK
<1>2. "wait_start" \in Labels /\ stack[1] \notin Cleaning /\ "wait_start" \notin Cleaning
  BY <1>1 DEF Labels, Cleaning
<1>3. /\ stack' \in Seq(Labels) /\ Len(stack') = Len(stack) /\ stack'[1] = "wait_start"
      /\ \A i \in 1..Len(stack') - 1 : stack'[i] \in Cleaning
      /\ Len(stack) = 1 /\ Bottom' = "wait_start"
  <2>1. Goto("wait_start")
    BY DEF StartCaps
  <2>2. Len(stack) \in Nat \ {0}
    BY <1>1 DEF TypeOK
  <2>3. ~ (Len(stack) > 1)
    BY <1>1, <1>2, <2>1, GotoStack
  <2>4. Len(stack) = 1
    BY <2>2, <2>3, NoMore
  <2> QED  BY <1>1, <1>2, <2>1, <2>4, GotoStack
<1>4. powerCap # "lift" /\ powerCap \in Caps \cup {"lift"} /\ Launch(powerCap)
  BY <1>1 DEF StartCaps
<1>5. /\ batch' \in Nat /\ failed' = FALSE
      /\ running' \subseteq [executor : Executors, op : Caps \cup {"lift"},
                             batch : 1..batch']
      /\ Batch' = {[executor |-> e, op |-> powerCap, batch |-> batch'] : e \in Executors}
      /\ fresh' \subseteq Executors /\ lifted' \subseteq Executors
      /\ \A c \in running' : c.executor \in fresh' => c \in Batch'
      /\ \A e \in fresh' : cap[e] = {}
      /\ cap' = cap
  BY ONLY <1>1, <1>4, LaunchStep
<1>6. UNCHANGED <<scriptVars, stream, interrupts>>
  BY DEF StartCaps
<1>7. TypeOK'
  BY <1>1, <1>3, <1>5, <1>6 DEF TypeOK, scriptVars
<1>8. StackOK'
  BY <1>1, <1>3, <1>6 DEF StackOK, scriptVars
<1>9. BatchOK'
  <2>1. \A c \in Batch' : c.op = powerCap'
    BY <1>5, <1>6 DEF scriptVars
  <2>2. stream'
    BY <1>1, <1>6 DEF BatchOK
  <2> QED  BY <1>3, <1>5, <2>1, <2>2 DEF BatchOK, At
<1>10. LiftedOK'
  BY <1>3 DEF LiftedOK, Settled
<1>11. CapsStand'
  <2>1. \A e \in Executors :
          [executor |-> e, op |-> powerCap, batch |-> batch'] \in Batch'
    BY <1>5
  <2>2. \A e \in Executors : \E c \in Batch' : c.executor = e
    BY <2>1
  <2> QED  BY <1>5, <2>2 DEF CapsStand, Capped
<1> QED  BY <1>7, <1>8, <1>9, <1>10, <1>11 DEF StageInv

\* Every command has answered: the queries begin if none has failed.
LEMMA CapsStartedStep == StageInv /\ CapsStarted => StageInv'
<1> SUFFICES ASSUME StageInv, CapsStarted PROVE StageInv'
  OBVIOUS
<1>1. /\ TypeOK /\ StackOK /\ BatchOK /\ LiftedOK /\ CapsStand
      /\ stack[1] = "wait_start" /\ Batch = {} /\ stream
  BY DEF StageInv, CapsStarted, At, AllDone, BatchOK
<1>2. {"lift", "query"} \subseteq Labels /\ stack[1] \notin Cleaning
      /\ {"lift", "query"} \cap Cleaning = {}
  BY <1>1 DEF Labels, Cleaning
<1> DEFINE l == IF failed THEN "lift" ELSE "query"
<1>3. /\ stack' \in Seq(Labels) /\ Len(stack') = Len(stack) /\ stack'[1] = l
      /\ \A i \in 1..Len(stack') - 1 : stack'[i] \in Cleaning
      /\ Len(stack) = 1 /\ Bottom' = l
  <2>1. Goto(l) /\ l \in Labels /\ l \notin Cleaning
    BY <1>2 DEF CapsStarted
  <2> HIDE DEF l
  <2>2. Len(stack) \in Nat \ {0}
    BY <1>1 DEF TypeOK
  <2>3. ~ (Len(stack) > 1)
    BY <1>1, <1>2, <2>1, GotoStack
  <2>4. Len(stack) = 1
    BY <2>2, <2>3, NoMore
  <2> QED  BY <1>1, <1>2, <2>1, <2>4, GotoStack
<1>4. /\ UNCHANGED <<stage, powerCap, stagecleanedup, remoteVars, stream, interrupts>>
      /\ trapSet' \in BOOLEAN
  BY <1>1 DEF CapsStarted, TypeOK
<1>5. TypeOK'
  BY <1>1, <1>3, <1>4 DEF TypeOK, remoteVars, commandVars
<1>6. StackOK'
  BY <1>1, <1>3, <1>4 DEF StackOK
<1>7. l \notin Settled
  BY DEF Settled
<1>8. LiftedOK'
  BY <1>3, <1>7 DEF LiftedOK
<1>9. /\ Batch' = {} /\ failed' = failed /\ cap' = cap /\ powerCap' = powerCap
      /\ running' = running /\ fresh' = fresh /\ stream'
  BY <1>1, <1>4 DEF Batch, remoteVars, commandVars
<1>10. BatchOK'
  <2>1. \A c \in running : c.executor \notin fresh
    BY <1>1 DEF BatchOK
  <2> QED  BY <1>3, <1>9, <2>1 DEF BatchOK, At
<1>11. CapsStand'
  <2> SUFFICES ASSUME ~ failed, NEW e \in fresh
               PROVE  cap[e] = {powerCap} \ {"none"}
    BY <1>3, <1>9 DEF CapsStand, Capped, At
  <2>1. Capped(e)
    BY <1>1 DEF CapsStand, At
  <2> QED  BY <1>1, <2>1 DEF Capped
<1> QED  BY <1>5, <1>6, <1>8, <1>10, <1>11 DEF StageInv

\* The script goes on without a command to the executors.
LEMMA GotoStep ==
  ASSUME StageInv, NEW l \in Labels, Goto(l), l \notin {"wait_start", "query"},
         l \in Cleaning \/ stack[1] \notin Cleaning,
         l \in Settled => stack[1] \in Settled,
         l = "start" => stream' /\ ~ trapSet, l # "monitor", stream' \in BOOLEAN,
         UNCHANGED <<scriptVars, remoteVars, interrupts>>
  PROVE  StageInv'
<1>1. TypeOK /\ StackOK
  BY DEF StageInv
<1>2. /\ stack' \in Seq(Labels) /\ Len(stack') = Len(stack) /\ stack'[1] = l
      /\ Bottom' = IF Len(stack) = 1 THEN l ELSE Bottom
      /\ \A i \in 1..Len(stack') - 1 : stack'[i] \in Cleaning
  BY <1>1, GotoStack
<1>3. TypeOK'
  BY <1>1, <1>2 DEF TypeOK, scriptVars, remoteVars, commandVars
<1>4. StackOK'
  BY <1>1, <1>2 DEF StackOK, scriptVars
<1>5. Bottom' \in Settled => Bottom \in Settled
  BY <1>2 DEF Bottom
<1>6. BatchOK' /\ LiftedOK' /\ CapsStand'
  BY <1>2, <1>5, RemoteSame
<1> QED  BY <1>3, <1>4, <1>6 DEF StageInv

\* A frame of the trap, or a cleanup, is over.
LEMMA BackStep ==
  ASSUME StageInv, stack' = Back, stream' \in BOOLEAN, stagecleanedup' \in BOOLEAN,
         UNCHANGED <<stage, powerCap, trapSet, remoteVars, interrupts>>
  PROVE  StageInv'
<1>1. TypeOK /\ StackOK
  BY DEF StageInv
<1>2. /\ stack' \in Seq(Labels) /\ Len(stack') \in 1..Len(stack)
      /\ stack'[1] \notin Early
      /\ \A i \in 1..Len(stack') - 1 : stack'[i] \in Cleaning
      /\ Bottom' \notin Early
      /\ Bottom' = "lift" \/ Bottom' = Bottom
  BY <1>1, BackStack
<1>3. Len(stack') \in 1..MaxInterrupts + 1 /\ Len(stack') <= interrupts + 1
  <2>1. /\ Len(stack) \in 1..MaxInterrupts + 1 /\ interrupts \in Nat
        /\ Len(stack) <= interrupts + 1
    BY <1>1 DEF TypeOK, StackOK
  <2> QED  BY <1>2, <2>1
<1>4. TypeOK'
  BY <1>1, <1>2, <1>3 DEF TypeOK, remoteVars, commandVars
<1>5. StackOK'
  BY <1>2, <1>3 DEF StackOK, Early
<1>6. stack'[1] \notin {"start", "wait_start", "query"}
  BY <1>2 DEF Early
<1>7. Bottom' \in Settled => Bottom \in Settled
  BY <1>2 DEF Settled
<1>8. BatchOK' /\ LiftedOK' /\ CapsStand'
  BY <1>6, <1>7, RemoteSame
<1> QED  BY <1>4, <1>5, <1>8 DEF StageInv

\* The caps are lifted.
LEMMA LiftStep ==
  ASSUME StageInv, NEW l \in {"wait_lift", "wait_clean"}, Goto(l), Launch("lift"),
         l \in Cleaning \/ stack[1] \notin Cleaning,
         UNCHANGED <<scriptVars, stream, interrupts>>
  PROVE  StageInv'
<1>1. TypeOK /\ StackOK
  BY DEF StageInv
<1>2. l \in Labels /\ l \notin Early
  BY DEF Labels, Early
<1>3. /\ stack' \in Seq(Labels) /\ Len(stack') = Len(stack) /\ stack'[1] = l
      /\ Bottom' = IF Len(stack) = 1 THEN l ELSE Bottom
      /\ \A i \in 1..Len(stack') - 1 : stack'[i] \in Cleaning
  BY <1>1, <1>2, GotoStack
<1>4. /\ batch' \in Nat /\ failed' = FALSE /\ cap' = cap
      /\ running' \subseteq [executor : Executors, op : Caps \cup {"lift"},
                             batch : 1..batch']
      /\ fresh' \subseteq Executors /\ lifted' \subseteq Executors
  BY <1>1, LaunchStep
<1>5. TypeOK'
  BY <1>1, <1>3, <1>4 DEF TypeOK, scriptVars
<1>6. StackOK'
  BY <1>1, <1>2, <1>3 DEF StackOK, scriptVars
<1>7. BatchOK' /\ LiftedOK' /\ CapsStand'
  BY <1>3, LiftSent
<1> QED  BY <1>5, <1>6, <1>7 DEF StageInv

\* A new stage begins with nothing but what the last one left behind.
LEMMA NextStageStep == StageInv /\ NextStage => StageInv'
<1> SUFFICES ASSUME StageInv, NextStage PROVE StageInv'
  OBVIOUS
<1>1. TypeOK /\ StackOK /\ stack' = <<"monitor">> /\ trapSet' = FALSE
      /\ stagecleanedup' = FALSE /\ powerCap' \in Caps /\ stage' \in 1..MaxStages
      /\ UNCHANGED <<remoteVars, stream, interrupts>>
      /\ stack[1] \in {"returned", "killed"}
  BY DEF StageInv, NextStage, TypeOK, Over, At
<1>2. stack' \in Seq(Labels) /\ Len(stack') = 1 /\ stack'[1] = "monitor"
      /\ Bottom' = "monitor"
  BY <1>1 DEF Labels, Bottom
<1>3. TypeOK'
  <2>1. trapSet' \in BOOLEAN /\ stagecleanedup' \in BOOLEAN
    BY <1>1
  <2>2. 1 \in 1..MaxInterrupts + 1
    OBVIOUS
  <2>3. Len(stack') \in 1..MaxInterrupts + 1
    BY <1>2, <2>2
  <2> QED  BY <1>1, <1>2, <2>1, <2>3 DEF TypeOK, remoteVars, commandVars
<1>4. StackOK'
  BY <1>1, <1>2 DEF StackOK, TypeOK
<1>5. Bottom \in Settled
  <2>1. Len(stack) \in Nat \ {0}
    BY <1>1 DEF TypeOK
  <2>2. Len(stack) > 1 => stack[1] \in Cleaning
    BY <1>1, <2>1 DEF StackOK
  <2>3. ~ (Len(stack) > 1)
    BY <1>1, <2>2 DEF Cleaning
  <2>4. Len(stack) = 1
    BY <2>1, <2>3, NoMore
  <2> QED  BY <1>1, <2>4 DEF Bottom, Settled
<1>6. BatchOK' /\ LiftedOK' /\ CapsStand'
  BY <1>1, <1>2, <1>5, RemoteSame
<1> QED  BY <1>3, <1>4, <1>6 DEF StageInv

\* Ctrl+C kills the script, or puts a cleanup on its stack.
LEMMA InterruptStep == StageInv /\ interrupt => StageInv'
<1> SUFFICES ASSUME StageInv, interrupt PROVE StageInv'
  OBVIOUS
<1>1. /\ TypeOK /\ StackOK /\ BatchOK
      /\ UNCHANGED <<scriptVars, commandVars, stream>>
      /\ interrupts' = interrupts + 1 /\ interrupts' \in 0..MaxInterrupts
      /\ interrupts \in Nat
  BY DEF StageInv, interrupt, TypeOK
<1>2. CASE ~ trapSet
  <2>1. stack' = <<"killed">> /\ lifted' = {}
    BY <1>2 DEF interrupt
  <2>2. stack' \in Seq(Labels) /\ Len(stack') = 1 /\ stack'[1] = "killed"
        /\ Bottom' = "killed"
    BY <2>1 DEF Labels, Bottom
  <2>3. 1 \in 1..MaxInterrupts + 1
    OBVIOUS
  <2>4. TypeOK'
    BY <1>1, <2>1, <2>2, <2>3 DEF TypeOK, scriptVars, commandVars
  <2>5. StackOK'
    BY <1>1, <2>2 DEF StackOK
  <2>6. Batch' = Batch /\ running' = running /\ fresh' = fresh
    BY <1>1 DEF Batch, commandVars
  <2>7. BatchOK'
    BY <1>1, <2>2, <2>6 DEF BatchOK, At
  <2>8. LiftedOK'
    BY <2>1 DEF LiftedOK
  <2>9. CapsStand'
    BY <2>2 DEF CapsStand, At
  <2> QED  BY <2>4, <2>5, <2>7, <2>8, <2>9 DEF StageInv
<1>3. CASE trapSet
  <2> DEFINE n == Len(stack)
  <2>1. stack' = <<"cleanup", AfterTrap(stack[1])>> \o Tail(stack) /\ UNCHANGED remoteVars
    BY <1>1, <1>3 DEF interrupt, remoteVars
  <2>2. stack \in Seq(Labels) /\ n \in Nat \ {0} /\ n <= interrupts + 1
    BY <1>1 DEF TypeOK, StackOK
  <2>3. stack[1] \in Labels /\ stack[1] \notin {"monitor", "start", "wait_start"}
    BY <1>1, <1>3, <2>2 DEF StackOK
  <2>4. /\ AfterTrap(stack[1]) \in Labels /\ AfterTrap(stack[1]) \notin Early
        /\ stack[1] \in Cleaning => AfterTrap(stack[1]) \in Cleaning
        /\ AfterTrap(stack[1]) \in Settled => stack[1] \in Settled
    BY <2>3 DEF AfterTrap, Labels, Early, Cleaning, Settled
  <2>5. /\ Tail(stack) \in Seq(Labels) /\ Len(Tail(stack)) = n - 1
        /\ \A i \in 1..n - 1 : Tail(stack)[i] = stack[i + 1]
    BY <2>2
  <2>6. "cleanup" \in Labels /\ "cleanup" \in Cleaning /\ "cleanup" \notin Early
    BY DEF Labels, Cleaning, Early
  <2>7. stack' \in Seq(Labels) /\ Len(stack') = n + 1
        /\ stack'[1] = "cleanup" /\ stack'[2] = AfterTrap(stack[1])
        /\ \A i \in 3..n + 1 : stack'[i] = Tail(stack)[i - 2]
    BY <2>1, <2>2, <2>4, <2>5, <2>6
  <2>8. \A i \in 3..n + 1 : stack'[i] = stack[i - 1]
    <3>1. \A i \in 3..n + 1 : i - 2 \in 1..n - 1 /\ (i - 2) + 1 = i - 1
      BY <2>2
    <3> QED  BY <2>5, <2>7, <3>1
  <2> HIDE DEF n
  <2>9. n > 1 => stack[1] \in Cleaning
    BY <1>1, <2>2 DEF StackOK, n
  <2>10. \A i \in 1..Len(stack') - 1 : stack'[i] \in Cleaning
    <3> SUFFICES ASSUME NEW i \in 1..n PROVE stack'[i] \in Cleaning
      BY <2>2, <2>7
    <3>1. CASE i = 1
      BY <2>6, <2>7, <3>1
    <3>2. CASE i = 2
      BY <2>2, <2>4, <2>7, <2>9, <3>2
    <3>3. CASE i > 2
      <4>1. i \in 3..n + 1 /\ i - 1 \in 1..n - 1
        BY <2>2, <3>3
      <4>2. stack[i - 1] \in Cleaning
        BY <1>1, <4>1 DEF StackOK, n
      <4> QED  BY <2>8, <4>1, <4>2
    <3> QED  BY <2>2, <3>1, <3>2, <3>3
  <2>11. Bottom' = IF n = 1 THEN AfterTrap(stack[1]) ELSE Bottom
    <3>1. CASE n = 1
      BY <2>7, <3>1 DEF Bottom
    <3>2. CASE n # 1
      <4>1. n + 1 \in 3..n + 1 /\ (n + 1) - 1 = n
        BY <2>2, <3>2
      <4>2. stack'[n + 1] = stack[n]
        BY <2>8, <4>1
      <4> QED  BY <2>7, <3>2, <4>2 DEF Bottom, n
    <3> QED  BY <3>1, <3>2
  <2>12. Bottom' \notin Early
    <3>1. n # 1 => n > 1
      BY <2>2
    <3> QED  BY <1>1, <2>4, <2>11, <3>1 DEF StackOK, n
  <2>13. Bottom' \in Settled => Bottom \in Settled
    BY <2>4, <2>11 DEF Bottom, n
  <2>14. Len(stack') \in 1..MaxInterrupts + 1 /\ Len(stack') <= interrupts' + 1
    BY <1>1, <2>2, <2>7
  <2>15. TypeOK'
    BY <1>1, <2>1, <2>7, <2>14 DEF TypeOK, scriptVars, remoteVars, commandVars
  <2>16. StackOK'
    BY <2>7, <2>10, <2>12, <2>14 DEF StackOK
  <2>17. BatchOK' /\ LiftedOK' /\ CapsStand'
    BY <2>1, <2>7, <2>13, RemoteSame
  <2> QED  BY <2>15, <2>16, <2>17 DEF StageInv
<1> QED  BY <1>2, <1>3

\* A command is answered.
LEMMA FinishStep ==
  ASSUME StageInv, NEW c \in running, NEW done \in SUBSET {"cgroup", "rapl"},
         NEW success \in BOOLEAN, Finish(c, done, success)
  PROVE  StageInv'
<1>1. /\ TypeOK /\ StackOK /\ BatchOK /\ LiftedOK /\ CapsStand
      /\ done \subseteq Mechanisms(c.op) /\ (success => Reported(c.op) \in done)
      /\ running' = running \ {c} /\ batch' = batch /\ stack' = stack /\ fresh' = fresh
      /\ UNCHANGED <<scriptVars, stream, interrupts>>
  BY DEF StageInv, Finish
<1>2. /\ c.executor \in Executors /\ c.op \in Caps \cup {"lift"}
      /\ cap \in [Executors -> SUBSET {"cgroup", "rapl"}]
      /\ fresh \subseteq Executors /\ lifted \subseteq Executors
  BY <1>1 DEF TypeOK
<1>3. cap' = [cap EXCEPT ![c.executor] = AfterCommand(@, c.op, done)]
  BY DEF Finish
<1>4. Batch' = Batch \ {c} /\ (c \in Batch <=> c.batch = batch)
  BY <1>1 DEF Batch
<1>5. failed' = (failed \/ (c \in Batch /\ ~ success))
  BY <1>4 DEF Finish
<1>6. lifted' = IF c.op = "lift" /\ c \in Batch /\ success /\ c.executor \in fresh
                  THEN lifted \cup {c.executor} ELSE lifted
  BY <1>4 DEF Finish
<1>7. Bottom' = Bottom
  BY <1>1 DEF Bottom
<1>8. TypeOK'
  <2>1. AfterCommand(cap[c.executor], c.op, done) \in SUBSET {"cgroup", "rapl"}
    BY <1>2 DEF AfterCommand
  <2>2. cap' \in [Executors -> SUBSET {"cgroup", "rapl"}]
    BY <1>2, <1>3, <2>1
  <2>3. lifted' \subseteq Executors
    BY <1>2, <1>6
  <2>4. failed' \in BOOLEAN
    BY <1>5
  <2> QED  BY <1>1, <2>2, <2>3, <2>4 DEF TypeOK, scriptVars
<1>9. StackOK'
  BY <1>1, <1>7 DEF StackOK, scriptVars
<1>10. BatchOK'
  <2>1. At("query") => ~ failed'
    BY <1>1, <1>5 DEF BatchOK
  <2> QED  BY <1>1, <1>4, <2>1 DEF BatchOK, At, scriptVars
<1>11. LiftedOK'
  <2> SUFFICES ASSUME Bottom \in Settled, NEW e \in lifted' PROVE Final(e)'
    BY <1>7 DEF LiftedOK
  <2>1. CASE e \in lifted
    <3>1. Final(e)
      BY <1>1, <2>1 DEF LiftedOK
    <3>2. "rapl" \notin cap'[e]
      <4>1. CASE e # c.executor
        BY <1>2, <1>3, <2>1, <3>1, <4>1 DEF Final
      <4>2. CASE e = c.executor
        <5>1. c.op = "lift"
          BY <3>1, <4>2 DEF Final
        <5>2. cap'[e] = cap[e] \ done
          BY <1>2, <1>3, <4>2, <5>1 DEF AfterCommand, Lifts
        <5> QED  BY <3>1, <5>2 DEF Final
      <4> QED  BY <4>1, <4>2
    <3> QED  BY <1>1, <3>1, <3>2 DEF Final
  <2>2. CASE e \notin lifted
    <3>1. c.op = "lift" /\ c \in Batch /\ success /\ c.executor \in fresh /\ e = c.executor
      BY <1>6, <2>2
    <3>2. "rapl" \in done /\ cap'[e] = cap[e] \ done
      BY <1>1, <1>2, <1>3, <3>1 DEF Reported, AfterCommand, Lifts
    <3>3. \A d \in running : d.executor = e => d.op = "lift"
      BY <1>1, <3>1 DEF BatchOK
    <3> QED  BY <1>1, <3>2, <3>3 DEF Final
  <2> QED  BY <2>1, <2>2
<1>12. CapsStand'
  <2> SUFFICES ASSUME At("wait_start") \/ At("query"), NEW e \in fresh
               PROVE  Capped(e)'
    BY <1>1 DEF CapsStand, At
  <2>1. Capped(e) /\ e \in Executors
    BY <1>1, <1>2 DEF CapsStand
  <2>2. powerCap' = powerCap
    BY <1>1 DEF scriptVars
  <2>3. CASE failed'
    BY <2>3 DEF Capped
  <2>4. CASE ~ failed' /\ e = c.executor
    <3>1. c \in Batch
      BY <1>1, <2>4 DEF BatchOK
    <3>2. success /\ ~ failed
      BY <1>5, <2>4, <3>1
    <3>3. c.op = powerCap /\ powerCap \in {"none", "cgroup", "rapl"}
      BY <1>1, <3>1 DEF BatchOK, TypeOK
    <3>4. cap[e] = {} \/ cap[e] = {powerCap} \ {"none"}
      BY <2>1, <3>2 DEF Capped
    <3>5. cap'[e] = AfterCommand(cap[e], powerCap, done)
      BY <1>2, <1>3, <2>4, <3>3
    <3>6. Reported(powerCap) \in done /\ done \subseteq Mechanisms(powerCap)
      BY <1>1, <3>2, <3>3
    <3>7. AfterCommand(cap[e], powerCap, done) = {powerCap} \ {"none"}
      <4>1. CASE powerCap = "none"
        BY <3>4, <4>1 DEF AfterCommand, Lifts
      <4>2. CASE powerCap # "none"
        <5>1. Mechanisms(powerCap) = {powerCap} /\ Reported(powerCap) = powerCap
              /\ ~ Lifts(powerCap)
          BY <3>3, <4>2 DEF Mechanisms, Reported, Lifts
        <5>2. done = {powerCap}
          BY <3>6, <5>1
        <5> QED  BY <3>4, <4>2, <5>1, <5>2 DEF AfterCommand
      <4> QED  BY <4>1, <4>2
    <3> QED  BY <2>2, <3>5, <3>7 DEF Capped
  <2>5. CASE ~ failed' /\ e # c.executor
    <3>1. cap'[e] = cap[e]
      BY <1>2, <1>3, <2>1, <2>5
    <3>2. \A d \in Batch : d.executor = e => d \in Batch'
      BY <1>4, <2>5
    <3> QED  BY <1>5, <2>1, <2>2, <2>5, <3>1, <3>2 DEF Capped
  <2> QED  BY <2>3, <2>4, <2>5
<1> QED  BY <1>8, <1>9, <1>10, <1>11, <1>12 DEF StageInv

LEMMA StageStep == StageInv /\ [Next]_vars => StageInv'
<1> SUFFICES ASSUME StageInv, [Next]_vars PROVE StageInv'
  OBVIOUS
<1>0. TypeOK /\ StackOK
  BY DEF StageInv
<1> USE DEF At
<1>1. CASE startPowerMonitor
  <2>1. /\ stack[1] = "monitor" /\ ~ trapSet /\ stream' \in BOOLEAN
        /\ UNCHANGED <<scriptVars, remoteVars, interrupts>>
        /\ (Goto("start") /\ stream') \/ Goto("stop")
    BY <1>0, <1>1 DEF startPowerMonitor, StackOK
  <2> QED  BY <2>1, GotoStep DEF Labels, Settled, Cleaning
<1>2. CASE StartCaps
  BY <1>2, StartCapsStep
<1>3. CASE CapsStarted
  BY <1>3, CapsStartedStep
<1>4. CASE RunQueries
  <2>1. /\ stack[1] = "query" /\ stream' \in BOOLEAN
        /\ UNCHANGED <<scriptVars, remoteVars, interrupts>>
        /\ Goto("lift") \/ Goto("cleanup")
    BY <1>0, <1>4 DEF RunQueries, AfterQueries, TypeOK
  <2> QED  BY <2>1, GotoStep DEF Labels, Settled, Cleaning
<1>5. CASE LiftCaps
  BY <1>5, LiftStep DEF LiftCaps, Cleaning
<1>6. CASE CapsLifted
  <2>1. /\ stack[1] = "wait_lift" /\ stream' \in BOOLEAN
        /\ UNCHANGED <<scriptVars, remoteVars, interrupts>> /\ Goto("stop")
    BY <1>0, <1>6 DEF CapsLifted, TypeOK
  <2> QED  BY <2>1, GotoStep DEF Labels, Settled, Cleaning
<1>7. CASE stopPowerMonitor
  <2>1. /\ stack[1] = "stop" /\ stream' \in BOOLEAN
        /\ UNCHANGED <<scriptVars, remoteVars, interrupts>> /\ Goto("returned")
    BY <1>0, <1>7 DEF stopPowerMonitor, StreamStopped, TypeOK
  <2> QED  BY <2>1, GotoStep DEF Labels, Settled, Cleaning
<1>8. CASE Cleanup
  <2>1. CASE stagecleanedup
    <3>1. /\ stack' = Back /\ stream' \in BOOLEAN /\ stagecleanedup' \in BOOLEAN
          /\ UNCHANGED <<stage, powerCap, trapSet, remoteVars, interrupts>>
      BY <1>0, <1>8, <2>1 DEF Cleanup, TypeOK, scriptVars
    <3> QED  BY <3>1, BackStep
  <2>2. CASE ~ stagecleanedup
    <3>1. /\ stream' \in BOOLEAN /\ UNCHANGED <<scriptVars, remoteVars, interrupts>>
          /\ Goto("close_driver")
      BY <1>0, <1>8, <2>2 DEF Cleanup, TypeOK
    <3> QED  BY <3>1, GotoStep DEF Labels, Settled, Cleaning
  <2> QED  BY <2>1, <2>2
<1>9. CASE LiftAll
  BY <1>9, LiftStep DEF LiftAll, Cleaning
<1>10. CASE Cleaned
  <2>1. /\ stream' \in BOOLEAN /\ UNCHANGED <<scriptVars, remoteVars, interrupts>>
        /\ Goto("stop_clean")
    BY <1>0, <1>10 DEF Cleaned, TypeOK
  <2> QED  BY <2>1, GotoStep DEF Labels, Settled, Cleaning
<1>11. CASE StopClean
  <2>1. /\ stack' = Back /\ stream' \in BOOLEAN /\ stagecleanedup' \in BOOLEAN
        /\ UNCHANGED <<stage, powerCap, trapSet, remoteVars, interrupts>>
    BY <1>0, <1>11 DEF StopClean, StreamStopped, TypeOK
  <2> QED  BY <2>1, BackStep
<1>12. CASE ssh
  BY <1>12, FinishStep DEF ssh
<1>13. CASE NextStage
  BY <1>13, NextStageStep
<1>14. CASE interrupt
  BY <1>14, InterruptStep
<1>15. CASE UNCHANGED vars
  <2>1. Batch' = Batch /\ Bottom' = Bottom
    BY <1>15 DEF vars, remoteVars, commandVars, Batch, Bottom
  <2>2. TypeOK' /\ StackOK'
    BY <1>0, <1>15, <2>1 DEF TypeOK, StackOK, vars, scriptVars, remoteVars, commandVars
  <2>3. BatchOK' /\ LiftedOK' /\ CapsStand'
    BY <1>15, <2>1 DEF StageInv, BatchOK, LiftedOK, Final, CapsStand, Capped, vars,
                       scriptVars, remoteVars, commandVars
  <2> QED  BY <2>2, <2>3 DEF StageInv
<1> QED
  BY <1>1, <1>2, <1>3, <1>4, <1>5, <1>6, <1>7, <1>8, <1>9, <1>10, <1>11, <1>12,
     <1>13, <1>14, <1>15 DEF Next, script

\* Every reachable state satisfies StageInv.
THEOREM StageInvariant == Spec => []StageInv
<1> QED  BY StageInit, StageStep, PTL DEF Spec

-----------------------------------------------------------------------------
(* The claims *)

\* Every reachable state is well typed (run, stage_runner.sh:23).
THEOREM TypeCorrect == Spec => []TypeOK
<1>1. StageInv => TypeOK
  BY DEF StageInv
<1> QED  BY <1>1, StageInvariant, PTL

\* A stage that returns leaves no RAPL cap on an executor whose last lifting overlapped
\* with no other command and was reported a success (stage_runner.sh:56 and
\* stagecleanup; setMSR is what functions_powerCap.sh:61 reports).
THEOREM NoCapIsLeft == Spec => []NoCapLeft
<1>1. ASSUME StageInv PROVE NoCapLeft
  <2> SUFFICES ASSUME stack[1] = "returned" PROVE \A e \in lifted : "rapl" \notin cap[e]
    BY DEF NoCapLeft, At
  <2>1. Len(stack) \in Nat \ {0}
    BY <1>1 DEF StageInv, TypeOK
  <2>2. Len(stack) > 1 => stack[1] \in Cleaning
    BY <1>1, <2>1 DEF StageInv, StackOK
  <2>3. ~ (Len(stack) > 1)
    BY <2>2 DEF Cleaning
  <2>4. Len(stack) = 1
    BY <2>1, <2>3, NoMore
  <2>5. Bottom \in Settled
    BY <2>4 DEF Bottom, Settled
  <2> QED  BY <1>1, <2>5 DEF StageInv, LiftedOK, Final
<1> QED  BY <1>1, StageInvariant, PTL

\* The queries of a stage run with the stream on, and under its cap and no other where
\* nothing else was in force or under way (stage_runner.sh:37).
THEOREM QueriesAreCapped == Spec => []CappedAsAsked
<1>1. ASSUME StageInv PROVE CappedAsAsked
  <2> SUFFICES ASSUME At("query")
               PROVE  stream /\ \A e \in fresh : cap[e] = {powerCap} \ {"none"}
    BY DEF CappedAsAsked
  <2>1. Batch = {} /\ ~ failed /\ stream
    BY <1>1 DEF StageInv, BatchOK, At
  <2>2. \A e \in fresh : Capped(e)
    BY <1>1 DEF StageInv, CapsStand
  <2> QED  BY <2>1, <2>2 DEF Capped
<1> QED  BY <1>1, StageInvariant, PTL
=============================================================================
