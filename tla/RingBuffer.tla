----------------------------- MODULE RingBuffer -----------------------------
(***************************************************************************)
(* The ring buffer between the thread that samples and the threads that    *)
(* serve requests: one thread writes, and reads in its callbacks; the      *)
(* others read (src/remotePowerMeasurement/measurementServer/              *)
(* RingBuffer.py).  index and length change under the lock; the rows are   *)
(* written after it is released, and read after it, one row per step.      *)
(*                                                                         *)
(* A row is its number; 0 stands for a row of zeros.                       *)
(***************************************************************************)
EXTENDS Integers, Sequences, FiniteSets

CONSTANTS
  Size,      \* rows of the buffer
  Readers,   \* threads that only read
  Counts,    \* rows that may be written at once; append writes one
  Reads,     \* the calls of Readers, as [op, num]
  Callbacks, \* the calls of the writer, between its writes
  MaxRows    \* bound: rows ever written

Threads == Readers \cup {"writer"}
Slots   == 0..Size-1
Ops     == {"getFIFO", "getLIFO", "popFIFO", "popLIFO"}

ASSUME RingBufferAssumption ==
  /\ Size \in Nat \ {0}
  /\ Counts \subseteq Nat \ {0} /\ MaxRows \in Nat
  /\ Readers \cap {"writer", "free"} = {}
  /\ Reads \subseteq [op : Ops, num : Nat] /\ Callbacks \subseteq Reads

VARIABLES
  index, length, lock,
  data,     \* the row in each slot
  writing,  \* slots that the writer has reserved and not yet written
  idx,      \* slots that a thread has still to read
  got,      \* rows it has read
  pc,
  total,    \* rows reserved so far
  owner,    \* history: the row for which each slot was reserved last
  expect,   \* history: what the call had to return when it took the lock
  unwritten, \* history: the rows that were reserved and not yet written then
  room      \* history: rows that may be reserved before what it reads is hit

bufferVars  == <<index, length, lock>>
readVars    == <<idx, got>>
historyVars == <<expect, unwritten, room>>
vars == <<bufferVars, data, writing, readVars, pc, total, owner, historyVars>>

At(t, label)   == pc[t] = label
Goto(t, label) == pc' = [pc EXCEPT ![t] = label]
Reading(t)     == pc[t] \in {"read", "pop", "got"}

-----------------------------------------------------------------------------
(* Index arithmetic *)

MinOf(a, b) == IF a <= b THEN a ELSE b
MaxOf(a, b) == IF a >= b THEN a ELSE b

Limited(n) == MinOf(Size, n)

\* The slot of the row with k older rows before it, of l that end before i.
SlotAt(i, l, k) == (i + k - l) % Size

\* Seeded fault: the newest row is left out.
AllButNewest(i, l) == [k \in 1..l |-> SlotAt(i, l, l - k - 1)]
Oldest(i, l) == [k \in 1..l |-> SlotAt(i, l, k - 1)]
Newest(i, l) == [k \in 1..l |-> SlotAt(i, l, l - k)]
Wanted(num, l) == IF num < 1 THEN l ELSE MinOf(num, l)
Chosen(c) ==
  SubSeq(IF c.op \in {"getFIFO", "popFIFO"} THEN Oldest(index, length)
                                            ELSE Newest(index, length),
         1, Wanted(c.num, length))

\* The queue that index and length stand for, and what a call has to return.
Queue == [k \in 1..length |-> owner[SlotAt(index, length, k - 1)]]
Promised(c) ==
  LET n == Wanted(c.num, length) IN
  IF c.op \in {"getFIFO", "popFIFO"} THEN [k \in 1..n |-> Queue[k]]
                                     ELSE [k \in 1..n |-> Queue[length + 1 - k]]

-----------------------------------------------------------------------------
(* append and extend *)

\* Seeded fault: the rows are written one slot too far.
OneFurther(n) == [i \in 1..n |-> <<(index + i) % Size, total + i>>]
\* Seeded fault: the first of the rows is left as it was.
FirstLost(n) == [i \in 1..n |-> <<(index + MaxOf(i, 2) - 1) % Size, total + i>>]
Rows(n) == [i \in 1..n |-> <<(index + i - 1) % Size, total + i>>]

\* Seeded fault: append moves on by two.
SkipOne(n) == (index + n + 1) % Size
NextIndex(n) == (index + n) % Size

\* What a reader has still to read is hit once the rows beyond its oldest
\* have been reserved.
Reserve(n) ==
  /\ At("writer", "idle") /\ lock = "free" /\ total + n <= MaxRows
  /\ index' = NextIndex(n)
  /\ length' = Limited(length + n)
  /\ writing' = Rows(n)
  /\ owner' = [s \in Slots |->
       LET hits == {i \in 1..n : (index + i - 1) % Size = s} IN
       IF hits = {} THEN owner[s]
       ELSE total + (CHOOSE i \in hits : \A j \in hits : j <= i)]
  /\ total' = total + n
  /\ room' = [t \in Threads |-> IF Reading(t) /\ room[t] >= 0
                                  THEN MaxOf(room[t] - n, -1) ELSE room[t]]
  /\ Goto("writer", "write")
  /\ UNCHANGED <<lock, data, readVars, expect, unwritten>>

WriteRow ==
  /\ At("writer", "write")
  /\ data' = [data EXCEPT ![Head(writing)[1]] = Head(writing)[2]]
  /\ writing' = Tail(writing)
  /\ IF Len(writing) = 1 THEN Goto("writer", "callback") ELSE UNCHANGED pc
  /\ UNCHANGED <<bufferVars, readVars, total, owner, historyVars>>

EndCallback ==
  /\ At("writer", "callback") /\ Goto("writer", "idle")
  /\ UNCHANGED <<bufferVars, data, writing, readVars, total, owner, historyVars>>

write == Reserve(1) \/ (\E n \in Counts : Reserve(n)) \/ WriteRow \/ EndCallback

-----------------------------------------------------------------------------
(* getFIFO, getLIFO, popFIFO, popLIFO *)

\* popLIFO keeps the lock while it reads.
HeldDuring(c) == IF c.op = "popLIFO" THEN "held" ELSE "free"

\* popFIFO reduces the length before it reads.
AfterLock(c) == IF c.op = "popFIFO" THEN length - Wanted(c.num, length) ELSE length

\* How many reservations leave the rows of c alone: FIFO calls read from the
\* oldest row on, LIFO calls down to the last one wanted.
Depth(c) == IF c.op \in {"getFIFO", "popFIFO"} THEN length
                                               ELSE Wanted(c.num, length)

Begin(t, c) ==
  /\ pc[t] = IF t = "writer" THEN "callback" ELSE "idle"
  /\ lock = "free"
  /\ idx' = [idx EXCEPT ![t] = Chosen(c)]
  /\ got' = [got EXCEPT ![t] = <<>>]
  /\ length' = AfterLock(c)
  /\ lock' = HeldDuring(c)
  /\ expect' = [expect EXCEPT ![t] = Promised(c)]
  /\ unwritten' = [unwritten EXCEPT ![t] = {writing[i][2] : i \in 1..Len(writing)}]
  /\ room' = [room EXCEPT ![t] = Size - Depth(c)]
  /\ Goto(t, IF c.op = "popLIFO" THEN "pop"
             ELSE IF Chosen(c) = <<>> THEN "got" ELSE "read")
  /\ UNCHANGED <<index, data, writing, total, owner>>

ReadRow(t) ==
  /\ pc[t] \in {"read", "pop"} /\ idx[t] # <<>>
  /\ got' = [got EXCEPT ![t] = Append(@, data[Head(idx[t])])]
  /\ idx' = [idx EXCEPT ![t] = Tail(@)]
  /\ IF At(t, "read") /\ Len(idx[t]) = 1 THEN Goto(t, "got") ELSE UNCHANGED pc
  /\ UNCHANGED <<bufferVars, data, writing, total, owner, historyVars>>

\* popLIFO gives the slots back, and only then the lock: the next rows go where
\* another reader may still be reading.
EndPop(t) ==
  /\ At(t, "pop") /\ idx[t] = <<>> /\ Goto(t, "got")
  /\ length' = length - Len(got[t])
  /\ index' = (index - Len(got[t])) % Size
  /\ lock' = "free"
  /\ room' = [u \in Threads |-> IF Reading(u) /\ u # t /\ got[t] # <<>>
                                  THEN -1 ELSE room[u]]
  /\ UNCHANGED <<data, writing, readVars, total, owner, expect, unwritten>>

Return(t) ==
  /\ At(t, "got") /\ Goto(t, IF t = "writer" THEN "callback" ELSE "idle")
  /\ got' = [got EXCEPT ![t] = <<>>]
  /\ expect' = [expect EXCEPT ![t] = <<>>]
  /\ unwritten' = [unwritten EXCEPT ![t] = {}] /\ room' = [room EXCEPT ![t] = 0]
  /\ UNCHANGED <<bufferVars, data, writing, idx, total, owner>>

Calls(t) == IF t = "writer" THEN Callbacks ELSE Reads
read(t) == \/ \E c \in Calls(t) : Begin(t, c)
           \/ ReadRow(t) \/ EndPop(t) \/ Return(t)

-----------------------------------------------------------------------------
Init ==
  /\ index = 0 /\ length = 0 /\ lock = "free"
  /\ data = [s \in Slots |-> 0] /\ writing = <<>>
  /\ idx = [t \in Threads |-> <<>>] /\ got = [t \in Threads |-> <<>>]
  /\ pc = [t \in Threads |-> "idle"]
  /\ total = 0 /\ owner = [s \in Slots |-> 0]
  /\ expect = [t \in Threads |-> <<>>]
  /\ unwritten = [t \in Threads |-> {}] /\ room = [t \in Threads |-> 0]

Next == write \/ \E t \in Threads : read(t)

Spec == Init /\ [][Next]_vars
-----------------------------------------------------------------------------
\* The type invariant.
TypeOK ==
  /\ index \in Slots /\ length \in 0..Size /\ lock \in {"free", "held"}
  /\ data \in [Slots -> 0..MaxRows] /\ owner \in [Slots -> 0..MaxRows]
  /\ writing \in Seq(Slots \X (1..MaxRows)) /\ total \in 0..MaxRows
  /\ idx \in [Threads -> Seq(Slots)] /\ got \in [Threads -> Seq(0..MaxRows)]
  /\ pc \in [Threads -> {"idle", "write", "callback", "read", "pop", "got"}]
  /\ expect \in [Threads -> Seq(0..MaxRows)]
  /\ unwritten \in [Threads -> SUBSET (1..MaxRows)] /\ room \in [Threads -> -1..Size]

F == INSTANCE Fifo WITH queue <- Queue, Counts <- Counts \cup {1}

\* The buffer implements the queue of the last Size rows: the slots that index
\* and length delimit were reserved for its rows, in order (lines 24-114).
ImplementsFifo == F!Spec

\* What a callback reads, between two writes of its own thread, is exactly the
\* rows that were there when it took the lock: the streams are sent from the
\* callback (PowerMeasurementServer.py:306-309).
CallbacksReadExactly ==
  At("writer", "got") => got["writer"] = expect["writer"]

\* Line 10 calls the access functions "threadsafe except in the case of buffer
\* overflow".  They are not: the index moves on before the row is written (lines
\* 27-34).  What holds is that a thread gets the rows of the moment at which it
\* took the lock, but for those that were unwritten then, each of which it gets
\* or an older one in its place; unless, in the meantime, the writer has reserved
\* more rows than the buffer has beyond the oldest one read, or another thread
\* has given slots back by popLIFO.
OnlyUnwrittenAreStale ==
  \A t \in Readers : At(t, "got") /\ room[t] >= 0 =>
    /\ Len(got[t]) = Len(expect[t])
    /\ \A k \in 1..Len(got[t]) :
         \/ got[t][k] = expect[t][k]
         \/ expect[t][k] \in unwritten[t] /\ got[t][k] < expect[t][k]

\* Once no row waits to be written, the slots hold the rows they were reserved
\* for (lines 33-34 and 52-53).
EveryRowIsWritten == writing = <<>> => data = owner
=============================================================================
