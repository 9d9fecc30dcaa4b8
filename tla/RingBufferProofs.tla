-------------------------- MODULE RingBufferProofs --------------------------
(***************************************************************************)
(* Proofs about RingBuffer, for every size, any readers and any calls:     *)
(* type correctness, which is that the index arithmetic stays inside the   *)
(* buffer; that every row ends up in the slot reserved for it; that a      *)
(* callback reads exactly the rows of the moment when it took the lock;    *)
(* that other threads do so until the writer has gone around, but for rows *)
(* that were not yet written at that moment; and that the                  *)
(* buffer implements Fifo: the arithmetic modulo Size that places the rows *)
(* keeps those of the queue apart and in order.                            *)
(***************************************************************************)
EXTENDS RingBuffer, SequenceTheorems, FiniteSetTheorems,
        WellFoundedInduction, TLAPS

USE RingBufferAssumption

-----------------------------------------------------------------------------
(* Arithmetic and sequences *)

LEMMA ModInSlots == \A x \in Int : x % Size \in Slots
  BY DEF Slots

LEMMA DivMod == \A x \in Int : /\ x % Size \in 0..Size-1
                               /\ \E q \in Int : x = Size * q + (x % Size)
<1> TAKE x \in Int
<1> DEFINE q == x \div Size
<1>1. x % Size = x - Size * q /\ q \in Int /\ x % Size \in 0..Size-1
  OBVIOUS
<1> HIDE DEF q
<1>2. Size * q \in Int /\ x % Size \in Int
  BY <1>1
<1>3. x = Size * q + (x % Size)
  <2>1. \A a, b, c \in Int : b = a - c => a = c + b
    OBVIOUS
  <2> QED  BY <1>1, <1>2, <2>1, Zenon
<1> QED  BY <1>1, <1>3

LEMMA ModUnique == \A x, q \in Int : \A r \in 0..Size-1 :
                     x = Size * q + r => (x % Size) = r
  OBVIOUS

LEMMA ModShift == \A x, y \in Int : ((x % Size) + y) % Size = (x + y) % Size
<1> TAKE x, y \in Int
<1>1. PICK q \in Int : x = Size * q + (x % Size)
  BY DivMod
<1> DEFINE r == x % Size
           u == (r + y) % Size
<1>2. x = Size * q + r /\ r \in Int
  <2>1. x % Size \in Int
    BY DivMod
  <2> QED  BY <1>1, <2>1, Zenon
<1> HIDE DEF r
<1>3. r + y \in Int
  BY <1>2
<1>4. PICK p \in Int : r + y = Size * p + u
  BY <1>3, DivMod
<1>5. u \in 0..Size-1
  BY <1>3, DivMod
<1> HIDE DEF u
<1>6. Size * (q + p) = Size * q + Size * p /\ Size * q \in Int /\ Size * p \in Int
  OBVIOUS
<1>7. x + y = Size * (q + p) + u
  BY <1>2, <1>4, <1>5, <1>6
<1>8. (x + y) % Size = u
  <2>1. x + y \in Int /\ q + p \in Int
    OBVIOUS
  <2> QED  BY <1>5, <1>7, <2>1, ModUnique
<1> QED  BY <1>8 DEF u, r

\* Numbers less than Size apart stand for different slots.
LEMMA ModDistinct ==
  ASSUME NEW x \in Int, NEW y \in Int, x < y, y - x < Size
  PROVE  x % Size # y % Size
<1> SUFFICES ASSUME x % Size = y % Size PROVE FALSE
  OBVIOUS
<1> DEFINE r == x % Size
<1>1. PICK q \in Int : x = Size * q + r
  BY DivMod
<1>2. PICK p \in Int : y = Size * p + r
  BY DivMod
<1>3. r \in Int
  BY DivMod
<1> HIDE DEF r
<1>4. Size * (p - q) = Size * p - Size * q /\ Size * p \in Int /\ Size * q \in Int
  OBVIOUS
<1>5. y - x = Size * (p - q)
  BY <1>1, <1>2, <1>3, <1>4
<1>6. p - q > 0 /\ p - q < 1
  BY <1>5
<1> QED  BY <1>6

\* A finite set of numbers that is not empty has a greatest element.
LEMMA Greatest ==
  ASSUME NEW n \in Nat, NEW S \in SUBSET (1..n), S # {}
  PROVE  \E m \in S : \A j \in S : j <= m
<1> DEFINE From(i) == S \cap (i..n)
           T == {From(i) : i \in S}
           R == StrictSubsetOrdering(1..n)
<1>1. IsWellFoundedOn(R, SUBSET (1..n))
  <2>1. IsFiniteSet(1..n)
    BY FS_Interval
  <2>2. FiniteSubsetsOf(1..n) = SUBSET (1..n)
    BY <2>1, FS_FiniteSubsetsOfFinite
  <2>3. IsWellFoundedOn(R, FiniteSubsetsOf(1..n))
    BY FS_StrictSubsetOrderingWellFounded
  <2> QED  BY <2>2, <2>3
<1>2. T \subseteq SUBSET (1..n) /\ T # {}
  OBVIOUS
<1>3. PICK X \in T : \A Y \in T : ~ (<<Y, X>> \in R)
  <2> HIDE DEF T, R
  <2> QED  BY <1>1, <1>2, WFMin
<1>4. PICK m \in S : X = From(m)
  BY <1>3
<1>5. ASSUME NEW j \in S, j > m
      PROVE  FALSE
  <2>1. From(j) \in T
    OBVIOUS
  <2>2. From(j) \subseteq From(m) /\ m \in From(m) /\ m \notin From(j)
    BY <1>5
  <2>3. <<From(j), X>> \in R
    <3>1. From(j) \in SUBSET (1..n) /\ X \in SUBSET (1..n) /\ From(j) # X
      BY <1>4, <2>2
    <3> QED  BY <1>4, <2>2, <3>1 DEF StrictSubsetOrdering
  <2> QED  BY <1>3, <2>1, <2>3
<1>6. \A j \in S : j <= m \/ j > m
  OBVIOUS
<1> QED  BY <1>5, <1>6

LEMMA RowsType ==
  ASSUME NEW n \in Nat, index \in Slots, total \in Nat, total + n <= MaxRows
  PROVE  /\ Rows(n) \in Seq(Slots \X (1..MaxRows)) /\ Len(Rows(n)) = n
         /\ \A i \in 1..n : Rows(n)[i] = <<(index + i - 1) % Size, total + i>>
<1>1. \A i \in 1..n : /\ (index + i - 1) % Size \in Slots
                      /\ total + i \in 1..MaxRows
  <2> TAKE i \in 1..n
  <2>1. index + i - 1 \in Int
    BY DEF Slots
  <2> QED  BY <2>1, ModInSlots
<1> QED  BY <1>1 DEF Rows

LEMMA OldestType ==
  ASSUME NEW i \in Slots, NEW l \in Nat
  PROVE  /\ \A k \in Int : SlotAt(i, l, k) \in Slots
         /\ Oldest(i, l) \in Seq(Slots) /\ Len(Oldest(i, l)) = l
         /\ Newest(i, l) \in Seq(Slots) /\ Len(Newest(i, l)) = l
<1>1. \A k \in Int : SlotAt(i, l, k) \in Slots
  <2> TAKE k \in Int
  <2>1. i + k - l \in Int
    BY DEF Slots
  <2> QED  BY <2>1, ModInSlots DEF SlotAt
<1>2. \A k \in 1..l : k - 1 \in Int /\ l - k \in Int
  OBVIOUS
<1> HIDE DEF Slots
<1>3. Oldest(i, l) \in Seq(Slots) /\ Len(Oldest(i, l)) = l
  BY <1>1, <1>2 DEF Oldest
<1>4. Newest(i, l) \in Seq(Slots) /\ Len(Newest(i, l)) = l
  BY <1>1, <1>2 DEF Newest
<1> QED  BY <1>1, <1>3, <1>4

LEMMA ChosenType ==
  ASSUME index \in Slots, length \in 0..Size, NEW c, c.num \in Nat
  PROVE  /\ Wanted(c.num, length) \in 0..length
         /\ Chosen(c) \in Seq(Slots) /\ Len(Chosen(c)) = Wanted(c.num, length)
<1> DEFINE w == Wanted(c.num, length)
<1>1. w \in 0..length
  BY DEF Wanted, MinOf
<1>2. ASSUME NEW s \in Seq(Slots), Len(s) = length
      PROVE  SubSeq(s, 1, w) \in Seq(Slots) /\ Len(SubSeq(s, 1, w)) = w
  <2>1. \A i \in 1..w : s[i] \in Slots
    BY <1>1, <1>2, ElementOfSeq
  <2> HIDE DEF w
  <2> QED  BY <1>1, <2>1, SubSeqProperties
<1> HIDE DEF w
<1> QED  BY <1>1, <1>2, OldestType DEF Chosen, w

\* What a call has to return are rows that were reserved.
LEMMA PromisedType ==
  ASSUME index \in Slots, length \in 0..Size, owner \in [Slots -> 0..MaxRows],
         NEW c, c.num \in Nat
  PROVE  Promised(c) \in Seq(0..MaxRows)
<1> DEFINE w == Wanted(c.num, length)
<1>1. w \in 0..length
  BY ChosenType
<1>2. \A k \in 1..length : Queue[k] \in 0..MaxRows
  BY OldestType DEF Queue
<1>3. \A k \in 1..w : k \in 1..length /\ length + 1 - k \in 1..length
  BY <1>1
<1> HIDE DEF w
<1>4. [k \in 1..w |-> Queue[k]] \in Seq(0..MaxRows)
  BY <1>1, <1>2, <1>3
<1>5. [k \in 1..w |-> Queue[length + 1 - k]] \in Seq(0..MaxRows)
  BY <1>1, <1>2, <1>3
<1> QED  BY <1>4, <1>5 DEF Promised, w

-----------------------------------------------------------------------------
(* The invariant *)

Labels == {"idle", "write", "callback", "read", "pop", "got"}

\* One thread at most is in popLIFO; it holds the lock, and what it has still to
\* give back is in the buffer.
PopOK ==
  /\ \A t \in Threads : At(t, "pop") => /\ lock = "held"
                                        /\ Len(idx[t]) + Len(got[t]) <= length
  /\ \A t, u \in Threads : At(t, "pop") /\ At(u, "pop") => t = u

WriteOK == At("writer", "write") <=> writing # <<>>

\* A slot has its row, or the last row to be written there is its row.
Free(w, s) == \A i \in 1..Len(w) : w[i][1] # s
Last(w, i) == \A j \in i+1..Len(w) : w[j][1] # w[i][1]
Awaits(w, s, r) == \E i \in 1..Len(w) : w[i] = <<s, r>> /\ Last(w, i)
SlotsOK == \A s \in Slots : \/ data[s] = owner[s] /\ Free(writing, s)
                            \/ Awaits(writing, s, owner[s])

BufferInv == TypeOK /\ PopOK /\ WriteOK /\ SlotsOK

LEMMA InitInv == Init => BufferInv
<1> SUFFICES ASSUME Init PROVE BufferInv
  OBVIOUS
<1>1. \A S : <<>> \in Seq(S)
  BY EmptySeq
<1>2. TypeOK
  <2>1. unwritten \in [Threads -> SUBSET (1..MaxRows)]
    BY DEF Init
  <2>2. 0 \in Slots
    BY DEF Slots
  <2> QED  BY <1>1, <2>1, <2>2 DEF Init, TypeOK, Labels
<1>3. PopOK /\ WriteOK
  BY DEF Init, PopOK, WriteOK, At, Threads
<1>4. SlotsOK
  BY DEF Init, SlotsOK, Free
<1> QED  BY <1>2, <1>3, <1>4 DEF BufferInv

\* A step of a thread that neither writes nor changes what is to be written.
LEMMA WritesKept ==
  ASSUME WriteOK, SlotsOK, pc \in [Threads -> Labels], NEW t \in Threads, NEW l,
         pc' = pc \/ (pc' = [pc EXCEPT ![t] = l] /\ l # "write" /\ pc[t] # "write"),
         UNCHANGED <<writing, data, owner>>
  PROVE  WriteOK' /\ SlotsOK'
<1>1. "writer" \in Threads
  BY DEF Threads
<1>2. pc'["writer"] = "write" <=> pc["writer"] = "write"
  BY <1>1
<1>3. WriteOK'
  BY <1>2 DEF WriteOK, At
<1>4. SlotsOK'
  BY DEF SlotsOK
<1> QED  BY <1>3, <1>4

\* The reader in popLIFO goes on alone.
LEMMA PopsKept ==
  ASSUME PopOK, pc \in [Threads -> Labels], NEW t \in Threads, NEW l,
         pc' = pc \/ (pc' = [pc EXCEPT ![t] = l] /\ l # "pop"),
         \A u \in Threads : At(u, "pop") /\ pc'[u] = "pop" =>
            /\ lock' = lock /\ length' = length
            /\ Len(idx'[u]) + Len(got'[u]) = Len(idx[u]) + Len(got[u])
  PROVE  PopOK'
<1>1. \A u \in Threads : pc'[u] = "pop" => pc[u] = "pop"
  OBVIOUS
<1> QED  BY <1>1, Zenon DEF PopOK, At

-----------------------------------------------------------------------------
(* The steps of the writer *)

LEMMA ReserveStep ==
  ASSUME BufferInv, NEW n \in Nat \ {0}, Reserve(n)
  PROVE  BufferInv'
<1> DEFINE Hits(s) == {i \in 1..n : (index + i - 1) % Size = s}
           Top(s) == CHOOSE i \in Hits(s) : \A j \in Hits(s) : j <= i
<1>1. /\ index \in Slots /\ length \in 0..Size /\ total \in 0..MaxRows
      /\ owner \in [Slots -> 0..MaxRows] /\ data \in [Slots -> 0..MaxRows]
      /\ total + n <= MaxRows /\ total \in Nat
  BY DEF BufferInv, TypeOK, Labels, Reserve
<1>2. \A s : Hits(s) # {} => /\ Top(s) \in Hits(s) /\ Top(s) \in 1..n
                             /\ \A j \in Hits(s) : j <= Top(s)
  <2> TAKE s
  <2> SUFFICES ASSUME Hits(s) # {}
               PROVE  Top(s) \in Hits(s) /\ \A j \in Hits(s) : j <= Top(s)
    OBVIOUS
  <2>1. \E m \in Hits(s) : \A j \in Hits(s) : j <= m
    BY Greatest
  <2> HIDE DEF Hits
  <2> QED  BY <2>1
<1>3. owner' = [s \in Slots |-> IF Hits(s) = {} THEN owner[s] ELSE total + Top(s)]
  BY DEF Reserve
<1>4. /\ writing' = Rows(n) /\ total' = total + n
      /\ UNCHANGED <<lock, data, readVars, expect, unwritten>>
      /\ pc' = [pc EXCEPT !["writer"] = "write"] /\ lock = "free"
      /\ index' = (index + n) % Size /\ length' = MinOf(Size, length + n)
      /\ pc["writer"] = "idle"
  BY DEF Reserve, Goto, At, NextIndex, Limited
<1>5. /\ Rows(n) \in Seq(Slots \X (1..MaxRows)) /\ Len(Rows(n)) = n
      /\ \A i \in 1..n : Rows(n)[i] = <<(index + i - 1) % Size, total + i>>
  BY <1>1, RowsType
<1>6. TypeOK'
  <2>1. index' \in Slots
    <3>1. index + n \in Int
      BY <1>1 DEF Slots
    <3> QED  BY <1>4, <3>1, ModInSlots
  <2>2. length' \in 0..Size /\ total' \in 0..MaxRows
    BY <1>1, <1>4 DEF MinOf
  <2>3. owner' \in [Slots -> 0..MaxRows]
    <3>1. \A s \in Slots : Hits(s) # {} => total + Top(s) \in 0..MaxRows
      BY <1>1, <1>2
    <3> HIDE DEF Hits, Top
    <3> QED  BY <1>1, <1>3, <3>1
  <2>4. room' \in [Threads -> -1..Size]
    <3>1. room \in [Threads -> -1..Size]
      BY DEF BufferInv, TypeOK, Labels
    <3>2. room' = [t \in Threads |-> IF Reading(t) /\ room[t] >= 0
                                  THEN MaxOf(room[t] - n, -1) ELSE room[t]]
      BY DEF Reserve
    <3>3. \A x \in -1..Size : x >= 0 => MaxOf(x - n, -1) \in -1..Size
      BY DEF MaxOf
    <3> QED  BY <3>1, <3>2, <3>3
  <2>5. pc' \in [Threads -> Labels]
    BY <1>4 DEF BufferInv, TypeOK, Labels
  <2>6. unwritten' \in [Threads -> SUBSET (1..MaxRows)]
    BY <1>4 DEF BufferInv, TypeOK, Labels
  <2> QED  BY <1>4, <1>5, <2>1, <2>2, <2>3, <2>4, <2>5, <2>6
           DEF BufferInv, TypeOK, Labels, readVars
<1>7. PopOK'
  <2>1. \A u \in Threads : pc[u] # "pop"
    BY <1>4 DEF BufferInv, PopOK, At
  <2>2. \A u \in Threads : pc'[u] # "pop"
    BY <1>4, <2>1 DEF BufferInv, TypeOK, Labels
  <2> QED  BY <2>2 DEF PopOK, At
<1>8. WriteOK'
  <2>1. pc'["writer"] = "write"
    BY <1>4 DEF BufferInv, TypeOK, Labels, Threads
  <2>2. writing' # <<>>
    BY <1>4, <1>5
  <2> QED  BY <2>1, <2>2 DEF WriteOK, At
<1>9. SlotsOK'
  <2> SUFFICES ASSUME NEW s \in Slots
               PROVE  \/ data[s] = owner'[s] /\ Free(Rows(n), s)
                      \/ Awaits(Rows(n), s, owner'[s])
    <3>1. writing' = Rows(n) /\ data' = data
      BY <1>4
    <3> HIDE DEF Hits, Top
    <3> QED  BY <3>1 DEF SlotsOK
  <2>0. \A i \in 1..n : Rows(n)[i][1] = (index + i - 1) % Size
    BY <1>5
  <2>1. CASE Hits(s) = {}
    <3>1. data[s] = owner[s]
      <4>1. writing = <<>>
        BY <1>4 DEF BufferInv, WriteOK, At
      <4>2. ~ Awaits(writing, s, owner[s])
        BY <4>1 DEF Awaits
      <4> QED  BY <4>2 DEF BufferInv, SlotsOK
    <3>2. owner'[s] = owner[s]
      BY <1>3, <2>1
    <3>3. Free(Rows(n), s)
      BY <1>5, <2>0, <2>1 DEF Free
    <3> QED  BY <3>1, <3>2, <3>3
  <2>2. CASE Hits(s) # {}
    <3>1. owner'[s] = total + Top(s)
      BY <1>3, <2>2
    <3>2. Top(s) \in 1..n /\ (index + Top(s) - 1) % Size = s /\ \A j \in Hits(s) : j <= Top(s)
      BY <1>2, <2>2
    <3>3. Rows(n)[Top(s)] = <<s, owner'[s]>>
      BY <1>5, <3>1, <3>2
    <3>4. \A j \in Top(s)+1..n : j \in 1..n /\ j \notin Hits(s)
      <4> HIDE DEF Hits, Top
      <4> QED  BY <3>2
    <3>5. \A j \in Top(s)+1..n : Rows(n)[j][1] # s
      BY <2>0, <3>4
    <3>6. Rows(n)[Top(s)][1] = s
      BY <3>3
    <3> HIDE DEF Top, Hits
    <3> QED  BY <1>5, <3>2, <3>3, <3>5, <3>6 DEF Awaits, Last
  <2> QED  BY <2>1, <2>2
<1> QED  BY <1>6, <1>7, <1>8, <1>9 DEF BufferInv

LEMMA WriteRowStep ==
  ASSUME BufferInv, WriteRow
  PROVE  BufferInv'
<1> DEFINE h == Head(writing)
           T == Tail(writing)
<1>1. /\ pc["writer"] = "write" /\ writing' = T
      /\ data' = [data EXCEPT ![h[1]] = h[2]]
      /\ UNCHANGED <<bufferVars, readVars, total, owner, historyVars>>
      /\ IF Len(writing) = 1 THEN pc' = [pc EXCEPT !["writer"] = "callback"] ELSE pc' = pc
  BY DEF WriteRow, At, Goto
<1>2. /\ writing \in Seq(Slots \X (1..MaxRows)) /\ writing # <<>>
      /\ pc \in [Threads -> Labels]
      /\ data \in [Slots -> 0..MaxRows]
  BY <1>1 DEF BufferInv, TypeOK, Labels, WriteOK, At
<1>3. /\ h \in Slots \X (1..MaxRows) /\ T \in Seq(Slots \X (1..MaxRows))
      /\ Len(T) = Len(writing) - 1 /\ Len(writing) \in Nat /\ Len(writing) > 0
      /\ \A i \in 1..Len(T) : T[i] = writing[i + 1]
      /\ h = writing[1]
  BY <1>2, HeadTailProperties, EmptySeq, LenProperties
<1> HIDE DEF h, T
<1>4. "writer" \in Threads
  BY DEF Threads
<1>5. TypeOK'
  <2>1. data' \in [Slots -> 0..MaxRows]
    BY <1>1, <1>2, <1>3
  <2>2. pc' \in [Threads -> Labels]
    BY <1>1, <1>2 DEF Labels
  <2> QED  BY <1>1, <1>3, <2>1, <2>2
           DEF BufferInv, TypeOK, Labels, bufferVars, readVars, historyVars
<1>6. PopOK'
  <2>1. pc' = pc \/ pc' = [pc EXCEPT !["writer"] = "callback"]
    BY <1>1
  <2>2. pc \in [Threads -> Labels]
    BY <1>2
  <2>3. UNCHANGED <<lock, length, idx, got>>
    BY <1>1 DEF bufferVars, readVars
  <2> QED  BY <1>4, <2>1, <2>2, <2>3, PopsKept DEF BufferInv
<1>7. WriteOK'
  <2>1. CASE Len(writing) = 1
    <3>1. T = <<>> /\ pc'["writer"] = "callback"
      BY <1>1, <1>2, <1>3, <1>4, <2>1, EmptySeq
    <3> QED  BY <1>1, <3>1 DEF WriteOK, At
  <2>2. CASE Len(writing) # 1
    <3>1. T # <<>> /\ pc'["writer"] = "write"
      BY <1>1, <1>3, <2>2
    <3> QED  BY <1>1, <3>1 DEF WriteOK, At
  <2> QED  BY <2>1, <2>2
<1>8. ASSUME NEW s \in Slots
      PROVE  \/ data'[s] = owner[s] /\ Free(T, s)
             \/ Awaits(T, s, owner[s])
  <2>1. CASE data[s] = owner[s] /\ Free(writing, s)
    <3>1. h[1] # s
      BY <1>3, <2>1 DEF Free
    <3>2. data'[s] = data[s]
      BY <1>1, <1>2, <1>3, <3>1
    <3>3. \A i \in 1..Len(T) : i + 1 \in 1..Len(writing)
      BY <1>3
    <3>4. Free(T, s)
      BY <1>3, <2>1, <3>3 DEF Free
    <3> QED  BY <2>1, <3>2, <3>4
  <2>2. CASE Awaits(writing, s, owner[s])
    <3>1. PICK i \in 1..Len(writing) : writing[i] = <<s, owner[s]>> /\ Last(writing, i)
      BY <2>2 DEF Awaits
    <3>2. \A j \in i+1..Len(writing) : writing[j][1] # s
      <4>1. writing[i][1] = s
        BY <3>1
      <4> QED  BY <3>1, <4>1 DEF Last
    <3>3. CASE i = 1
      <4>1. h = <<s, owner[s]>>
        BY <1>3, <3>1, <3>3
      <4>2. data'[s] = owner[s]
        BY <1>1, <1>2, <4>1
      <4>3. \A k \in 1..Len(T) : k + 1 \in i+1..Len(writing)
        BY <1>3, <3>3
      <4>4. Free(T, s)
        BY <1>3, <3>2, <4>3 DEF Free
      <4> QED  BY <4>2, <4>4
    <3>4. CASE i # 1
      <4>1. i - 1 \in 1..Len(T) /\ (i - 1) + 1 = i
        BY <1>3, <3>4
      <4>2. T[i - 1] = <<s, owner[s]>>
        BY <1>3, <3>1, <4>1
      <4>3. \A k \in (i-1)+1..Len(T) : k + 1 \in i+1..Len(writing) /\ k \in 1..Len(T)
        BY <1>3, <4>1
      <4>4. \A k \in (i-1)+1..Len(T) : T[k][1] # s
        BY <1>3, <3>2, <4>3
      <4>5. T[i - 1][1] = s
        BY <4>2
      <4> QED  BY <4>1, <4>2, <4>4, <4>5 DEF Awaits, Last
    <3> QED  BY <3>3, <3>4
  <2> QED  BY <2>1, <2>2 DEF BufferInv, SlotsOK
<1>9. SlotsOK'
  <2>1. owner' = owner /\ writing' = T
    BY <1>1
  <2> QED  BY <1>8, <2>1 DEF SlotsOK
<1> QED  BY <1>5, <1>6, <1>7, <1>9 DEF BufferInv

LEMMA EndCallbackStep ==
  ASSUME BufferInv, EndCallback
  PROVE  BufferInv'
<1>1. /\ pc["writer"] = "callback" /\ pc' = [pc EXCEPT !["writer"] = "idle"]
      /\ UNCHANGED <<bufferVars, data, writing, readVars, total, owner, historyVars>>
      /\ "writer" \in Threads
  BY DEF EndCallback, At, Goto, Threads
<1>2. pc \in [Threads -> Labels]
  BY DEF BufferInv, TypeOK, Labels
<1>3. TypeOK'
  <2>1. pc' \in [Threads -> Labels]
    BY <1>1, <1>2 DEF Labels
  <2> QED  BY <1>1, <2>1 DEF BufferInv, TypeOK, Labels, bufferVars, readVars, historyVars
<1>4. pc \in [Threads -> Labels]
  BY <1>2
<1>5. UNCHANGED <<lock, length, idx, got, writing, data, owner>>
  BY <1>1 DEF bufferVars, readVars
<1>6. PopOK /\ WriteOK /\ SlotsOK
  BY DEF BufferInv
<1>7. PopOK'
  <2>1. UNCHANGED <<lock, length, idx, got>>
    BY <1>5
  <2>2. "idle" # "pop"
    OBVIOUS
  <2> QED  BY <1>1, <1>4, <1>6, <2>1, <2>2, PopsKept
<1>8. WriteOK' /\ SlotsOK'
  <2>1. UNCHANGED <<writing, data, owner>>
    BY <1>5
  <2>2. "idle" # "write" /\ pc["writer"] # "write"
    BY <1>1
  <2> QED  BY <1>1, <1>4, <1>6, <2>1, <2>2, WritesKept
<1> QED  BY <1>3, <1>7, <1>8 DEF BufferInv

-----------------------------------------------------------------------------
(* The steps of a thread that reads *)

LEMMA BeginStep ==
  ASSUME BufferInv, NEW t \in Threads, NEW c, c.num \in Nat, Begin(t, c)
  PROVE  BufferInv'
<1> DEFINE w == Wanted(c.num, length)
           next == IF c.op = "popLIFO" THEN "pop"
                   ELSE IF Chosen(c) = <<>> THEN "got" ELSE "read"
<1>1. /\ index \in Slots /\ length \in 0..Size /\ owner \in [Slots -> 0..MaxRows]
      /\ pc \in [Threads -> Labels] /\ idx \in [Threads -> Seq(Slots)]
      /\ got \in [Threads -> Seq(0..MaxRows)]
      /\ expect \in [Threads -> Seq(0..MaxRows)]
      /\ unwritten \in [Threads -> SUBSET (1..MaxRows)]
      /\ room \in [Threads -> -1..Size]
  BY DEF BufferInv, TypeOK, Labels
<1>2. /\ lock = "free" /\ pc[t] = IF t = "writer" THEN "callback" ELSE "idle"
      /\ idx' = [idx EXCEPT ![t] = Chosen(c)] /\ got' = [got EXCEPT ![t] = <<>>]
      /\ length' = AfterLock(c) /\ lock' = HeldDuring(c)
      /\ expect' = [expect EXCEPT ![t] = Promised(c)]
      /\ unwritten' = [unwritten EXCEPT ![t] = {writing[i][2] : i \in 1..Len(writing)}]
      /\ room' = [room EXCEPT ![t] = Size - Depth(c)]
      /\ pc' = [pc EXCEPT ![t] = next]
      /\ UNCHANGED <<index, data, writing, total, owner>>
  BY DEF Begin, Goto
<1>3. /\ w \in 0..length /\ Chosen(c) \in Seq(Slots) /\ Len(Chosen(c)) = w
      /\ Promised(c) \in Seq(0..MaxRows)
  BY <1>1, ChosenType, PromisedType
<1>4. next \in Labels /\ next # "write" /\ pc[t] # "write"
  BY <1>2 DEF Labels
<1>5. TypeOK'
  <2>0. w \in 0..length /\ length \in 0..Size
    BY <1>1, <1>3
  <2>1. length' \in 0..Size
    <3>1. length' = length - w \/ length' = length
      BY <1>2 DEF AfterLock
    <3> HIDE DEF w
    <3> QED  BY <2>0, <3>1
  <2>2. Depth(c) \in 0..Size
    <3>1. Depth(c) = w \/ Depth(c) = length
      BY DEF Depth
    <3> HIDE DEF w
    <3> QED  BY <2>0, <3>1
  <2>3. room' \in [Threads -> -1..Size]
    BY <1>1, <1>2, <2>2
  <2>4. lock' \in {"free", "held"}
    BY <1>2 DEF HeldDuring
  <2>5. unwritten' \in [Threads -> SUBSET (1..MaxRows)]
    <3>1. \A i \in 1..Len(writing) : writing[i][2] \in 1..MaxRows
      <4>1. writing \in Seq(Slots \X (1..MaxRows))
        BY DEF BufferInv, TypeOK
      <4>2. \A i \in 1..Len(writing) : writing[i] \in Slots \X (1..MaxRows)
        BY <4>1, ElementOfSeq
      <4> QED  BY <4>2
    <3>2. {writing[i][2] : i \in 1..Len(writing)} \in SUBSET (1..MaxRows)
      BY <3>1
    <3> QED  BY <1>1, <1>2, <3>2, Zenon
  <2> HIDE DEF w, next
  <2>6. idx' \in [Threads -> Seq(Slots)] /\ expect' \in [Threads -> Seq(0..MaxRows)]
    BY <1>1, <1>2, <1>3
  <2>7. got' \in [Threads -> Seq(0..MaxRows)]
    BY <1>1, <1>2, EmptySeq
  <2>8. pc' \in [Threads -> Labels]
    BY <1>1, <1>2, <1>4
  <2> QED  BY <1>2, <2>1, <2>3, <2>4, <2>5, <2>6, <2>7, <2>8
           DEF BufferInv, TypeOK, Labels
<1>6. PopOK'
  <2>1. \A u \in Threads : pc[u] # "pop"
    BY <1>2 DEF BufferInv, PopOK, At
  <2>2. \A u \in Threads : pc'[u] = "pop" => u = t
    BY <1>1, <1>2, <2>1
  <2>3. pc'[t] = "pop" => c.op = "popLIFO"
    BY <1>1, <1>2
  <2>4. c.op = "popLIFO" => lock' = "held" /\ length' = length
    BY <1>2 DEF HeldDuring, AfterLock
  <2>5. Len(idx'[t]) = w /\ Len(got'[t]) = 0
    BY <1>1, <1>2, <1>3
  <2>6. Len(idx'[t]) + Len(got'[t]) <= length
    BY <1>1, <1>3, <2>5
  <2> QED  BY <2>2, <2>3, <2>4, <2>6 DEF PopOK, At
<1>7. WriteOK' /\ SlotsOK'
  <2>1. WriteOK /\ SlotsOK
    BY DEF BufferInv
  <2>2. UNCHANGED <<writing, data, owner>>
    BY <1>2
  <2> HIDE DEF next
  <2> QED  BY <1>1, <1>2, <1>4, <2>1, <2>2, WritesKept
<1> QED  BY <1>5, <1>6, <1>7 DEF BufferInv

LEMMA ReadRowStep ==
  ASSUME BufferInv, NEW t \in Threads, ReadRow(t)
  PROVE  BufferInv'
<1> DEFINE d == data[Head(idx[t])]
<1>1. /\ pc \in [Threads -> Labels] /\ idx \in [Threads -> Seq(Slots)]
      /\ got \in [Threads -> Seq(0..MaxRows)] /\ data \in [Slots -> 0..MaxRows]
  BY DEF BufferInv, TypeOK, Labels
<1>2. /\ pc[t] \in {"read", "pop"} /\ idx[t] # <<>>
      /\ got' = [got EXCEPT ![t] = Append(got[t], d)]
      /\ idx' = [idx EXCEPT ![t] = Tail(idx[t])]
      /\ pc' = pc \/ pc' = [pc EXCEPT ![t] = "got"]
      /\ UNCHANGED <<bufferVars, data, writing, total, owner, historyVars>>
  BY DEF ReadRow, Goto
<1>3. /\ Tail(idx[t]) \in Seq(Slots) /\ Len(Tail(idx[t])) = Len(idx[t]) - 1
      /\ Len(idx[t]) \in Nat /\ Head(idx[t]) \in Slots
  BY <1>1, <1>2, HeadTailProperties, LenProperties
<1>4. /\ Append(got[t], d) \in Seq(0..MaxRows)
      /\ Len(Append(got[t], d)) = Len(got[t]) + 1 /\ Len(got[t]) \in Nat
  BY <1>1, <1>3, AppendProperties, LenProperties
<1> HIDE DEF d
<1>5. TypeOK'
  <2>1. idx' \in [Threads -> Seq(Slots)]
    BY <1>1, <1>2, <1>3
  <2>2. got' \in [Threads -> Seq(0..MaxRows)]
    BY <1>1, <1>2, <1>4
  <2>3. pc' \in [Threads -> Labels]
    BY <1>1, <1>2 DEF Labels
  <2> QED  BY <1>2, <2>1, <2>2, <2>3
           DEF BufferInv, TypeOK, Labels, bufferVars, historyVars
<1>6. UNCHANGED <<lock, length, writing, data, owner>>
  BY <1>2 DEF bufferVars
<1>7. PopOK /\ WriteOK /\ SlotsOK
  BY DEF BufferInv
<1>8. PopOK'
  <2>1. Len(idx'[t]) + Len(got'[t]) = Len(idx[t]) + Len(got[t])
    BY <1>1, <1>2, <1>3, <1>4
  <2>2. \A u \in Threads : u # t => idx'[u] = idx[u] /\ got'[u] = got[u]
    BY <1>1, <1>2
  <2>3. \A u \in Threads : /\ lock' = lock /\ length' = length
                           /\ Len(idx'[u]) + Len(got'[u]) = Len(idx[u]) + Len(got[u])
    BY <1>6, <2>1, <2>2
  <2>4. "got" # "pop"
    OBVIOUS
  <2> QED  BY <1>1, <1>2, <1>7, <2>3, <2>4, PopsKept
<1>9. WriteOK' /\ SlotsOK'
  <2>1. UNCHANGED <<writing, data, owner>>
    BY <1>6
  <2>2. "got" # "write" /\ pc[t] # "write"
    BY <1>2
  <2> QED  BY <1>1, <1>2, <1>7, <2>1, <2>2, WritesKept
<1> QED  BY <1>5, <1>8, <1>9 DEF BufferInv

LEMMA EndPopStep ==
  ASSUME BufferInv, NEW t \in Threads, EndPop(t)
  PROVE  BufferInv'
<1>1. /\ pc \in [Threads -> Labels] /\ got \in [Threads -> Seq(0..MaxRows)]
      /\ index \in Slots /\ length \in 0..Size /\ room \in [Threads -> -1..Size]
  BY DEF BufferInv, TypeOK, Labels
<1>2. /\ pc[t] = "pop" /\ idx[t] = <<>> /\ pc' = [pc EXCEPT ![t] = "got"]
      /\ length' = length - Len(got[t]) /\ index' = (index - Len(got[t])) % Size
      /\ lock' = "free"
      /\ UNCHANGED <<data, writing, readVars, total, owner, expect, unwritten>>
  BY DEF EndPop, Goto, At
<1>3. Len(got[t]) \in Nat /\ Len(got[t]) <= length
  <2>1. Len(got[t]) \in Nat
    BY <1>1, LenProperties
  <2>2. Len(idx[t]) + Len(got[t]) <= length /\ Len(idx[t]) = 0
    BY <1>2 DEF BufferInv, PopOK, At
  <2> QED  BY <1>1, <2>1, <2>2
<1>4. TypeOK'
  <2>1. index' \in Slots
    <3>1. index - Len(got[t]) \in Int
      BY <1>1, <1>3 DEF Slots
    <3> QED  BY <1>2, <3>1, ModInSlots
  <2>2. length' \in 0..Size
    BY <1>1, <1>2, <1>3
  <2>3. room' \in [Threads -> -1..Size]
    <3>1. -1 \in -1..Size
      OBVIOUS
    <3> QED  BY <1>1, <3>1 DEF EndPop
  <2>4. pc' \in [Threads -> Labels]
    BY <1>1, <1>2 DEF Labels
  <2> QED  BY <1>2, <2>1, <2>2, <2>3, <2>4 DEF BufferInv, TypeOK, Labels, readVars
<1>5. PopOK'
  <2>1. \A u \in Threads : pc[u] = "pop" => u = t
    BY <1>2 DEF BufferInv, PopOK, At
  <2>2. \A u \in Threads : pc'[u] # "pop"
    BY <1>1, <1>2, <2>1
  <2> QED  BY <2>2 DEF PopOK, At
<1>6. WriteOK' /\ SlotsOK'
  <2>1. UNCHANGED <<writing, data, owner>> /\ WriteOK /\ SlotsOK
    BY <1>2 DEF BufferInv
  <2>2. "got" # "write" /\ pc[t] # "write"
    BY <1>2
  <2> QED  BY <1>1, <1>2, <2>1, <2>2, WritesKept
<1> QED  BY <1>4, <1>5, <1>6 DEF BufferInv

LEMMA ReturnStep ==
  ASSUME BufferInv, NEW t \in Threads, Return(t)
  PROVE  BufferInv'
<1> DEFINE next == IF t = "writer" THEN "callback" ELSE "idle"
<1>1. /\ pc \in [Threads -> Labels] /\ got \in [Threads -> Seq(0..MaxRows)]
      /\ expect \in [Threads -> Seq(0..MaxRows)]
      /\ unwritten \in [Threads -> SUBSET (1..MaxRows)]
      /\ room \in [Threads -> -1..Size]
  BY DEF BufferInv, TypeOK, Labels
<1>2. /\ pc[t] = "got" /\ pc' = [pc EXCEPT ![t] = next]
      /\ got' = [got EXCEPT ![t] = <<>>] /\ expect' = [expect EXCEPT ![t] = <<>>]
      /\ unwritten' = [unwritten EXCEPT ![t] = {}] /\ room' = [room EXCEPT ![t] = 0]
      /\ UNCHANGED <<bufferVars, data, writing, idx, total, owner>>
  BY DEF Return, Goto, At
<1>3. next \in Labels /\ next # "write" /\ next # "pop" /\ pc[t] # "write"
  BY <1>2 DEF Labels
<1> HIDE DEF next
<1>4. TypeOK'
  <2>1. unwritten' \in [Threads -> SUBSET (1..MaxRows)]
    BY <1>1, <1>2
  <2>2. got' \in [Threads -> Seq(0..MaxRows)] /\ expect' \in [Threads -> Seq(0..MaxRows)]
    BY <1>1, <1>2, EmptySeq
  <2>3. pc' \in [Threads -> Labels] /\ room' \in [Threads -> -1..Size]
    BY <1>1, <1>2, <1>3
  <2> QED  BY <1>2, <2>1, <2>2, <2>3 DEF BufferInv, TypeOK, Labels, bufferVars
<1>5. UNCHANGED <<lock, length, writing, data, owner>> /\ PopOK /\ WriteOK /\ SlotsOK
  BY <1>2 DEF BufferInv, bufferVars
<1>6. PopOK'
  <2>1. \A u \in Threads : pc[u] = "pop" =>
          /\ lock' = lock /\ length' = length
          /\ Len(idx'[u]) + Len(got'[u]) = Len(idx[u]) + Len(got[u])
    BY <1>1, <1>2, <1>5
  <2> QED  BY <1>1, <1>2, <1>3, <1>5, <2>1, PopsKept DEF At
<1>7. WriteOK' /\ SlotsOK'
  <2>1. UNCHANGED <<writing, data, owner>>
    BY <1>5
  <2> QED  BY <1>1, <1>2, <1>3, <1>5, <2>1, WritesKept
<1> QED  BY <1>4, <1>6, <1>7 DEF BufferInv

LEMMA BufferStep == BufferInv /\ [Next]_vars => BufferInv'
<1> SUFFICES ASSUME BufferInv, [Next]_vars PROVE BufferInv'
  OBVIOUS
<1>1. CASE write
  <2>1. Counts \subseteq Nat \ {0} /\ 1 \in Nat \ {0}
    OBVIOUS
  <2> QED  BY <1>1, <2>1, ReserveStep, WriteRowStep, EndCallbackStep DEF write
<1>2. ASSUME NEW t \in Threads, read(t)
      PROVE  BufferInv'
  <2>1. \A c \in Calls(t) : c.num \in Nat
    BY DEF Calls
  <2> QED  BY <1>2, <2>1, BeginStep, ReadRowStep, EndPopStep, ReturnStep DEF read
<1>3. CASE UNCHANGED vars
  <2>1. TypeOK'
    BY <1>3 DEF BufferInv, TypeOK, vars, bufferVars, readVars, historyVars
  <2>2. PopOK' /\ WriteOK'
    BY <1>3 DEF BufferInv, PopOK, WriteOK, At, vars, bufferVars, readVars
  <2>3. SlotsOK'
    BY <1>3 DEF BufferInv, SlotsOK, vars
  <2> QED  BY <2>1, <2>2, <2>3 DEF BufferInv
<1> QED  BY <1>1, <1>2, <1>3 DEF Next

THEOREM BufferInvariant == Spec => []BufferInv
  BY InitInv, BufferStep, PTL DEF Spec

-----------------------------------------------------------------------------
(* The theorems *)

\* The type invariant: index and length stay inside the buffer, whatever is
\* written, read and taken back (RingBuffer.py:24-114).
THEOREM TypeCorrect == Spec => []TypeOK
<1>1. BufferInv => TypeOK
  BY DEF BufferInv
<1> QED  BY <1>1, BufferInvariant, PTL

\* Once no row waits to be written, every slot holds the row it was reserved for,
\* also when more rows come at once than there are slots (lines 33-34, 46-53).
THEOREM RowsAreWritten == Spec => []EveryRowIsWritten
<1>1. ASSUME BufferInv, writing = <<>>
      PROVE  data = owner
  <2>1. data \in [Slots -> 0..MaxRows] /\ owner \in [Slots -> 0..MaxRows]
    BY <1>1 DEF BufferInv, TypeOK
  <2>2. \A s \in Slots : ~ Awaits(writing, s, owner[s])
    BY <1>1 DEF Awaits
  <2>3. \A s \in Slots : data[s] = owner[s]
    BY <1>1, <2>2 DEF BufferInv, SlotsOK
  <2> QED  BY <2>1, <2>3
<1>2. BufferInv => EveryRowIsWritten
  BY <1>1 DEF EveryRowIsWritten
<1> QED  BY <1>2, BufferInvariant, PTL

-----------------------------------------------------------------------------
(* What a thread reads *)

\* What t has read is the first part of what it has to return, and the slots that it
\* will read hold the rest.
Part(t) ==
  /\ Reading(t) =>
       /\ Len(expect[t]) = Len(got[t]) + Len(idx[t])
       /\ \A k \in 1..Len(got[t]) : got[t][k] = expect[t][k]
       /\ \A k \in 1..Len(idx[t]) : data[idx[t][k]] = expect[t][Len(got[t]) + k]
  /\ At(t, "got") => idx[t] = <<>>

\* The slots chosen for a call are the first of those from the oldest row on,
\* or from the newest row back.
LEMMA ChosenAreListed ==
  ASSUME index \in Slots, length \in 0..Size, NEW c, c.num \in Nat
  PROVE  \A k \in 1..Len(Chosen(c)) :
           Chosen(c)[k] = (IF c.op \in {"getFIFO", "popFIFO"}
                             THEN Oldest(index, length) ELSE Newest(index, length))[k]
<1> DEFINE w == Wanted(c.num, length)
           all == IF c.op \in {"getFIFO", "popFIFO"}
                    THEN Oldest(index, length) ELSE Newest(index, length)
<1>1. w \in 0..length /\ Len(Chosen(c)) = w
  BY ChosenType
<1>2. Chosen(c) = SubSeq(all, 1, w)
  BY DEF Chosen
<1>3. all \in Seq(Slots) /\ Len(all) = length
  <2>1. length \in Nat
    OBVIOUS
  <2>2. /\ Oldest(index, length) \in Seq(Slots) /\ Len(Oldest(index, length)) = length
        /\ Newest(index, length) \in Seq(Slots) /\ Len(Newest(index, length)) = length
    BY <2>1, OldestType
  <2> QED  BY <2>2
<1>4. \A k \in 1..w : all[k] \in Slots
  BY <1>1, <1>3, ElementOfSeq
<1> HIDE DEF w
<1>5. \A k \in 1..w : Chosen(c)[k] = all[k]
  <2> HIDE DEF all
  <2>1. \A k \in 1..w - 1 + 1 : SubSeq(all, 1, w)[k] = all[1 + k - 1]
    BY <1>1, <1>4, SubSeqProperties
  <2> QED  BY <1>1, <1>2, <2>1
<1> QED  BY <1>1, <1>5

\* The slots chosen for a call are at most Depth before index.
LEMMA ChosenAreClose ==
  ASSUME index \in Slots, length \in 0..Size, NEW c, c.num \in Nat
  PROVE  \A k \in 1..Len(Chosen(c)) :
           \E e \in 1..Depth(c) : Chosen(c)[k] = (index - e) % Size
<1> SUFFICES ASSUME NEW k \in 1..Len(Chosen(c))
             PROVE  \E e \in 1..Depth(c) : Chosen(c)[k] = (index - e) % Size
  OBVIOUS
<1>1. Wanted(c.num, length) \in 0..length /\ Len(Chosen(c)) = Wanted(c.num, length)
  BY ChosenType
<1>2. k \in 1..length /\ k \in 1..Wanted(c.num, length)
  BY <1>1
<1>3. CASE c.op \in {"getFIFO", "popFIFO"}
  <2>1. Chosen(c)[k] = SlotAt(index, length, k - 1)
    BY <1>2, <1>3, ChosenAreListed DEF Oldest
  <2>2. index + (k - 1) - length = index - (length + 1 - k)
    BY <1>2 DEF Slots
  <2>3. length + 1 - k \in 1..Depth(c)
    BY <1>2, <1>3 DEF Depth
  <2> QED  BY <2>1, <2>2, <2>3 DEF SlotAt
<1>4. CASE c.op \notin {"getFIFO", "popFIFO"}
  <2>1. Chosen(c)[k] = SlotAt(index, length, length - k)
    BY <1>2, <1>4, ChosenAreListed DEF Newest
  <2>2. index + (length - k) - length = index - k
    BY <1>2 DEF Slots
  <2>3. k \in 1..Depth(c)
    BY <1>2, <1>4 DEF Depth
  <2> QED  BY <2>1, <2>2, <2>3 DEF SlotAt
<1> QED  BY <1>3, <1>4

\* The slots chosen for a call are those of the rows promised.
LEMMA ChosenArePromised ==
  ASSUME index \in Slots, length \in 0..Size, owner \in [Slots -> 0..MaxRows],
         NEW c, c.num \in Nat
  PROVE  /\ Len(Promised(c)) = Len(Chosen(c))
         /\ \A k \in 1..Len(Chosen(c)) : Promised(c)[k] = owner[Chosen(c)[k]]
<1> DEFINE w == Wanted(c.num, length)
           fifo == c.op \in {"getFIFO", "popFIFO"}
           all == IF fifo THEN Oldest(index, length) ELSE Newest(index, length)
<1>1. w \in 0..length /\ Len(Chosen(c)) = w
  BY ChosenType
<1>2. Len(Promised(c)) = w
  BY <1>1 DEF Promised
<1>3. \A k \in 1..w : Chosen(c)[k] = all[k]
  BY <1>1, ChosenAreListed
<1>4. ASSUME NEW k \in 1..w
      PROVE  Promised(c)[k] = owner[all[k]]
  <2>1. k \in 1..length /\ length + 1 - k \in 1..length
    BY <1>1
  <2>2. CASE fifo
    <3>1. Promised(c)[k] = Queue[k]
      BY <2>2 DEF Promised
    <3>2. Queue[k] = owner[SlotAt(index, length, k - 1)]
      BY <2>1 DEF Queue
    <3>3. all[k] = SlotAt(index, length, k - 1)
      BY <2>1, <2>2 DEF Oldest
    <3> QED  BY <3>1, <3>2, <3>3
  <2>3. CASE ~ fifo
    <3>1. Promised(c)[k] = Queue[length + 1 - k]
      BY <2>3 DEF Promised
    <3>2. Queue[length + 1 - k] = owner[SlotAt(index, length, (length + 1 - k) - 1)]
      BY <2>1 DEF Queue
    <3>3. all[k] = SlotAt(index, length, length - k)
      BY <2>1, <2>3 DEF Newest
    <3>4. (length + 1 - k) - 1 = length - k
      BY <2>1
    <3> QED  BY <3>1, <3>2, <3>3, <3>4
  <2> QED  BY <2>2, <2>3
<1> HIDE DEF w, all
<1> QED  BY <1>1, <1>2, <1>3, <1>4

LEMMA PartBegins ==
  ASSUME BufferInv, NEW t \in Threads, NEW c, c.num \in Nat, Begin(t, c), writing = <<>>
  PROVE  Part(t)'
<1>1. /\ index \in Slots /\ length \in 0..Size /\ owner \in [Slots -> 0..MaxRows]
      /\ pc \in [Threads -> Labels] /\ idx \in [Threads -> Seq(Slots)]
      /\ got \in [Threads -> Seq(0..MaxRows)]
      /\ expect \in [Threads -> Seq(0..MaxRows)] /\ data \in [Slots -> 0..MaxRows]
  BY DEF BufferInv, TypeOK, Labels
<1>2. /\ data' = data
      /\ idx' = [idx EXCEPT ![t] = Chosen(c)] /\ got' = [got EXCEPT ![t] = <<>>]
      /\ expect' = [expect EXCEPT ![t] = Promised(c)]
      /\ pc' = [pc EXCEPT ![t] = IF c.op = "popLIFO" THEN "pop"
                                 ELSE IF Chosen(c) = <<>> THEN "got" ELSE "read"]
  BY DEF Begin, Goto
<1>3. /\ idx'[t] = Chosen(c) /\ got'[t] = <<>> /\ expect'[t] = Promised(c)
      /\ Len(got'[t]) = 0
  BY <1>1, <1>2
<1>4. \A s \in Slots : data[s] = owner[s]
  <2>1. \A s \in Slots : ~ Awaits(writing, s, owner[s])
    BY DEF Awaits
  <2> QED  BY <2>1 DEF BufferInv, SlotsOK
<1>5. /\ Len(Promised(c)) = Len(Chosen(c)) /\ Len(Chosen(c)) \in Nat
      /\ \A k \in 1..Len(Chosen(c)) : Promised(c)[k] = owner[Chosen(c)[k]]
  BY <1>1, ChosenArePromised, ChosenType, LenProperties
<1>6. \A k \in 1..Len(Chosen(c)) : data[Chosen(c)[k]] = Promised(c)[0 + k]
  <2>1. \A k \in 1..Len(Chosen(c)) : Chosen(c)[k] \in Slots
    BY <1>1, ChosenType, ElementOfSeq
  <2> QED  BY <1>4, <1>5, <2>1
<1>7. pc'[t] = "got" => idx'[t] = <<>>
  BY <1>1, <1>2, <1>3
<1>8. Len(expect'[t]) = Len(got'[t]) + Len(idx'[t])
  BY <1>3, <1>5
<1>9. \A k \in 1..Len(got'[t]) : got'[t][k] = expect'[t][k]
  BY <1>3
<1>10. \A k \in 1..Len(idx'[t]) :
          data'[idx'[t][k]] = expect'[t][Len(got'[t]) + k]
  BY <1>2, <1>3, <1>6
<1> QED  BY <1>7, <1>8, <1>9, <1>10, Zenon DEF Part, At

LEMMA OneMore == \A g, k \in Nat : g + (k + 1) = g + 1 + k
  OBVIOUS

LEMMA PartReadRow ==
  ASSUME BufferInv, NEW t \in Threads, Part(t), ReadRow(t)
  PROVE  Part(t)'
<1> DEFINE d == data[Head(idx[t])]
           rest == Tail(idx[t])
<1>1. /\ pc \in [Threads -> Labels] /\ idx \in [Threads -> Seq(Slots)]
      /\ got \in [Threads -> Seq(0..MaxRows)] /\ data \in [Slots -> 0..MaxRows]
      /\ idx[t] \in Seq(Slots) /\ got[t] \in Seq(0..MaxRows)
  BY DEF BufferInv, TypeOK, Labels
<1>2. /\ pc[t] \in {"read", "pop"} /\ idx[t] # <<>>
      /\ got' = [got EXCEPT ![t] = Append(got[t], d)]
      /\ idx' = [idx EXCEPT ![t] = rest]
      /\ pc' = IF pc[t] = "read" /\ Len(idx[t]) = 1
                 THEN [pc EXCEPT ![t] = "got"] ELSE pc
      /\ data' = data /\ expect' = expect
  BY DEF ReadRow, Goto, At, historyVars
<1>3. /\ rest \in Seq(Slots) /\ Len(rest) = Len(idx[t]) - 1
      /\ Len(idx[t]) \in Nat /\ Len(idx[t]) >= 1 /\ Len(rest) \in Nat
      /\ Head(idx[t]) \in Slots /\ Head(idx[t]) = idx[t][1]
      /\ \A k \in 1..Len(rest) : rest[k] = idx[t][k + 1]
  BY <1>1, <1>2, HeadTailProperties, LenProperties, EmptySeq
<1>4. d \in 0..MaxRows
  BY <1>1, <1>3
<1> HIDE DEF d, rest
<1>5. /\ Len(Append(got[t], d)) = Len(got[t]) + 1 /\ Len(got[t]) \in Nat
      /\ \A k \in 1..Len(got[t]) : Append(got[t], d)[k] = got[t][k]
      /\ Append(got[t], d)[Len(got[t]) + 1] = d
  BY <1>1, <1>4, AppendProperties, LenProperties
<1>6. got'[t] = Append(got[t], d) /\ idx'[t] = rest
  BY <1>1, <1>2
<1>7. /\ Len(expect[t]) = Len(got[t]) + Len(idx[t])
      /\ \A k \in 1..Len(got[t]) : got[t][k] = expect[t][k]
      /\ \A k \in 1..Len(idx[t]) : data[idx[t][k]] = expect[t][Len(got[t]) + k]
  BY <1>2, Zenon DEF Part, Reading
<1>8. d = expect[t][Len(got[t]) + 1]
  <2>1. 1 \in 1..Len(idx[t])
    BY <1>3
  <2> QED  BY <1>3, <1>7, <2>1 DEF d
<1>9. \A k \in 1..Len(got[t]) + 1 : Append(got[t], d)[k] = expect[t][k]
  <2> TAKE k \in 1..Len(got[t]) + 1
  <2>1. k \in 1..Len(got[t]) \/ k = Len(got[t]) + 1
    BY <1>5
  <2> QED  BY <1>5, <1>7, <1>8, <2>1
<1>10. \A k \in 1..Len(rest) :
          data[rest[k]] = expect[t][Len(got[t]) + 1 + k]
  <2> TAKE k \in 1..Len(rest)
  <2>1. /\ k + 1 \in 1..Len(idx[t])
        /\ Len(got[t]) + (k + 1) = Len(got[t]) + 1 + k
    <3>1. k \in Nat /\ k + 1 \in 1..Len(idx[t])
      BY <1>3
    <3>2. Len(got[t]) \in Nat
      BY <1>5
    <3> QED  BY <3>1, <3>2, OneMore
  <2>2. data[idx[t][k + 1]] = expect[t][Len(got[t]) + (k + 1)]
    BY <1>7, <2>1
  <2> QED  BY <1>3, <2>1, <2>2
<1>11. Len(expect[t]) = Len(got[t]) + 1 + Len(rest)
  <2>1. Len(expect[t]) = Len(got[t]) + Len(idx[t])
    BY <1>7
  <2>2. Len(got[t]) + (Len(rest) + 1) = Len(got[t]) + 1 + Len(rest)
    BY <1>3, <1>5, OneMore
  <2>3. Len(idx[t]) = Len(rest) + 1
    BY <1>3
  <2> QED  BY <2>1, <2>2, <2>3, Zenon
<1>12. pc'[t] = "got" => idx'[t] = <<>>
  <2>1. pc'[t] = "got" => Len(idx[t]) = 1
    BY <1>1, <1>2
  <2> QED  BY <1>3, <1>6, <2>1, EmptySeq
<1>13. Len(expect'[t]) = Len(got'[t]) + Len(idx'[t])
  BY <1>2, <1>5, <1>6, <1>11
<1>14. \A k \in 1..Len(got'[t]) : got'[t][k] = expect'[t][k]
  BY <1>2, <1>5, <1>6, <1>9
<1>15. \A k \in 1..Len(idx'[t]) :
          data'[idx'[t][k]] = expect'[t][Len(got'[t]) + k]
  BY <1>2, <1>5, <1>6, <1>10
<1> QED  BY <1>12, <1>13, <1>14, <1>15, Zenon DEF Part, At

\* A thread that has read its part to the end has read all.
LEMMA PartIsAll ==
  ASSUME BufferInv, NEW t \in Threads, Part(t), At(t, "got")
  PROVE  got[t] = expect[t]
<1>1. /\ got[t] \in Seq(0..MaxRows) /\ expect[t] \in Seq(0..MaxRows)
      /\ Len(got[t]) \in Nat /\ Len(expect[t]) \in Nat
  BY LenProperties DEF BufferInv, TypeOK
<1>2. Len(idx[t]) = 0
  BY DEF Part
<1>3. /\ Len(expect[t]) = Len(got[t]) + Len(idx[t])
      /\ \A k \in 1..Len(got[t]) : got[t][k] = expect[t][k]
  BY DEF Part, Reading, At
<1>4. Len(expect[t]) = Len(got[t])
  BY <1>1, <1>2, <1>3
<1> QED  BY <1>1, <1>3, <1>4, SeqEqual

-----------------------------------------------------------------------------
(* What a callback reads *)

CallbackInv == Part("writer")

LEMMA CallbackStep == BufferInv /\ CallbackInv /\ [Next]_vars => CallbackInv'
<1> SUFFICES ASSUME BufferInv, CallbackInv, [Next]_vars PROVE CallbackInv'
  OBVIOUS
<1>0. "writer" \in Threads
  BY DEF Threads
<1>1. /\ pc \in [Threads -> Labels] /\ idx \in [Threads -> Seq(Slots)]
      /\ got \in [Threads -> Seq(0..MaxRows)] /\ expect \in [Threads -> Seq(0..MaxRows)]
  BY DEF BufferInv, TypeOK, Labels
<1>2. CASE write
  <2>1. pc'["writer"] \in {"write", "callback", "idle"}
    BY <1>0, <1>1, <1>2
       DEF write, Reserve, WriteRow, EndCallback, Goto, At
  <2> QED  BY <2>1 DEF CallbackInv, Part, Reading, At
<1>3. ASSUME NEW t \in Threads, t # "writer", read(t)
      PROVE  CallbackInv'
  <2>1. /\ idx'["writer"] = idx["writer"] /\ got'["writer"] = got["writer"]
        /\ expect'["writer"] = expect["writer"]
        /\ pc'["writer"] = pc["writer"] /\ data' = data
    <3>1. ASSUME NEW c, Begin(t, c)
          PROVE  /\ idx'["writer"] = idx["writer"] /\ got'["writer"] = got["writer"]
                 /\ expect'["writer"] = expect["writer"]
                 /\ pc'["writer"] = pc["writer"] /\ data' = data
      BY <1>0, <1>1, <1>3, <3>1 DEF Begin, Goto
    <3>2. CASE ReadRow(t) \/ EndPop(t) \/ Return(t)
      BY <1>0, <1>1, <1>3, <3>2
         DEF ReadRow, EndPop, Return, Goto, readVars, historyVars
    <3> QED  BY <1>3, <3>1, <3>2 DEF read
  <2> QED  BY <2>1, Zenon DEF CallbackInv, Part, Reading, At
<1>4. CASE read("writer")
  <2>1. ASSUME NEW c \in Calls("writer"), Begin("writer", c)
        PROVE  CallbackInv'
    <3>1. c.num \in Nat
      BY <2>1 DEF Calls
    <3>2. writing = <<>>
      BY <2>1 DEF Begin, BufferInv, WriteOK, At
    <3> QED  BY <1>0, <2>1, <3>1, <3>2, PartBegins DEF CallbackInv
  <2>2. CASE EndPop("writer")
    <3>1. /\ idx' = idx /\ got' = got /\ expect' = expect /\ data' = data
          /\ pc["writer"] = "pop" /\ idx["writer"] = <<>>
      BY <2>2 DEF EndPop, At, readVars
    <3> QED  BY <3>1, Zenon DEF CallbackInv, Part, Reading
  <2>3. CASE Return("writer")
    <3>1. pc'["writer"] = "callback"
      BY <1>0, <1>1, <2>3 DEF Return, Goto
    <3> QED  BY <3>1 DEF CallbackInv, Part, Reading, At
  <2> QED  BY <1>0, <1>4, <2>1, <2>2, <2>3, PartReadRow DEF CallbackInv, read
<1>5. CASE UNCHANGED vars
  BY <1>5, Zenon DEF CallbackInv, Part, Reading, At, vars, readVars, historyVars
<1> QED  BY <1>0, <1>2, <1>3, <1>4, <1>5 DEF Next

\* A callback reads exactly the rows that were there when it took the lock,
\* whatever the other threads read and take back in the meantime
\* (PowerMeasurementServer.py:306-309).
THEOREM CallbacksAreExact == Spec => []CallbacksReadExactly
<1>1. Init => CallbackInv
  <2>1. "writer" \in Threads
    BY DEF Threads
  <2>2. Init => pc["writer"] = "idle"
    BY <2>1 DEF Init
  <2> QED  BY <2>2 DEF CallbackInv, Part, Reading, At
<1>2. BufferInv /\ CallbackInv => CallbacksReadExactly
  <2>1. "writer" \in Threads
    BY DEF Threads
  <2> QED  BY <2>1, PartIsAll DEF CallbackInv, CallbacksReadExactly
<1> QED  BY <1>1, <1>2, CallbackStep, BufferInvariant, PTL DEF Spec
-----------------------------------------------------------------------------
(* What another thread reads *)

\* No slot holds a row, or waits for one, that is younger than the row it was
\* reserved for last.
AgeOK ==
  /\ \A s \in Slots : data[s] <= owner[s] /\ owner[s] <= total
  /\ \A i \in 1..Len(writing) : writing[i][2] <= owner[writing[i][1]]

LEMMA AgeReserve ==
  ASSUME BufferInv, AgeOK, NEW n \in Nat \ {0}, Reserve(n)
  PROVE  /\ AgeOK'
         /\ \A s \in Slots : (\A i \in 1..n : Rows(n)[i][1] # s) => owner'[s] = owner[s]
<1> DEFINE Hits(s) == {i \in 1..n : (index + i - 1) % Size = s}
           Top(s) == CHOOSE i \in Hits(s) : \A j \in Hits(s) : j <= i
<1>1. /\ index \in Slots /\ total \in Nat /\ total + n <= MaxRows
      /\ owner \in [Slots -> 0..MaxRows] /\ data \in [Slots -> 0..MaxRows]
  BY DEF BufferInv, TypeOK, Reserve
<1>2. \A s : Hits(s) # {} => Top(s) \in 1..n /\ \A j \in Hits(s) : j <= Top(s)
  <2> SUFFICES ASSUME NEW s, Hits(s) # {}
               PROVE  Top(s) \in Hits(s) /\ \A j \in Hits(s) : j <= Top(s)
    OBVIOUS
  <2>1. \E m \in Hits(s) : \A j \in Hits(s) : j <= m
    BY Greatest
  <2> HIDE DEF Hits
  <2> QED  BY <2>1
<1>3. /\ owner' = [s \in Slots |-> IF Hits(s) = {} THEN owner[s] ELSE total + Top(s)]
      /\ writing' = Rows(n) /\ total' = total + n /\ data' = data
  BY DEF Reserve
<1>4. /\ Len(Rows(n)) = n
      /\ \A i \in 1..n : Rows(n)[i] = <<(index + i - 1) % Size, total + i>>
  BY <1>1, RowsType
<1>5. ASSUME NEW s \in Slots
      PROVE  data'[s] <= owner'[s] /\ owner'[s] <= total'
  <2>1. data[s] <= owner[s] /\ owner[s] <= total /\ owner[s] \in Nat /\ data[s] \in Nat
    BY <1>1 DEF AgeOK
  <2>2. CASE Hits(s) = {}
    <3>1. owner'[s] = owner[s]
      BY <1>3, <2>2
    <3> QED  BY <1>1, <1>3, <2>1, <3>1
  <2>3. CASE Hits(s) # {}
    <3>1. owner'[s] = total + Top(s) /\ Top(s) \in 1..n
      BY <1>2, <1>3, <2>3
    <3> HIDE DEF Top, Hits
    <3> QED  BY <1>1, <1>3, <2>1, <3>1
  <2> QED  BY <2>2, <2>3
<1>6. ASSUME NEW i \in 1..n
      PROVE  Rows(n)[i][2] <= owner'[Rows(n)[i][1]]
  <2> DEFINE s == (index + i - 1) % Size
  <2>1. Rows(n)[i][1] = s /\ Rows(n)[i][2] = total + i
    BY <1>4
  <2>2. s \in Slots
    <3>1. index + i - 1 \in Int
      BY <1>1 DEF Slots
    <3> QED  BY <3>1, ModInSlots
  <2>3. i \in Hits(s)
    OBVIOUS
  <2> HIDE DEF s
  <2>4. i <= Top(s) /\ Top(s) \in 1..n /\ owner'[s] = total + Top(s)
    BY <1>2, <1>3, <2>2, <2>3
  <2> HIDE DEF Top, Hits
  <2> QED  BY <1>1, <2>1, <2>4
<1>7. ASSUME NEW s \in Slots, \A i \in 1..n : Rows(n)[i][1] # s
      PROVE  owner'[s] = owner[s]
  <2>1. Hits(s) = {}
    BY <1>4, <1>7
  <2> QED  BY <1>3, <2>1
<1> HIDE DEF Hits, Top
<1>8. AgeOK'
  BY <1>3, <1>4, <1>5, <1>6 DEF AgeOK
<1> QED  BY <1>7, <1>8

LEMMA AgeWriteRow == BufferInv /\ AgeOK /\ WriteRow => AgeOK'
<1> SUFFICES ASSUME BufferInv, AgeOK, WriteRow PROVE AgeOK'
  OBVIOUS
<1>1. /\ writing \in Seq(Slots \X (1..MaxRows)) /\ writing # <<>>
      /\ data \in [Slots -> 0..MaxRows]
  BY DEF BufferInv, TypeOK, WriteOK, WriteRow
<1>2. /\ writing' = Tail(writing) /\ UNCHANGED <<owner, total>>
      /\ data' = [data EXCEPT ![Head(writing)[1]] = Head(writing)[2]]
  BY DEF WriteRow
<1>3. /\ Head(writing) = writing[1] /\ Len(writing) \in Nat /\ Len(writing) >= 1
      /\ Len(Tail(writing)) = Len(writing) - 1
      /\ \A i \in 1..Len(Tail(writing)) : Tail(writing)[i] = writing[i + 1]
  BY <1>1, HeadTailProperties, LenProperties, EmptySeq
<1>4. 1 \in 1..Len(writing) /\ \A i \in 1..Len(Tail(writing)) : i + 1 \in 1..Len(writing)
  BY <1>3
<1>5. Head(writing)[2] <= owner[Head(writing)[1]]
  BY <1>3, <1>4 DEF AgeOK
<1>6. \A s \in Slots : data'[s] = data[s] \/ (s = Head(writing)[1] /\ data'[s] = Head(writing)[2])
  BY <1>1, <1>2
<1>7. \A s \in Slots : data'[s] <= owner[s] /\ owner[s] <= total
  BY <1>5, <1>6 DEF AgeOK
<1>8. \A i \in 1..Len(Tail(writing)) : Tail(writing)[i][2] <= owner[Tail(writing)[i][1]]
  BY <1>3, <1>4 DEF AgeOK
<1> QED  BY <1>2, <1>7, <1>8 DEF AgeOK

LEMMA AgeStep == BufferInv /\ AgeOK /\ [Next]_vars => AgeOK'
<1> SUFFICES ASSUME BufferInv, AgeOK, [Next]_vars PROVE AgeOK'
  OBVIOUS
<1>1. CASE UNCHANGED <<data, owner, total, writing>>
  BY <1>1 DEF AgeOK
<1>2. CASE write
  <2>1. Counts \subseteq Nat \ {0} /\ 1 \in Nat \ {0}
    OBVIOUS
  <2>2. EndCallback => UNCHANGED <<data, owner, total, writing>>
    BY DEF EndCallback
  <2> QED  BY <1>1, <1>2, <2>1, <2>2, AgeReserve, AgeWriteRow DEF write
<1>3. ASSUME NEW t \in Threads, read(t) PROVE UNCHANGED <<data, owner, total, writing>>
  BY <1>3 DEF read, Begin, ReadRow, EndPop, Return
<1>4. CASE UNCHANGED vars
  BY <1>1, <1>4 DEF vars
<1> QED  BY <1>1, <1>2, <1>3, <1>4 DEF Next

\* d may be read as the k-th row of the call of t.
Fits(t, k, d) == d = expect[t][k] \/ (expect[t][k] \in unwritten[t] /\ d < expect[t][k])

\* The k-th slot that t has still to read has its row, unless that was unwritten at the
\* start, and the writer reaches it neither with the rows it is writing nor with the next
\* room[t] rows.
Due(t, k) ==
  /\ owner[idx[t][k]] = expect[t][Len(got[t]) + k]
  /\ Free(writing, idx[t][k]) \/ expect[t][Len(got[t]) + k] \in unwritten[t]
  /\ \A d \in 0..room[t]-1 : (index + d) % Size # idx[t][k]

Undisturbed(t) ==
  /\ Len(expect[t]) = Len(got[t]) + Len(idx[t])
  /\ \A k \in 1..Len(got[t]) : Fits(t, k, got[t][k])
  /\ \A k \in 1..Len(idx[t]) : Due(t, k)

ReaderOK(t) ==
  /\ Reading(t) /\ room[t] >= 0 => Undisturbed(t)
  /\ At(t, "got") => idx[t] = <<>>

ReadersOK == \A t \in Readers : ReaderOK(t)

LEMMA ReaderTypes ==
  ASSUME BufferInv, NEW t \in Readers
  PROVE  /\ t \in Threads /\ t # "writer" /\ index \in Slots /\ length \in 0..Size
         /\ pc \in [Threads -> Labels] /\ room \in [Threads -> -1..Size]
         /\ idx \in [Threads -> Seq(Slots)] /\ got \in [Threads -> Seq(0..MaxRows)]
         /\ expect \in [Threads -> Seq(0..MaxRows)]
         /\ unwritten \in [Threads -> SUBSET (1..MaxRows)]
         /\ data \in [Slots -> 0..MaxRows] /\ owner \in [Slots -> 0..MaxRows]
         /\ writing \in Seq(Slots \X (1..MaxRows))
BY DEF BufferInv, TypeOK, Labels, Threads

\* A step that touches nothing of what t reads.
LEMMA ReaderKept ==
  ASSUME NEW t, ReaderOK(t), UNCHANGED <<index, owner, writing>>,
         idx'[t] = idx[t], got'[t] = got[t], pc'[t] = pc[t],
         expect'[t] = expect[t], unwritten'[t] = unwritten[t], room'[t] = room[t]
  PROVE  ReaderOK(t)'
<1>1. Reading(t)' = Reading(t) /\ At(t, "got")' = At(t, "got")
  BY DEF Reading, At
<1>2. \A k : Due(t, k) => Due(t, k)'
  BY Zenon DEF Due, Free
<1>3. \A k, d : Fits(t, k, d)' = Fits(t, k, d)
  BY DEF Fits
<1>4. Undisturbed(t) => Undisturbed(t)'
  BY <1>2, <1>3, Zenon DEF Undisturbed
<1> QED  BY <1>1, <1>4, Zenon DEF ReaderOK

LEMMA ReaderReserve ==
  ASSUME BufferInv, AgeOK, NEW t \in Readers, ReaderOK(t), NEW n \in Nat \ {0}, Reserve(n)
  PROVE  ReaderOK(t)'
<1>1. /\ t \in Threads /\ t # "writer" /\ index \in Slots /\ total \in Nat
      /\ idx[t] \in Seq(Slots) /\ pc \in [Threads -> Labels] /\ room[t] \in -1..Size
  BY DEF BufferInv, TypeOK, Labels, Threads
<1>2. /\ idx' = idx /\ got' = got /\ expect' = expect /\ unwritten' = unwritten
      /\ pc'[t] = pc[t] /\ index' = (index + n) % Size /\ writing' = Rows(n)
      /\ room'[t] = IF Reading(t) /\ room[t] >= 0 THEN MaxOf(room[t] - n, -1) ELSE room[t]
      /\ total + n <= MaxRows
  BY <1>1 DEF Reserve, NextIndex, Goto, readVars
<1>3. Reading(t)' = Reading(t) /\ At(t, "got")' = At(t, "got")
  BY <1>2 DEF Reading, At
<1>4. ASSUME Reading(t), room'[t] >= 0
      PROVE  Undisturbed(t)'
  <2>1. room[t] >= 0 /\ room'[t] = room[t] - n /\ n <= room[t]
    BY <1>1, <1>2, <1>4 DEF MaxOf
  <2>2. Undisturbed(t)
    BY <1>4, <2>1 DEF ReaderOK
  <2>3. /\ Len(Rows(n)) = n
        /\ \A i \in 1..n : Rows(n)[i] = <<(index + i - 1) % Size, total + i>>
    BY <1>1, <1>2, RowsType
  <2>4. ASSUME NEW k \in 1..Len(idx[t])
        PROVE  Due(t, k)'
    <3>1. Due(t, k) /\ idx[t][k] \in Slots
      BY <1>1, <2>2, ElementOfSeq DEF Undisturbed
    <3>2. \A d \in 0..room[t]-1 : (index + d) % Size # idx[t][k]
      BY <3>1 DEF Due
    <3>3. ASSUME NEW i \in 1..n
          PROVE  Rows(n)[i][1] # idx[t][k]
      <4>1. i - 1 \in 0..room[t]-1 /\ index + (i - 1) = index + i - 1
        BY <1>1, <2>1 DEF Slots
      <4>2. Rows(n)[i][1] = (index + i - 1) % Size
        BY <2>3
      <4> QED  BY <3>2, <4>1, <4>2
    <3>4. ASSUME NEW d \in 0..room'[t]-1
          PROVE  (index' + d) % Size # idx[t][k]
      <4>1. n + d \in 0..room[t]-1 /\ index + (n + d) = index + n + d /\ d \in Int
            /\ index + n \in Int
        BY <1>1, <2>1 DEF Slots
      <4>2. (index' + d) % Size = (index + n + d) % Size
        BY <1>2, <4>1, ModShift
      <4> QED  BY <3>2, <4>1, <4>2
    <3>5. Free(Rows(n), idx[t][k])
      BY <2>3, <3>3 DEF Free
    <3>6. owner'[idx[t][k]] = owner[idx[t][k]]
      BY <3>1, <3>3, AgeReserve
    <3>7. owner[idx[t][k]] = expect[t][Len(got[t]) + k]
      BY <3>1 DEF Due
    <3> QED  BY <1>2, <3>4, <3>5, <3>6, <3>7, Zenon DEF Due
  <2>5. \A k \in 1..Len(got[t]) : Fits(t, k, got[t][k])'
    BY <1>2, <2>2, Zenon DEF Undisturbed, Fits
  <2>6. Len(expect[t]) = Len(got[t]) + Len(idx[t])
    BY <2>2 DEF Undisturbed
  <2> QED  BY <1>2, <2>4, <2>5, <2>6, Zenon DEF Undisturbed
<1> QED  BY <1>2, <1>3, <1>4, Zenon DEF ReaderOK

LEMMA ReaderWriteRow ==
  ASSUME BufferInv, NEW t \in Readers, ReaderOK(t), WriteRow
  PROVE  ReaderOK(t)'
<1>1. /\ t \in Threads /\ t # "writer" /\ pc \in [Threads -> Labels]
      /\ writing \in Seq(Slots \X (1..MaxRows)) /\ writing # <<>>
  BY DEF BufferInv, TypeOK, Labels, Threads, WriteOK, WriteRow
<1>2. /\ idx' = idx /\ got' = got /\ expect' = expect /\ unwritten' = unwritten
      /\ room' = room /\ pc'[t] = pc[t] /\ index' = index /\ owner' = owner
      /\ writing' = Tail(writing)
  BY <1>1 DEF WriteRow, Goto, readVars, bufferVars, historyVars
<1>3. Reading(t)' = Reading(t) /\ At(t, "got")' = At(t, "got")
  BY <1>2 DEF Reading, At
<1>4. /\ Len(writing) \in Nat /\ Len(Tail(writing)) = Len(writing) - 1
      /\ \A i \in 1..Len(Tail(writing)) : Tail(writing)[i] = writing[i + 1]
  BY <1>1, HeadTailProperties, LenProperties
<1>5. \A i \in 1..Len(Tail(writing)) : i + 1 \in 1..Len(writing)
  BY <1>4
<1>6. \A s : Free(writing, s) => Free(Tail(writing), s)
  BY <1>4, <1>5 DEF Free
<1>7. \A k : Due(t, k) => Due(t, k)'
  BY <1>2, <1>6, Zenon DEF Due
<1>8. \A k, d : Fits(t, k, d)' = Fits(t, k, d)
  BY <1>2 DEF Fits
<1>9. Undisturbed(t) => Undisturbed(t)'
  BY <1>2, <1>7, <1>8, Zenon DEF Undisturbed
<1> QED  BY <1>2, <1>3, <1>9, Zenon DEF ReaderOK

LEMMA ReaderBegin ==
  ASSUME BufferInv, NEW t \in Readers, NEW c, c.num \in Nat, Begin(t, c)
  PROVE  ReaderOK(t)'
<1>1. /\ t \in Threads /\ index \in Slots /\ length \in 0..Size
      /\ idx \in [Threads -> Seq(Slots)] /\ pc \in [Threads -> Labels]
      /\ got \in [Threads -> Seq(0..MaxRows)] /\ expect \in [Threads -> Seq(0..MaxRows)]
      /\ room \in [Threads -> -1..Size] /\ owner \in [Slots -> 0..MaxRows]
      /\ unwritten \in [Threads -> SUBSET (1..MaxRows)]
  BY ReaderTypes
<1>2. /\ idx' = [idx EXCEPT ![t] = Chosen(c)] /\ got' = [got EXCEPT ![t] = <<>>]
      /\ expect' = [expect EXCEPT ![t] = Promised(c)]
      /\ unwritten' = [unwritten EXCEPT ![t] = {writing[i][2] : i \in 1..Len(writing)}]
      /\ room' = [room EXCEPT ![t] = Size - Depth(c)]
      /\ pc' = [pc EXCEPT ![t] = IF c.op = "popLIFO" THEN "pop"
                                 ELSE IF Chosen(c) = <<>> THEN "got" ELSE "read"]
      /\ UNCHANGED <<index, owner, writing>>
  BY DEF Begin, Goto
<1>3. /\ idx'[t] = Chosen(c) /\ got'[t] = <<>> /\ expect'[t] = Promised(c)
      /\ unwritten'[t] = {writing[i][2] : i \in 1..Len(writing)}
      /\ room'[t] = Size - Depth(c)
  BY <1>1, <1>2
<1>4. /\ Len(Promised(c)) = Len(Chosen(c)) /\ Len(Chosen(c)) \in Nat
      /\ \A k \in 1..Len(Chosen(c)) : Promised(c)[k] = owner[Chosen(c)[k]]
      /\ \A k \in 1..Len(Chosen(c)) : Chosen(c)[k] \in Slots
  BY <1>1, ChosenArePromised, ChosenType, LenProperties, ElementOfSeq
<1>5. \A s \in Slots : Free(writing, s) \/ owner[s] \in unwritten'[t]
  <2> SUFFICES ASSUME NEW s \in Slots, Awaits(writing, s, owner[s])
               PROVE  owner[s] \in unwritten'[t]
    BY DEF BufferInv, SlotsOK
  <2>1. PICK i \in 1..Len(writing) : writing[i] = <<s, owner[s]>>
    BY DEF Awaits
  <2>2. writing[i][2] = owner[s]
    BY <2>1
  <2> QED  BY <1>3, <2>2
<1>6. ASSUME NEW k \in 1..Len(Chosen(c)), NEW d \in 0..Size - Depth(c) - 1
      PROVE  (index + d) % Size # Chosen(c)[k]
  <2>1. Depth(c) \in 0..Size
    <3>1. Wanted(c.num, length) \in 0..length
      BY <1>1, ChosenType
    <3> QED  BY <1>1, <3>1 DEF Depth
  <2>2. PICK e \in 1..Depth(c) : Chosen(c)[k] = (index - e) % Size
    BY <1>1, ChosenAreClose
  <2>3. /\ index - e \in Int /\ index + d \in Int /\ index - e < index + d
        /\ (index + d) - (index - e) < Size
    BY <1>1, <2>1 DEF Slots
  <2> QED  BY <2>2, <2>3, ModDistinct
<1>7. ASSUME NEW k \in 1..Len(Chosen(c))
      PROVE  Due(t, k)'
  <2>1. Len(got'[t]) + k = k
    BY <1>3, <1>4
  <2>2. owner[Chosen(c)[k]] = Promised(c)[k] /\ Chosen(c)[k] \in Slots
    BY <1>4
  <2> QED  BY <1>2, <1>3, <1>5, <1>6, <2>1, <2>2, Zenon DEF Due
<1>8. Undisturbed(t)'
  <2>1. Len(got'[t]) = 0
    BY <1>3
  <2>2. Len(expect'[t]) = Len(got'[t]) + Len(idx'[t])
    BY <1>3, <1>4, <2>1
  <2>3. \A k \in 1..Len(got'[t]) : Fits(t, k, got[t][k])'
    BY <2>1
  <2> QED  BY <1>3, <1>7, <2>2, <2>3, Zenon DEF Undisturbed
<1>9. pc'[t] = "got" => idx'[t] = <<>>
  BY <1>1, <1>2, <1>3
<1> QED  BY <1>8, <1>9, Zenon DEF ReaderOK, At

LEMMA ReaderReadRow ==
  ASSUME BufferInv, AgeOK, NEW t \in Readers, ReaderOK(t), ReadRow(t)
  PROVE  ReaderOK(t)'
<1> DEFINE d == data[Head(idx[t])]
           rest == Tail(idx[t])
           g == Len(got[t])
<1>1. /\ t \in Threads /\ pc \in [Threads -> Labels] /\ idx \in [Threads -> Seq(Slots)]
      /\ got \in [Threads -> Seq(0..MaxRows)] /\ data \in [Slots -> 0..MaxRows]
      /\ owner \in [Slots -> 0..MaxRows]
      /\ idx[t] \in Seq(Slots) /\ got[t] \in Seq(0..MaxRows)
  BY ReaderTypes
<1>2. /\ pc[t] \in {"read", "pop"} /\ idx[t] # <<>>
      /\ got' = [got EXCEPT ![t] = Append(got[t], d)]
      /\ idx' = [idx EXCEPT ![t] = rest]
      /\ pc' = IF pc[t] = "read" /\ Len(idx[t]) = 1
                 THEN [pc EXCEPT ![t] = "got"] ELSE pc
      /\ UNCHANGED <<index, owner, writing, expect, unwritten, room>>
  BY DEF ReadRow, Goto, At, bufferVars, historyVars
<1>3. /\ rest \in Seq(Slots) /\ Len(rest) = Len(idx[t]) - 1
      /\ Len(idx[t]) \in Nat /\ Len(idx[t]) >= 1 /\ Len(rest) \in Nat
      /\ Head(idx[t]) \in Slots /\ Head(idx[t]) = idx[t][1]
      /\ \A k \in 1..Len(rest) : rest[k] = idx[t][k + 1]
  BY <1>1, <1>2, HeadTailProperties, LenProperties, EmptySeq
<1>4. d \in 0..MaxRows
  BY <1>1, <1>3
<1>s. /\ data[Head(idx[t])] <= owner[Head(idx[t])]
      /\ Free(writing, Head(idx[t])) => data[Head(idx[t])] = owner[Head(idx[t])]
  <2>1. Awaits(writing, Head(idx[t]), owner[Head(idx[t])]) => ~ Free(writing, Head(idx[t]))
    BY DEF Awaits, Free
  <2> QED  BY <1>3, <2>1 DEF BufferInv, SlotsOK, AgeOK
<1>d. d = data[Head(idx[t])]
  OBVIOUS
<1> HIDE DEF d, rest
<1>5. /\ Len(Append(got[t], d)) = g + 1 /\ g \in Nat
      /\ \A k \in 1..g : Append(got[t], d)[k] = got[t][k]
      /\ Append(got[t], d)[g + 1] = d
  BY <1>1, <1>4, AppendProperties, LenProperties
<1>6. got'[t] = Append(got[t], d) /\ idx'[t] = rest
  BY <1>1, <1>2
<1>7. ASSUME room[t] >= 0
      PROVE  Undisturbed(t)'
  <2>1. Undisturbed(t)
    BY <1>2, <1>7, Zenon DEF ReaderOK, Reading
  <2>2. Fits(t, g + 1, d)
    <3>1. 1 \in 1..Len(idx[t])
      BY <1>3
    <3>2. /\ owner[Head(idx[t])] = expect[t][g + 1]
          /\ Free(writing, Head(idx[t])) \/ expect[t][g + 1] \in unwritten[t]
      BY <1>3, <2>1, <3>1 DEF Undisturbed, Due
    <3>3. owner[Head(idx[t])] \in 0..MaxRows
      BY <1>1, <1>3
    <3>4. d = expect[t][g + 1] \/ d < expect[t][g + 1]
      <4> HIDE DEF g
      <4> QED  BY <1>4, <1>s, <1>d, <3>2, <3>3
    <3> HIDE DEF g
    <3> QED  BY <1>s, <1>d, <3>2, <3>4, Zenon DEF Fits
  <2>3. \A k \in 1..g + 1 : Fits(t, k, Append(got[t], d)[k])
    <3> TAKE k \in 1..g + 1
    <3>1. k \in 1..g \/ k = g + 1
      BY <1>5
    <3> QED  BY <1>5, <2>1, <2>2, <3>1 DEF Undisturbed
  <2>4. ASSUME NEW k \in 1..Len(rest)
        PROVE  Due(t, k)'
    <3>1. k + 1 \in 1..Len(idx[t]) /\ g + (k + 1) = g + 1 + k
      <4>1. k \in Nat /\ k + 1 \in 1..Len(idx[t])
        BY <1>3
      <4> QED  BY <1>5, <4>1, OneMore
    <3>2. Due(t, k + 1) /\ rest[k] = idx[t][k + 1]
      BY <1>3, <2>1, <3>1 DEF Undisturbed
    <3>3. /\ owner[rest[k]] = expect[t][g + 1 + k]
          /\ Free(writing, rest[k]) \/ expect[t][g + 1 + k] \in unwritten[t]
          /\ \A x \in 0..room[t]-1 : (index + x) % Size # rest[k]
      <4>1. /\ owner[rest[k]] = expect[t][g + (k + 1)]
            /\ Free(writing, rest[k]) \/ expect[t][g + (k + 1)] \in unwritten[t]
            /\ \A x \in 0..room[t]-1 : (index + x) % Size # rest[k]
        BY <3>2 DEF Due
      <4> QED  BY <3>1, <4>1
    <3>4. idx'[t][k] = rest[k] /\ Len(got'[t]) = g + 1
      BY <1>5, <1>6
    <3> QED  BY <1>2, <3>3, <3>4 DEF Due
  <2>5. Len(expect[t]) = g + 1 + Len(rest)
    <3>1. Len(expect[t]) = g + Len(idx[t]) /\ Len(idx[t]) = Len(rest) + 1
      BY <1>3, <2>1 DEF Undisturbed
    <3>2. g + (Len(rest) + 1) = g + 1 + Len(rest)
      BY <1>3, <1>5, OneMore
    <3> QED  BY <3>1, <3>2, Zenon
  <2>6. /\ Len(got'[t]) = g + 1 /\ got'[t] = Append(got[t], d) /\ idx'[t] = rest
        /\ expect'[t] = expect[t] /\ unwritten'[t] = unwritten[t]
    BY <1>2, <1>5, <1>6
  <2>7. \A k \in 1..g + 1 : Fits(t, k, got[t][k])'
    BY <2>3, <2>6, Zenon DEF Fits
  <2>8. Len(expect'[t]) = Len(got'[t]) + Len(idx'[t])
    BY <2>5, <2>6, Zenon
  <2>9. \A k \in 1..Len(idx'[t]) : Due(t, k)'
    BY <2>4, <2>6, Zenon
  <2>10. \A k \in 1..Len(got'[t]) : Fits(t, k, got[t][k])'
    BY <2>6, <2>7, Zenon
  <2> QED  BY <2>8, <2>9, <2>10, Zenon DEF Undisturbed
<1>8. pc'[t] = "got" => idx'[t] = <<>>
  <2>1. pc'[t] = "got" => Len(idx[t]) = 1
    BY <1>1, <1>2
  <2> QED  BY <1>3, <1>6, <2>1, EmptySeq
<1> QED  BY <1>2, <1>7, <1>8, Zenon DEF ReaderOK, At

\* When another thread gives slots back, t counts as disturbed, unless that
\* thread had found the buffer empty.
LEMMA ReaderEndPop ==
  ASSUME BufferInv, NEW t \in Readers, ReaderOK(t), NEW u \in Threads, EndPop(u)
  PROVE  ReaderOK(t)'
<1>1. /\ t \in Threads /\ index \in Slots /\ pc \in [Threads -> Labels]
      /\ room \in [Threads -> -1..Size] /\ got \in [Threads -> Seq(0..MaxRows)]
  BY ReaderTypes
<1>2. /\ idx' = idx /\ got' = got /\ writing' = writing /\ owner' = owner
      /\ expect' = expect /\ unwritten' = unwritten
      /\ pc[u] = "pop" /\ idx[u] = <<>> /\ pc' = [pc EXCEPT ![u] = "got"]
      /\ index' = (index - Len(got[u])) % Size
      /\ room'[t] = IF Reading(t) /\ t # u /\ got[u] # <<>> THEN -1 ELSE room[t]
  BY <1>1 DEF EndPop, Goto, At, readVars
<1>3. Reading(t)' = Reading(t)
  BY <1>1, <1>2 DEF Reading
<1>4. CASE t = u
  <2>1. room'[t] = room[t] /\ Len(idx[t]) = 0
    BY <1>2, <1>4
  <2>2. \A k, x : Fits(t, k, x)' = Fits(t, k, x)
    BY <1>2 DEF Fits
  <2>3. Undisturbed(t) => Undisturbed(t)'
    <3>1. \A k \in 1..Len(idx'[t]) : Due(t, k)'
      BY <1>2, <2>1
    <3> QED  BY <1>2, <2>2, <3>1, Zenon DEF Undisturbed
  <2> QED  BY <1>2, <1>3, <1>4, <2>1, <2>3 DEF ReaderOK
<1>5. CASE t # u /\ got[u] = <<>>
  <2>1. index' = index /\ room'[t] = room[t] /\ pc'[t] = pc[t]
    <3>1. Len(got[u]) = 0
      BY <1>5
    <3>2. index \in 0..Size-1 /\ index - 0 = index /\ index = Size * 0 + index
      BY <1>1 DEF Slots
    <3>3. index % Size = index
      BY <3>2, ModUnique
    <3> QED  BY <1>1, <1>2, <1>5, <3>1, <3>2, <3>3
  <2> QED  BY <1>2, <2>1, ReaderKept
<1>6. CASE t # u /\ got[u] # <<>>
  <2>1. Reading(t) => room'[t] = -1
    BY <1>2, <1>6
  <2>2. pc'[t] = pc[t]
    BY <1>1, <1>2, <1>6
  <2> QED  BY <1>2, <1>3, <2>1, <2>2 DEF ReaderOK, At
<1> QED  BY <1>4, <1>5, <1>6

LEMMA ReadersStep == BufferInv /\ AgeOK /\ ReadersOK /\ [Next]_vars => ReadersOK'
<1> SUFFICES ASSUME BufferInv, AgeOK, [Next]_vars, NEW t \in Readers, ReaderOK(t)
             PROVE  ReaderOK(t)'
  BY DEF ReadersOK
<1>1. /\ t \in Threads /\ t # "writer" /\ pc \in [Threads -> Labels]
      /\ idx \in [Threads -> Seq(Slots)] /\ got \in [Threads -> Seq(0..MaxRows)]
      /\ expect \in [Threads -> Seq(0..MaxRows)]
      /\ unwritten \in [Threads -> SUBSET (1..MaxRows)]
      /\ room \in [Threads -> -1..Size]
  BY ReaderTypes
<1>2. CASE write
  <2>1. CASE Reserve(1)
    BY <2>1, ReaderReserve
  <2>2. ASSUME NEW n \in Counts, Reserve(n)
        PROVE  ReaderOK(t)'
    <3>1. n \in Nat \ {0}
      OBVIOUS
    <3> QED  BY <2>2, <3>1, ReaderReserve
  <2>3. CASE WriteRow
    BY <2>3, ReaderWriteRow
  <2>4. CASE EndCallback
    <3>1. /\ UNCHANGED <<index, owner, writing>> /\ pc'[t] = pc[t]
          /\ UNCHANGED <<idx, got, expect, unwritten, room>>
      BY <1>1, <2>4 DEF EndCallback, Goto, bufferVars, readVars, historyVars
    <3> QED  BY <3>1, ReaderKept
  <2> QED  BY <1>2, <2>1, <2>2, <2>3, <2>4 DEF write
<1>3. CASE read(t)
  <2>1. ASSUME NEW c \in Calls(t), Begin(t, c)
        PROVE  ReaderOK(t)'
    <3>1. c.num \in Nat
      BY <1>1 DEF Calls
    <3> QED  BY <2>1, <3>1, ReaderBegin
  <2>2. CASE Return(t)
    <3>1. pc'[t] = "idle"
      BY <1>1, <2>2 DEF Return, Goto
    <3> QED  BY <3>1 DEF ReaderOK, Reading, At
  <2> QED  BY <1>1, <1>3, <2>1, <2>2, ReaderReadRow, ReaderEndPop DEF read
<1>4. ASSUME NEW u \in Threads, u # t, read(u)
      PROVE  ReaderOK(t)'
  <2>1. ASSUME (\E c : Begin(u, c)) \/ ReadRow(u) \/ Return(u)
        PROVE  ReaderOK(t)'
    <3>1. /\ UNCHANGED <<index, owner, writing>> /\ pc'[t] = pc[t]
          /\ idx'[t] = idx[t] /\ got'[t] = got[t] /\ expect'[t] = expect[t]
          /\ unwritten'[t] = unwritten[t] /\ room'[t] = room[t]
      <4>1. ASSUME NEW c, Begin(u, c)
            PROVE  /\ UNCHANGED <<index, owner, writing>> /\ pc'[t] = pc[t]
                   /\ idx'[t] = idx[t] /\ got'[t] = got[t] /\ expect'[t] = expect[t]
                   /\ unwritten'[t] = unwritten[t] /\ room'[t] = room[t]
        BY <1>1, <1>4, <4>1 DEF Begin, Goto
      <4>2. CASE ReadRow(u)
        BY <1>1, <1>4, <4>2 DEF ReadRow, Goto, bufferVars, historyVars
      <4>3. CASE Return(u)
        BY <1>1, <1>4, <4>3 DEF Return, Goto, bufferVars
      <4> QED  BY <2>1, <4>1, <4>2, <4>3
    <3> QED  BY <3>1, ReaderKept
  <2> QED  BY <1>4, <2>1, ReaderEndPop DEF read
<1>5. CASE UNCHANGED vars
  <2>1. UNCHANGED <<index, owner, writing, idx, got, pc, expect, unwritten, room>>
    BY <1>5 DEF vars, bufferVars, readVars, historyVars
  <2> QED  BY <2>1, ReaderKept
<1> QED  BY <1>2, <1>3, <1>4, <1>5 DEF Next

\* What a thread reads is the rows of the moment when it took the lock, but for rows that
\* were unwritten then, in whose place it may get older ones: as long as the writer does
\* not reach them and no slots are given back, whatever else the writer and the other
\* threads do meanwhile (RingBuffer.py:10, 27-34).
THEOREM StaleRowsWereUnwritten == Spec => []OnlyUnwrittenAreStale
<1>1. Init => AgeOK /\ ReadersOK
  <2>1. Init => \A t \in Readers : pc[t] = "idle"
    BY DEF Init, Threads
  <2>2. Init => AgeOK
    BY DEF Init, AgeOK
  <2> QED  BY <2>1, <2>2 DEF ReadersOK, ReaderOK, Reading, At
<1>2. ASSUME BufferInv, NEW t \in Readers, ReaderOK(t), At(t, "got"), room[t] >= 0
      PROVE  /\ Len(got[t]) = Len(expect[t])
             /\ \A k \in 1..Len(got[t]) : Fits(t, k, got[t][k])
  <2>1. Undisturbed(t) /\ Len(idx[t]) = 0
    BY <1>2 DEF ReaderOK, Reading, At
  <2>2. Len(got[t]) \in Nat
    BY ReaderTypes, LenProperties
  <2> QED  BY <2>1, <2>2 DEF Undisturbed
<1>3. BufferInv /\ ReadersOK => OnlyUnwrittenAreStale
  BY <1>2 DEF ReadersOK, OnlyUnwrittenAreStale, Fits
<1> QED  BY <1>1, <1>3, AgeStep, ReadersStep, BufferInvariant, PTL DEF Spec

-----------------------------------------------------------------------------
(* Fifo: slots and rows *)

\* The slot of the k-th row, seen from another length.
LEMMA SameSlot ==
  ASSUME NEW i \in Slots, NEW m \in Int, NEW l \in Int, NEW k \in Int
  PROVE  SlotAt((i + m) % Size, l, k) = SlotAt(i, l - m, k)
<1>1. i \in Int /\ i + m \in Int /\ k - l \in Int
  BY DEF Slots
<1>2. (((i + m) % Size) + (k - l)) % Size = ((i + m) + (k - l)) % Size
  BY <1>1, ModShift
<1>3. (i + m) % Size \in Int
  BY <1>1
<1>4. /\ ((i + m) % Size) + k - l = ((i + m) % Size) + (k - l)
      /\ (i + m) + (k - l) = i + k - (l - m)
  BY <1>1, <1>3
<1> QED  BY <1>2, <1>4 DEF SlotAt

-----------------------------------------------------------------------------
(* Fifo: the queue *)

LEMMA QueueType ==
  ASSUME index \in Slots, length \in 0..Size, owner \in [Slots -> 0..MaxRows]
  PROVE  /\ Queue \in Seq(0..MaxRows) /\ Len(Queue) = length
         /\ \A k \in 1..length : Queue[k] = owner[SlotAt(index, length, k - 1)]
<1>1. \A k \in 1..length : k - 1 \in Int
  OBVIOUS
<1>2. \A k \in 1..length : owner[SlotAt(index, length, k - 1)] \in 0..MaxRows
  BY <1>1, OldestType
<1> QED  BY <1>2 DEF Queue

\* Taking rows from the old end.
LEMMA FrontTaken ==
  ASSUME BufferInv, NEW n \in 0..length,
         length' = length - n, UNCHANGED <<index, owner, total>>
  PROVE  [F!Next]_<<Queue, total>>
<1>1. /\ index \in Slots /\ length \in 0..Size /\ owner \in [Slots -> 0..MaxRows]
  BY DEF BufferInv, TypeOK
<1>2. Queue' = [k \in 1..length - n |-> owner[SlotAt(index, length - n, k - 1)]]
  BY DEF Queue
<1>3. Len(Queue) = length /\ length \in Nat
      /\ \A k \in 1..length : Queue[k] = owner[SlotAt(index, length, k - 1)]
  BY <1>1, QueueType
<1>4. \A k \in 1..length - n :
        /\ n + k \in 1..length /\ n + 1 + k - 1 = n + k
        /\ SlotAt(index, length - n, k - 1) = SlotAt(index, length, (n + k) - 1)
  BY <1>1 DEF SlotAt, Slots
<1>5. Queue' = [k \in 1..length - n |-> Queue[n + k]]
  BY <1>2, <1>3, <1>4
<1>6. SubSeq(Queue, n + 1, Len(Queue)) = [k \in 1..length - n |-> Queue[n + k]]
  <2>1. Len(Queue) = length /\ length \in Nat /\ n \in Nat
    BY <1>3
  <2> QED  BY <2>1
<1>7. CASE n = 0
  <2>1. Queue' = [k \in 1..length |-> owner[SlotAt(index, length, k - 1)]]
    BY <1>1, <1>2, <1>7
  <2> QED  BY <2>1 DEF Queue
<1>8. CASE n # 0
  <2>1. n \in 1..Len(Queue)
    BY <1>1, <1>3, <1>8
  <2>2. F!PopFront(n)
    BY <1>5, <1>6 DEF F!PopFront
  <2> QED  BY <2>1, <2>2 DEF F!Next
<1> QED  BY <1>7, <1>8

\* Taking rows from the new end.
LEMMA BackTaken ==
  ASSUME BufferInv, NEW n \in 0..length, length' = length - n,
         index' = (index - n) % Size, UNCHANGED <<owner, total>>
  PROVE  [F!Next]_<<Queue, total>>
<1>1. /\ index \in Slots /\ length \in 0..Size /\ owner \in [Slots -> 0..MaxRows]
  BY DEF BufferInv, TypeOK
<1>2. Queue' = [k \in 1..length - n |->
                  owner[SlotAt((index - n) % Size, length - n, k - 1)]]
  BY DEF Queue
<1>3. Len(Queue) = length /\ length \in Nat
      /\ \A k \in 1..length : Queue[k] = owner[SlotAt(index, length, k - 1)]
  BY <1>1, QueueType
<1>4. \A k \in 1..length - n :
        /\ k \in 1..length
        /\ SlotAt((index - n) % Size, length - n, k - 1) = SlotAt(index, length, k - 1)
  <2> TAKE k \in 1..length - n
  <2>1. /\ -n \in Int /\ k - 1 \in Int /\ length - n \in Int /\ k \in 1..length
        /\ index + -n = index - n /\ (length - n) - (-n) = length
    BY <1>1 DEF Slots
  <2>2. SlotAt((index + -n) % Size, length - n, k - 1)
          = SlotAt(index, (length - n) - (-n), k - 1)
    BY <1>1, <2>1, SameSlot
  <2> QED  BY <2>1, <2>2
<1>5. Queue' = [k \in 1..length - n |-> Queue[k]]
  BY <1>2, <1>3, <1>4
<1>6. SubSeq(Queue, 1, Len(Queue) - n) = [k \in 1..length - n |-> Queue[k]]
  <2>1. Len(Queue) = length /\ length \in Nat /\ n \in Nat
    BY <1>3
  <2> QED  BY <2>1
<1>7. CASE n = 0
  <2>1. Queue' = [k \in 1..length |-> owner[SlotAt(index, length, k - 1)]]
    BY <1>1, <1>3, <1>5, <1>7
  <2> QED  BY <2>1 DEF Queue
<1>8. CASE n # 0
  <2>1. n \in 1..Len(Queue)
    BY <1>1, <1>3, <1>8
  <2>2. F!PopBack(n)
    BY <1>5, <1>6 DEF F!PopBack
  <2> QED  BY <2>1, <2>2 DEF F!Next
<1> QED  BY <1>7, <1>8

\* The j-th of the rows in the queue and the rows that come is in the slot of its
\* place, unless Size rows or more come after it.
LEMMA RowOfSlot ==
  ASSUME BufferInv, NEW n \in Nat \ {0}, Reserve(n),
         NEW j \in 1..length + n, length + n - Size < j
  PROVE  owner'[SlotAt(index, length, j - 1)]
           = IF j <= length THEN Queue[j] ELSE total + (j - length)
<1> DEFINE Hits(s) == {i \in 1..n : (index + i - 1) % Size = s}
           s == SlotAt(index, length, j - 1)
<1>1. /\ index \in Slots /\ length \in 0..Size /\ owner \in [Slots -> 0..MaxRows]
      /\ index \in Int /\ length \in Int
  BY DEF BufferInv, TypeOK, Slots
<1>2. /\ s \in Slots /\ s = (index + (j - 1) - length) % Size
  <2>1. j - 1 \in Int
    BY <1>1
  <2>2. SlotAt(index, length, j - 1) \in Slots
    BY <1>1, <2>1, OldestType
  <2> QED  BY <2>2 DEF SlotAt
<1>3. owner'[s] = IF Hits(s) = {} THEN owner[s]
                  ELSE total + (CHOOSE i \in Hits(s) : \A k \in Hits(s) : k <= i)
  BY <1>2 DEF Reserve
<1>4. ASSUME NEW i \in 1..n, i > j - length
      PROVE  i \notin Hits(s)
  <2>1. /\ index + (j - 1) - length \in Int /\ index + i - 1 \in Int
        /\ index + (j - 1) - length < index + i - 1
        /\ (index + i - 1) - (index + (j - 1) - length) < Size
    BY <1>1, <1>4
  <2>2. (index + (j - 1) - length) % Size # (index + i - 1) % Size
    BY <2>1, ModDistinct
  <2> QED  BY <1>2, <2>2
<1>5. CASE j <= length
  <2>1. \A i \in 1..n : i > j - length
    BY <1>1, <1>5
  <2>2. Hits(s) = {}
    BY <1>4, <2>1
  <2>3. Queue[j] = owner[s]
    <3>1. j \in 1..length
      BY <1>1, <1>5
    <3> QED  BY <1>1, <3>1, QueueType
  <2> HIDE DEF Hits, s
  <2>4. owner'[s] = Queue[j]
    BY <1>3, <2>2, <2>3
  <2> QED  BY <1>5, <2>4 DEF s
<1>6. CASE j > length
  <2> DEFINE m == j - length
  <2>1. m \in 1..n /\ index + m - 1 = index + (j - 1) - length
    BY <1>1, <1>6
  <2>2. m \in Hits(s)
    BY <1>2, <2>1
  <2>3. \A k \in Hits(s) : k <= m
    <3>1. \A k \in Hits(s) : k \in 1..n
      OBVIOUS
    <3> HIDE DEF Hits, s
    <3>2. \A k \in 1..n : k <= m \/ k > j - length
      BY <1>1
    <3> QED  BY <1>4, <3>1, <3>2
  <2>4. \A i \in Hits(s) : (\A k \in Hits(s) : k <= i) => i = m
    <3>1. \A k \in Hits(s) : k \in 1..n
      OBVIOUS
    <3> HIDE DEF Hits, s, m
    <3> QED  BY <2>1, <2>2, <2>3, <3>1
  <2> HIDE DEF Hits, s
  <2>5. (CHOOSE i \in Hits(s) : \A k \in Hits(s) : k <= i) = m
    <3> HIDE DEF m
    <3> QED  BY <2>2, <2>3, <2>4
  <2>6. Hits(s) # {} /\ ~ (j <= length)
    BY <1>1, <1>6, <2>2
  <2> QED  BY <1>3, <2>5, <2>6 DEF s
<1> QED  BY <1>1, <1>5, <1>6

\* Writing rows: the queue keeps the last Size of the rows.
LEMMA RowsPushed ==
  ASSUME BufferInv, NEW n \in Nat \ {0}, n \in Counts \cup {1}, Reserve(n)
  PROVE  F!Next
<1> DEFINE new == [i \in 1..n |-> total + i]
           all == Queue \o new
           kept == MinOf(Size, length + n)
           drop == length + n - kept
<1>1. /\ index \in Slots /\ length \in 0..Size /\ owner \in [Slots -> 0..MaxRows]
      /\ index \in Int /\ length \in Nat /\ total \in 0..MaxRows /\ total + n <= MaxRows
  <2>1. /\ index \in Slots /\ length \in 0..Size /\ owner \in [Slots -> 0..MaxRows]
        /\ total \in 0..MaxRows
    BY DEF BufferInv, TypeOK
  <2>2. total + n <= MaxRows
    BY DEF Reserve
  <2> QED  BY <2>1, <2>2 DEF Slots
<1>2. /\ index' = (index + n) % Size /\ length' = kept /\ total' = total + n
  BY DEF Reserve, NextIndex, Limited
<1>3. /\ kept \in 1..Size /\ kept <= length + n /\ drop \in Nat
      /\ drop = IF length + n <= Size THEN 0 ELSE length + n - Size
  BY <1>1 DEF MinOf
<1>4. Queue \in Seq(0..MaxRows) /\ Len(Queue) = length
  BY <1>1, QueueType
<1>5. new \in Seq(0..MaxRows) /\ Len(new) = n
  <2>1. \A i \in 1..n : total + i \in 0..MaxRows
    BY <1>1
  <2> QED  BY <2>1
<1>6. /\ all \in Seq(0..MaxRows) /\ Len(all) = length + n
      /\ \A j \in 1..length + n :
           all[j] = IF j <= length THEN Queue[j] ELSE total + (j - length)
  <2>1. \A j \in 1..length + n : ~ (j <= length) => new[j - length] = total + (j - length)
    <3>1. \A j \in 1..length + n : ~ (j <= length) => j - length \in 1..n
      BY <1>1
    <3> QED  BY <3>1
  <2> HIDE DEF new, kept, drop
  <2>2. /\ all \in Seq(0..MaxRows) /\ Len(all) = Len(Queue) + Len(new)
        /\ \A j \in 1..Len(Queue) + Len(new) :
             all[j] = IF j <= Len(Queue) THEN Queue[j] ELSE new[j - Len(Queue)]
    <3> HIDE DEF all
    <3>1. \A S : \A s1, s2 \in Seq(S) :
            /\ s1 \o s2 \in Seq(S) /\ Len(s1 \o s2) = Len(s1) + Len(s2)
            /\ \A j \in 1..Len(s1) + Len(s2) :
                 (s1 \o s2)[j] = IF j <= Len(s1) THEN s1[j] ELSE s2[j - Len(s1)]
      BY ConcatProperties, Zenon
    <3> QED  BY <1>4, <1>5, <3>1, Zenon DEF all
  <2> HIDE DEF all
  <2> QED  BY <1>4, <1>5, <2>1, <2>2
<1> HIDE DEF kept, new, all
<1>7. Queue' = [k \in 1..kept |-> all[drop + k]]
  <2>1. Queue' = [k \in 1..kept |-> owner'[SlotAt((index + n) % Size, kept, k - 1)]]
    BY <1>2 DEF Queue
  <2>2. ASSUME NEW k \in 1..kept
        PROVE  owner'[SlotAt((index + n) % Size, kept, k - 1)] = all[drop + k]
    <3>1. drop + k \in 1..length + n /\ length + n - Size < drop + k
      BY <1>1, <1>3
    <3>2. /\ owner'[SlotAt(index, length, (drop + k) - 1)]
               = IF drop + k <= length THEN Queue[drop + k]
                 ELSE total + ((drop + k) - length)
      <4> HIDE DEF drop
      <4> QED  BY <3>1, RowOfSlot
    <3>3. owner'[SlotAt(index, length, (drop + k) - 1)] = all[drop + k]
      <4> HIDE DEF drop
      <4> QED  BY <1>6, <3>1, <3>2
    <3>4. SlotAt((index + n) % Size, kept, k - 1) = SlotAt(index, kept - n, k - 1)
      <4>1. index \in Slots /\ n \in Int /\ kept \in Int /\ k - 1 \in Int
        BY <1>1, <1>3
      <4> QED  BY <4>1, SameSlot
    <3>5. SlotAt(index, kept - n, k - 1) = SlotAt(index, length, (drop + k) - 1)
      <4>1. index + (k - 1) - (kept - n) = index + ((drop + k) - 1) - length
        BY <1>1, <1>3
      <4> HIDE DEF drop
      <4> QED  BY <4>1 DEF SlotAt
    <3> QED  BY <3>3, <3>4, <3>5
  <2> HIDE DEF drop
  <2> QED  BY <2>1, <2>2
<1>8. F!LastRows(all, Size) = [k \in 1..kept |-> all[drop + k]]
  <2>1. CASE length + n <= Size
    <3>1. drop = 0 /\ kept = Len(all)
      BY <1>1, <1>3, <1>6, <2>1
    <3>2. all = [k \in 1..Len(all) |-> all[k]]
      BY <1>6
    <3>3. \A k \in 1..kept : drop + k = k
      BY <3>1
    <3> HIDE DEF drop
    <3>4. [k \in 1..kept |-> all[drop + k]] = all
      BY <3>1, <3>2, <3>3
    <3>5. F!LastRows(all, Size) = all
      BY <1>6, <2>1 DEF F!LastRows
    <3> QED  BY <3>4, <3>5
  <2>2. CASE ~ (length + n <= Size)
    <3>1. drop = length + n - Size /\ kept = Size
      BY <1>1, <1>3, <2>2
    <3>2. F!LastRows(all, Size) = SubSeq(all, length + n - Size + 1, length + n)
      <4>1. Len(all) = length + n
        BY <1>6
      <4>2. F!LastRows(all, Size) = SubSeq(all, Len(all) - Size + 1, Len(all))
        BY <2>2, <4>1, Zenon DEF F!LastRows
      <4>3. Len(all) - Size = length + n - Size
        BY <1>1, <4>1
      <4> QED  BY <4>1, <4>2, <4>3, Zenon
    <3>3. SubSeq(all, length + n - Size + 1, length + n)
            = [k \in 1..Size |-> all[(length + n - Size) + k]]
      BY <1>1, <1>6, <2>2
    <3> HIDE DEF drop
    <3> QED  BY <3>1, <3>2, <3>3
  <2> QED  BY <2>1, <2>2
<1>9. F!Push(n)
  BY <1>2, <1>7, <1>8 DEF F!Push, all, new
<1> QED  BY <1>9 DEF F!Next

LEMMA FifoStep == BufferInv /\ [Next]_vars => [F!Next]_<<Queue, total>>
<1> SUFFICES ASSUME BufferInv, [Next]_vars
             PROVE  [F!Next]_<<Queue, total>>
  OBVIOUS
<1>1. ASSUME UNCHANGED <<index, length, owner, total>>
      PROVE  [F!Next]_<<Queue, total>>
  BY <1>1 DEF Queue
<1>2. length \in 0..Size /\ index \in Slots /\ got \in [Threads -> Seq(0..MaxRows)]
  BY DEF BufferInv, TypeOK
<1>3. ASSUME NEW n \in Nat \ {0}, n \in Counts \cup {1}, Reserve(n)
      PROVE  F!Next
  BY <1>3, RowsPushed
<1>4. CASE write
  <2>1. CASE WriteRow \/ EndCallback
    BY <1>1, <2>1 DEF WriteRow, EndCallback, bufferVars
  <2>2. Counts \subseteq Nat \ {0} /\ 1 \in Nat \ {0}
    OBVIOUS
  <2> QED  BY <1>3, <1>4, <2>1, <2>2 DEF write
<1>5. ASSUME NEW t \in Threads, read(t)
      PROVE  [F!Next]_<<Queue, total>>
  <2>1. ASSUME NEW c \in Calls(t), Begin(t, c)
        PROVE  [F!Next]_<<Queue, total>>
    <3>1. /\ length' = AfterLock(c) /\ UNCHANGED <<index, owner, total>>
      BY <2>1 DEF Begin
    <3>2. Wanted(c.num, length) \in 0..length
      <4>1. c.num \in Nat
        BY DEF Calls
      <4> QED  BY <1>2, <4>1 DEF Wanted, MinOf
    <3>3. CASE c.op = "popFIFO"
      <4>1. length' = length - Wanted(c.num, length)
        BY <3>1, <3>3 DEF AfterLock
      <4> QED  BY <3>1, <3>2, <4>1, FrontTaken
    <3>4. CASE c.op # "popFIFO"
      BY <1>1, <3>1, <3>4 DEF AfterLock
    <3> QED  BY <3>3, <3>4
  <2>2. CASE ReadRow(t) \/ Return(t)
    BY <1>1, <2>2 DEF ReadRow, Return, bufferVars
  <2>3. CASE EndPop(t)
    <3>1. /\ length' = length - Len(got[t]) /\ index' = (index - Len(got[t])) % Size
          /\ UNCHANGED <<owner, total>>
      BY <2>3 DEF EndPop
    <3>2. Len(got[t]) \in 0..length
      <4>1. Len(got[t]) \in Nat
        BY <1>2, LenProperties
      <4>2. Len(idx[t]) + Len(got[t]) <= length /\ Len(idx[t]) = 0
        BY <2>3 DEF BufferInv, PopOK, EndPop, At
      <4> QED  BY <1>2, <4>1, <4>2
    <3> QED  BY <3>1, <3>2, BackTaken
  <2> QED  BY <1>5, <2>1, <2>2, <2>3 DEF read
<1>6. CASE UNCHANGED vars
  BY <1>1, <1>6 DEF vars, bufferVars
<1> QED  BY <1>4, <1>5, <1>6 DEF Next

\* The buffer implements the queue of the last Size rows, for every size, also
\* when more rows come at once than it has slots (RingBuffer.py:24-114).
THEOREM BufferImplementsFifo == Spec => ImplementsFifo
<1>1. Init => F!Init
  BY DEF Init, F!Init, Queue
<1> QED  BY <1>1, FifoStep, BufferInvariant, PTL DEF Spec, ImplementsFifo, F!Spec
===============================================================================
