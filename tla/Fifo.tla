-------------------------------- MODULE Fifo --------------------------------
(***************************************************************************)
(* What a ring buffer stands for: a queue of the last Size rows.  Rows are *)
(* numbered in the order in which they come.                               *)
(***************************************************************************)
EXTENDS Integers, Sequences

CONSTANTS Size, Counts   \* rows the queue holds; rows that may come at once
VARIABLES queue, total

LastRows(s, n) == IF Len(s) <= n THEN s ELSE SubSeq(s, Len(s) - n + 1, Len(s))

Push(n) ==
  /\ total' = total + n
  /\ queue' = LastRows(queue \o [i \in 1..n |-> total + i], Size)
PopFront(n) == queue' = SubSeq(queue, n + 1, Len(queue)) /\ UNCHANGED total
PopBack(n)  == queue' = SubSeq(queue, 1, Len(queue) - n) /\ UNCHANGED total

Init == queue = <<>> /\ total = 0
Next == \/ \E n \in Counts : Push(n)
        \/ \E n \in 1..Len(queue) : PopFront(n) \/ PopBack(n)
Spec == Init /\ [][Next]_<<queue, total>>
=============================================================================
