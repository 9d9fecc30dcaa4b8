---------------------------- MODULE MCRingBuffer ----------------------------
(* Instances of RingBuffer for TLC. *)
EXTENDS RingBuffer, TLC

CONSTANTS a, b   \* readers

TwoReaders == {a, b}
ReaderSymmetry == Permutations(TwoReaders)

Call(op, num) == [op |-> op, num |-> num]

Latest   == {Call("getLIFO", 2)}
AllCalls == {Call("getLIFO", 2), Call("getFIFO", 0), Call("popFIFO", 1),
             Call("popLIFO", 1)}
=============================================================================
