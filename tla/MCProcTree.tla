----------------------------- MODULE MCProcTree -----------------------------
(* Instances of ProcTree for TLC. *)
EXTENDS ProcTree, TLC

\* init, kthreadd, the limiter, and a process with a child.
Five == 1 :> 0 @@ 2 :> 0 @@ 3 :> 1 @@ 4 :> 1 @@ 5 :> 4

Line(parents, p, o, exclusions, x) ==
  [parents |-> parents, p |-> p, o |-> o, exclusions |-> exclusions, x |-> x]

AllModes == {Line({1}, FALSE, FALSE, {3}, FALSE),    \* no options
             Line({1}, FALSE, TRUE, {3}, FALSE),     \* -o
             Line({4}, TRUE, FALSE, {3}, FALSE),     \* -p 4
             Line({4}, TRUE, TRUE, {3}, FALSE),      \* -p 4 -o
             Line({1}, FALSE, FALSE, {3, 4}, FALSE), \* -e 3 4
             Line({1}, FALSE, FALSE, {3, 4}, TRUE),  \* -e 3 4 -x
             Line({4, 5}, TRUE, TRUE, {3, 5}, TRUE)} \* -p 4 5 -o -e 3 5 -x
Plain == {Line({1}, FALSE, FALSE, {3}, FALSE)}
=============================================================================
