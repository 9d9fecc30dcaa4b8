--------------------------- MODULE ProcTreeProofs ---------------------------
(***************************************************************************)
(* Theorems about ProcTree, for every number of PIDs, every command line   *)
(* and every interleaving of births and ends of processes with the update. *)
(*                                                                         *)
(* Path, Landing, create_proc_tree and the walk of Above are recursive     *)
(* functions.  What they compute is proved by induction: a function that   *)
(* follows the recursion exists up to every bound, so the CHOOSE by which  *)
(* TLA+ defines the recursive function picks one that follows it.          *)
(***************************************************************************)
EXTENDS ProcTree, FiniteSetTheorems, SequenceTheorems, TLAPS

-----------------------------------------------------------------------------
(* Induction *)

\* Induction over the natural numbers, for sets: were m outside S, taking one would
\* map the numbers up to m that are outside S one-to-one to themselves and miss m.
LEMMA Induction ==
  ASSUME NEW S, 0 \in S, \A n \in Nat : n \in S => n + 1 \in S, NEW m \in Nat
  PROVE  m \in S
<1> SUFFICES ASSUME m \notin S PROVE FALSE
  OBVIOUS
<1> DEFINE D == {d \in 0..m : d \notin S}
           f == [d \in D |-> d - 1]
<1>1. IsFiniteSet(D)
  <2>1. IsFiniteSet(0..m) /\ D \in SUBSET (0..m)
    BY FS_Interval
  <2> HIDE DEF D
  <2> QED
    BY <2>1, FS_Subset
<1>2. ASSUME NEW d \in D PROVE d - 1 \in D
  <2>1. d \in Nat /\ d # 0 /\ d <= m
    OBVIOUS
  <2>2. d - 1 \in Nat /\ (d - 1) + 1 = d
    BY <2>1
  <2> QED
    BY <2>1, <2>2
<1>3. f \in Injection(D, D)
  BY <1>2 DEF Injection, IsInjective
<1>4. f \in Surjection(D, D)
  <2> HIDE DEF D, f
  <2> QED
    BY <1>1, <1>3, FS_Injection
<1>5. m \in D /\ \A d \in D : f[d] # m
  OBVIOUS
<1> QED
  BY <1>4, <1>5 DEF Surjection

-----------------------------------------------------------------------------
(* Paths *)

\* The links to a node, and the recursion of Path without its bound.
Bits == Seq({0, 1})
PathRule(f, k) == IF k < 2 THEN <<k>> ELSE <<k % 2>> \o f[k \div 2]
PathUpTo(n) == \E f \in [0..n -> Bits] : \A k \in 0..n : f[k] = PathRule(f, k)

\* A function that follows PathRule up to n is extended by one value ...
LEMMA PathStep ==
  ASSUME NEW n \in Nat, PathUpTo(n)
  PROVE  PathUpTo(n + 1)
<1>1. PICK f \in [0..n -> Bits] : \A k \in 0..n : f[k] = PathRule(f, k)
  BY DEF PathUpTo
<1> DEFINE g == [k \in 0..(n+1) |-> IF k <= n THEN f[k] ELSE PathRule(f, k)]
<1>2. ASSUME NEW k \in 0..(n+1), k >= 2
      PROVE  k \div 2 \in 0..n /\ k % 2 \in {0, 1} /\ f[k \div 2] \in Bits
  <2>1. k \div 2 \in 0..n
    BY <1>2
  <2>2. k % 2 \in {0, 1}
    BY <1>2
  <2> QED
    BY <2>1, <2>2
<1>3. ASSUME NEW k \in 0..(n+1)
      PROVE  g[k] = PathRule(f, k)
  <2>1. CASE k <= n
    <3>1. k \in 0..n
      BY <2>1
    <3> QED
      BY <1>1, <2>1, <3>1
  <2>2. CASE ~ (k <= n)
    BY <2>2
  <2> QED
    BY <2>1, <2>2
<1>4. ASSUME NEW k \in 0..(n+1)
      PROVE  PathRule(g, k) = PathRule(f, k)
  <2>1. CASE k < 2
    BY <2>1 DEF PathRule
  <2>2. CASE k >= 2
    <3>1. k \div 2 \in 0..n /\ k \div 2 \in 0..(n+1) /\ k \div 2 <= n
      BY <1>2, <2>2
    <3>2. g[k \div 2] = f[k \div 2]
      BY <3>1
    <3> QED
      BY <3>2 DEF PathRule
  <2> QED
    BY <2>1, <2>2
<1>5. ASSUME NEW k \in 0..(n+1)
      PROVE  PathRule(f, k) \in Bits
  <2>1. CASE k < 2
    BY <2>1 DEF PathRule, Bits
  <2>2. CASE k >= 2
    <3>1. f[k \div 2] \in Bits /\ k % 2 \in {0, 1}
      BY <2>2, <1>2
    <3>2. <<k % 2>> \o f[k \div 2] \in Bits
      BY <3>1 DEF Bits
    <3> QED
      BY <2>2, <3>2 DEF PathRule
  <2> QED
    BY <2>1, <2>2
<1>6. g \in [0..(n+1) -> Bits]
  <2>1. \A k \in 0..(n+1) : g[k] \in Bits
    BY <1>3, <1>5
  <2>2. \A k \in 0..(n+1) : (IF k <= n THEN f[k] ELSE PathRule(f, k)) \in Bits
    BY <2>1
  <2> QED
    BY <2>2
<1>7. \A k \in 0..(n+1) : g[k] = PathRule(g, k)
  BY <1>3, <1>4
<1> HIDE DEF g
<1> QED
  BY <1>6, <1>7 DEF PathUpTo

\* ... so that one exists, and the CHOOSE behind Path follows it.
LEMMA PathUnfolds ==
  ASSUME MaxPid \in Nat
  PROVE  /\ Path \in [0..MaxPid -> Bits]
         /\ \A k \in 0..MaxPid : Path[k] = PathRule(Path, k)
<1> DEFINE S == {n \in Nat : PathUpTo(n)}
<1>1. PathUpTo(0)
  <2> DEFINE f == [k \in 0..0 |-> <<k>>]
  <2>1. f \in [0..0 -> Bits] /\ \A k \in 0..0 : f[k] = PathRule(f, k)
    BY DEF Bits, PathRule
  <2> QED
    BY <2>1 DEF PathUpTo
<1>2. 0 \in S /\ \A n \in Nat : n \in S => n + 1 \in S
  BY <1>1, PathStep
<1>3. MaxPid \in S
  <2> HIDE DEF S
  <2> QED
    BY <1>2, Induction
<1>4. PICK f \in [0..MaxPid -> Bits] : \A k \in 0..MaxPid : f[k] = PathRule(f, k)
  BY <1>3 DEF PathUpTo
<1>5. f = [k \in 0..MaxPid |-> PathRule(f, k)]
  BY <1>4
<1>6. Path = [k \in 0..MaxPid |-> PathRule(Path, k)]
  BY <1>5 DEF Path, PathRule
<1>7. DOMAIN Path = 0..MaxPid /\ \A k \in 0..MaxPid : Path[k] = PathRule(Path, k)
  <2> HIDE DEF PathRule
  <2> QED
    BY <1>6
<1> DEFINE T == {n \in Nat : \A k \in 0..MaxPid : k <= n => Path[k] \in Bits}
<1>8. 0 \in T
  <2>1. SUFFICES ASSUME NEW k \in 0..MaxPid, k <= 0 PROVE Path[k] \in Bits
    OBVIOUS
  <2>2. k = 0 /\ k < 2
    BY <2>1
  <2>4. Path[k] = PathRule(Path, k)
    BY <1>7
  <2>3. Path[k] = <<k>>
    BY <2>2, <2>4 DEF PathRule
  <2> QED
    BY <2>2, <2>3 DEF Bits
<1>9. ASSUME NEW n \in T PROVE n + 1 \in T
  <2>1. SUFFICES ASSUME NEW k \in 0..MaxPid, k <= n + 1 PROVE Path[k] \in Bits
    OBVIOUS
  <2>2. CASE k < 2
    <3>1. k \in {0, 1}
      BY <2>2
    <3>2. Path[k] = <<k>>
      BY <1>7, <2>2 DEF PathRule
    <3> QED
      BY <3>1, <3>2 DEF Bits
  <2>3. CASE k >= 2
    <3>1. k \div 2 \in 0..MaxPid /\ k \div 2 <= n
      BY <2>1, <2>3
    <3>2. k % 2 \in {0, 1}
      BY <2>3
    <3>3. Path[k] = <<k % 2>> \o Path[k \div 2]
      BY <1>7, <2>3 DEF PathRule
    <3>4. Path[k \div 2] \in Bits
      BY <3>1
    <3> QED
      BY <3>2, <3>3, <3>4 DEF Bits
  <2> QED
    BY <2>2, <2>3
<1>10. \A n \in Nat : n \in T
  <2>1. \A n \in Nat : n \in T => n + 1 \in T
    BY <1>9
  <2> HIDE DEF T
  <2> QED
    BY <1>8, <2>1, Induction
<1>11. \A k \in 0..MaxPid : Path[k] \in Bits
  <2> TAKE k \in 0..MaxPid
  <2> k \in Nat /\ k <= k
    OBVIOUS
  <2> QED
    BY <1>10
<1>12. Path \in [0..MaxPid -> Bits]
  <2>1. Path = [k \in 0..MaxPid |-> Path[k]]
    BY <1>6
  <2> QED
    BY <1>11, <2>1
<1> QED
  BY <1>7, <1>12

\* Sequences with the same first element and rest, and only these, are equal.
LEMMA FirstAndRest ==
  ASSUME NEW a \in {0, 1}, NEW b \in {0, 1}, NEW s \in Bits, NEW t \in Bits,
         <<a>> \o s = <<b>> \o t
  PROVE  a = b /\ s = t
<1>1. <<a>> \in Bits /\ <<b>> \in Bits /\ Len(<<a>>) = 1 /\ Len(<<b>>) = 1
  BY DEF Bits
<1>2. /\ Len(s) \in Nat /\ Len(t) \in Nat /\ Len(s) + 1 = Len(t) + 1
      /\ \A i \in 1..(1 + Len(s)) : (<<a>> \o s)[i] = IF i <= 1 THEN <<a>>[i] ELSE s[i - 1]
      /\ \A i \in 1..(1 + Len(t)) : (<<b>> \o t)[i] = IF i <= 1 THEN <<b>>[i] ELSE t[i - 1]
  BY <1>1, ConcatProperties, LenProperties DEF Bits
<1>3. a = b
  BY <1>2
<1>4. \A i \in 1..Len(s) : s[i] = t[i]
  <2> TAKE i \in 1..Len(s)
  <2>1. i + 1 \in 1..(1 + Len(s)) /\ i + 1 \in 1..(1 + Len(t)) /\ ~ (i + 1 <= 1)
        /\ (i + 1) - 1 = i
    BY <1>2
  <2> QED
    BY <1>2, <2>1
<1> QED
  BY <1>2, <1>3, <1>4, SeqEqual DEF Bits

\* The first bit of a path is the parity of the key, and no two keys have one path.
LEMMA PathFacts ==
  ASSUME MaxPid \in Nat
  PROVE  /\ \A k \in 0..MaxPid :
              Path[k] \in Bits /\ Len(Path[k]) \in Nat \ {0} /\ Path[k][1] = k % 2
         /\ \A j, k \in 0..MaxPid : Path[j] = Path[k] => j = k
<1>1. ASSUME NEW k \in 0..MaxPid
      PROVE  /\ Path[k] \in Bits /\ Path[k][1] = k % 2
             /\ k < 2 => Len(Path[k]) = 1
             /\ k >= 2 => /\ k \div 2 \in 0..MaxPid /\ k \div 2 < k
                          /\ Path[k \div 2] \in Bits
                          /\ Path[k] = <<k % 2>> \o Path[k \div 2]
                          /\ Len(Path[k]) = 1 + Len(Path[k \div 2])
             /\ Len(Path[k]) \in Nat \ {0}
  <2>1. Path[k] \in Bits /\ Path[k] = PathRule(Path, k)
    BY PathUnfolds
  <2>2. CASE k < 2
    <3>1. Path[k] = <<k>> /\ k % 2 = k
      BY <2>1, <2>2 DEF PathRule
    <3> QED
      BY <2>1, <2>2, <3>1
  <2>3. CASE k >= 2
    <3>1. k \div 2 \in 0..MaxPid /\ k \div 2 < k /\ k % 2 \in {0, 1}
      BY <2>3
    <3>2. Path[k \div 2] \in Bits /\ Path[k] = <<k % 2>> \o Path[k \div 2]
      BY <2>1, <2>3, <3>1, PathUnfolds DEF PathRule
    <3>3. /\ Len(Path[k]) = 1 + Len(Path[k \div 2]) /\ Len(Path[k \div 2]) \in Nat
          /\ Path[k][1] = k % 2
      BY <3>1, <3>2 DEF Bits
    <3> QED
      BY <2>1, <2>3, <3>1, <3>2, <3>3
  <2> QED
    BY <2>2, <2>3
<1> DEFINE T == {n \in Nat : \A j, k \in 0..MaxPid :
                               j <= n /\ Path[j] = Path[k] => j = k}
<1>2. ASSUME NEW j \in 0..MaxPid, NEW k \in 0..MaxPid, Path[j] = Path[k], j < 2
      PROVE  j = k
  <2>1. k < 2
    <3>1. CASE k >= 2
      <4>1. Len(Path[j]) = 1
        BY <1>1, <1>2
      <4>2. k \div 2 \in 0..MaxPid /\ Len(Path[k]) = 1 + Len(Path[k \div 2])
        BY <1>1, <3>1
      <4>3. Len(Path[k \div 2]) \in Nat \ {0}
        BY <1>1, <4>2
      <4> QED
        <5>1. 1 = 1 + Len(Path[k \div 2])
          BY <1>2, <4>1, <4>2
        <5> QED
          BY <4>3, <5>1
    <3> QED
      BY <3>1
  <2>2. j % 2 = j /\ k % 2 = k
    BY <1>2, <2>1
  <2> QED
    BY <1>1, <1>2, <2>2
<1>3. 0 \in T
  <2>1. \A j \in 0..MaxPid : j <= 0 => j < 2
    OBVIOUS
  <2> QED
    BY <1>2, <2>1
<1>4. ASSUME NEW n \in T PROVE n + 1 \in T
  <2> SUFFICES ASSUME NEW j \in 0..MaxPid, NEW k \in 0..MaxPid,
                      j <= n + 1, Path[j] = Path[k]
               PROVE  j = k
    OBVIOUS
  <2>1. CASE j >= 2 /\ k >= 2
    <3>1. j \div 2 \in 0..MaxPid /\ k \div 2 \in 0..MaxPid /\ j \div 2 <= n
      BY <2>1
    <3>2. <<j % 2>> \o Path[j \div 2] = <<k % 2>> \o Path[k \div 2]
      BY <1>1, <2>1
    <3>3. Path[j \div 2] \in Bits /\ Path[k \div 2] \in Bits
      BY <1>1, <2>1
    <3>4. j % 2 = k % 2 /\ Path[j \div 2] = Path[k \div 2]
      <4>1. j % 2 \in {0, 1} /\ k % 2 \in {0, 1}
        BY <2>1
      <4> DEFINE a == j % 2
                 b == k % 2
                 x == Path[j \div 2]
                 y == Path[k \div 2]
      <4>2. a \in {0, 1} /\ b \in {0, 1} /\ x \in Bits /\ y \in Bits /\ <<a>> \o x = <<b>> \o y
        BY <3>2, <3>3, <4>1
      <4> HIDE DEF a, b, x, y
      <4>3. a = b /\ x = y
        BY <4>2, FirstAndRest
      <4> QED
        BY <4>3 DEF a, b, x, y
    <3>5. j \div 2 = k \div 2
      BY <3>1, <3>4
    <3> QED
      BY <2>1, <3>4, <3>5
  <2>2. CASE j < 2
    BY <1>2, <2>2
  <2>3. CASE k < 2
    BY <1>2, <2>3
  <2> QED
    BY <2>1, <2>2, <2>3
<1>5. \A n \in Nat : n \in T
  <2>1. \A n \in Nat : n \in T => n + 1 \in T
    BY <1>4
  <2> HIDE DEF T
  <2> QED
    BY <1>3, <2>1, Induction
<1>6. ASSUME NEW j \in 0..MaxPid, NEW k \in 0..MaxPid, Path[j] = Path[k]
      PROVE  j = k
  <2> j \in Nat /\ j <= j
    OBVIOUS
  <2> QED
    BY <1>5, <1>6
<1> QED
  BY <1>1, <1>6

-----------------------------------------------------------------------------
(* Nodes *)

\* The nodes but the root.
Nodes == Bits \ {<<>>}

\* Bits sequences: lengths, and equality bit by bit.
LEMMA BitsFacts ==
  ASSUME NEW n \in Bits
  PROVE  /\ Len(n) \in Nat /\ \A i \in 1..Len(n) : n[i] \in {0, 1}
         /\ n # <<>> <=> Len(n) >= 1
         /\ \A m \in Bits : Len(m) = Len(n) /\ (\A i \in 1..Len(n) : n[i] = m[i]) => n = m
<1>1. Len(n) \in Nat /\ \A i \in 1..Len(n) : n[i] \in {0, 1}
  BY LenProperties DEF Bits
<1>2. n # <<>> => Len(n) >= 1
  BY EmptySeq, <1>1 DEF Bits
<1>3. Len(n) >= 1 => n # <<>>
  BY EmptySeq
<1>4. ASSUME NEW m \in Bits, Len(m) = Len(n), \A i \in 1..Len(n) : n[i] = m[i]
      PROVE  n = m
  BY <1>4, SeqEqual DEF Bits
<1> QED
  BY <1>1, <1>2, <1>3, <1>4

\* The first k bits of a node.
LEMMA Prefix ==
  ASSUME NEW m \in Bits, NEW k \in 0..Len(m)
  PROVE  /\ SubSeq(m, 1, k) \in Bits /\ Len(SubSeq(m, 1, k)) = k
         /\ \A i \in 1..k : SubSeq(m, 1, k)[i] = m[i]
<1>1. Len(m) \in Nat /\ \A i \in 1..Len(m) : m[i] \in {0, 1}
  BY BitsFacts
<1>2. k \in Int /\ 1 \in Int /\ \A i \in 1..k : m[i] \in {0, 1}
  BY <1>1
<1>3. /\ SubSeq(m, 1, k) \in Seq({0, 1})
      /\ Len(SubSeq(m, 1, k)) = IF 1 <= k THEN k - 1 + 1 ELSE 0
      /\ \A i \in 1..k - 1 + 1 : SubSeq(m, 1, k)[i] = m[1 + i - 1]
  BY <1>2, SubSeqProperties
<1>4. Len(SubSeq(m, 1, k)) = k
  BY <1>3, <1>1
<1>5. \A i \in 1..k : SubSeq(m, 1, k)[i] = m[i]
  <2> TAKE i \in 1..k
  <2>1. i \in 1..k - 1 + 1 /\ 1 + i - 1 = i
    BY <1>1
  <2> QED
    BY <1>3, <2>1
<1> QED
  BY <1>3, <1>4, <1>5 DEF Bits

\* A node is above another one if it is one of its beginnings.
LEMMA UnderBits ==
  ASSUME NEW n \in Bits, NEW m \in Bits
  PROVE  Under(n, m) <=> /\ Len(n) \in 1..Len(m)
                         /\ \A i \in 1..Len(n) : n[i] = m[i]
<1>1. ASSUME Under(n, m)
      PROVE  Len(n) \in 1..Len(m) /\ \A i \in 1..Len(n) : n[i] = m[i]
  <2>1. PICK k \in 1..Len(m) : n = SubSeq(m, 1, k)
    BY <1>1 DEF Under, Upto
  <2>2. k \in 0..Len(m)
    BY BitsFacts
  <2> QED
    BY <2>1, <2>2, Prefix
<1>2. ASSUME Len(n) \in 1..Len(m), \A i \in 1..Len(n) : n[i] = m[i]
      PROVE  Under(n, m)
  <2>1. Len(n) \in 0..Len(m)
    BY <1>2, BitsFacts
  <2> DEFINE s == SubSeq(m, 1, Len(n))
  <2>2. s \in Bits /\ Len(s) = Len(n) /\ \A i \in 1..Len(n) : s[i] = m[i]
    BY <2>1, Prefix
  <2>3. n = s
    <3> HIDE DEF s
    <3> QED
      BY <1>2, <2>2, BitsFacts
  <2> QED
    BY <1>2, <2>3 DEF Under, Upto
<1> QED
  BY <1>1, <1>2

\* The links on the way to a node lead to nodes.
LEMMA UptoNodes ==
  ASSUME NEW m \in Bits
  PROVE  /\ Upto(m) \subseteq Nodes
         /\ \A n : n \in Upto(m) <=> n \in Nodes /\ Under(n, m)
<1>1. Upto(m) \subseteq Nodes
  <2> SUFFICES ASSUME NEW k \in 1..Len(m) PROVE SubSeq(m, 1, k) \in Nodes
    BY DEF Upto
  <2>1. k \in 0..Len(m) /\ k >= 1
    BY BitsFacts
  <2> DEFINE s == SubSeq(m, 1, k)
  <2>2. s \in Bits /\ Len(s) = k
    BY <2>1, Prefix
  <2> HIDE DEF s
  <2>3. s # <<>>
    BY <2>1, <2>2, BitsFacts
  <2> QED
    BY <2>2, <2>3 DEF Nodes, s
<1> QED
  BY <1>1 DEF Under

\* Being above is a partial order.
LEMMA UnderOrder ==
  /\ \A n \in Nodes : Under(n, n)
  /\ \A n, m, o \in Bits : Under(n, m) /\ Under(m, o) => Under(n, o)
  /\ \A n, m \in Bits : Under(n, m) /\ Under(m, n) => n = m
<1>1. ASSUME NEW n \in Nodes PROVE Under(n, n)
  <2>1. n \in Bits /\ Len(n) \in 1..Len(n)
    BY BitsFacts DEF Nodes
  <2> QED
    BY <2>1, UnderBits
<1>2. ASSUME NEW n \in Bits, NEW m \in Bits, NEW o \in Bits, Under(n, m), Under(m, o)
      PROVE  Under(n, o)
  <2>1. /\ Len(n) \in 1..Len(m) /\ \A i \in 1..Len(n) : n[i] = m[i]
        /\ Len(m) \in 1..Len(o) /\ \A i \in 1..Len(m) : m[i] = o[i]
    BY <1>2, UnderBits
  <2>2. Len(n) \in Nat /\ Len(m) \in Nat /\ Len(o) \in Nat
    BY BitsFacts
  <2>3. Len(n) \in 1..Len(o) /\ \A i \in 1..Len(n) : i \in 1..Len(m)
    BY <2>1, <2>2
  <2> QED
    BY <2>1, <2>3, UnderBits
<1>3. ASSUME NEW n \in Bits, NEW m \in Bits, Under(n, m), Under(m, n)
      PROVE  n = m
  <2>1. /\ Len(n) \in 1..Len(m) /\ \A i \in 1..Len(n) : n[i] = m[i]
        /\ Len(m) \in 1..Len(n)
    BY <1>3, UnderBits
  <2>2. Len(n) \in Nat /\ Len(m) \in Nat
    BY BitsFacts
  <2>3. Len(n) = Len(m)
    BY <2>1, <2>2
  <2> QED
    BY <2>1, <2>3, BitsFacts
<1> QED
  BY <1>1, <1>2, <1>3

-----------------------------------------------------------------------------
(* The order of the nodes *)

\* Two nodes part at bit k, the first towards its zero branch.
Parts(n, m, k) ==
  /\ k \in 1..Len(n) /\ k <= Len(m) /\ n[k] = 0 /\ m[k] = 1
  /\ \A i \in 1..(k-1) : n[i] = m[i]

\* A node comes before another one when it is above it, or parts to its left.
LEMMA BeforeBits ==
  ASSUME NEW n \in Bits, NEW m \in Bits
  PROVE  Before(n, m) <=> (Under(n, m) /\ n # m) \/ \E k \in Nat : Parts(n, m, k)
<1>0. Len(n) \in Nat /\ Len(m) \in Nat
  BY BitsFacts
<1>1. ASSUME NEW k \in 1..Len(n), k <= Len(m)
      PROVE  SubSeq(n, 1, k - 1) = SubSeq(m, 1, k - 1) <=> \A i \in 1..(k-1) : n[i] = m[i]
  <2> DEFINE j == k - 1
             s == SubSeq(n, 1, j)
             t == SubSeq(m, 1, j)
  <2>1. j \in 0..Len(n) /\ j \in 0..Len(m)
    BY <1>0, <1>1
  <2> HIDE DEF j
  <2>2. /\ s \in Bits /\ Len(s) = j /\ \A i \in 1..j : s[i] = n[i]
        /\ t \in Bits /\ Len(t) = j /\ \A i \in 1..j : t[i] = m[i]
    BY <2>1, Prefix
  <2> HIDE DEF s, t
  <2>3. s = t <=> \A i \in 1..j : n[i] = m[i]
    BY <2>2, BitsFacts
  <2> QED
    BY <2>3 DEF s, t, j
<1>2. (\E k \in 1..Len(n) : /\ k <= Len(m) /\ SubSeq(n, 1, k-1) = SubSeq(m, 1, k-1)
                            /\ n[k] = 0 /\ m[k] = 1)
       <=> \E k \in Nat : Parts(n, m, k)
  <2>1. \A k \in 1..Len(n) : k \in Nat
    BY <1>0
  <2> QED
    BY <1>1, <2>1 DEF Parts
<1> QED
  BY <1>2 DEF Before

\* The order of the iteration: strict ...
LEMMA BeforeOrder ==
  /\ \A n \in Bits : ~ Before(n, n)
  /\ \A n, m, o \in Bits : Before(n, m) /\ Before(m, o) => Before(n, o)
<1>1. ASSUME NEW n \in Bits PROVE ~ Before(n, n)
  BY BeforeBits DEF Parts
<1>2. ASSUME NEW n \in Bits, NEW m \in Bits, NEW o \in Bits, Before(n, m), Before(m, o)
      PROVE  Before(n, o)
  <2>0. Len(n) \in Nat /\ Len(m) \in Nat /\ Len(o) \in Nat
    BY BitsFacts
  <2>1. CASE Under(n, m) /\ n # m /\ Under(m, o) /\ m # o
    BY <2>1, UnderOrder, BeforeBits
  <2>2. ASSUME NEW k \in Nat, Parts(n, m, k), NEW j \in Nat, Parts(m, o, j)
        PROVE  \E i \in Nat : Parts(n, o, i)
    <3>1. CASE k < j
      <4>1. k \in 1..(j-1) /\ \A i \in 1..(k-1) : i \in 1..(j-1)
        BY <3>1, <2>2 DEF Parts
      <4>2. k \in 1..Len(n) /\ k <= Len(o)
        BY <2>0, <2>2, <3>1 DEF Parts
      <4>3. Parts(n, o, k)
        BY <2>2, <4>1, <4>2 DEF Parts
      <4> QED
        BY <4>3
    <3>2. CASE j < k
      <4>1. j \in 1..(k-1) /\ \A i \in 1..(j-1) : i \in 1..(k-1)
        BY <3>2, <2>2 DEF Parts
      <4>2. j \in 1..Len(n) /\ j <= Len(o)
        BY <2>0, <2>2, <3>2 DEF Parts
      <4>3. Parts(n, o, j)
        BY <2>2, <4>1, <4>2 DEF Parts
      <4> QED
        BY <4>3
    <3>3. k # j
      BY <2>2 DEF Parts
    <3> QED
      BY <3>1, <3>2, <3>3
  <2>3. ASSUME Under(n, m), NEW j \in Nat, Parts(m, o, j)
        PROVE  Before(n, o)
    <3>1. Len(n) \in 1..Len(m) /\ \A i \in 1..Len(n) : n[i] = m[i]
      BY <2>3, UnderBits
    <3>2. CASE j <= Len(n)
      <4>1. j \in 1..Len(n) /\ \A i \in 1..(j-1) : i \in 1..Len(n)
        BY <2>0, <2>3, <3>2 DEF Parts
      <4>2. Parts(n, o, j)
        BY <2>3, <3>1, <4>1 DEF Parts
      <4> QED
        BY <4>2, BeforeBits
    <3>3. CASE Len(n) < j
      <4>1. \A i \in 1..Len(n) : i \in 1..(j-1)
        BY <2>0, <3>3
      <4>2. Len(n) \in 1..Len(o) /\ Len(n) # Len(o)
        BY <2>0, <2>3, <3>1, <3>3 DEF Parts
      <4>3. Under(n, o)
        BY <2>3, <3>1, <4>1, <4>2, UnderBits DEF Parts
      <4> QED
        BY <4>2, <4>3, BeforeBits
    <3> QED
      BY <2>0, <2>3, <3>2, <3>3
  <2>4. ASSUME NEW k \in Nat, Parts(n, m, k), Under(m, o)
        PROVE  Before(n, o)
    <3>1. Len(m) \in 1..Len(o) /\ \A i \in 1..Len(m) : m[i] = o[i]
      BY <2>4, UnderBits
    <3>2. k \in 1..Len(m) /\ k <= Len(o) /\ \A i \in 1..(k-1) : i \in 1..Len(m)
      BY <2>0, <2>4, <3>1 DEF Parts
    <3>3. Parts(n, o, k)
      BY <2>4, <3>1, <3>2 DEF Parts
    <3> QED
      BY <3>3, BeforeBits
  <2> QED
    BY <1>2, <2>1, <2>2, <2>3, <2>4, BeforeBits
<1> QED
  BY <1>1, <1>2

\* A set of numbers that is not empty has a least element.
LEMMA Least ==
  ASSUME NEW S \in SUBSET Nat, S # {}
  PROVE  \E k \in S : \A j \in S : k <= j
<1> SUFFICES ASSUME ~ \E k \in S : \A j \in S : k <= j PROVE FALSE
  OBVIOUS
<1> DEFINE T == {n \in Nat : \A j \in S : n < j}
<1>1. 0 \in T
  <2> SUFFICES ASSUME NEW j \in S, ~ (0 < j) PROVE FALSE
    OBVIOUS
  <2>1. j \in Nat
    OBVIOUS
  <2>2. j = 0
    BY <2>1
  <2>3. \A i \in S : i \in Nat
    OBVIOUS
  <2>4. \A i \in S : j <= i
    BY <2>2, <2>3
  <2> QED
    BY <2>4
<1>2. ASSUME NEW n \in T PROVE n + 1 \in T
  <2> SUFFICES ASSUME NEW j \in S, ~ (n + 1 < j) PROVE FALSE
    OBVIOUS
  <2>1. n \in Nat /\ j \in Nat /\ n < j
    OBVIOUS
  <2>2. j = n + 1
    BY <2>1
  <2>3. \A i \in S : i \in Nat /\ n < i
    OBVIOUS
  <2>4. \A i \in S : j <= i
    BY <2>1, <2>2, <2>3
  <2> QED
    BY <2>4
<1>3. \A n \in Nat : n \in T
  <2>1. \A n \in Nat : n \in T => n + 1 \in T
    BY <1>2
  <2> HIDE DEF T
  <2> QED
    BY <1>1, <2>1, Induction
<1>4. PICK j \in S : TRUE
  OBVIOUS
<1>5. j \in Nat /\ j \in T
  BY <1>3
<1>6. j < j
  BY <1>5
<1> QED
  BY <1>5, <1>6

\* ... and total.
LEMMA BeforeTotal ==
  ASSUME NEW n \in Nodes, NEW m \in Nodes, n # m
  PROVE  Before(n, m) \/ Before(m, n)
<1>0. /\ n \in Bits /\ m \in Bits /\ Len(n) \in Nat /\ Len(m) \in Nat
      /\ Len(n) >= 1 /\ Len(m) >= 1
      /\ \A i \in 1..Len(n) : n[i] \in {0, 1}
      /\ \A i \in 1..Len(m) : m[i] \in {0, 1}
  BY BitsFacts DEF Nodes
<1> DEFINE D == {i \in Nat : i \in 1..Len(n) /\ i \in 1..Len(m) /\ n[i] # m[i]}
<1>1. CASE D # {}
  <2>1. PICK k \in D : \A j \in D : k <= j
    <3> D \in SUBSET Nat
      OBVIOUS
    <3> HIDE DEF D
    <3> QED
      BY <1>1, Least
  <2>2. /\ k \in Nat /\ k \in 1..Len(n) /\ k \in 1..Len(m) /\ n[k] # m[k]
        /\ k <= Len(n) /\ k <= Len(m)
    BY <1>0
  <2>3. ASSUME NEW i \in 1..(k-1) PROVE n[i] = m[i]
    <3>1. i \in Nat /\ i \in 1..Len(n) /\ i \in 1..Len(m) /\ ~ (k <= i)
      BY <1>0, <2>2
    <3> QED
      BY <2>1, <3>1
  <2>4. n[k] \in {0, 1} /\ m[k] \in {0, 1}
    BY <1>0, <2>2
  <2>5. Parts(n, m, k) \/ Parts(m, n, k)
    <3> HIDE DEF D
    <3> QED
      BY <2>2, <2>3, <2>4 DEF Parts
  <2> QED
    BY <1>0, <2>2, <2>5, BeforeBits
<1>2. CASE D = {}
  <2>1. \A i \in Nat : i \in 1..Len(n) /\ i \in 1..Len(m) => n[i] = m[i]
    BY <1>2
  <2>2. CASE Len(n) <= Len(m)
    <3>1. Len(n) \in 1..Len(m) /\ \A i \in 1..Len(n) : n[i] = m[i]
      BY <1>0, <2>1, <2>2
    <3> QED
      BY <1>0, <3>1, UnderBits, BeforeBits
  <2>3. CASE Len(m) <= Len(n)
    <3>1. Len(m) \in 1..Len(n) /\ \A i \in 1..Len(m) : n[i] = m[i]
      BY <1>0, <2>1, <2>3
    <3> QED
      BY <1>0, <3>1, UnderBits, BeforeBits
  <2> QED
    BY <1>0, <2>2, <2>3
<1> QED
  BY <1>1, <1>2

-----------------------------------------------------------------------------
(* The order of the keys *)

\* Of the keys, for short.
Precedes(j, k) == Before(Path[j], Path[k])

\* The paths of the keys.
LEMMA PidPaths ==
  \A p \in Pids : Path[p] \in Nodes /\ Path[p] \in Bits /\ Path[p][1] = p % 2
                  /\ \A q \in Pids : Path[p] = Path[q] => p = q
<1>1. MaxPid \in Nat /\ \A p \in Pids : p \in 0..MaxPid
  BY ProcTreeAssumption DEF Pids
<1> QED
  BY <1>1, PathFacts, BitsFacts DEF Nodes

\* The iteration visits the keys in a strict total order.
LEMMA PrecedesOrder ==
  /\ \A j \in Pids : ~ Precedes(j, j)
  /\ \A i, j, k \in Pids : Precedes(i, j) /\ Precedes(j, k) => Precedes(i, k)
  /\ \A j, k \in Pids : j = k \/ Precedes(j, k) \/ Precedes(k, j)
BY PidPaths, BeforeOrder, BeforeTotal DEF Precedes

\* An iteration has a next key as long as one remains.
LEMMA FirstExists ==
  ASSUME NEW S \in SUBSET Pids, S # {}
  PROVE  \E k \in S : \A o \in S : o = k \/ Precedes(k, o)
<1> DEFINE First(n) == \E k \in S \cap 0..n : \A o \in S \cap 0..n : o = k \/ Precedes(k, o)
           T == {n \in Nat : S \cap 0..n = {} \/ First(n)}
<1>0. \A p \in S : p \in Nat /\ p \in Pids /\ p \in 1..MaxPid
  BY ProcTreeAssumption DEF Pids
<1>1. 0 \in T
  <2>1. S \cap 0..0 = {}
    BY <1>0
  <2> QED
    BY <2>1
<1>2. ASSUME NEW n \in T PROVE n + 1 \in T
  <2>0. n \in Nat /\ n + 1 \in Nat
    OBVIOUS
  <2>1. CASE n + 1 \notin S
    <3>1. S \cap 0..(n+1) = S \cap 0..n
      BY <1>0, <2>0, <2>1
    <3> QED
      BY <2>0, <3>1
  <2>2. CASE n + 1 \in S
    <3>1. n + 1 \in S \cap 0..(n+1) /\ n + 1 \in Pids
      BY <1>0, <2>0, <2>2
    <3>2. \A o \in S \cap 0..(n+1) : o \in Pids /\ (o = n + 1 \/ o \in S \cap 0..n)
      BY <1>0, <2>0
    <3>3. \A o \in S \cap 0..n : o \in S \cap 0..(n+1)
      BY <1>0, <2>0
    <3>4. CASE S \cap 0..n = {}
      <4>1. First(n + 1)
        BY <3>1, <3>2, <3>4
      <4> QED
        BY <2>0, <4>1
    <3>5. CASE First(n)
      <4>1. PICK k \in S \cap 0..n : \A o \in S \cap 0..n : o = k \/ Precedes(k, o)
        BY <3>5
      <4>2. k \in Pids
        BY <1>0
      <4>3. CASE Precedes(k, n + 1)
        <5>1. \A o \in S \cap 0..(n+1) : o = k \/ Precedes(k, o)
          BY <3>2, <4>1, <4>3
        <5>2. First(n + 1)
          BY <3>3, <5>1
        <5> QED
          BY <2>0, <5>2
      <4>4. CASE Precedes(n + 1, k)
        <5>1. \A o \in S \cap 0..(n+1) : o = n + 1 \/ Precedes(n + 1, o)
          BY <3>1, <3>2, <4>1, <4>2, <4>4, PrecedesOrder
        <5>2. First(n + 1)
          BY <3>1, <5>1
        <5> QED
          BY <2>0, <5>2
      <4>5. k # n + 1
        BY <1>0, <2>0
      <4> QED
        BY <3>1, <4>2, <4>3, <4>4, <4>5, PrecedesOrder
    <3> QED
      BY <3>4, <3>5
  <2> QED
    BY <2>1, <2>2
<1>3. \A n \in Nat : n \in T
  <2>1. \A n \in Nat : n \in T => n + 1 \in T
    BY <1>2
  <2> HIDE DEF T
  <2> QED
    BY <1>1, <2>1, Induction
<1>4. MaxPid \in Nat /\ S \cap 0..MaxPid = S
  <2>1. MaxPid \in Nat
    BY ProcTreeAssumption
  <2>2. \A p \in S : p \in 0..MaxPid
    BY <1>0, <2>1
  <2> QED
    BY <2>1, <2>2
<1>5. First(MaxPid)
  <2>1. MaxPid \in T
    BY <1>3, <1>4
  <2> QED
    BY <2>1, <1>4
<1> QED
  BY <1>4, <1>5

\* What an iteration has still to visit, and its next key.
LEMMA NextFacts ==
  ASSUME NEW t, NEW last \in 0..MaxPid, ToVisit(t, Pids, last) # {}
  PROVE  /\ NextVisited(t, Pids, last) \in ToVisit(t, Pids, last)
         /\ NextVisited(t, Pids, last) \in Pids
         /\ \A o \in ToVisit(t, Pids, last) :
              o = NextVisited(t, Pids, last) \/ Precedes(NextVisited(t, Pids, last), o)
<1> DEFINE V == ToVisit(t, Pids, last)
<1>1. V \in SUBSET Pids /\ V # {}
  BY DEF ToVisit
<1>2. \E k \in V : \A o \in V : o = k \/ Precedes(k, o)
  <2> HIDE DEF V
  <2> QED
    BY <1>1, FirstExists
<1> QED
  BY <1>1, <1>2 DEF NextVisited, Precedes

-----------------------------------------------------------------------------
(* The trie *)

\* The keys in a trie.
Held(t) == {p \in Pids : Has(p, t)}

\* Nodes are reached through nodes, hold the value of the key they are the path of,
\* and lead to a key that is held.
TrieOK(t) ==
  /\ DOMAIN t \subseteq Nodes /\ \A n \in DOMAIN t : Upto(n) \subseteq DOMAIN t
  /\ \A n \in DOMAIN t :
       t[n] = {} \/ \E p \in Pids, i \in Infos : n = Path[p] /\ t[n] = {i}
  /\ \A n \in DOMAIN t : \E p \in Held(t) : Under(n, Path[p])

\* The tries t and u differ at most in the value of p, which is v in u.
OnlyAt(p, v, t, u) ==
  /\ trie_value(p, u) = v
  /\ \A q \in Pids \ {p} : trie_value(q, u) = trie_value(q, t)

\* The value of a key that is in the trie.
LEMMA ValueFacts ==
  ASSUME NEW t, TrieOK(t), NEW p \in Pids, Has(p, t)
  PROVE  /\ Path[p] \in DOMAIN t /\ Path[p] \in Nodes
         /\ \E i \in Infos : trie_value(p, t) = {i} /\ t[Path[p]] = {i}
BY DEF Has, trie_value, TrieOK

\* A value is changed in place.
LEMMA StoredFacts ==
  ASSUME NEW t, TrieOK(t), NEW p \in Pids, Has(p, t), NEW i \in Infos
  PROVE  TrieOK(Stored(p, i, t)) /\ OnlyAt(p, {i}, t, Stored(p, i, t))
<1> DEFINE u == Stored(p, i, t)
<1>1. /\ Path[p] \in DOMAIN t /\ DOMAIN u = DOMAIN t /\ u[Path[p]] = {i}
      /\ \A n \in DOMAIN t : n # Path[p] => u[n] = t[n]
  BY ValueFacts DEF Stored
<1> HIDE DEF u
<1>2. OnlyAt(p, {i}, t, u)
  BY <1>1, PidPaths DEF OnlyAt, trie_value
<1>3. Held(t) \subseteq Held(u)
  BY <1>2 DEF OnlyAt, Held, Has
<1>4. TrieOK(u)
  BY <1>1, <1>3 DEF TrieOK
<1> QED
  BY <1>2, <1>4 DEF u

\* trie_insert.
LEMMA InsertFacts ==
  ASSUME NEW t, TrieOK(t), NEW p \in Pids, ~ Has(p, t), NEW i \in Infos
  PROVE  TrieOK(trie_insert(p, i, t)) /\ OnlyAt(p, {i}, t, trie_insert(p, i, t))
<1> DEFINE u == trie_insert(p, i, t)
<1>1. Path[p] \in Nodes /\ Path[p] \in Upto(Path[p]) /\ Upto(Path[p]) \subseteq Nodes
  BY PidPaths, UptoNodes, UnderOrder DEF Nodes
<1>2. /\ DOMAIN u = DOMAIN t \cup Upto(Path[p]) /\ u[Path[p]] = {i}
      /\ \A n \in DOMAIN u : n # Path[p] => u[n] = IF n \in DOMAIN t THEN t[n] ELSE {}
  BY <1>1 DEF trie_insert
<1> HIDE DEF u
<1>3. OnlyAt(p, {i}, t, u)
  BY <1>1, <1>2, PidPaths DEF OnlyAt, trie_value
<1>4. Held(t) \subseteq Held(u) /\ p \in Held(u)
  BY <1>3 DEF OnlyAt, Held, Has
<1>5. ASSUME NEW n \in DOMAIN u
      PROVE  /\ n \in Nodes /\ Upto(n) \subseteq DOMAIN u
             /\ \E q \in Held(u) : Under(n, Path[q])
  <2>1. CASE n \in DOMAIN t
    BY <1>2, <1>4, <2>1 DEF TrieOK
  <2>2. CASE n \in Upto(Path[p])
    <3>1. n \in Nodes /\ Under(n, Path[p])
      BY <1>1, <2>2 DEF Under
    <3>2. ASSUME NEW m \in Upto(n) PROVE m \in Upto(Path[p])
      <4>1. m \in Nodes /\ Under(m, n)
        BY <3>1, UptoNodes DEF Nodes, Under
      <4> QED
        BY <1>1, <3>1, <4>1, UnderOrder DEF Nodes, Under
    <3> QED
      BY <1>2, <1>4, <3>1, <3>2
  <2> QED
    BY <1>2, <2>1, <2>2
<1>6. ASSUME NEW n \in DOMAIN u
      PROVE  u[n] = {} \/ \E q \in Pids, j \in Infos : n = Path[q] /\ u[n] = {j}
  BY <1>2 DEF TrieOK
<1>7. TrieOK(u)
  BY <1>5, <1>6 DEF TrieOK
<1> QED
  BY <1>3, <1>7 DEF u

-----------------------------------------------------------------------------
(* trie_remove *)

\* The recursion of Landing without its bound.
LandRule(t, path, f, n) ==
  IF n = 1 THEN IF <<path[1]>> \in DOMAIN t THEN <<path[1]>> ELSE <<>>
  ELSE IF f[n-1] = <<>> THEN <<>> ELSE Follow(t, f[n-1], path[n])

\* The search for a key that is in the tree ends at its node.
LEMMA LandingFound ==
  ASSUME NEW t, NEW path \in DOMAIN t, DOMAIN t \subseteq Nodes,
         Upto(path) \subseteq DOMAIN t
  PROVE  Landing(t, path) = path
<1> DEFINE first(n) == SubSeq(path, 1, n)
           N == Len(path)
           good == [n \in 1..N |-> first(n)]
<1>1. path \in Bits /\ N \in Nat /\ N >= 1 /\ \A i \in 1..N : path[i] \in {0, 1}
  BY BitsFacts DEF Nodes
<1>2. ASSUME NEW n \in 1..N
      PROVE  first(n) \in DOMAIN t /\ first(n) \in Bits /\ first(n) # <<>>
  BY DEF Upto, Nodes
<1>3. first(1) = <<path[1]>> /\ first(N) = path
  <2>1. 1 \in 0..N
    BY <1>1
  <2>2. first(1) \in Bits /\ Len(first(1)) = 1 /\ first(1)[1] = path[1]
    <3> HIDE DEF N
    <3>1. /\ SubSeq(path, 1, 1) \in Bits /\ Len(SubSeq(path, 1, 1)) = 1
          /\ \A i \in 1..1 : SubSeq(path, 1, 1)[i] = path[i]
      BY <1>1, <2>1, Prefix DEF N
    <3> QED
      BY <3>1
  <2>3. <<path[1]>> \in Bits
    BY <1>1 DEF Bits
  <2>4. first(1) = <<path[1]>>
    <3> DEFINE s == first(1)
               r == <<path[1]>>
    <3>1. s \in Bits /\ r \in Bits /\ Len(s) = Len(r) /\ \A i \in 1..Len(s) : s[i] = r[i]
      BY <2>2, <2>3
    <3> HIDE DEF s, r
    <3>2. s = r
      BY <3>1, BitsFacts
    <3> QED
      BY <3>2 DEF s, r
  <2> QED
    BY <1>1, <2>4, SubSeqFull DEF Bits
<1>4. ASSUME NEW n \in 1..N, n # 1
      PROVE  /\ n - 1 \in 1..N
             /\ Follow(t, first(n - 1), path[n]) = first(n)
  <2>1. n - 1 \in 1..N /\ n \in 1..Len(path) /\ 1 \in 1..Len(path) /\ n \in 1..Len(path)
    BY <1>1, <1>4
  <2>2. first(n) = first(n - 1) \o <<path[n]>>
    <3> path \in Seq({0, 1}) /\ n \in 1 .. Len(path)
      BY <1>1 DEF Bits
    <3> QED
      BY <2>1, SubSeqRecursiveSecond
  <2>3. first(n - 1) \in Seq({0, 1}) /\ path[n] \in {0, 1}
    BY <1>1, <1>2, <2>1 DEF Bits
  <2>4. first(n) = Append(first(n - 1), path[n])
    BY <2>2, <2>3, AppendIsConcat
  <2>5. first(n) \in DOMAIN t
    BY <1>2
  <2> HIDE DEF first
  <2> QED
    BY <2>1, <2>3, <2>4, <2>5 DEF Follow
<1>5. ASSUME NEW n \in 1..N PROVE LandRule(t, path, good, n) = first(n)
  <2>1. CASE n = 1
    <3>1. first(1) \in DOMAIN t
      BY <1>1, <1>2
    <3> QED
      BY <1>3, <2>1, <3>1 DEF LandRule
  <2>2. CASE n # 1
    <3>1. good[n - 1] = first(n - 1) /\ good[n - 1] # <<>>
      BY <1>2, <1>4, <2>2
    <3> HIDE DEF good, first
    <3> QED
      BY <1>4, <2>2, <3>1 DEF LandRule
  <2> QED
    BY <2>1, <2>2
<1>6. good = [n \in 1..N |-> LandRule(t, path, good, n)]
  BY <1>5
<1>7. ASSUME NEW f, f = [n \in 1..N |-> LandRule(t, path, f, n)]
      PROVE  f[N] = path
  <2> DEFINE T == {n \in Nat : n + 1 \in 1..N => f[n + 1] = first(n + 1)}
  <2>0. \A n \in 1..N : f[n] = LandRule(t, path, f, n)
    <3> HIDE DEF LandRule
    <3> QED
      BY <1>7
  <2>1. 0 \in T
    <3>1. f[1] = first(1)
      <4>1. 1 \in 1..N /\ first(1) \in DOMAIN t
        BY <1>1, <1>2
      <4> HIDE DEF first
      <4> QED
        BY <1>3, <2>0, <4>1 DEF LandRule
    <3> QED
      BY <3>1
  <2>2. ASSUME NEW n \in T PROVE n + 1 \in T
    <3> SUFFICES ASSUME n + 1 + 1 \in 1..N PROVE f[n + 1 + 1] = first(n + 1 + 1)
      OBVIOUS
    <3> DEFINE k == n + 1 + 1
    <3>1. n \in Nat /\ n + 1 \in 1..N /\ k \in 1..N /\ k # 1 /\ k - 1 = n + 1
      BY <1>1
    <3>2. f[k - 1] = first(k - 1)
      BY <3>1
    <3> HIDE DEF k, first
    <3>3. f[k] = first(k)
      BY <1>2, <1>4, <2>0, <3>1, <3>2 DEF LandRule
    <3> QED
      BY <3>3 DEF k
  <2>3. \A n \in Nat : n \in T
    <3>1. \A n \in Nat : n \in T => n + 1 \in T
      BY <2>2
    <3> HIDE DEF T
    <3> QED
      BY <2>1, <3>1, Induction
  <2>4. N - 1 \in Nat /\ N - 1 + 1 = N /\ N \in 1..N
    BY <1>1
  <2>5. f[N] = first(N)
    <3>1. N - 1 \in T
      BY <2>3, <2>4
    <3> QED
      BY <2>4, <3>1
  <2> QED
    BY <1>3, <2>5
<1>8. Landing(t, path) =
        (CHOOSE f : f = [n \in 1..N |-> LandRule(t, path, f, n)])[N]
  BY DEF Landing, LandRule
<1> HIDE DEF good
<1> QED
  BY <1>6, <1>7, <1>8

\* trie_remove of a key that is in the trie takes that key and no other, frees no node
\* that another key needs, and leaves no link of the root to a freed node that one uses.
LEMMA RemoveFacts ==
  ASSUME NEW t, TrieOK(t), NEW p \in Pids, Has(p, t)
  PROVE  /\ TrieOK(trie_remove(p, t)) /\ OnlyAt(p, {}, t, trie_remove(p, t))
         /\ LeftDangling(t, p) \subseteq {0, 1}
         /\ \A q \in Held(t) \ {p} : q % 2 \notin LeftDangling(t, p)
         /\ Landing(t, Path[p]) # <<>>
<1> DEFINE node == Path[p]
           gone == [t EXCEPT ![node] = {}]
           u == trie_remove(p, t)
<1>1. /\ node \in DOMAIN t /\ node \in Nodes /\ node \in Bits /\ t[node] # {}
      /\ DOMAIN t \subseteq Nodes /\ DOMAIN t \subseteq Bits
  <2>1. node \in DOMAIN t /\ node \in Nodes /\ t[node] # {}
    BY ValueFacts
  <2> QED
    BY <2>1 DEF TrieOK, Nodes
<1>2. Landing(t, node) = node
  <2> HIDE DEF node
  <2> QED
    BY <1>1, LandingFound DEF TrieOK
<1>3. node # <<>>
  BY <1>1 DEF Nodes
<1>4. Freed(t, p) = Useless(gone, node)
  BY <1>1, <1>2, <1>3 DEF Freed
<1>5. DOMAIN gone = DOMAIN t /\ \A n \in DOMAIN t : gone[n] = IF n = node THEN {} ELSE t[n]
  OBVIOUS
<1>6. u = [n \in DOMAIN t \ Freed(t, p) |-> IF n = node THEN {} ELSE t[n]]
  BY <1>2, <1>3 DEF trie_remove
<1>7. /\ DOMAIN u = DOMAIN t \ Freed(t, p)
      /\ \A n \in DOMAIN u : u[n] = IF n = node THEN {} ELSE t[n]
  BY <1>6
<1>8. \A n : n \in Freed(t, p) <=>
        /\ n \in Upto(node)
        /\ \A o \in DOMAIN t : Under(n, o) => gone[o] = {} /\ Under(o, node)
  BY <1>4, <1>5 DEF Useless
<1>9. \A q \in Held(t) \ {p} : /\ q \in Pids /\ Path[q] \in DOMAIN t /\ Path[q] # node
                               /\ Path[q] \in Bits /\ gone[Path[q]] # {} /\ t[Path[q]] # {}
  BY <1>1, <1>5, PidPaths, ValueFacts DEF Held
<1> HIDE DEF u, gone
<1>10. \A q \in Held(t) \ {p} : Path[q] \in DOMAIN u /\ u[Path[q]] = t[Path[q]]
  <2> TAKE q \in Held(t) \ {p}
  <2>1. Path[q] \in DOMAIN t /\ gone[Path[q]] # {} /\ Path[q] # node /\ Path[q] \in Nodes
    BY <1>1, <1>9
  <2>2. Under(Path[q], Path[q])
    BY <2>1, UnderOrder
  <2>3. Path[q] \notin Freed(t, p)
    BY <1>8, <2>1, <2>2
  <2> QED
    BY <1>7, <2>1, <2>3
<1>11. OnlyAt(p, {}, t, u)
  <2>1. trie_value(p, u) = {}
    BY <1>7 DEF trie_value
  <2>2. ASSUME NEW q \in Pids \ {p} PROVE trie_value(q, u) = trie_value(q, t)
    <3>1. CASE q \in Held(t)
      BY <1>9, <1>10, <3>1 DEF trie_value
    <3>2. CASE q \notin Held(t)
      <4>1. trie_value(q, t) = {} /\ Path[q] # node
        BY <3>2, PidPaths DEF Held, Has
      <4> QED
        BY <1>7, <4>1 DEF trie_value
    <3> QED
      BY <3>1, <3>2
  <2> QED
    BY <2>1, <2>2 DEF OnlyAt
<1>12. Held(u) = Held(t) \ {p}
  BY <1>11 DEF OnlyAt, Held, Has
<1>13. ASSUME NEW n \in DOMAIN u
       PROVE  \E q \in Held(u) : Under(n, Path[q])
  <2>1. n \in DOMAIN t /\ n \in Bits /\ n \notin Freed(t, p)
    BY <1>1, <1>7
  <2>2. PICK r \in Held(t) : Under(n, Path[r])
    BY <2>1 DEF TrieOK
  <2>3. CASE r # p
    BY <1>12, <2>2, <2>3
  <2>4. CASE r = p
    <3>1. n \in Upto(node)
      BY <2>2, <2>4 DEF Under
    <3>2. PICK o \in DOMAIN t : Under(n, o) /\ ~ (gone[o] = {} /\ Under(o, node))
      BY <1>8, <2>1, <3>1
    <3>3. PICK q \in Held(t) : Under(o, Path[q])
      BY DEF TrieOK
    <3>4. q \in Pids /\ Path[q] \in Bits /\ o \in Bits
      BY <1>1, PidPaths DEF Held
    <3>5. Under(n, Path[q])
      BY <2>1, <3>2, <3>3, <3>4, UnderOrder
    <3>6. CASE q # p
      BY <1>12, <3>5, <3>6
    <3>7. CASE q = p
      <4>1. gone[o] # {}
        BY <3>2, <3>3, <3>7
      <4>2. o # node /\ t[o] # {}
        BY <1>5, <4>1
      <4>3. PICK s \in Pids, i \in Infos : o = Path[s] /\ t[o] = {i}
        BY <4>2 DEF TrieOK
      <4>4. s \in Held(t) \ {p}
        BY <4>2, <4>3 DEF Held, Has, trie_value
      <4> QED
        BY <1>12, <3>2, <4>3, <4>4
    <3> QED
      BY <3>6, <3>7
  <2> QED
    BY <2>3, <2>4
<1>14. ASSUME NEW n \in DOMAIN u, NEW m \in Upto(n)
       PROVE  m \in DOMAIN u
  <2>1. n \in DOMAIN t /\ m \in DOMAIN t
    BY <1>7 DEF TrieOK
  <2>2. n \in Bits /\ m \in Bits /\ Under(m, n)
    BY <1>1, <2>1 DEF Under
  <2>3. ASSUME m \in Freed(t, p) PROVE n \in Freed(t, p)
    <3>1. \A o \in DOMAIN t : Under(m, o) => gone[o] = {} /\ Under(o, node)
      BY <1>8, <2>3
    <3>2. Under(n, node)
      BY <2>1, <2>2, <3>1
    <3>3. \A o \in DOMAIN t : Under(n, o) => Under(m, o)
      BY <1>1, <2>2, UnderOrder
    <3> QED
      BY <1>8, <3>1, <3>2, <3>3 DEF Under
  <2> QED
    BY <1>7, <2>1, <2>3
<1>15. TrieOK(u)
  <2>1. \A n \in DOMAIN u : u[n] = {} \/ u[n] = t[n]
    BY <1>7
  <2> QED
    BY <1>7, <1>13, <1>14, <2>1 DEF TrieOK
<1>16. LeftDangling(t, p) \subseteq {0, 1}
  <2> SUFFICES ASSUME NEW m \in Freed(t, p), Len(m) = 1 PROVE m[1] \in {0, 1}
    BY DEF LeftDangling
  <2>1. m \in Bits
    BY <1>1, <1>8, UptoNodes DEF Nodes
  <2> QED
    BY <2>1, BitsFacts
<1>17. ASSUME NEW q \in Held(t) \ {p}, q % 2 \in LeftDangling(t, p) PROVE FALSE
  <2>1. PICK m \in Freed(t, p) : Len(m) = 1 /\ m[1] = q % 2
    BY <1>17 DEF LeftDangling
  <2>2. m \in Bits
    BY <1>1, <1>8, UptoNodes DEF Nodes
  <2>3. Path[q] \in Bits /\ Path[q][1] = q % 2 /\ Len(Path[q]) \in Nat /\ Len(Path[q]) >= 1
    BY PidPaths, BitsFacts DEF Held, Nodes
  <2>4. Under(m, Path[q])
    <3>1. Len(m) \in 1..Len(Path[q]) /\ \A i \in 1..Len(m) : m[i] = Path[q][i]
      BY <2>1, <2>3
    <3> QED
      BY <2>2, <2>3, <3>1, UnderBits
  <2> QED
    BY <1>8, <1>9, <2>4
<1> QED
  BY <1>2, <1>3, <1>11, <1>15, <1>16, <1>17 DEF u

-----------------------------------------------------------------------------
(* The invariant *)

\* OK is set for the processes read in this update; ToGo are those the iteration has
\* still to visit.
Marked(p) == "OK" \in FlagsOf(p)
ToGo == ToVisit(trie, Pids, pos)
Scanning == pc \in {"scan", "ppid"}

\* The types of everything but the trie.
ProcTypes ==
  /\ alive \subseteq Pids /\ parentOf \in [Pids -> 0..MaxPid] /\ born \in Pids
  /\ mode \in Modes /\ explicitParentList \in BOOLEAN
  /\ stoppableList \in Seq(Pids) /\ stoppableListSize \in 0..MaxPid + 1
  /\ pc \in {"scan", "ppid", "item", "snapshot", "idle", "free", "gone", "crashed"}
  /\ pos \in 0..MaxPid /\ updates \in 1..MaxUpdates /\ early \subseteq Pids

\* The trie is well formed and its counter right.
NodesOK == TrieOK(trie) /\ num_nodes = Cardinality(Known) /\ dangling \subseteq {0, 1}

\* No PID beyond the last one given out is in use, and parents come before children.
BirthsOK ==
  /\ Immortal \subseteq alive
  /\ \A p \in alive \cup Known : p <= born
  /\ pos <= born
  /\ \A p \in Pids : parentOf[p] < p /\ parentOf[p] <= born
  /\ ~ Orphans => \A p \in alive : parentOf[p] \in {0} \cup alive

\* In a scan the running processes read so far, and no others, are marked; in an
\* iteration those to be visited are marked if they run, and those visited are not.
MarksOK ==
  /\ Scanning => \A p \in alive : p <= pos => p \in Known /\ Marked(p)
  /\ Scanning => \A p \in Known : p > pos => ~ Marked(p)
  /\ pc = "ppid" => pos \in Known
  /\ pc = "item" => \A p \in alive \cap ToGo : Marked(p)
  /\ pc = "item" => \A p \in Known \ ToGo : ~ Marked(p)
  /\ pc \in {"snapshot", "idle"} => \A p \in Known : ~ Marked(p)

\* Recorded parents have smaller PIDs, so that a walk to the ancestors ends.
ParentsOK == \A p \in Known : Info(p).ppid < p

TreeInv == ProcTypes /\ NodesOK /\ BirthsOK /\ MarksOK /\ ParentsOK

\* The constants.
LEMMA Consts ==
  /\ MaxPid \in Nat /\ MaxPid >= 1 /\ MaxUpdates \in Nat \ {0} /\ Orphans \in BOOLEAN
  /\ Pids = 1..MaxPid /\ \A p \in Pids : p \in Nat /\ p >= 1 /\ p <= MaxPid
  /\ DOMAIN AtStart \subseteq Pids /\ 1 \in Pids /\ 2 \in Pids
  /\ {1, 2} \subseteq Immortal /\ Immortal \subseteq DOMAIN AtStart
BY ProcTreeAssumption DEF Pids

\* The value of a known process.
LEMMA InfoFacts ==
  ASSUME TrieOK(trie), NEW p \in Known
  PROVE  /\ p \in Pids /\ Has(p, trie) /\ Path[p] \in DOMAIN trie
         /\ trie_value(p, trie) = {Info(p)} /\ Info(p) \in Infos
         /\ FlagsOf(p) \subseteq Flags /\ Info(p).ppid \in -1..MaxPid
<1>1. p \in Pids /\ Has(p, trie)
  BY DEF Known
<1>2. PICK i \in Infos : trie_value(p, trie) = {i}
  BY <1>1, ValueFacts
<1>3. Info(p) = i
  BY <1>2 DEF Info
<1> QED
  BY <1>1, <1>2, <1>3, ValueFacts DEF FlagsOf, Infos

\* What a change at one key does to the processes known and their values.
LEMMA ChangeFacts ==
  ASSUME NEW p \in Pids, NEW i, OnlyAt(p, {i}, trie, trie')
  PROVE  /\ Known' = Known \cup {p} /\ Info(p)' = i
         /\ \A q \in Pids \ {p} : Info(q)' = Info(q) /\ FlagsOf(q)' = FlagsOf(q)
<1>1. /\ trie_value(p, trie') = {i}
      /\ \A q \in Pids \ {p} : trie_value(q, trie') = trie_value(q, trie)
  BY DEF OnlyAt
<1>2. Info(p)' = i
  BY <1>1 DEF Info
<1>3. ASSUME NEW q \in Pids \ {p} PROVE Info(q)' = Info(q)
  BY <1>1 DEF Info
<1>4. Known' = Known \cup {p}
  BY <1>1 DEF Known, Has
<1> QED
  BY <1>2, <1>3, <1>4 DEF FlagsOf

\* ... and a removal.
LEMMA DropFacts ==
  ASSUME NEW p \in Pids, OnlyAt(p, {}, trie, trie')
  PROVE  /\ Known' = Known \ {p}
         /\ \A q \in Pids \ {p} : Info(q)' = Info(q) /\ FlagsOf(q)' = FlagsOf(q)
<1>1. /\ trie_value(p, trie') = {}
      /\ \A q \in Pids \ {p} : trie_value(q, trie') = trie_value(q, trie)
  BY DEF OnlyAt
<1>3. ASSUME NEW q \in Pids \ {p} PROVE Info(q)' = Info(q)
  BY <1>1 DEF Info
<1>4. Known' = Known \ {p}
  BY <1>1 DEF Known, Has
<1> QED
  BY <1>3, <1>4 DEF FlagsOf

\* There are at most as many processes in the tree as PIDs.
LEMMA KnownFinite ==
  /\ IsFiniteSet(Known) /\ Cardinality(Known) \in 0..MaxPid
  /\ \A p : Cardinality(Known \cup {p}) =
       IF p \in Known THEN Cardinality(Known) ELSE Cardinality(Known) + 1
  /\ \A p \in Known : Cardinality(Known \ {p}) = Cardinality(Known) - 1
<1>1. IsFiniteSet(Pids) /\ Cardinality(Pids) = MaxPid
  BY FS_Interval, Consts
<1>2. Known \in SUBSET Pids
  BY DEF Known
<1>3. IsFiniteSet(Known) /\ Cardinality(Known) <= Cardinality(Pids)
  BY <1>1, <1>2, FS_Subset
<1> QED
  BY <1>1, <1>3, FS_CardinalityType, FS_AddElement, FS_RemoveElement, Consts

-----------------------------------------------------------------------------
(* create_proc_tree *)

\* The recursion of create_proc_tree without its bound.
Listed(m) == m.parents \cup m.exclusions
FirstInfo(m, p) ==
  LET i == [ppid |-> 0, flags |-> {"PARENT", "NEW"}]
  IN  IF p \in m.exclusions THEN Exclude(i) ELSE i
CreateRule(m, f, n) ==
  IF n = 0 THEN EmptyTrie
  ELSE IF n \in Listed(m) THEN trie_insert(n, FirstInfo(m, n), f[n-1]) ELSE f[n-1]

\* create_proc_tree is a function built key by key.
LEMMA CreateUnfolds ==
  ASSUME NEW m
  PROVE  \E f : /\ f = [n \in 0..MaxPid |-> CreateRule(m, f, n)]
                /\ create_proc_tree(m) = f[MaxPid]
<1> DEFINE Exists(k) == \E f : f = [n \in 0..k |-> CreateRule(m, f, n)]
           T == {k \in Nat : Exists(k)}
<1>1. Exists(0)
  <2> DEFINE f == [n \in 0..0 |-> EmptyTrie]
  <2>1. \A n \in 0..0 : CreateRule(m, f, n) = EmptyTrie
    BY DEF CreateRule
  <2>2. f = [n \in 0..0 |-> CreateRule(m, f, n)]
    BY <2>1
  <2> QED
    BY <2>2
<1>2. ASSUME NEW k \in Nat, Exists(k) PROVE Exists(k + 1)
  <2>1. PICK f : f = [n \in 0..k |-> CreateRule(m, f, n)]
    BY <1>2
  <2> DEFINE g == [n \in 0..(k+1) |-> IF n <= k THEN f[n] ELSE CreateRule(m, f, n)]
  <2>2. ASSUME NEW n \in 0..(k+1) PROVE g[n] = CreateRule(m, g, n)
    <3>1. g[n] = CreateRule(m, f, n)
      <4>1. CASE n <= k
        <5>1. n \in 0..k
          BY <4>1
        <5>2. f[n] = CreateRule(m, f, n)
          <6> HIDE DEF CreateRule
          <6> QED
            BY <2>1, <5>1
        <5> QED
          BY <4>1, <5>2
      <4>2. CASE ~ (n <= k)
        BY <4>2
      <4> QED
        BY <4>1, <4>2
    <3>2. n # 0 => n - 1 \in 0..(k+1) /\ n - 1 <= k
      OBVIOUS
    <3>3. n # 0 => g[n - 1] = f[n - 1]
      BY <3>2
    <3>4. CreateRule(m, g, n) = CreateRule(m, f, n)
      <4> HIDE DEF g
      <4> QED
        BY <3>3 DEF CreateRule
    <3> QED
      BY <3>1, <3>4
  <2>3. g = [n \in 0..(k+1) |-> CreateRule(m, g, n)]
    <3>1. \A n \in 0..(k+1) : g[n] = CreateRule(m, g, n)
      BY <2>2
    <3>2. g = [n \in 0..(k+1) |-> g[n]]
      OBVIOUS
    <3> HIDE DEF g
    <3> QED
      BY <3>1, <3>2
  <2> HIDE DEF g
  <2> QED
    BY <2>3
<1>3. \A k \in Nat : k \in T
  <2>1. 0 \in T /\ \A k \in Nat : k \in T => k + 1 \in T
    BY <1>1, <1>2
  <2> HIDE DEF T
  <2> QED
    BY <2>1, Induction
<1>4. Exists(MaxPid)
  BY <1>3, Consts
<1>5. create_proc_tree(m) = (CHOOSE f : f = [n \in 0..MaxPid |-> CreateRule(m, f, n)])[MaxPid]
  BY DEF create_proc_tree, CreateRule, Listed, FirstInfo
<1> QED
  BY <1>4, <1>5

\* It holds the parents and the exclusions, with their first values.
LEMMA CreatedTree ==
  ASSUME NEW m \in Modes
  PROVE  /\ TrieOK(create_proc_tree(m)) /\ Held(create_proc_tree(m)) = Listed(m)
         /\ \A p \in Listed(m) : trie_value(p, create_proc_tree(m)) = {FirstInfo(m, p)}
<1>1. PICK f : /\ f = [n \in 0..MaxPid |-> CreateRule(m, f, n)]
               /\ create_proc_tree(m) = f[MaxPid]
  BY CreateUnfolds
<1>2. Listed(m) \subseteq Pids
  BY ProcTreeAssumption, Consts DEF Listed
<1>3. \A p \in Pids : FirstInfo(m, p) \in Infos
  BY Consts DEF FirstInfo, Exclude, Infos, Flags
<1>4. \A n \in 0..MaxPid : f[n] = CreateRule(m, f, n)
  <2> HIDE DEF CreateRule
  <2> QED
    BY <1>1
<1> DEFINE Good(n) ==
             /\ TrieOK(f[n])
             /\ \A p \in Pids : trie_value(p, f[n]) =
                  IF p \in Listed(m) /\ p <= n THEN {FirstInfo(m, p)} ELSE {}
           T == {n \in Nat : n <= MaxPid => Good(n)}
<1>5. 0 \in T
  <2>1. f[0] = EmptyTrie
    BY <1>4, Consts DEF CreateRule
  <2>2. DOMAIN EmptyTrie = {}
    BY DEF EmptyTrie
  <2>3. TrieOK(f[0])
    BY <2>1, <2>2 DEF TrieOK
  <2>4. \A p \in Pids : trie_value(p, f[0]) = {} /\ ~ (p <= 0)
    BY <2>1, <2>2, Consts DEF trie_value
  <2> QED
    BY <2>3, <2>4
<1>6. ASSUME NEW n \in T PROVE n + 1 \in T
  <2> SUFFICES ASSUME n + 1 <= MaxPid PROVE Good(n + 1)
    OBVIOUS
  <2>1. n \in Nat /\ n + 1 \in 0..MaxPid /\ n + 1 # 0 /\ n + 1 - 1 = n /\ n + 1 \in Pids
    BY Consts
  <2>2. Good(n)
    <3>1. n <= MaxPid
      BY <2>1, Consts
    <3> HIDE DEF Good
    <3> QED
      BY <3>1
  <2>3. f[n + 1] = IF n + 1 \in Listed(m) THEN trie_insert(n + 1, FirstInfo(m, n + 1), f[n])
                                          ELSE f[n]
    BY <1>4, <2>1 DEF CreateRule
  <2>4. ASSUME NEW p \in Pids
        PROVE  /\ p <= n + 1 <=> p <= n \/ p = n + 1
               /\ p = n + 1 => ~ (p <= n)
    BY <2>1, Consts
  <2>5. CASE n + 1 \in Listed(m)
    <3>1. trie_value(n + 1, f[n]) = {}
      BY <2>1, <2>2, <2>4
    <3>2. /\ TrieOK(f[n + 1]) /\ OnlyAt(n + 1, {FirstInfo(m, n + 1)}, f[n], f[n + 1])
      BY <1>3, <2>1, <2>2, <2>3, <2>5, <3>1, InsertFacts DEF Has
    <3> QED
      BY <2>1, <2>2, <2>4, <2>5, <3>2 DEF OnlyAt
  <2>6. CASE n + 1 \notin Listed(m)
    <3>1. f[n + 1] = f[n]
      BY <2>3, <2>6
    <3> QED
      BY <2>2, <2>4, <2>6, <3>1
  <2> QED
    BY <2>5, <2>6
<1>7. \A n \in Nat : n \in T
  <2>1. \A n \in Nat : n \in T => n + 1 \in T
    BY <1>6
  <2> HIDE DEF T
  <2> QED
    BY <1>5, <2>1, Induction
<1>8. Good(MaxPid)
  <2>1. MaxPid \in T /\ MaxPid <= MaxPid
    <3> HIDE DEF T
    <3> QED
      BY <1>7, Consts
  <2> HIDE DEF Good
  <2> QED
    BY <2>1
<1> QED
  BY <1>1, <1>2, <1>8, Consts DEF Held, Has

\* The largest PID of a set.
LEMMA Greatest ==
  ASSUME NEW S \in SUBSET Pids, S # {}
  PROVE  ListMax(S) \in S /\ \A m \in S : m <= ListMax(S)
<1> DEFINE D == {MaxPid - n : n \in S}
<1>1. D \in SUBSET Nat /\ D # {}
  <2>1. ASSUME NEW n \in S PROVE MaxPid - n \in Nat
    BY Consts
  <2> QED
    BY <2>1
<1>2. PICK d \in D : \A e \in D : d <= e
  <2> HIDE DEF D
  <2> QED
    BY <1>1, Least
<1>3. PICK n \in S : d = MaxPid - n
  OBVIOUS
<1>4. ASSUME NEW m \in S PROVE m <= n
  <2>1. d <= MaxPid - m
    BY <1>2
  <2>2. m \in Nat /\ n \in Nat /\ MaxPid \in Nat
    BY Consts
  <2> QED
    BY <1>3, <2>1, <2>2
<1> QED
  BY <1>4 DEF ListMax

\* The invariant holds at the start.
LEMMA TreeInit == Init => TreeInv
<1> SUFFICES ASSUME Init PROVE TreeInv
  OBVIOUS
<1>1. /\ mode \in Modes /\ alive = DOMAIN AtStart /\ born = ListMax(alive)
      /\ trie = create_proc_tree(mode) /\ pc = "scan" /\ pos = 0
  BY DEF Init
<1>2. alive \subseteq Pids /\ Immortal \subseteq alive /\ alive # {}
  BY <1>1, Consts
<1>3. born \in alive /\ born \in Pids /\ \A p \in alive : p <= born
  BY <1>1, <1>2, Greatest
<1>4. /\ Known = Listed(mode) /\ TrieOK(trie)
      /\ \A p \in Known : trie_value(p, trie) = {FirstInfo(mode, p)}
  BY <1>1, CreatedTree DEF Known, Held
<1>5. Known \subseteq alive
  BY <1>1, <1>4, ProcTreeAssumption DEF Listed
<1>6. \A p \in Known : Info(p).ppid = 0 /\ ~ Marked(p)
  <2> TAKE p \in Known
  <2>1. Info(p) = FirstInfo(mode, p)
    BY <1>4 DEF Info
  <2> QED
    BY <2>1 DEF FirstInfo, Exclude, Marked, FlagsOf
<1>7. \A p \in Pids : /\ parentOf[p] = 0 \/ (p \in alive /\ parentOf[p] \in alive)
                      /\ parentOf[p] < p
  <2>1. parentOf = [p \in Pids |-> IF p \in alive THEN AtStart[p] ELSE 0]
    BY DEF Init
  <2>2. \A p \in alive : AtStart[p] = 0 \/ (AtStart[p] \in alive /\ AtStart[p] < p)
    BY <1>1, ProcTreeAssumption
  <2> QED
    BY <2>1, <2>2, Consts
<1>8. parentOf \in [Pids -> 0..MaxPid]
  <2>1. DOMAIN parentOf = Pids /\ parentOf = [p \in Pids |-> parentOf[p]]
    BY DEF Init
  <2>2. \A p \in Pids : parentOf[p] \in 0..MaxPid
    <3>1. \A q \in Pids \cup {0} : q \in 0..MaxPid
      BY Consts
    <3> QED
      BY <1>2, <1>7, <3>1
  <2> QED
    BY <2>1, <2>2
<1>9. updates \in 1..MaxUpdates
  BY Consts DEF Init
<1>10. ProcTypes
  BY <1>1, <1>2, <1>3, <1>8, <1>9, Consts DEF Init, ProcTypes
<1>11. NodesOK
  <2>1. num_nodes = Cardinality(mode.parents \cup mode.exclusions) /\ dangling = {}
    BY DEF Init
  <2> QED
    BY <1>4, <2>1 DEF NodesOK, Listed
<1>12. BirthsOK
  <2>1. \A p \in Pids : parentOf[p] < p /\ parentOf[p] <= born
    <3> TAKE p \in Pids
    <3>1. p \in Nat /\ p >= 1 /\ born \in Nat
      BY <1>3, Consts
    <3>2. parentOf[p] = 0 \/ parentOf[p] <= born
      BY <1>3, <1>7
    <3> QED
      BY <1>7, <3>1, <3>2
  <2> QED
    BY <1>1, <1>2, <1>3, <1>5, <1>7, <2>1, Consts DEF BirthsOK
<1>13. MarksOK
  BY <1>1, <1>2, <1>6, Consts DEF MarksOK, Scanning
<1>14. ParentsOK
  BY <1>6, Consts DEF ParentsOK, Known
<1> QED
  BY <1>10, <1>11, <1>12, <1>13, <1>14 DEF TreeInv

\* The steps that leave the tree alone.
SameTree == UNCHANGED treeVars

\* What is kept when the trie is.
LEMMA SameKnown ==
  ASSUME trie' = trie
  PROVE  /\ Known' = Known
         /\ \A p : Info(p)' = Info(p) /\ FlagsOf(p)' = FlagsOf(p) /\ Marked(p)' = Marked(p)
         /\ pos' = pos => ToGo' = ToGo
BY DEF Known, Info, FlagsOf, Marked, ToGo

\* A step that keeps the tree keeps what is said of the nodes.
LEMMA SameNodes ==
  ASSUME NodesOK, SameTree PROVE NodesOK'
BY SameKnown DEF NodesOK, SameTree, treeVars

\* A birth: its PID is larger than every one that was read.
LEMMA ForkStep ==
  ASSUME TreeInv, NEW p \in Pids, fork(p) PROVE TreeInv'
<1>1. /\ p \in alive /\ born < MaxPid /\ born' = born + 1 /\ alive' = alive \cup {born + 1}
      /\ parentOf' = [parentOf EXCEPT ![born + 1] = p]
      /\ UNCHANGED <<listVars, treeVars, restVars, pc, pos>>
  BY DEF fork
<1>2. /\ trie' = trie /\ pc' = pc /\ pos' = pos /\ mode' = mode /\ updates' = updates
      /\ explicitParentList' = explicitParentList /\ early' = early
      /\ stoppableList' = stoppableList /\ stoppableListSize' = stoppableListSize
  BY <1>1 DEF listVars, treeVars, restVars
<1>3. born \in Pids /\ born + 1 \in Pids /\ born + 1 \notin alive /\ born + 1 \notin Known
  BY <1>1, Consts DEF TreeInv, ProcTypes, BirthsOK
<1>4. ProcTypes'
  BY <1>1, <1>2, <1>3, Consts DEF TreeInv, ProcTypes
<1>5. NodesOK'
  BY <1>1, SameNodes DEF TreeInv, SameTree
<1>6. BirthsOK'
  <2>1. \A q \in Pids : parentOf'[q] = IF q = born + 1 THEN p ELSE parentOf[q]
    BY <1>1 DEF TreeInv, ProcTypes
  <2>2. p <= born /\ p < born + 1 /\ p \in alive
    BY <1>1, <1>3, Consts DEF TreeInv, BirthsOK
  <2>3. \A q \in Pids : parentOf'[q] < q /\ parentOf'[q] <= born'
    BY <1>1, <1>3, <2>1, <2>2, Consts DEF TreeInv, ProcTypes, BirthsOK
  <2>4. \A q \in alive' \cup Known' : q <= born'
    BY <1>1, <1>2, <1>3, Consts, SameKnown DEF TreeInv, BirthsOK, Known
  <2>5. pos' <= born'
    BY <1>1, <1>2, <1>3, Consts DEF TreeInv, ProcTypes, BirthsOK
  <2>6. Immortal \subseteq alive'
    BY <1>1 DEF TreeInv, BirthsOK
  <2>7. ~ Orphans => \A q \in alive' : parentOf'[q] \in {0} \cup alive'
    BY <1>1, <1>3, <2>1, <2>2 DEF TreeInv, ProcTypes, BirthsOK
  <2> QED
    BY <2>3, <2>4, <2>5, <2>6, <2>7 DEF BirthsOK
<1>7. MarksOK'
  <2>1. ~ (born + 1 <= pos)
    BY <1>3, Consts DEF TreeInv, ProcTypes, BirthsOK
  <2>2. born + 1 \notin ToGo
    BY <1>3 DEF ToGo, ToVisit, Known
  <2> QED
    BY <1>1, <1>2, <2>1, <2>2, SameKnown DEF TreeInv, MarksOK, Scanning
<1>8. ParentsOK'
  BY <1>2, SameKnown DEF TreeInv, ParentsOK
<1> QED
  BY <1>4, <1>5, <1>6, <1>7, <1>8 DEF TreeInv

\* An end of a process; its children go to init.
LEMMA ExitStep ==
  ASSUME TreeInv, NEW p \in Pids, exit(p) PROVE TreeInv'
<1> DEFINE children == {c \in alive : parentOf[c] = p}
<1>1. /\ p \in alive \ Immortal /\ (Orphans \/ children = {}) /\ alive' = alive \ {p}
      /\ parentOf' = [c \in Pids |-> IF c \in children THEN 1 ELSE parentOf[c]]
      /\ UNCHANGED <<born, listVars, treeVars, restVars, pc, pos>>
  BY DEF exit
<1> HIDE DEF children
<1>2. /\ trie' = trie /\ pc' = pc /\ pos' = pos /\ mode' = mode /\ updates' = updates
      /\ explicitParentList' = explicitParentList /\ early' = early /\ born' = born
      /\ stoppableList' = stoppableList /\ stoppableListSize' = stoppableListSize
  BY <1>1 DEF listVars, treeVars, restVars
<1>3. 1 \in alive /\ 1 <= born /\ p > 1
  <2>1. 1 \in alive /\ 1 <= born
    BY Consts DEF TreeInv, BirthsOK
  <2>2. p \in Pids /\ p # 1
    BY <1>1, Consts
  <2> QED
    BY <2>1, <2>2, Consts
<1>4. \A c \in Pids : parentOf'[c] = IF c \in children THEN 1 ELSE parentOf[c]
  BY <1>1
<1>5. ProcTypes'
  BY <1>1, <1>2, Consts DEF TreeInv, ProcTypes
<1>6. NodesOK'
  BY <1>1, SameNodes DEF TreeInv, SameTree
<1>7. BirthsOK'
  <2>1. \A c \in children : c \in Pids /\ p < c /\ 1 < c
    BY <1>3, Consts DEF TreeInv, ProcTypes, BirthsOK, children
  <2>2. \A q \in Pids : parentOf'[q] < q /\ parentOf'[q] <= born'
    BY <1>2, <1>3, <1>4, <2>1 DEF TreeInv, BirthsOK
  <2>3. \A q \in alive' \cup Known' : q <= born'
    BY <1>1, <1>2, SameKnown DEF TreeInv, BirthsOK
  <2>4. ~ Orphans => \A q \in alive' : parentOf'[q] \in {0} \cup alive'
    <3> SUFFICES ASSUME ~ Orphans, NEW q \in alive' PROVE parentOf'[q] \in {0} \cup alive'
      OBVIOUS
    <3>1. children = {} /\ q \in alive /\ q \in Pids
      BY <1>1 DEF TreeInv, ProcTypes
    <3>2. parentOf[q] # p
      BY <3>1 DEF children
    <3> QED
      BY <1>1, <1>4, <3>1, <3>2 DEF TreeInv, BirthsOK
  <2> QED
    <3>1. Immortal \subseteq alive' /\ pos' <= born'
      BY <1>1, <1>2 DEF TreeInv, BirthsOK
    <3> QED
      BY <2>2, <2>3, <2>4, <3>1 DEF BirthsOK
<1>8. MarksOK'
  BY <1>1, <1>2, SameKnown DEF TreeInv, MarksOK, Scanning
<1>9. ParentsOK'
  BY <1>2, SameKnown DEF TreeInv, ParentsOK
<1> QED
  BY <1>5, <1>6, <1>7, <1>8, <1>9 DEF TreeInv

-----------------------------------------------------------------------------
(* The steps keep the invariant *)

\* One process is added or given a new value ...
LEMMA ChangedNodes ==
  ASSUME NodesOK, NEW p \in Pids, NEW i, TrieOK(trie'), OnlyAt(p, {i}, trie, trie'),
         num_nodes' = IF Has(p, trie) THEN num_nodes ELSE num_nodes + 1,
         dangling' = dangling
  PROVE  NodesOK'
<1>1. Known' = Known \cup {p}
  BY ChangeFacts
<1>2. p \in Known <=> Has(p, trie)
  BY DEF Known
<1>3. Cardinality(Known') = num_nodes'
  BY <1>1, <1>2, KnownFinite DEF NodesOK
<1> QED
  BY <1>3 DEF NodesOK

\* ... or removed.
LEMMA DroppedNodes ==
  ASSUME NodesOK, NEW p \in Known, RemoveNode(p)
  PROVE  /\ NodesOK' /\ OnlyAt(p, {}, trie, trie')
         /\ \A q \in Known \ {p} : q % 2 \notin dangling => q % 2 \notin dangling'
<1>1. p \in Pids /\ Has(p, trie) /\ TrieOK(trie) /\ Known = Held(trie)
  BY DEF Known, NodesOK, Held
<1>2. /\ trie' = trie_remove(p, trie)
      /\ num_nodes' = IF Landing(trie, Path[p]) # <<>> THEN num_nodes - 1 ELSE num_nodes
      /\ dangling' = dangling \cup LeftDangling(trie, p)
  BY DEF RemoveNode
<1>3. /\ TrieOK(trie') /\ OnlyAt(p, {}, trie, trie') /\ num_nodes' = num_nodes - 1
      /\ LeftDangling(trie, p) \subseteq {0, 1}
      /\ \A q \in Known \ {p} : q % 2 \notin LeftDangling(trie, p)
  BY <1>1, <1>2, RemoveFacts
<1>4. Known' = Known \ {p}
  BY <1>1, <1>3, DropFacts
<1>5. Cardinality(Known') = num_nodes'
  BY <1>3, <1>4, KnownFinite DEF NodesOK
<1> QED
  BY <1>2, <1>3, <1>5 DEF NodesOK

\* After a visit the visited key is behind the iteration, and no other.
LEMMA Visited ==
  ASSUME ToGo # {}, pos \in 0..MaxPid, pos' = NextVisited(trie, Pids, pos),
         NEW v, OnlyAt(pos', v, trie, trie')
  PROVE  pos' \in ToGo /\ pos' \in Known /\ ToGo' = ToGo \ {pos'}
<1> DEFINE p == NextVisited(trie, Pids, pos)
<1>1. p \in ToGo /\ p \in Pids /\ \A o \in ToGo : o = p \/ Precedes(p, o)
  BY NextFacts DEF ToGo
<1>2. p \in Known
  BY <1>1 DEF ToGo, ToVisit, Known
<1> HIDE DEF p
<1>3. pos' = p /\ p # 0
  BY <1>1, Consts DEF p
<1>4. \A q \in Pids \ {p} : Has(q, trie)' = Has(q, trie)
  BY <1>3 DEF OnlyAt, Has
<1>5. \A q : q \in ToGo' <=> q \in Pids /\ Has(q, trie)' /\ Precedes(p, q)
  BY <1>3 DEF ToGo, ToVisit, Precedes
<1>6. \A q : q \in ToGo <=> q \in Pids /\ Has(q, trie) /\ (pos = 0 \/ Precedes(pos, q))
  BY DEF ToGo, ToVisit, Precedes
<1>7. pos # 0 => pos \in Pids
  BY Consts
<1>8. ASSUME NEW q \in ToGo' PROVE q \in ToGo \ {p}
  <2>1. q \in Pids /\ Precedes(p, q) /\ q # p /\ Has(q, trie)
    BY <1>1, <1>4, <1>5, <1>8, PrecedesOrder
  <2>2. pos = 0 \/ Precedes(pos, q)
    BY <1>1, <1>6, <1>7, <2>1, PrecedesOrder
  <2> QED
    BY <1>6, <2>1, <2>2
<1>9. ASSUME NEW q \in ToGo \ {p} PROVE q \in ToGo'
  BY <1>1, <1>4, <1>5, <1>6, <1>9
<1> QED
  BY <1>1, <1>2, <1>3, <1>8, <1>9

\* The steps of the limiter leave the process table alone.
LEMMA BirthsKept ==
  ASSUME BirthsOK, UNCHANGED procVars, \A p \in Known' : p <= born, pos' <= born
  PROVE  BirthsOK'
BY DEF BirthsOK, procVars

\* What ScanEntry does.
LEMMA ScanFacts ==
  ASSUME TreeInv, ScanEntry
  PROVE  /\ pos' \in alive /\ pos' > pos /\ pos' \in Pids
         /\ \A q \in alive : q < pos' => q <= pos
         /\ \/ pc' = "crashed" /\ SameTree
            \/ /\ pc' \in {"scan", "ppid"}
               /\ TrieOK(trie')
               /\ \E i \in Infos :
                    /\ OnlyAt(pos', {i}, trie, trie')
                    /\ IF pos' \in Known
                       THEN i = [Info(pos') EXCEPT !.flags = @ \cup {"OK"}]
                       ELSE i = [ppid |-> 0, flags |-> {"OK", "NEW"}]
               /\ num_nodes' = IF Has(pos', trie) THEN num_nodes ELSE num_nodes + 1
               /\ dangling' = dangling
<1> DEFINE p == CHOOSE q \in Unread : \A r \in Unread : q <= r
<1>1. Unread # {} /\ Unread \in SUBSET Nat /\ Unread \subseteq alive
  BY Consts DEF ScanEntry, Unread, TreeInv, ProcTypes
<1>2. p \in Unread /\ \A r \in Unread : p <= r
  BY <1>1, Least
<1>3. p \in alive /\ p > pos /\ p \in Pids
  BY <1>2 DEF Unread, TreeInv, ProcTypes
<1>4. ASSUME NEW q \in alive, q < p PROVE q <= pos
  <2>1. q \in Nat /\ p \in Nat /\ pos \in Nat
    BY <1>3, Consts DEF TreeInv, ProcTypes
  <2>2. q \notin Unread
    BY <1>2, <1>4, <2>1
  <2> QED
    BY <2>1, <2>2 DEF Unread
<1>5. /\ pos' = p
      /\ IF p % 2 \in dangling
         THEN pc' = "crashed" /\ UNCHANGED treeVars
         ELSE /\ trie' = IF Has(p, trie) THEN Stored(p, MarkOK(Info(p)), trie)
                                         ELSE trie_insert(p, NewInfo, trie)
              /\ num_nodes' = IF Has(p, trie) THEN num_nodes ELSE num_nodes + 1
              /\ pc' = IF NeedsPpid(p) THEN "ppid" ELSE "scan"
              /\ UNCHANGED dangling
  BY DEF ScanEntry
<1> HIDE DEF p
<1>6. CASE p % 2 \in dangling
  BY <1>3, <1>4, <1>5, <1>6 DEF SameTree
<1>7. CASE p % 2 \notin dangling
  <2>0. TrieOK(trie) /\ (p \in Known <=> Has(p, trie))
    BY <1>3 DEF TreeInv, NodesOK, Known
  <2>1. CASE Has(p, trie)
    <3> DEFINE i == [Info(p) EXCEPT !.flags = @ \cup {"OK"}]
    <3>1. i \in Infos
      BY <2>0, <2>1, InfoFacts DEF Infos, Flags
    <3>2. trie' = Stored(p, i, trie)
      BY <1>5, <1>7, <2>1 DEF MarkOK
    <3> HIDE DEF i
    <3>3. TrieOK(trie') /\ OnlyAt(p, {i}, trie, trie')
      BY <1>3, <2>0, <2>1, <3>1, <3>2, StoredFacts
    <3> QED
      BY <1>3, <1>4, <1>5, <1>7, <2>0, <2>1, <3>1, <3>3 DEF i
  <2>2. CASE ~ Has(p, trie)
    <3>1. NewInfo \in Infos
      BY Consts DEF NewInfo, Infos, Flags
    <3>2. TrieOK(trie') /\ OnlyAt(p, {NewInfo}, trie, trie')
      BY <1>3, <1>5, <1>7, <2>0, <2>2, <3>1, InsertFacts
    <3> QED
      BY <1>3, <1>4, <1>5, <1>7, <2>0, <2>2, <3>1, <3>2 DEF NewInfo
  <2> QED
    BY <2>1, <2>2
<1> QED
  BY <1>6, <1>7

\* A process read from /proc is marked, and every one before it was.
LEMMA ScanStep ==
  ASSUME TreeInv, ScanEntry PROVE TreeInv'
<1>0. PICK p : p = pos'
  OBVIOUS
<1>1. /\ pc = "scan" /\ UNCHANGED <<procVars, listVars, restVars>>
  BY DEF ScanEntry
<1>2. /\ mode' = mode /\ updates' = updates /\ early' = early
      /\ explicitParentList' = explicitParentList /\ alive' = alive /\ born' = born
      /\ parentOf' = parentOf /\ stoppableList' = stoppableList
      /\ stoppableListSize' = stoppableListSize /\ UNCHANGED procVars
  BY <1>1 DEF procVars, listVars, restVars
<1>3. /\ p \in alive /\ p > pos /\ p \in Pids /\ p <= born
      /\ \A q \in alive : q < p => q <= pos
  BY <1>0, ScanFacts DEF TreeInv, BirthsOK
<1>4. CASE pc' = "crashed" /\ SameTree
  <2>1. trie' = trie
    BY <1>4 DEF SameTree, treeVars
  <2>2. ProcTypes'
    BY <1>0, <1>2, <1>3, <1>4, Consts DEF TreeInv, ProcTypes
  <2>3. BirthsOK'
    BY <1>0, <1>2, <1>3, <2>1, BirthsKept, SameKnown DEF TreeInv, BirthsOK
  <2>4. MarksOK'
    BY <1>4 DEF MarksOK, Scanning
  <2> QED
    BY <1>4, <2>1, <2>2, <2>3, <2>4, SameNodes, SameKnown DEF TreeInv, ParentsOK
<1>5. CASE ~ (pc' = "crashed" /\ SameTree)
  <2>1. /\ pc' \in {"scan", "ppid"} /\ TrieOK(trie')
        /\ num_nodes' = IF Has(p, trie) THEN num_nodes ELSE num_nodes + 1
        /\ dangling' = dangling
    BY <1>0, <1>5, ScanFacts
  <2>2. PICK i \in Infos :
          /\ OnlyAt(p, {i}, trie, trie')
          /\ IF p \in Known THEN i = [Info(p) EXCEPT !.flags = @ \cup {"OK"}]
                            ELSE i = [ppid |-> 0, flags |-> {"OK", "NEW"}]
    BY <1>0, <1>5, ScanFacts
  <2>3. /\ Known' = Known \cup {p} /\ Info(p)' = i
        /\ \A q \in Pids \ {p} : Info(q)' = Info(q) /\ FlagsOf(q)' = FlagsOf(q)
    BY <1>3, <2>2, ChangeFacts
  <2>4. "OK" \in i.flags /\ i.ppid < p
    <3>1. CASE p \in Known
      <4>1. Info(p) \in Infos /\ Info(p).ppid < p
        BY <3>1, InfoFacts DEF TreeInv, NodesOK, ParentsOK
      <4> QED
        BY <2>2, <3>1, <4>1 DEF Infos
    <3>2. CASE p \notin Known
      BY <1>3, <2>2, <3>2, Consts
    <3> QED
      BY <3>1, <3>2
  <2>5. ProcTypes'
    BY <1>0, <1>2, <1>3, <2>1, Consts DEF TreeInv, ProcTypes
  <2>6. NodesOK'
    BY <1>3, <2>1, <2>2, ChangedNodes DEF TreeInv
  <2>7. BirthsOK'
    BY <1>0, <1>2, <1>3, <2>3, BirthsKept DEF TreeInv, BirthsOK
  <2>8. Known' \subseteq Pids /\ p \in Known' /\ Marked(p)'
    BY <1>3, <2>3, <2>4 DEF Known, Marked, FlagsOf
  <2>9. MarksOK'
    <3>1. ASSUME NEW q \in alive, q <= p PROVE q \in Known' /\ Marked(q)'
      <4>1. CASE q = p
        BY <2>8, <4>1
      <4>2. CASE q # p
        <5>1. q \in Pids /\ q < p
          BY <1>3, <3>1, <4>2, Consts DEF TreeInv, ProcTypes
        <5>2. q \in Known /\ Marked(q)
          BY <1>1, <1>3, <5>1 DEF TreeInv, MarksOK, Scanning
        <5> QED
          BY <2>3, <4>2, <5>1, <5>2 DEF Marked
      <4> QED
        BY <4>1, <4>2
    <3>2. ASSUME NEW q \in Known', q > p PROVE ~ Marked(q)'
      <4>1. q \in Pids /\ q # p /\ q \in Known /\ q > pos
        <5>1. q \in Pids /\ q # p /\ q \in Known
          BY <1>3, <2>3, <2>8, <3>2, Consts
        <5> QED
          BY <1>3, <3>2, <5>1, Consts DEF TreeInv, ProcTypes
      <4>2. ~ Marked(q)
        BY <1>1, <4>1 DEF TreeInv, MarksOK, Scanning
      <4> QED
        BY <2>3, <4>1, <4>2 DEF Marked
    <3> QED
      BY <1>0, <1>2, <2>1, <2>8, <3>1, <3>2 DEF MarksOK, Scanning
  <2>10. ParentsOK'
    <3> SUFFICES ASSUME NEW q \in Known' PROVE Info(q)'.ppid < q
      BY DEF ParentsOK
    <3>1. CASE q = p
      BY <2>3, <2>4, <3>1
    <3>2. CASE q # p
      BY <2>3, <2>8, <3>2 DEF TreeInv, ParentsOK
    <3> QED
      BY <3>1, <3>2
  <2> QED
    BY <2>5, <2>6, <2>7, <2>9, <2>10 DEF TreeInv
<1> QED
  BY <1>4, <1>5

\* What the read of the parent does: parents have smaller PIDs.
LEMMA PpidFacts ==
  ASSUME TreeInv, ReadPpid
  PROVE  /\ pos \in Known /\ pos \in Pids /\ TrieOK(trie')
         /\ OnlyAt(pos, {[Info(pos) EXCEPT !.ppid = get_ppid_of(pos)]}, trie, trie')
         /\ [Info(pos) EXCEPT !.ppid = get_ppid_of(pos)] \in Infos
         /\ get_ppid_of(pos) < pos /\ get_ppid_of(pos) \in -1..MaxPid
<1>1. pos \in Known /\ pos \in Pids /\ Has(pos, trie) /\ TrieOK(trie)
  BY DEF ReadPpid, TreeInv, MarksOK, Known, NodesOK
<1>2. get_ppid_of(pos) < pos /\ get_ppid_of(pos) \in -1..MaxPid
  BY <1>1, Consts DEF get_ppid_of, TreeInv, ProcTypes, BirthsOK
<1> DEFINE i == [Info(pos) EXCEPT !.ppid = get_ppid_of(pos)]
<1>3. i \in Infos
  BY <1>1, <1>2, InfoFacts DEF Infos
<1>4. trie' = Stored(pos, i, trie)
  BY DEF ReadPpid
<1> HIDE DEF i
<1>5. TrieOK(trie') /\ OnlyAt(pos, {i}, trie, trie')
  BY <1>1, <1>3, <1>4, StoredFacts
<1> QED
  BY <1>1, <1>2, <1>3, <1>5 DEF i

\* It keeps the invariant.
LEMMA PpidStep ==
  ASSUME TreeInv, ReadPpid PROVE TreeInv'
<1>0. PICK p : p = pos
  OBVIOUS
<1> DEFINE i == [Info(p) EXCEPT !.ppid = get_ppid_of(p)]
<1>1. /\ pc = "ppid" /\ pc' = "scan"
      /\ UNCHANGED <<procVars, listVars, num_nodes, dangling, restVars, pos>>
  BY DEF ReadPpid
<1>2. /\ mode' = mode /\ updates' = updates /\ early' = early
      /\ explicitParentList' = explicitParentList /\ alive' = alive /\ born' = born
      /\ parentOf' = parentOf /\ stoppableList' = stoppableList /\ pos' = pos
      /\ stoppableListSize' = stoppableListSize /\ UNCHANGED procVars
      /\ num_nodes' = num_nodes /\ dangling' = dangling
  BY <1>1 DEF procVars, listVars, restVars
<1>3. /\ p \in Known /\ p \in Pids /\ TrieOK(trie') /\ OnlyAt(p, {i}, trie, trie')
      /\ i \in Infos /\ i.ppid < p /\ i.flags = FlagsOf(p)
  <2>1. Info(p) \in Infos
    BY <1>0, PpidFacts, InfoFacts DEF TreeInv, NodesOK
  <2> QED
    BY <1>0, <2>1, PpidFacts DEF Infos, FlagsOf
<1> HIDE DEF i
<1>4. /\ Known' = Known /\ Info(p)' = i
      /\ \A q \in Pids \ {p} : Info(q)' = Info(q) /\ FlagsOf(q)' = FlagsOf(q)
  BY <1>3, ChangeFacts
<1>5. \A q \in Pids : Marked(q)' = Marked(q)
  BY <1>2, <1>3, <1>4 DEF Marked, FlagsOf
<1>6. ProcTypes'
  BY <1>1, <1>2 DEF TreeInv, ProcTypes
<1>7. NodesOK'
  BY <1>2, <1>3, ChangedNodes DEF TreeInv, Known
<1>8. BirthsOK'
  BY <1>2, <1>4, BirthsKept DEF TreeInv, BirthsOK
<1>9. MarksOK'
  BY <1>0, <1>1, <1>2, <1>4, <1>5 DEF TreeInv, MarksOK, Scanning, ProcTypes, Known
<1>10. ParentsOK'
  <2> SUFFICES ASSUME NEW q \in Known' PROVE Info(q)'.ppid < q
    BY DEF ParentsOK
  <2> QED
    BY <1>3, <1>4 DEF TreeInv, ParentsOK, Known
<1> QED
  BY <1>6, <1>7, <1>8, <1>9, <1>10 DEF TreeInv

\* An iteration visits processes of the tree, and begins with all of them.
LEMMA TogoFacts ==
  /\ ToGo \subseteq Known /\ (pos = 0 => ToGo = Known)
BY DEF ToGo, ToVisit, Known

\* The steps that only go to another stage.
LEMMA EndScanStep ==
  ASSUME TreeInv, EndScan PROVE TreeInv'
<1>1. /\ pc = "scan" /\ Unread = {} /\ pos' = 0 /\ stoppableList' = <<>>
      /\ stoppableListSize' = SizeFor(Cardinality({p \in Known : "OK" \in FlagsOf(p)}))
      /\ pc' = IF dangling = {} THEN "item" ELSE "crashed"
      /\ UNCHANGED <<procVars, treeVars, restVars>>
  BY DEF EndScan
<1>2. /\ trie' = trie /\ mode' = mode /\ updates' = updates /\ early' = early
      /\ explicitParentList' = explicitParentList /\ alive' = alive /\ born' = born
      /\ parentOf' = parentOf /\ UNCHANGED procVars
  BY <1>1 DEF procVars, treeVars, restVars
<1>3. stoppableListSize' \in 0..MaxPid + 1
  <2> DEFINE S == {p \in Known : "OK" \in FlagsOf(p)}
  <2>1. Cardinality(S) \in Nat /\ Cardinality(S) <= Cardinality(Known)
    BY KnownFinite, FS_Subset, FS_CardinalityType
  <2>2. stoppableListSize' = SizeFor(Cardinality(S))
    BY <1>1
  <2> HIDE DEF S
  <2> QED
    BY <2>1, <2>2, KnownFinite, Consts DEF SizeFor, TreeInv, ProcTypes
<1>4. ProcTypes'
  BY <1>1, <1>2, <1>3, Consts DEF TreeInv, ProcTypes
<1>5. NodesOK'
  BY <1>1, SameNodes DEF TreeInv, SameTree
<1>6. BirthsOK'
  BY <1>1, <1>2, BirthsKept, SameKnown, Consts DEF TreeInv, BirthsOK, ProcTypes
<1>7. MarksOK'
  <2>1. \A p \in alive : p \in Known /\ Marked(p)
    <3> TAKE p \in alive
    <3>1. p \in Pids /\ ~ (p > pos)
      BY <1>1 DEF Unread, TreeInv, ProcTypes
    <3>2. p <= pos
      BY <3>1, Consts DEF TreeInv, ProcTypes
    <3> QED
      BY <1>1, <3>2 DEF TreeInv, MarksOK, Scanning
  <2>2. ToGo' = Known
    BY <1>1, <1>2 DEF ToGo, ToVisit, Known
  <2> QED
    BY <1>1, <1>2, <2>1, <2>2, SameKnown DEF MarksOK, Scanning
<1>8. ParentsOK'
  BY <1>2, SameKnown DEF TreeInv, ParentsOK
<1> QED
  BY <1>4, <1>5, <1>6, <1>7, <1>8 DEF TreeInv

\* The end of an update keeps the invariant ...
LEMMA EndUpdateStep ==
  ASSUME TreeInv, EndUpdate PROVE TreeInv'
<1>1. /\ pc = "item" /\ ToGo = {} /\ pos' = 0 /\ pc' \in {"snapshot", "idle"}
      /\ early' = (IF updates = 1 THEN Known ELSE early)
      /\ UNCHANGED <<procVars, listVars, treeVars, mode, explicitParentList, updates>>
  BY DEF EndUpdate, ToGo
<1>2. /\ trie' = trie /\ alive' = alive /\ born' = born /\ parentOf' = parentOf
      /\ stoppableList' = stoppableList /\ stoppableListSize' = stoppableListSize
  BY <1>1 DEF procVars, treeVars, listVars
<1>3. ProcTypes'
  <2>0. Known \subseteq Pids /\ early \subseteq Pids
    BY DEF Known, TreeInv, ProcTypes
  <2>1. early' \subseteq Pids /\ pos' \in 0..MaxPid
    BY <1>1, <2>0, Consts
  <2>2. /\ explicitParentList' = explicitParentList /\ mode' = mode /\ updates' = updates
        /\ pc' \in {"snapshot", "idle"}
    BY <1>1
  <2> QED
    BY <1>2, <2>1, <2>2 DEF TreeInv, ProcTypes
<1>4. NodesOK'
  BY <1>1, SameNodes DEF TreeInv, SameTree
<1>5. BirthsOK'
  BY <1>1, <1>2, BirthsKept, SameKnown, Consts DEF TreeInv, BirthsOK, ProcTypes
<1>6. MarksOK'
  BY <1>1, <1>2, SameKnown DEF TreeInv, MarksOK, Scanning
<1>7. ParentsOK'
  BY <1>2, SameKnown DEF TreeInv, ParentsOK
<1> QED
  BY <1>3, <1>4, <1>5, <1>6, <1>7 DEF TreeInv

\* ... and so does what happens between updates and at the end of the program.
LEMMA IdleStep ==
  ASSUME TreeInv, EndSnapshot \/ update_proc_tree \/ trie_deallocate \/ EndFree
  PROVE  TreeInv'
<1>1. /\ pos' \in {0, pos} /\ early' = early /\ mode' = mode
      /\ explicitParentList' \in {TRUE, explicitParentList}
      /\ updates' = updates \/ (updates < MaxUpdates /\ updates' = updates + 1)
      /\ UNCHANGED <<procVars, listVars, treeVars>>
  BY DEF EndSnapshot, update_proc_tree, trie_deallocate, EndFree, restVars
<1>2. /\ trie' = trie /\ alive' = alive /\ born' = born /\ parentOf' = parentOf
      /\ stoppableList' = stoppableList /\ stoppableListSize' = stoppableListSize
  BY <1>1 DEF procVars, treeVars, listVars
<1>3. \/ pc \in {"snapshot", "idle"} /\ pc' \in {"idle", "scan"} /\ pos' = 0
      \/ pc' \in {"free", "crashed", "gone"}
  BY DEF EndSnapshot, update_proc_tree, trie_deallocate, EndFree
<1>4. ProcTypes'
  <2>1. explicitParentList' \in BOOLEAN
    BY <1>1 DEF TreeInv, ProcTypes
  <2>2. updates' \in 1..MaxUpdates /\ pos' \in 0..MaxPid
    BY <1>1, Consts DEF TreeInv, ProcTypes
  <2>3. pc' \in {"scan", "idle", "free", "gone", "crashed"} /\ mode' = mode /\ early' = early
    BY <1>1, <1>3
  <2> QED
    BY <1>2, <2>1, <2>2, <2>3 DEF TreeInv, ProcTypes
<1>5. NodesOK'
  BY <1>1, SameNodes DEF TreeInv, SameTree
<1>6. BirthsOK'
  BY <1>1, <1>2, BirthsKept, SameKnown, Consts DEF TreeInv, BirthsOK, ProcTypes
<1>7. MarksOK'
  <2>1. \A p \in Pids : ~ (p <= 0)
    BY Consts
  <2> QED
    BY <1>2, <1>3, <2>1, SameKnown DEF TreeInv, MarksOK, Scanning, ProcTypes
<1>8. ParentsOK'
  BY <1>2, SameKnown DEF TreeInv, ParentsOK
<1> QED
  BY <1>4, <1>5, <1>6, <1>7, <1>8 DEF TreeInv

\* An updated process is not marked.
LEMMA UpdatedFlags ==
  ASSUME NEW p, FlagsOf(p) \subseteq Flags
  PROVE  Updated(p) \subseteq Flags \ {"OK"}
<1>1. \A F : Probed(p, F) = F \/ Probed(p, F) = F \cup {"STOPPABLE"}
  BY DEF Probed
<1>2. Classified(p) \subseteq
        (FlagsOf(p) \ {"OK", "NEW"}) \cup {"EXCLUDE", "CHILD", "STOPPABLE"}
  BY <1>1 DEF Classified
<1> QED
  BY <1>2 DEF Updated, Flags

\* The process that an iteration visits next.
LEMMA NextInTree ==
  ASSUME TreeInv, ToGo # {}, NEW p, p = NextVisited(trie, Pids, pos)
  PROVE  p \in ToGo /\ p \in Known /\ p \in Pids /\ p <= born /\ p \in 0..MaxPid
<1>1. ToVisit(trie, Pids, pos) # {} /\ pos \in 0..MaxPid
  BY DEF ToGo, TreeInv, ProcTypes
<1>2. p \in ToVisit(trie, Pids, pos) /\ p \in Pids
  BY <1>1, NextFacts
<1>3. p \in ToGo /\ p \in Known
  BY <1>2, TogoFacts DEF ToGo
<1> QED
  BY <1>2, <1>3, Consts DEF TreeInv, BirthsOK

\* What a step of an iteration does that stores a value ...
LEMMA StoreVisit ==
  ASSUME TreeInv, NEW p, p = NextVisited(trie, Pids, pos), pos' = p, ToGo # {},
         NEW i \in Infos, trie' = Stored(p, i, trie), UNCHANGED <<num_nodes, dangling>>
  PROVE  /\ p \in ToGo /\ p \in Known /\ p \in Pids /\ ToGo' = ToGo \ {p}
         /\ OnlyAt(p, {i}, trie, trie') /\ NodesOK' /\ Known' = Known /\ Info(p)' = i
         /\ \A q \in Pids \ {p} : Info(q)' = Info(q) /\ FlagsOf(q)' = FlagsOf(q)
<1>1. p \in ToGo /\ p \in Pids /\ p \in Known /\ Has(p, trie) /\ TrieOK(trie)
  BY NextInTree DEF Known, TreeInv, NodesOK
<1>2. TrieOK(trie') /\ OnlyAt(p, {i}, trie, trie')
  BY <1>1, StoredFacts
<1>3. NodesOK'
  BY <1>1, <1>2, ChangedNodes DEF TreeInv
<1>4. /\ Known' = Known \cup {p} /\ Info(p)' = i
      /\ \A q \in Pids \ {p} : Info(q)' = Info(q) /\ FlagsOf(q)' = FlagsOf(q)
  BY <1>1, <1>2, ChangeFacts
<1>5. ToGo' = ToGo \ {p}
  BY <1>2, Visited DEF TreeInv, ProcTypes
<1> QED
  BY <1>1, <1>2, <1>3, <1>4, <1>5

\* ... or removes the process.
LEMMA DropVisit ==
  ASSUME TreeInv, NEW p, p = NextVisited(trie, Pids, pos), pos' = p, ToGo # {},
         RemoveNode(p)
  PROVE  /\ p \in ToGo /\ p \in Known /\ p \in Pids /\ ToGo' = ToGo \ {p}
         /\ OnlyAt(p, {}, trie, trie') /\ NodesOK' /\ Known' = Known \ {p}
         /\ \A q \in Pids \ {p} : Info(q)' = Info(q) /\ FlagsOf(q)' = FlagsOf(q)
         /\ \A q \in Known \ {p} : q % 2 \notin dangling => q % 2 \notin dangling'
<1>1. p \in ToGo /\ p \in Pids /\ p \in Known
  BY NextInTree
<1>2. /\ NodesOK' /\ OnlyAt(p, {}, trie, trie')
      /\ \A q \in Known \ {p} : q % 2 \notin dangling => q % 2 \notin dangling'
  BY <1>1, DroppedNodes DEF TreeInv
<1>3. /\ Known' = Known \ {p}
      /\ \A q \in Pids \ {p} : Info(q)' = Info(q) /\ FlagsOf(q)' = FlagsOf(q)
  BY <1>1, <1>2, DropFacts
<1>4. ToGo' = ToGo \ {p}
  BY <1>2, Visited DEF TreeInv, ProcTypes
<1> QED
  BY <1>1, <1>2, <1>3, <1>4

\* What update_proc_tree_item does.
LEMMA UpdateFacts ==
  ASSUME TreeInv, UpdateItem
  PROVE  \E p \in ToGo :
           /\ pos' = p /\ p \in Known /\ p \in Pids /\ p <= born
           /\ \/ /\ WalkIsLost(p) /\ pc' = "crashed"
                 /\ UNCHANGED <<treeVars, listVars>>
              \/ /\ ~ WalkIsLost(p) /\ pc' = pc /\ ToGo' = ToGo \ {p} /\ NodesOK'
                 /\ \A q \in Pids \ {p} : Info(q)' = Info(q) /\ FlagsOf(q)' = FlagsOf(q)
                 /\ stoppableListSize' = stoppableListSize
                 /\ \/ /\ Marked(p) /\ Known' = Known
                       /\ OnlyAt(p, {Info(p)'}, trie, trie')
                       /\ Info(p)'.ppid = Info(p).ppid /\ FlagsOf(p)' = Updated(p)
                       /\ Updated(p) \subseteq Flags \ {"OK"}
                       /\ stoppableList' = IF Listable(p) THEN Append(stoppableList, p)
                                                          ELSE stoppableList
                       /\ dangling' = dangling
                    \/ /\ ~ Marked(p) /\ Known' = Known \ {p}
                       /\ OnlyAt(p, {}, trie, trie')
                       /\ stoppableList' = stoppableList
                       /\ \A q \in Known \ {p} :
                            q % 2 \notin dangling => q % 2 \notin dangling'
<1>0. PICK p : p = NextVisited(trie, Pids, pos)
  OBVIOUS
<1>1. /\ ToGo # {} /\ pos' = p
      /\ IF WalkIsLost(p)
         THEN pc' = "crashed" /\ UNCHANGED <<treeVars, listVars>>
         ELSE IF "OK" \in FlagsOf(p)
         THEN /\ trie' = Stored(p, [Info(p) EXCEPT !.flags = Updated(p)], trie)
              /\ stoppableList' = IF Listable(p) THEN Append(stoppableList, p)
                                                 ELSE stoppableList
              /\ UNCHANGED <<num_nodes, dangling, stoppableListSize, pc>>
         ELSE RemoveNode(p) /\ UNCHANGED <<listVars, pc>>
  BY <1>0 DEF UpdateItem, ToGo
<1>2. p \in ToGo /\ p \in Known /\ p \in Pids /\ p <= born
  BY <1>0, <1>1, NextInTree
<1>3. CASE WalkIsLost(p)
  BY <1>1, <1>2, <1>3
<1>4. CASE ~ WalkIsLost(p) /\ Marked(p)
  <2> DEFINE i == [Info(p) EXCEPT !.flags = Updated(p)]
  <2>1. /\ trie' = Stored(p, i, trie)
        /\ stoppableList' = IF Listable(p) THEN Append(stoppableList, p) ELSE stoppableList
        /\ UNCHANGED <<num_nodes, dangling, stoppableListSize, pc>>
    BY <1>1, <1>4 DEF Marked
  <2>2. /\ i \in Infos /\ i.ppid = Info(p).ppid /\ i.flags = Updated(p)
        /\ Updated(p) \subseteq Flags \ {"OK"}
    <3>1. Info(p) \in Infos /\ FlagsOf(p) \subseteq Flags
      BY <1>2, InfoFacts DEF TreeInv, NodesOK
    <3>2. Updated(p) \subseteq Flags \ {"OK"}
      BY <3>1, UpdatedFlags
    <3> QED
      BY <3>1, <3>2 DEF Infos
  <2> HIDE DEF i
  <2>3. /\ ToGo' = ToGo \ {p} /\ NodesOK' /\ Known' = Known /\ Info(p)' = i
        /\ OnlyAt(p, {i}, trie, trie')
        /\ \A q \in Pids \ {p} : Info(q)' = Info(q) /\ FlagsOf(q)' = FlagsOf(q)
    BY <1>0, <1>1, <2>1, <2>2, StoreVisit
  <2>4. FlagsOf(p)' = i.flags
    BY <2>3 DEF FlagsOf
  <2> QED
    BY <1>1, <1>2, <1>4, <2>1, <2>2, <2>3, <2>4
<1>5. CASE ~ WalkIsLost(p) /\ ~ Marked(p)
  <2>1. RemoveNode(p) /\ UNCHANGED <<listVars, pc>>
    BY <1>1, <1>5 DEF Marked
  <2>2. /\ ToGo' = ToGo \ {p} /\ NodesOK' /\ Known' = Known \ {p}
        /\ OnlyAt(p, {}, trie, trie')
        /\ \A q \in Pids \ {p} : Info(q)' = Info(q) /\ FlagsOf(q)' = FlagsOf(q)
        /\ \A q \in Known \ {p} : q % 2 \notin dangling => q % 2 \notin dangling'
    BY <1>0, <1>1, <2>1, DropVisit
  <2> QED
    BY <1>1, <1>2, <1>5, <2>1, <2>2 DEF listVars
<1> QED
  BY <1>3, <1>4, <1>5

\* update_proc_tree_item keeps the invariant.
LEMMA UpdateStep ==
  ASSUME TreeInv, UpdateItem PROVE TreeInv'
<1>1. PICK p \in ToGo :
        /\ pos' = p /\ p \in Known /\ p \in Pids /\ p <= born
        /\ \/ /\ WalkIsLost(p) /\ pc' = "crashed"
              /\ UNCHANGED <<treeVars, listVars>>
           \/ /\ ~ WalkIsLost(p) /\ pc' = pc /\ ToGo' = ToGo \ {p} /\ NodesOK'
              /\ \A q \in Pids \ {p} : Info(q)' = Info(q) /\ FlagsOf(q)' = FlagsOf(q)
              /\ stoppableListSize' = stoppableListSize
              /\ \/ /\ Marked(p) /\ Known' = Known
                    /\ Info(p)'.ppid = Info(p).ppid /\ FlagsOf(p)' = Updated(p)
                    /\ Updated(p) \subseteq Flags \ {"OK"}
                    /\ stoppableList' = IF Listable(p) THEN Append(stoppableList, p)
                                                       ELSE stoppableList
                 \/ /\ ~ Marked(p) /\ Known' = Known \ {p}
                    /\ stoppableList' = stoppableList
  BY UpdateFacts
<1>2. /\ pc = "item" /\ mode' = mode /\ updates' = updates /\ early' = early
      /\ explicitParentList' = explicitParentList /\ alive' = alive /\ born' = born
      /\ parentOf' = parentOf /\ UNCHANGED procVars
  BY DEF UpdateItem, procVars, restVars
<1>3. p \in 0..MaxPid
  BY <1>1, Consts
<1>4. CASE pc' = "crashed" /\ UNCHANGED <<treeVars, listVars>>
  <2>1. trie' = trie
    BY <1>4 DEF treeVars
  <2>2. ProcTypes'
    BY <1>1, <1>2, <1>3, <1>4 DEF TreeInv, ProcTypes, listVars
  <2>3. BirthsOK'
    BY <1>1, <1>2, <2>1, BirthsKept, SameKnown DEF TreeInv, BirthsOK
  <2>4. MarksOK'
    BY <1>4 DEF MarksOK, Scanning
  <2>5. NodesOK' /\ ParentsOK'
    BY <1>4, <2>1, SameNodes, SameKnown DEF TreeInv, ParentsOK, SameTree
  <2> QED
    BY <2>2, <2>3, <2>4, <2>5 DEF TreeInv
<1>5. CASE /\ pc' = pc /\ ToGo' = ToGo \ {p} /\ NodesOK'
           /\ stoppableListSize' = stoppableListSize
           /\ \A q \in Pids \ {p} : Info(q)' = Info(q) /\ FlagsOf(q)' = FlagsOf(q)
           /\ \/ /\ Known' = Known /\ Info(p)'.ppid = Info(p).ppid
                 /\ "OK" \notin FlagsOf(p)'
                 /\ stoppableList' \in {stoppableList, Append(stoppableList, p)}
              \/ ~ Marked(p) /\ Known' = Known \ {p} /\ stoppableList' = stoppableList
  <2>1. ProcTypes'
    <3>1. stoppableList' \in Seq(Pids)
      <4>1. stoppableList \in Seq(Pids) /\ Append(stoppableList, p) \in Seq(Pids)
        BY <1>1, AppendProperties DEF TreeInv, ProcTypes
      <4> QED
        BY <1>5, <4>1
    <3> QED
      BY <1>1, <1>2, <1>3, <1>5, <3>1 DEF TreeInv, ProcTypes
  <2>2. BirthsOK'
    BY <1>1, <1>2, <1>5, BirthsKept DEF TreeInv, BirthsOK
  <2>3. MarksOK'
    <3>1. /\ \A q \in Pids \ {p} : Marked(q)' = Marked(q)
          /\ p \in Known' => ~ Marked(p)'
      BY <1>5 DEF Marked
    <3> QED
      BY <1>1, <1>2, <1>5, <3>1 DEF TreeInv, MarksOK, Scanning, ProcTypes, Known
  <2>4. ParentsOK'
    <3> SUFFICES ASSUME NEW q \in Known' PROVE Info(q)'.ppid < q
      BY DEF ParentsOK
    <3> QED
      BY <1>1, <1>5 DEF TreeInv, ParentsOK, Known
  <2> QED
    BY <1>5, <2>1, <2>2, <2>3, <2>4 DEF TreeInv
<1> QED
  BY <1>1, <1>4, <1>5

\* So does a visit of the snapshot ...
LEMMA SnapshotStep ==
  ASSUME TreeInv, update_snapshot_pid PROVE TreeInv'
<1>0. PICK p : p = NextVisited(trie, Pids, pos)
  OBVIOUS
<1> DEFINE flags == FlagsOf(p) \ {"CHILD"}
           i == [Info(p) EXCEPT !.flags =
                   IF "STOPPABLE" \in flags THEN flags \cup {"PARENT"} ELSE flags]
<1>1. /\ pc = "snapshot" /\ ToGo # {} /\ pos' = p /\ trie' = Stored(p, i, trie)
      /\ UNCHANGED <<procVars, listVars, num_nodes, dangling, restVars, pc>>
  BY <1>0 DEF update_snapshot_pid, ToGo
<1>2. /\ mode' = mode /\ updates' = updates /\ early' = early /\ UNCHANGED procVars
      /\ explicitParentList' = explicitParentList /\ alive' = alive /\ born' = born
      /\ parentOf' = parentOf /\ stoppableList' = stoppableList
      /\ stoppableListSize' = stoppableListSize
  BY <1>1 DEF procVars, restVars, listVars
<1>3. p \in ToGo /\ p \in Known /\ p \in Pids /\ p <= born /\ p \in 0..MaxPid
  BY <1>0, <1>1, NextInTree
<1>4. i \in Infos /\ "OK" \notin i.flags /\ i.ppid < p
  <2>1. Info(p) \in Infos /\ FlagsOf(p) \subseteq Flags /\ Info(p).ppid < p
    BY <1>3, InfoFacts DEF TreeInv, NodesOK, ParentsOK
  <2>2. "OK" \notin FlagsOf(p)
    BY <1>1, <1>3 DEF TreeInv, MarksOK, Marked
  <2> QED
    BY <2>1, <2>2 DEF Infos, Flags
<1> HIDE DEF i
<1>5. /\ ToGo' = ToGo \ {p} /\ NodesOK' /\ Known' = Known /\ Info(p)' = i
      /\ \A q \in Pids \ {p} : Info(q)' = Info(q) /\ FlagsOf(q)' = FlagsOf(q)
  BY <1>0, <1>1, <1>4, StoreVisit
<1>6. ProcTypes'
  BY <1>1, <1>2, <1>3 DEF TreeInv, ProcTypes
<1>7. BirthsOK'
  BY <1>1, <1>2, <1>3, <1>5, BirthsKept DEF TreeInv, BirthsOK
<1>8. MarksOK'
  <2>1. ~ Marked(p)' /\ \A q \in Pids \ {p} : Marked(q)' = Marked(q)
    BY <1>4, <1>5 DEF Marked, FlagsOf
  <2> QED
    BY <1>1, <1>2, <1>5, <2>1 DEF TreeInv, MarksOK, Scanning, Known
<1>9. ParentsOK'
  <2> SUFFICES ASSUME NEW q \in Known' PROVE Info(q)'.ppid < q
    BY DEF ParentsOK
  <2> QED
    BY <1>4, <1>5 DEF TreeInv, ParentsOK, Known
<1> QED
  BY <1>5, <1>6, <1>7, <1>8, <1>9 DEF TreeInv

\* ... and one of trie_deallocate.
LEMMA FreeStep ==
  ASSUME TreeInv, trie_node_free PROVE TreeInv'
<1>0. PICK p : p = NextVisited(trie, Pids, pos)
  OBVIOUS
<1>1. /\ pc = "free" /\ ToGo # {} /\ pos' = p /\ RemoveNode(p)
      /\ UNCHANGED <<procVars, listVars, restVars, pc>>
  BY <1>0 DEF trie_node_free, ToGo
<1>2. /\ mode' = mode /\ updates' = updates /\ early' = early /\ UNCHANGED procVars
      /\ explicitParentList' = explicitParentList /\ alive' = alive /\ born' = born
      /\ parentOf' = parentOf /\ stoppableList' = stoppableList
      /\ stoppableListSize' = stoppableListSize
  BY <1>1 DEF procVars, restVars, listVars
<1>3. p \in ToGo /\ p \in Known /\ p \in Pids /\ p <= born /\ p \in 0..MaxPid
  BY <1>0, <1>1, NextInTree
<1>4. /\ NodesOK' /\ Known' = Known \ {p}
      /\ \A q \in Pids \ {p} : Info(q)' = Info(q) /\ FlagsOf(q)' = FlagsOf(q)
  BY <1>0, <1>1, DropVisit
<1>5. ProcTypes'
  BY <1>1, <1>2, <1>3 DEF TreeInv, ProcTypes
<1>6. BirthsOK'
  BY <1>1, <1>2, <1>3, <1>4, BirthsKept DEF TreeInv, BirthsOK
<1>7. MarksOK'
  BY <1>1 DEF MarksOK, Scanning
<1>8. ParentsOK'
  <2> SUFFICES ASSUME NEW q \in Known' PROVE Info(q)'.ppid < q
    BY DEF ParentsOK
  <2> QED
    BY <1>4 DEF TreeInv, ParentsOK, Known
<1> QED
  BY <1>4, <1>5, <1>6, <1>7, <1>8 DEF TreeInv

\* Every step keeps the invariant.
LEMMA TreeNext == TreeInv /\ [Next]_vars => TreeInv'
<1> SUFFICES ASSUME TreeInv, [Next]_vars PROVE TreeInv'
  OBVIOUS
<1>1. CASE ScanEntry
  BY <1>1, ScanStep
<1>2. CASE ReadPpid
  BY <1>2, PpidStep
<1>3. CASE EndScan
  BY <1>3, EndScanStep
<1>4. CASE UpdateItem
  BY <1>4, UpdateStep
<1>5. CASE EndUpdate
  BY <1>5, EndUpdateStep
<1>6. CASE update_snapshot_pid
  BY <1>6, SnapshotStep
<1>7. CASE EndSnapshot \/ update_proc_tree \/ trie_deallocate \/ EndFree
  BY <1>7, IdleStep
<1>8. CASE trie_node_free
  BY <1>8, FreeStep
<1>9. CASE \E p \in Pids : fork(p) \/ exit(p)
  BY <1>9, ForkStep, ExitStep
<1>10. CASE UNCHANGED vars
  BY <1>10, SameKnown DEF vars, procVars, listVars, treeVars, restVars, TreeInv, ProcTypes,
     NodesOK, BirthsOK, MarksOK, ParentsOK, Scanning
<1> QED
  BY <1>1, <1>2, <1>3, <1>4, <1>5, <1>6, <1>7, <1>8, <1>9, <1>10 DEF Next, limiter

\* It is an invariant of the specification.
LEMMA TreeInvAlways == Spec => []TreeInv
<1>1. Init => TreeInv
  BY TreeInit
<1>2. TreeInv /\ [Next]_vars => TreeInv'
  BY TreeNext
<1> QED
  BY <1>1, <1>2, PTL DEF Spec

-----------------------------------------------------------------------------
(* What the invariant says *)

\* It implies the type invariant.
LEMMA InvTypes == TreeInv => TypeOK
<1> SUFFICES ASSUME TreeInv PROVE TypeOK
  OBVIOUS
<1>1. \A node \in DOMAIN trie : trie[node] \subseteq Infos /\ Cardinality(trie[node]) <= 1
  <2> TAKE node \in DOMAIN trie
  <2>1. CASE trie[node] = {}
    BY <2>1, FS_EmptySet
  <2>2. CASE trie[node] # {}
    <3>1. PICK i \in Infos : trie[node] = {i}
      BY <2>2 DEF TreeInv, NodesOK, TrieOK
    <3> QED
      BY <3>1, FS_Singleton
  <2> QED
    BY <2>1, <2>2
<1>2. num_nodes \in 0..MaxPid
  BY KnownFinite DEF TreeInv, NodesOK
<1> QED
  BY <1>1, <1>2, Consts DEF TypeOK, TreeInv, ProcTypes, NodesOK

\* The types of all variables, the values in the nodes included, whatever forks and exits
\* while an update runs.
THEOREM TypeCorrect == Spec => []TypeOK
BY TreeInvAlways, InvTypes, PTL

\* It says that the trie is trimmed.
LEMMA InvTrims == TreeInv => Trimmed
<1> SUFFICES ASSUME TreeInv PROVE Trimmed
  OBVIOUS
<1>1. \A node \in DOMAIN trie : \E p \in Known : Under(node, Path[p])
  BY DEF TreeInv, NodesOK, TrieOK, Held, Known
<1> QED
  BY <1>1 DEF Trimmed, TreeInv, NodesOK

\* At every moment num_nodes counts the values in the trie, and every node leads to one:
\* trie_remove frees each node that has become useless and none that is in use.
THEOREM AlwaysTrimmed == Spec => []Trimmed
BY TreeInvAlways, InvTrims, PTL

\* An update removes only processes that it found unmarked, which have exited.
LEMMA DeadStep ==
  ASSUME TreeInv, [Next]_vars, pc = "item", NEW p \in alive, Has(p, trie)
  PROVE  Has(p, trie)'
<1>1. p \in Pids /\ p \in Known
  BY DEF TreeInv, ProcTypes, Known
<1>2. CASE UpdateItem
  <2>1. PICK q \in ToGo : \/ trie' = trie
                          \/ Known' = Known
                          \/ ~ Marked(q) /\ Known' = Known \ {q}
    BY <1>2, UpdateFacts DEF treeVars
  <2>2. CASE trie' = trie
    BY <2>2
  <2>3. CASE Known' = Known
    BY <1>1, <2>3 DEF Known
  <2>4. CASE ~ Marked(q) /\ Known' = Known \ {q}
    <3>1. p # q
      BY <2>4 DEF TreeInv, MarksOK
    <3> QED
      BY <1>1, <2>4, <3>1 DEF Known
  <2> QED
    BY <2>1, <2>2, <2>3, <2>4
<1>3. CASE ~ UpdateItem
  <2>1. trie' = trie
    BY <1>3 DEF Next, limiter, vars, treeVars, fork, exit, ScanEntry, ReadPpid, EndScan,
       EndUpdate, update_snapshot_pid, EndSnapshot, update_proc_tree, trie_deallocate,
       trie_node_free, EndFree
  <2> QED
    BY <2>1
<1> QED
  BY <1>2, <1>3

\* An update removes no process that runs, whenever it was born or read.
THEOREM OnlyTheDeadLeave == Spec => OnlyDeadLeave
<1>1. TreeInv /\ [Next]_vars =>
        [pc = "item" => \A p \in alive : Has(p, trie) => Has(p, trie)']_vars
  BY DeadStep
<1> QED
  BY <1>1, TreeInvAlways, PTL DEF Spec, OnlyDeadLeave

-----------------------------------------------------------------------------
(* NeverLost: the walks *)

\* One step of the walk to the ancestors.
WalkRule(w, q, flags) ==
  LET up == Info(q).ppid IN
  IF up <= 0 THEN "top" ELSE IF ~ Has(up, trie) THEN "lost"
  ELSE IF FlagsOf(up) \cap flags # {} THEN "found" ELSE w[up]

\* A recorded parent has a smaller PID.
LEMMA UpFacts ==
  ASSUME TreeInv, NEW q \in Known
  PROVE  /\ Info(q).ppid \in Int /\ Info(q).ppid < q /\ q \in Nat /\ q <= MaxPid
         /\ Info(q).ppid > 0 /\ Has(Info(q).ppid, trie) => Info(q).ppid \in Known
<1>1. Info(q).ppid \in -1..MaxPid /\ q \in Pids
  BY InfoFacts DEF TreeInv, NodesOK
<1>2. Info(q).ppid < q
  BY DEF TreeInv, ParentsOK
<1> QED
  BY <1>1, <1>2, Consts DEF Known

\* The walk to the ancestors ends because the PIDs fall: it is what its rule says.
LEMMA AboveUnfolds ==
  ASSUME TreeInv, NEW flags
  PROVE  \E w : /\ \A q \in Known : w[q] = WalkRule(w, q, flags)
                /\ \A p : Above(p, flags) = w[p]
<1> DEFINE S(k) == {q \in Known : q <= k}
           Exists(k) == \E w : w = [q \in S(k) |-> WalkRule(w, q, flags)]
           T == {k \in Nat : Exists(k)}
<1>1. Exists(0)
  <2>1. S(0) = {}
    BY UpFacts, Consts DEF Known
  <2> DEFINE w == [q \in {} |-> "top"]
  <2>2. w = [q \in S(0) |-> WalkRule(w, q, flags)]
    <3> HIDE DEF WalkRule
    <3> QED
      BY <2>1
  <2> QED
    BY <2>2
<1>2. ASSUME NEW k \in Nat, Exists(k) PROVE Exists(k + 1)
  <2>1. PICK w : w = [q \in S(k) |-> WalkRule(w, q, flags)]
    BY <1>2
  <2> DEFINE g == [q \in S(k + 1) |-> IF q <= k THEN w[q] ELSE WalkRule(w, q, flags)]
  <2>2. ASSUME NEW q \in S(k + 1) PROVE g[q] = WalkRule(g, q, flags)
    <3>1. q \in Known /\ q <= k + 1 /\ q \in Nat
      BY UpFacts
    <3>2. g[q] = WalkRule(w, q, flags)
      <4>1. CASE q <= k
        <5>1. q \in S(k)
          BY <3>1, <4>1
        <5>2. w[q] = WalkRule(w, q, flags)
          <6> HIDE DEF S, WalkRule
          <6> QED
            BY <2>1, <5>1
        <5> QED
          BY <4>1, <5>2
      <4>2. CASE ~ (q <= k)
        BY <4>2
      <4> QED
        BY <4>1, <4>2
    <3> DEFINE up == Info(q).ppid
    <3>3. up > 0 /\ Has(up, trie) => up \in S(k + 1) /\ up <= k
      BY <3>1, UpFacts
    <3>4. up > 0 /\ Has(up, trie) => g[up] = w[up]
      BY <3>3
    <3>5. up \in Int
      BY <3>1, UpFacts
    <3> HIDE DEF g, S
    <3>6. WalkRule(g, q, flags) = WalkRule(w, q, flags)
      BY <3>4, <3>5 DEF WalkRule
    <3> QED
      BY <3>2, <3>6
  <2>3. g = [q \in S(k + 1) |-> WalkRule(g, q, flags)]
    <3>1. \A q \in S(k + 1) : g[q] = WalkRule(g, q, flags)
      BY <2>2
    <3>2. g = [q \in S(k + 1) |-> g[q]]
      OBVIOUS
    <3> HIDE DEF g, S, WalkRule
    <3> QED
      BY <3>1, <3>2
  <2> HIDE DEF g
  <2> QED
    BY <2>3
<1>3. \A k \in Nat : k \in T
  <2>1. 0 \in T /\ \A k \in Nat : k \in T => k + 1 \in T
    <3> HIDE DEF Exists
    <3> QED
      BY <1>1, <1>2
  <2> HIDE DEF T
  <2> QED
    BY <2>1, Induction
<1>4. PICK v : v = [q \in S(MaxPid) |-> WalkRule(v, q, flags)]
  BY <1>3, Consts
<1>5. S(MaxPid) = Known
  BY UpFacts
<1> DEFINE w == CHOOSE f : f = [q \in Known |-> WalkRule(f, q, flags)]
<1>6. w = [q \in Known |-> WalkRule(w, q, flags)]
  <2> HIDE DEF S, WalkRule
  <2> QED
    BY <1>4, <1>5
<1>7. \A p : Above(p, flags) = w[p]
  BY DEF Above, WalkRule
<1>8. \A q \in Known : w[q] = WalkRule(w, q, flags)
  <2> HIDE DEF w, WalkRule
  <2> QED
    BY <1>6
<1> QED
  BY <1>7, <1>8

\* A set of processes that holds the recorded parents of its members.
Closed(S) == \A p \in S : Info(p).ppid > 0 => Info(p).ppid \in S

\* A walk that starts inside such a set meets no parent that is missing.
LEMMA NotLost ==
  ASSUME TreeInv, NEW S \in SUBSET Known, Closed(S), NEW p \in S, NEW flags
  PROVE  Above(p, flags) # "lost"
<1>1. PICK w : /\ \A q \in Known : w[q] = WalkRule(w, q, flags)
               /\ \A q : Above(q, flags) = w[q]
  BY AboveUnfolds
<1> DEFINE T == {n \in Nat : \A q \in S : q <= n => w[q] # "lost"}
<1>2. 0 \in T
  BY UpFacts, Consts DEF Known
<1>3. ASSUME NEW n \in T PROVE n + 1 \in T
  <2> SUFFICES ASSUME NEW q \in S, q <= n + 1 PROVE w[q] # "lost"
    OBVIOUS
  <2> DEFINE up == Info(q).ppid
  <2>1. /\ q \in Known /\ up \in Int /\ up < q /\ q \in Nat /\ n \in Nat
    BY UpFacts
  <2>2. up > 0 => up \in S /\ up <= n /\ Has(up, trie)
    BY <2>1 DEF Closed, Known
  <2>3. up > 0 => w[up] # "lost"
    BY <2>2
  <2>4. w[q] = WalkRule(w, q, flags)
    BY <1>1, <2>1
  <2> QED
    BY <2>1, <2>2, <2>3, <2>4 DEF WalkRule
<1>4. \A n \in Nat : n \in T
  <2>1. \A n \in Nat : n \in T => n + 1 \in T
    BY <1>3
  <2> HIDE DEF T
  <2> QED
    BY <1>2, <2>1, Induction
<1>5. p \in Nat /\ p <= p
  BY UpFacts
<1>6. p \in T
  BY <1>4, <1>5
<1> QED
  BY <1>1, <1>5, <1>6

-----------------------------------------------------------------------------
(* NeverLost: the invariant *)

\* The processes that will still be in the tree after the update.
Stays(p) == p \notin ToGo \/ Marked(p)

\* The recorded parent of a running process is its parent.
PpidsOK == \A p \in alive \cap Known : Info(p).ppid \in {0, parentOf[p]}
\* The recorded parents of the processes that stay, stay.
WalksOK ==
  /\ Scanning => Closed({p \in Known : Marked(p)})
  /\ pc = "item" => Closed({p \in Known : Stays(p)})
\* init and kthreadd are in the tree after the first scan and keep both links of the
\* root in use.
RootOK ==
  /\ pc \in {"item", "snapshot", "idle"} \/ (updates > 1 /\ Scanning) => {1, 2} \subseteq Known
  /\ pc \notin {"free", "gone"} => dangling = {}

LostInv == TreeInv /\ PpidsOK /\ WalksOK /\ RootOK /\ pc # "crashed"

\* Nothing is lost at the start.
LEMMA LostInit == Init => LostInv
<1> SUFFICES ASSUME Init PROVE LostInv
  OBVIOUS
<1>1. TreeInv
  BY TreeInit
<1>2. pc = "scan" /\ pos = 0 /\ updates = 1 /\ dangling = {}
  BY DEF Init
<1>3. \A p \in Known : ~ Marked(p)
  BY <1>1, <1>2, Consts DEF TreeInv, MarksOK, Scanning, Known
<1>4. PpidsOK
  <2>1. mode \in Modes /\ trie = create_proc_tree(mode)
    BY DEF Init
  <2>2. Known = Listed(mode) /\ \A p \in Known : trie_value(p, trie) = {FirstInfo(mode, p)}
    BY <2>1, CreatedTree DEF Known, Held
  <2>3. ASSUME NEW p \in Known PROVE Info(p).ppid = 0
    <3>1. Info(p) = FirstInfo(mode, p)
      BY <2>2 DEF Info
    <3> QED
      BY <3>1 DEF FirstInfo, Exclude
  <2> QED
    BY <2>3 DEF PpidsOK
<1> QED
  BY <1>1, <1>2, <1>3, <1>4 DEF LostInv, WalksOK, RootOK, Scanning, Closed

\* Without orphans the parent of a running process runs.
LEMMA ParentAlive ==
  ASSUME TreeInv, ~ Orphans, NEW p \in alive
  PROVE  parentOf[p] = 0 \/ (parentOf[p] \in alive /\ parentOf[p] < p)
BY DEF TreeInv, BirthsOK, ProcTypes

\* The steps that keep the tree, and the parents of the processes that are in it.
LEMMA KeptParents ==
  ASSUME PpidsOK, trie' = trie,
         \A p \in alive' \cap Known : p \in alive /\ parentOf'[p] = parentOf[p]
  PROVE  PpidsOK'
BY SameKnown DEF PpidsOK

\* Births and ends of processes keep the recorded parents true.
LEMMA LostProcs ==
  ASSUME LostInv, ~ Orphans, NEW p \in Pids, fork(p) \/ exit(p) PROVE LostInv'
<1>1. /\ trie' = trie /\ dangling' = dangling /\ pc' = pc /\ pos' = pos
      /\ updates' = updates
  BY DEF fork, exit, treeVars, restVars
<1>2. TreeInv'
  BY ForkStep, ExitStep DEF LostInv
<1>3. \A q \in alive' \cap Known : q \in alive /\ parentOf'[q] = parentOf[q]
  <2> TAKE q \in alive' \cap Known
  <2>0. q \in Pids /\ q <= born /\ born \in Nat /\ q \in Nat
    BY Consts DEF LostInv, TreeInv, BirthsOK, ProcTypes, Known
  <2>1. CASE fork(p)
    <3>1. alive' = alive \cup {born + 1} /\ parentOf' = [parentOf EXCEPT ![born + 1] = p]
      BY <2>1 DEF fork
    <3>2. q # born + 1
      BY <2>0
    <3> QED
      BY <2>0, <3>1, <3>2 DEF LostInv, TreeInv, ProcTypes
  <2>2. CASE exit(p)
    BY <2>0, <2>2 DEF exit
  <2> QED
    BY <2>1, <2>2
<1>4. PpidsOK'
  BY <1>1, <1>3, KeptParents DEF LostInv
<1>5. ToGo' = ToGo /\ \A q : Stays(q)' = Stays(q)
  BY <1>1, SameKnown DEF Stays
<1>6. WalksOK' /\ RootOK'
  BY <1>1, <1>5, SameKnown DEF LostInv, WalksOK, RootOK, Closed, Scanning
<1> QED
  BY <1>1, <1>2, <1>4, <1>6 DEF LostInv

\* A process that is marked again has a recorded parent that was marked before it.
LEMMA LostScan ==
  ASSUME LostInv, ~ Orphans, ScanEntry PROVE LostInv'
<1>0. PICK p : p = pos'
  OBVIOUS
<1>1. /\ pc = "scan" /\ updates' = updates /\ alive' = alive /\ parentOf' = parentOf
  BY DEF ScanEntry, restVars, procVars
<1>2. /\ p \in alive /\ p > pos /\ p \in Pids /\ p \in Nat /\ pos \in Nat
      /\ \A q \in alive : q < p => q <= pos
  BY <1>0, ScanFacts, Consts DEF LostInv, TreeInv, ProcTypes
<1>3. TreeInv /\ TreeInv'
  BY ScanStep DEF LostInv
<1>4. pc' # "crashed"
  BY <1>1 DEF ScanEntry, LostInv, RootOK
<1>5. /\ pc' \in {"scan", "ppid"} /\ dangling' = dangling
  BY <1>3, <1>4, ScanFacts
<1>6. PICK i \in Infos :
        /\ OnlyAt(p, {i}, trie, trie')
        /\ IF p \in Known THEN i = [Info(p) EXCEPT !.flags = @ \cup {"OK"}]
                          ELSE i = [ppid |-> 0, flags |-> {"OK", "NEW"}]
  BY <1>0, <1>3, <1>4, ScanFacts
<1>7. /\ Known' = Known \cup {p} /\ Info(p)' = i
      /\ \A q \in Pids \ {p} : Info(q)' = Info(q) /\ FlagsOf(q)' = FlagsOf(q)
  BY <1>2, <1>6, ChangeFacts
<1>8. "OK" \in i.flags /\ i.ppid \in {0, parentOf[p]}
  <2>1. CASE p \in Known
    <3>1. Info(p) \in Infos /\ Info(p).ppid \in {0, parentOf[p]}
      BY <1>2, <1>3, <2>1, InfoFacts DEF TreeInv, NodesOK, LostInv, PpidsOK
    <3> QED
      BY <1>6, <2>1, <3>1 DEF Infos
  <2>2. CASE p \notin Known
    BY <1>6, <2>2
  <2> QED
    BY <2>1, <2>2
<1>9. PpidsOK'
  <2> SUFFICES ASSUME NEW q \in alive, q \in Known' PROVE Info(q)'.ppid \in {0, parentOf[q]}
    BY <1>1 DEF PpidsOK
  <2>1. CASE q = p
    BY <1>7, <1>8, <2>1
  <2>2. CASE q # p
    BY <1>7, <2>2 DEF LostInv, PpidsOK, Known
  <2> QED
    BY <2>1, <2>2
<1>10. \A q \in Pids : Marked(q)' <=> q = p \/ Marked(q)
  BY <1>2, <1>7, <1>8 DEF Marked, FlagsOf
<1>11. WalksOK'
  <2> SUFFICES ASSUME NEW q \in Known', Marked(q)', NEW u, u = Info(q)'.ppid, u > 0
               PROVE  u \in Known' /\ Marked(u)'
    BY <1>5 DEF WalksOK, Closed, Scanning
  <2>0. q \in Pids
    BY <1>2, <1>7 DEF Known
  <2>1. CASE q = p
    <3>2. u = parentOf[p] /\ u > 0
      BY <1>7, <1>8, <2>1
    <3>3. u \in alive /\ u < p
      BY <1>2, <1>3, <3>2, ParentAlive
    <3>4. u \in Known /\ Marked(u) /\ u \in Pids
      BY <1>1, <1>2, <1>3, <3>3 DEF TreeInv, MarksOK, Scanning, Known
    <3> QED
      BY <1>7, <1>10, <3>4
  <2>2. CASE q # p
    <3>2. q \in Known /\ Marked(q) /\ u = Info(q).ppid /\ u > 0
      BY <1>7, <1>10, <2>0, <2>2
    <3>3. u \in Known /\ Marked(u) /\ u \in Pids
      BY <1>1, <3>2 DEF LostInv, WalksOK, Closed, Scanning, Known
    <3> QED
      BY <1>7, <1>10, <3>3
  <2> QED
    BY <2>1, <2>2
<1>12. RootOK'
  BY <1>1, <1>5, <1>7 DEF LostInv, RootOK, Scanning
<1> QED
  BY <1>3, <1>4, <1>9, <1>11, <1>12 DEF LostInv

\* The parent that is recorded runs, has a smaller PID, and is marked.
LEMMA LostPpid ==
  ASSUME LostInv, ~ Orphans, ReadPpid PROVE LostInv'
<1>0. PICK p : p = pos
  OBVIOUS
<1> DEFINE i == [Info(p) EXCEPT !.ppid = get_ppid_of(p)]
<1>1. /\ pc = "ppid" /\ pc' = "scan" /\ pos' = pos /\ updates' = updates /\ alive' = alive
      /\ parentOf' = parentOf /\ dangling' = dangling
  BY DEF ReadPpid, restVars, procVars
<1>2. TreeInv /\ TreeInv'
  BY PpidStep DEF LostInv
<1>3. /\ p \in Known /\ p \in Pids /\ OnlyAt(p, {i}, trie, trie')
      /\ i.ppid = get_ppid_of(p) /\ i.flags = FlagsOf(p)
  <2>1. Info(p) \in Infos
    BY <1>0, <1>2, PpidFacts, InfoFacts DEF TreeInv, NodesOK
  <2> QED
    BY <1>0, <1>2, <2>1, PpidFacts DEF Infos, FlagsOf
<1> HIDE DEF i
<1>4. /\ Known' = Known /\ Info(p)' = i
      /\ \A q \in Pids \ {p} : Info(q)' = Info(q) /\ FlagsOf(q)' = FlagsOf(q)
  BY <1>3, ChangeFacts
<1>5. \A q \in Pids : Marked(q)' = Marked(q)
  BY <1>1, <1>3, <1>4 DEF Marked, FlagsOf
<1>6. Info(p)'.ppid = IF p \in alive THEN parentOf[p] ELSE -1
  BY <1>3, <1>4 DEF get_ppid_of
<1>7. PpidsOK'
  <2> SUFFICES ASSUME NEW q \in alive, q \in Known PROVE Info(q)'.ppid \in {0, parentOf[q]}
    BY <1>1, <1>4 DEF PpidsOK
  <2>1. CASE q = p
    BY <1>6, <2>1
  <2>2. CASE q # p
    BY <1>4, <2>2 DEF LostInv, PpidsOK, Known
  <2> QED
    BY <2>1, <2>2
<1>8. WalksOK'
  <2> SUFFICES ASSUME NEW q \in Known', Marked(q)', NEW u, u = Info(q)'.ppid, u > 0
               PROVE  u \in Known' /\ Marked(u)'
    BY <1>1 DEF WalksOK, Closed, Scanning
  <2>1. CASE q = p
    <3>1. p \in alive /\ u = parentOf[p] /\ u > 0
      BY <1>6, <2>1
    <3>2. u \in alive /\ u < p
      BY <1>2, <3>1, ParentAlive
    <3>3. u \in Pids /\ u <= pos
      <4>1. u \in Pids /\ u < p /\ p \in Pids
        BY <1>2, <1>3, <3>2 DEF TreeInv, ProcTypes
      <4> QED
        BY <1>0, <4>1, Consts
    <3>4. u \in Known /\ Marked(u)
      BY <1>1, <1>2, <3>2, <3>3 DEF TreeInv, MarksOK, Scanning
    <3> QED
      BY <1>4, <1>5, <3>3, <3>4
  <2>2. CASE q # p
    <3>1. q \in Known /\ q \in Pids /\ Marked(q) /\ u = Info(q).ppid /\ u > 0
      BY <1>4, <1>5, <2>2 DEF Known
    <3>2. u \in Known /\ Marked(u) /\ u \in Pids
      BY <1>1, <3>1 DEF LostInv, WalksOK, Closed, Scanning, Known
    <3> QED
      BY <1>4, <1>5, <3>2
  <2> QED
    BY <2>1, <2>2
<1>9. RootOK'
  BY <1>1, <1>4 DEF LostInv, RootOK, Scanning
<1> QED
  BY <1>1, <1>2, <1>7, <1>8, <1>9 DEF LostInv

\* A process removed is no recorded parent of one that stays; init and kthreadd stay,
\* so both links of the root do.
LEMMA LostUpdate ==
  ASSUME LostInv, ~ Orphans, UpdateItem PROVE LostInv'
<1>1. TreeInv /\ TreeInv'
  BY UpdateStep DEF LostInv
<1>2. PICK p \in ToGo :
        /\ pos' = p /\ p \in Known /\ p \in Pids
        /\ \/ WalkIsLost(p)
           \/ /\ ~ WalkIsLost(p) /\ pc' = pc /\ ToGo' = ToGo \ {p} /\ NodesOK'
              /\ \A q \in Pids \ {p} : Info(q)' = Info(q) /\ FlagsOf(q)' = FlagsOf(q)
              /\ \/ /\ Marked(p) /\ Known' = Known
                    /\ Info(p)'.ppid = Info(p).ppid /\ dangling' = dangling
                 \/ /\ ~ Marked(p) /\ Known' = Known \ {p}
                    /\ \A q \in Known \ {p} :
                         q % 2 \notin dangling => q % 2 \notin dangling'
  BY <1>1, UpdateFacts
<1>3. /\ pc = "item" /\ updates' = updates /\ alive' = alive /\ parentOf' = parentOf
  BY DEF UpdateItem, restVars, procVars
<1> DEFINE S == {q \in Known : Stays(q)}
<1>4. ~ WalkIsLost(p)
  <2> SUFFICES ASSUME Marked(p) PROVE \A F : Above(p, F) # "lost"
    BY DEF WalkIsLost, ToParents, Marked
  <2>1. Closed(S) /\ S \in SUBSET Known /\ p \in S
    BY <1>2, <1>3 DEF LostInv, WalksOK, Stays
  <2> HIDE DEF S
  <2> QED
    BY <1>1, <2>1, NotLost
<1>5. /\ pc' = pc /\ ToGo' = ToGo \ {p} /\ NodesOK' /\ Known' \subseteq Known
      /\ \A q \in Pids \ {p} : Info(q)' = Info(q) /\ FlagsOf(q)' = FlagsOf(q)
      /\ p \in Known' => Info(p)'.ppid = Info(p).ppid
      /\ Known' = IF Marked(p) THEN Known ELSE Known \ {p}
  BY <1>2, <1>4
<1>6. \A q \in Known' : Info(q)'.ppid = Info(q).ppid
  BY <1>5 DEF Known
<1>7. PpidsOK'
  BY <1>3, <1>5, <1>6 DEF LostInv, PpidsOK
<1>8. \A q : q \in Known' /\ Stays(q)' <=> q \in Known /\ Stays(q)
  <2> TAKE q
  <2>1. CASE q = p
    BY <1>2, <1>5, <2>1 DEF Stays
  <2>2. CASE q # p
    <3>1. q \in Known' <=> q \in Known
      BY <1>5, <2>2
    <3>2. q \in Known => (Marked(q)' <=> Marked(q))
      BY <1>5, <2>2 DEF Known, Marked
    <3> QED
      BY <1>5, <2>2, <3>1, <3>2 DEF Stays
  <2> QED
    BY <2>1, <2>2
<1>9. WalksOK'
  <2> SUFFICES ASSUME NEW q \in Known', Stays(q)', NEW u, u = Info(q)'.ppid, u > 0
               PROVE  u \in Known' /\ Stays(u)'
    BY <1>3, <1>5 DEF WalksOK, Closed, Scanning
  <2>1. q \in Known /\ Stays(q) /\ u = Info(q).ppid /\ u > 0
    BY <1>6, <1>8
  <2>2. u \in Known /\ Stays(u)
    BY <1>3, <2>1 DEF LostInv, WalksOK, Closed
  <2> QED
    BY <1>8, <2>2
<1>10. RootOK'
  <2>1. {1, 2} \subseteq Known /\ dangling = {} /\ {1, 2} \subseteq alive
    BY <1>1, <1>3, Consts DEF LostInv, RootOK, TreeInv, BirthsOK
  <2>2. ~ Marked(p) => p \notin {1, 2}
    BY <1>1, <1>2, <1>3, <2>1 DEF TreeInv, MarksOK
  <2>3. {1, 2} \subseteq Known'
    BY <1>5, <2>1, <2>2
  <2>4. dangling' = {}
    <3>1. CASE dangling' = dangling
      BY <2>1, <3>1
    <3>2. CASE ~ Marked(p) /\ \A q \in Known \ {p} :
                 q % 2 \notin dangling => q % 2 \notin dangling'
      <4>1. 1 % 2 = 1 /\ 2 % 2 = 0
        OBVIOUS
      <4>2. 1 \notin dangling' /\ 0 \notin dangling'
        BY <2>1, <2>2, <3>2, <4>1
      <4> QED
        BY <1>5, <4>2 DEF NodesOK
    <3> QED
      BY <1>2, <1>4, <3>1, <3>2
  <2> QED
    BY <1>3, <1>5, <2>3, <2>4 DEF RootOK
<1> QED
  BY <1>1, <1>3, <1>5, <1>7, <1>9, <1>10 DEF LostInv

\* The other steps of the limiter.
LEMMA LostStages ==
  ASSUME LostInv, EndScan \/ EndUpdate \/ EndSnapshot \/ update_proc_tree
                  \/ trie_deallocate \/ EndFree
  PROVE  LostInv'
<1>1. /\ trie' = trie /\ dangling' = dangling /\ alive' = alive /\ parentOf' = parentOf
  BY DEF EndScan, EndUpdate, EndSnapshot, update_proc_tree, trie_deallocate, EndFree,
     treeVars, procVars
<1>2. TreeInv /\ TreeInv'
  BY EndScanStep, EndUpdateStep, IdleStep DEF LostInv
<1>3. PpidsOK'
  BY <1>1, KeptParents DEF LostInv
<1>4. CASE EndScan
  <2>1. /\ pc = "scan" /\ Unread = {} /\ pos' = 0 /\ pc' = "item"
    BY <1>4 DEF EndScan, LostInv, RootOK
  <2>2. ToGo' = Known
    BY <1>1, <2>1 DEF ToGo, ToVisit, Known
  <2>3. \A p \in Known : Stays(p)' <=> Marked(p)
    BY <1>1, <2>2, SameKnown DEF Stays
  <2>4. WalksOK'
    BY <1>1, <2>1, <2>3, SameKnown DEF LostInv, WalksOK, Closed, Scanning
  <2>5. {1, 2} \subseteq Known
    <3>1. {1, 2} \subseteq alive /\ \A p \in {1, 2} : p \in Nat /\ ~ (p > pos)
      BY <1>2, <2>1, Consts DEF TreeInv, BirthsOK, Unread
    <3> QED
      BY <1>2, <2>1, <3>1, Consts DEF TreeInv, MarksOK, ProcTypes, Scanning
  <2> QED
    BY <1>1, <1>2, <1>3, <2>1, <2>4, <2>5, SameKnown DEF LostInv, RootOK, Scanning
<1>5. CASE EndUpdate \/ EndSnapshot \/ trie_deallocate \/ EndFree
  <2>1. /\ pc' \in {"snapshot", "idle", "free", "gone"}
        /\ pc' \in {"snapshot", "idle"} => pc \in {"item", "snapshot"}
        /\ pc \in {"free", "gone"} => pc' = "gone"
    BY <1>5 DEF EndUpdate, EndSnapshot, trie_deallocate, EndFree, LostInv, RootOK
  <2> QED
    BY <1>1, <1>2, <1>3, <2>1, SameKnown DEF LostInv, WalksOK, RootOK, Scanning
<1>6. CASE update_proc_tree
  <2>1. pc = "idle" /\ pc' = "scan"
    BY <1>6 DEF update_proc_tree
  <2>2. \A p \in Known : ~ Marked(p)
    BY <1>2, <2>1 DEF TreeInv, MarksOK
  <2>3. WalksOK'
    BY <1>1, <2>1, <2>2, SameKnown DEF WalksOK, Closed, Scanning
  <2> QED
    BY <1>1, <1>2, <1>3, <2>1, <2>3, SameKnown DEF LostInv, RootOK, Scanning
<1> QED
  BY <1>4, <1>5, <1>6

\* The snapshot and trie_deallocate change no recorded parent of a kept process.
LEMMA LostVisits ==
  ASSUME LostInv, update_snapshot_pid \/ trie_node_free PROVE LostInv'
<1>0. PICK p : p = NextVisited(trie, Pids, pos)
  OBVIOUS
<1>1. /\ ToGo # {} /\ pos' = p /\ alive' = alive /\ parentOf' = parentOf /\ pc' = pc
      /\ updates' = updates /\ pc \in {"snapshot", "free"}
  BY <1>0 DEF update_snapshot_pid, trie_node_free, ToGo, procVars, restVars
<1>2. TreeInv /\ TreeInv' /\ p \in Known
  BY <1>0, <1>1, SnapshotStep, FreeStep, NextInTree DEF LostInv
<1>3. CASE update_snapshot_pid
  <2> DEFINE flags == FlagsOf(p) \ {"CHILD"}
             i == [Info(p) EXCEPT !.flags =
                     IF "STOPPABLE" \in flags THEN flags \cup {"PARENT"} ELSE flags]
  <2>1. /\ pc = "snapshot" /\ trie' = Stored(p, i, trie) /\ UNCHANGED <<num_nodes, dangling>>
    BY <1>0, <1>3 DEF update_snapshot_pid
  <2>2. i \in Infos /\ i.ppid = Info(p).ppid
    <3>1. Info(p) \in Infos /\ FlagsOf(p) \subseteq Flags
      BY <1>2, InfoFacts DEF TreeInv, NodesOK
    <3> QED
      BY <3>1 DEF Infos, Flags
  <2> HIDE DEF i
  <2>3. /\ Known' = Known /\ Info(p)' = i
        /\ \A q \in Pids \ {p} : Info(q)' = Info(q) /\ FlagsOf(q)' = FlagsOf(q)
    BY <1>0, <1>1, <1>2, <2>1, <2>2, StoreVisit
  <2>4. PpidsOK'
    BY <1>1, <2>2, <2>3 DEF LostInv, PpidsOK, Known
  <2> QED
    BY <1>1, <1>2, <2>1, <2>3, <2>4 DEF LostInv, WalksOK, RootOK, Scanning
<1>4. CASE trie_node_free
  <2>1. pc = "free" /\ RemoveNode(p)
    BY <1>0, <1>4 DEF trie_node_free
  <2>2. /\ Known' = Known \ {p}
        /\ \A q \in Pids \ {p} : Info(q)' = Info(q) /\ FlagsOf(q)' = FlagsOf(q)
    BY <1>0, <1>1, <1>2, <2>1, DropVisit
  <2>3. PpidsOK'
    BY <1>1, <2>2 DEF LostInv, PpidsOK, Known
  <2> QED
    BY <1>1, <1>2, <2>1, <2>3 DEF LostInv, WalksOK, RootOK, Scanning
<1> QED
  BY <1>3, <1>4

\* Every step keeps the invariant.
LEMMA LostNext ==
  ASSUME ~ Orphans PROVE LostInv /\ [Next]_vars => LostInv'
<1> SUFFICES ASSUME LostInv, [Next]_vars PROVE LostInv'
  OBVIOUS
<1>1. CASE ScanEntry
  BY <1>1, LostScan
<1>2. CASE ReadPpid
  BY <1>2, LostPpid
<1>3. CASE UpdateItem
  BY <1>3, LostUpdate
<1>4. CASE EndScan \/ EndUpdate \/ EndSnapshot \/ update_proc_tree
           \/ trie_deallocate \/ EndFree
  BY <1>4, LostStages
<1>5. CASE update_snapshot_pid \/ trie_node_free
  BY <1>5, LostVisits
<1>6. CASE \E p \in Pids : fork(p) \/ exit(p)
  BY <1>6, LostProcs
<1>7. CASE UNCHANGED vars
  <2>1. TreeInv'
    BY <1>7, TreeNext DEF LostInv
  <2>2. /\ trie' = trie /\ dangling' = dangling /\ alive' = alive /\ parentOf' = parentOf
        /\ pc' = pc /\ pos' = pos /\ updates' = updates
    BY <1>7 DEF vars, treeVars, procVars, restVars
  <2>3. ToGo' = ToGo /\ \A q : Stays(q)' = Stays(q)
    BY <2>2, SameKnown DEF Stays
  <2> QED
    BY <2>1, <2>2, <2>3, SameKnown, KeptParents DEF LostInv, WalksOK, RootOK, Closed, Scanning
<1> QED
  BY <1>1, <1>2, <1>3, <1>4, <1>5, <1>6, <1>7 DEF Next, limiter

\* As long as no process exits before its children, no update dereferences a missing parent
\* or the dangling link of the root (get_children.c:213, 237; trie.c:156).
THEOREM NothingIsLost ==
  ASSUME ~ Orphans PROVE Spec => []NeverLost
<1>1. Init => LostInv
  BY LostInit
<1>2. LostInv /\ [Next]_vars => LostInv'
  BY LostNext
<1>3. LostInv => NeverLost
  BY DEF LostInv, NeverLost
<1> QED
  BY <1>1, <1>2, <1>3, PTL DEF Spec

-----------------------------------------------------------------------------
(* The trie implements a map *)

\* A change at the key that pos names is a call of the map or none.
LEMMA MapStep ==
  ASSUME NEW k \in Pids, pos' = k, NEW v, OnlyAt(k, v, trie, trie')
  PROVE  [M!Next]_([p \in Pids |-> trie_value(p, trie)])
<1> DEFINE m == [p \in Pids |-> trie_value(p, trie)]
           n == [p \in Pids |-> trie_value(p, trie')]
<1>1. m' = n
  OBVIOUS
<1>2. n[k] = v /\ \A o \in Pids \ {k} : n[o] = m[o]
  BY DEF OnlyAt
<1>3. CASE n = m
  BY <1>1, <1>3
<1>4. CASE n # m
  <2>1. n[k] # m[k]
    BY <1>2, <1>4
  <2>2. /\ DOMAIN n = Pids /\ \A o \in Pids \ {k} : n[o] = m[o]
        /\ \/ m[k] = {} /\ n[k] # {}
           \/ m[k] # {} /\ n[k] = {}
           \/ m[k] # {} /\ n[k] \notin {m[k], {}}
    BY <1>2, <2>1
  <2> QED
    BY <1>1, <2>2 DEF M!Next, M!OthersKept, M!Insert, M!Remove, M!Change
<1> QED
  BY <1>3, <1>4

\* Every step changes at most the value of the process that pos names.
LEMMA TreeSteps ==
  ASSUME TreeInv, [Next]_vars
  PROVE  trie' = trie \/ \E k \in Pids : \E v : pos' = k /\ OnlyAt(k, v, trie, trie')
<1>1. CASE ScanEntry
  BY <1>1, ScanFacts DEF SameTree, treeVars
<1>2. CASE ReadPpid
  BY <1>2, PpidFacts DEF ReadPpid
<1>3. CASE UpdateItem
  BY <1>3, UpdateFacts DEF treeVars
<1>4. CASE update_snapshot_pid \/ trie_node_free
  <2>0. PICK p : p = NextVisited(trie, Pids, pos)
    OBVIOUS
  <2>1. ToGo # {} /\ pos' = p
    BY <1>4, <2>0 DEF update_snapshot_pid, trie_node_free, ToGo
  <2>2. p \in Known /\ p \in Pids
    BY <2>0, <2>1, NextInTree
  <2>3. CASE update_snapshot_pid
    <3> DEFINE flags == FlagsOf(p) \ {"CHILD"}
               i == [Info(p) EXCEPT !.flags =
                       IF "STOPPABLE" \in flags THEN flags \cup {"PARENT"} ELSE flags]
    <3>1. trie' = Stored(p, i, trie) /\ UNCHANGED <<num_nodes, dangling>>
      BY <2>0, <2>3 DEF update_snapshot_pid
    <3>2. i \in Infos
      <4>1. Info(p) \in Infos /\ FlagsOf(p) \subseteq Flags
        BY <2>2, InfoFacts DEF TreeInv, NodesOK
      <4> QED
        BY <4>1 DEF Infos, Flags
    <3> HIDE DEF i
    <3> QED
      BY <2>0, <2>1, <2>2, <3>1, <3>2, StoreVisit
  <2>4. CASE trie_node_free
    BY <2>0, <2>1, <2>2, <2>4, DropVisit DEF trie_node_free
  <2> QED
    BY <1>4, <2>3, <2>4
<1>5. CASE ~ (ScanEntry \/ ReadPpid \/ UpdateItem \/ update_snapshot_pid \/ trie_node_free)
  BY <1>5 DEF Next, limiter, vars, treeVars, fork, exit, EndScan, EndUpdate, EndSnapshot,
     update_proc_tree, trie_deallocate, EndFree
<1> QED
  BY <1>1, <1>2, <1>3, <1>4, <1>5

\* The trie is the map that trie.h promises: each step of the limiter inserts, removes or
\* changes the value of the one process it names.
THEOREM TrieImplementsMap == Spec => ImplementsMap
<1>1. Init => M!Init
  BY DEF M!Init
<1>2. TreeInv /\ [Next]_vars => [M!Next]_([p \in Pids |-> trie_value(p, trie)])
  <2> SUFFICES ASSUME TreeInv, [Next]_vars
               PROVE  [M!Next]_([p \in Pids |-> trie_value(p, trie)])
    OBVIOUS
  <2>1. CASE trie' = trie
    BY <2>1
  <2>2. CASE \E k \in Pids : \E v : pos' = k /\ OnlyAt(k, v, trie, trie')
    BY <2>2, MapStep
  <2> QED
    BY <2>1, <2>2, TreeSteps
<1> QED
  BY <1>1, <1>2, TreeInvAlways, PTL DEF Spec, ImplementsMap, M!Spec

-----------------------------------------------------------------------------
(* Descent *)

\* The recursion of Descends without its bound, for any table of parents.
ReachRule(par, S, f, q) == q \in S \/ (par[q] # 0 /\ f[par[q]])
Reach(par, S) == CHOOSE f : f = [q \in Pids |-> ReachRule(par, S, f, q)]
Parents == {par \in [Pids -> 0..MaxPid] : \A q \in Pids : par[q] < q}

\* A table of parents with smaller PIDs tells of each process whether it descends from S.
LEMMA ReachUnfolds ==
  ASSUME NEW par \in Parents, NEW S
  PROVE  \A q \in Pids : Reach(par, S)[q] = ReachRule(par, S, Reach(par, S), q)
<1> DEFINE Exists(k) == \E f : f = [q \in 1..k |-> ReachRule(par, S, f, q)]
           T == {k \in Nat : k <= MaxPid => Exists(k)}
<1>1. Exists(0)
  <2> DEFINE f == [q \in 1..0 |-> TRUE]
  <2>1. 1..0 = {}
    OBVIOUS
  <2>2. f = [q \in 1..0 |-> ReachRule(par, S, f, q)]
    <3> HIDE DEF ReachRule
    <3> QED
      BY <2>1
  <2> QED
    BY <2>2
<1>2. ASSUME NEW k \in Nat, Exists(k), k + 1 <= MaxPid PROVE Exists(k + 1)
  <2>1. PICK f : f = [q \in 1..k |-> ReachRule(par, S, f, q)]
    BY <1>2
  <2> DEFINE g == [q \in 1..(k+1) |-> IF q \in 1..k THEN f[q] ELSE ReachRule(par, S, f, q)]
  <2>2. ASSUME NEW q \in 1..(k+1) PROVE g[q] = ReachRule(par, S, g, q)
    <3>1. g[q] = ReachRule(par, S, f, q)
      <4>1. CASE q \in 1..k
        <5>1. f[q] = ReachRule(par, S, f, q)
          <6> HIDE DEF ReachRule
          <6> QED
            BY <2>1, <4>1
        <5> QED
          BY <4>1, <5>1
      <4>2. CASE q \notin 1..k
        BY <4>2
      <4> QED
        BY <4>1, <4>2
    <3>2. q \in Pids /\ par[q] \in 0..MaxPid /\ par[q] < q
      BY <1>2, Consts DEF Parents
    <3>3. par[q] # 0 => par[q] \in 1..k /\ par[q] \in 1..(k+1)
      BY <3>2, Consts
    <3>4. par[q] # 0 => g[par[q]] = f[par[q]]
      BY <3>3
    <3> HIDE DEF g
    <3>5. ReachRule(par, S, g, q) = ReachRule(par, S, f, q)
      <4>1. CASE par[q] # 0
        <5>1. g[par[q]] = f[par[q]]
          BY <3>4, <4>1
        <5> QED
          BY <5>1, Zenon DEF ReachRule
      <4>2. CASE par[q] = 0
        BY <4>2, Zenon DEF ReachRule
      <4> QED
        BY <4>1, <4>2
    <3> QED
      BY <3>1, <3>5
  <2>3. g = [q \in 1..(k+1) |-> ReachRule(par, S, g, q)]
    <3>1. \A q \in 1..(k+1) : g[q] = ReachRule(par, S, g, q)
      BY <2>2
    <3>2. g = [q \in 1..(k+1) |-> g[q]]
      OBVIOUS
    <3> HIDE DEF g, ReachRule
    <3> QED
      BY <3>1, <3>2
  <2> HIDE DEF g
  <2> QED
    BY <2>3
<1>3. \A k \in Nat : k \in T
  <2>1. 0 \in T
    <3> HIDE DEF Exists
    <3> QED
      BY <1>1
  <2>2. ASSUME NEW k \in T PROVE k + 1 \in T
    <3> HIDE DEF Exists
    <3>1. k \in Nat /\ (k + 1 <= MaxPid => k <= MaxPid)
      BY Consts
    <3> QED
      BY <1>2, <3>1
  <2> HIDE DEF T
  <2> QED
    BY <2>1, <2>2, Induction
<1>4. Exists(MaxPid)
  <2>1. MaxPid \in T /\ MaxPid <= MaxPid
    <3> HIDE DEF T
    <3> QED
      BY <1>3, Consts
  <2> HIDE DEF Exists
  <2> QED
    BY <2>1
<1> DEFINE r == Reach(par, S)
<1>5. r = [q \in Pids |-> ReachRule(par, S, r, q)]
  <2>1. \E f : f = [q \in Pids |-> ReachRule(par, S, f, q)]
    BY <1>4 DEF Pids
  <2> HIDE DEF ReachRule
  <2> QED
    BY <2>1 DEF Reach
<1> HIDE DEF r
<1>6. \A q \in Pids : r[q] = ReachRule(par, S, r, q)
  <2> HIDE DEF ReachRule
  <2> QED
    BY <1>5
<1> QED
  BY <1>6 DEF r

\* Tables that agree on the PIDs up to b agree on who descends from whom there.
LEMMA ReachKept ==
  ASSUME NEW par \in Parents, NEW qar \in Parents, NEW S, NEW b \in Nat,
         \A q \in Pids : q <= b => par[q] = qar[q],
         NEW p \in Pids, p <= b
  PROVE  Reach(par, S)[p] = Reach(qar, S)[p]
<1> DEFINE f == Reach(par, S)
           g == Reach(qar, S)
           T == {n \in Nat : \A q \in Pids : q <= n /\ q <= b => f[q] = g[q]}
<1>1. /\ \A q \in Pids : f[q] = ReachRule(par, S, f, q)
      /\ \A q \in Pids : g[q] = ReachRule(qar, S, g, q)
  BY ReachUnfolds
<1> HIDE DEF f, g
<1>2. 0 \in T
  BY Consts
<1>3. ASSUME NEW n \in T PROVE n + 1 \in T
  <2> SUFFICES ASSUME NEW q \in Pids, q <= n + 1, q <= b PROVE f[q] = g[q]
    OBVIOUS
  <2>1. par[q] = qar[q] /\ par[q] \in 0..MaxPid /\ par[q] < q /\ q \in Nat /\ n \in Nat
    BY Consts DEF Parents
  <2>2. par[q] # 0 => par[q] \in Pids /\ par[q] <= n /\ par[q] <= b
    BY <2>1, Consts
  <2>3. par[q] # 0 => f[par[q]] = g[par[q]]
    BY <2>2
  <2>4. f[q] = ReachRule(par, S, f, q) /\ g[q] = ReachRule(qar, S, g, q)
    BY <1>1
  <2>5. ReachRule(par, S, f, q) = ReachRule(qar, S, g, q)
    <3>1. CASE par[q] # 0
      <4>1. f[par[q]] = g[par[q]]
        BY <2>3, <3>1
      <4>2. f[par[q]] = g[qar[q]] /\ par[q] = qar[q]
        BY <2>1, <4>1
      <4> QED
        BY <4>2, Zenon DEF ReachRule
    <3>2. CASE par[q] = 0
      <4>1. qar[q] = 0
        BY <2>1, <3>2
      <4> QED
        BY <3>2, <4>1, Zenon DEF ReachRule
    <3> QED
      BY <3>1, <3>2
  <2> QED
    BY <2>4, <2>5
<1>4. \A n \in Nat : n \in T
  <2>1. \A n \in Nat : n \in T => n + 1 \in T
    BY <1>3
  <2> HIDE DEF T
  <2> QED
    BY <1>2, <2>1, Induction
<1>5. p \in Nat /\ p \in T /\ p <= p
  <2>1. p \in Nat /\ p <= p
    BY Consts
  <2> HIDE DEF T
  <2> QED
    BY <1>4, <2>1
<1>6. f[p] = g[p]
  BY <1>5
<1> QED
  BY <1>6 DEF f, g

\* Descends is read off the table of parents in this way ...
LEMMA DescendsReach ==
  \A p, S : Descends(p, S) = Reach(parentOf, S)[p]
BY DEF Descends, Reach, ReachRule

\* ... so that it goes up one step at a time.
LEMMA DescendsUnfolds ==
  ASSUME TreeInv, NEW S, NEW p \in Pids
  PROVE  Descends(p, S) <=> p \in S \/ (parentOf[p] # 0 /\ Descends(parentOf[p], S))
<1>1. parentOf \in Parents
  BY DEF TreeInv, ProcTypes, BirthsOK, Parents
<1>2. Reach(parentOf, S)[p] = ReachRule(parentOf, S, Reach(parentOf, S), p)
  BY <1>1, ReachUnfolds
<1> QED
  BY <1>2, DescendsReach, Zenon DEF ReachRule

-----------------------------------------------------------------------------
(* ListsTheWanted: the invariant *)

\* early is set, and so is the effect of -o without -p.
Late == updates > 1 \/ pc \notin {"scan", "ppid", "item"}
\* The processes that the command line names.
Listing == mode.parents \cup mode.exclusions
\* trie_deallocate has begun.
Freeing == pc \in {"free", "gone"}
Recorded(p) == Info(p).ppid = parentOf[p]
\* What the options ask for.
UnderExclusion(p) ==
  IF mode.x THEN p \in mode.exclusions ELSE Descends(p, mode.exclusions)
UnderParent(p) ==
  IF mode.o /\ mode.p THEN p \in mode.parents ELSE Descends(p, mode.parents)
Asked(p) == /\ p \notin Stubborn /\ ~ UnderExclusion(p) /\ UnderParent(p)
            /\ mode.o /\ ~ mode.p /\ Late => p \in early
InList(p) == \E i \in 1..Len(stoppableList) : stoppableList[i] = p

\* When explicitParentList is set.
OptionsOK ==
  /\ explicitParentList => mode.o
  /\ pc = "snapshot" => mode.o /\ ~ mode.p /\ ~ explicitParentList
  /\ mode.o => (explicitParentList <=> mode.p \/ updates > 1
                                       \/ pc \notin {"scan", "ppid", "item", "snapshot"})
\* The named and the early processes that run are in the tree.
ListingOK ==
  /\ ~ Freeing => alive \cap (Listing \cup early) \subseteq Known
  /\ Late => alive \cap Listing \subseteq early
  /\ \A p \in Listing \cup early : p <= born
\* The parents of the processes read so far are recorded, unless no walk needs them.
RecordsOK ==
  ~ (explicitParentList /\ mode.x) =>
    /\ Scanning => \A p \in alive : p <= pos /\ ~ (pc = "ppid" /\ p = pos) => Recorded(p)
    /\ pc = "item" => \A p \in alive \cap Known : Recorded(p)
\* NEW goes when a process is visited; until then it is not stoppable, and a parent only
\* if it is named as one.
NewOK ==
  /\ pc = "item" => \A p \in Known \ ToGo : "NEW" \notin FlagsOf(p)
  /\ pc \in {"snapshot", "idle"} => \A p \in Known : "NEW" \notin FlagsOf(p)
  /\ \A p \in alive \cap Known : "NEW" \in FlagsOf(p) =>
       /\ "STOPPABLE" \notin FlagsOf(p)
       /\ p \notin mode.parents => "PARENT" \notin FlagsOf(p)
       /\ Late => p \notin early
\* The flags of a running process say of it what the options ask.
FlagsOK ==
  \A p \in alive \cap Known :
    /\ p \in mode.exclusions => "EXCLUDE" \in FlagsOf(p)
    /\ p \in mode.parents \ mode.exclusions => "PARENT" \in FlagsOf(p)
    /\ "EXCLUDE" \in FlagsOf(p) => UnderExclusion(p)
    /\ FlagsOf(p) \cap {"PARENT", "CHILD"} # {} => UnderParent(p)
    /\ "NEW" \notin FlagsOf(p) => ("STOPPABLE" \in FlagsOf(p) <=> Asked(p))
\* The list holds the stoppable ones of the processes visited.
ListOK ==
  /\ pc = "item" => \A p \in Known : InList(p) <=> p \notin ToGo /\ "STOPPABLE" \in FlagsOf(p)
  /\ pc \in {"snapshot", "idle"} => \A p \in Known : InList(p) <=> "STOPPABLE" \in FlagsOf(p)

\* The inductive invariant.
ListInv == LostInv /\ OptionsOK /\ ListingOK /\ RecordsOK /\ NewOK /\ FlagsOK /\ ListOK

-----------------------------------------------------------------------------
(* The walks find what the options say *)

\* The walk from a known process, one step at a time.
LEMMA AboveRule ==
  ASSUME TreeInv, NEW p \in Known, NEW flags
  PROVE  LET up == Info(p).ppid IN
         Above(p, flags) = IF up <= 0 THEN "top" ELSE IF ~ Has(up, trie) THEN "lost"
                           ELSE IF FlagsOf(up) \cap flags # {} THEN "found"
                           ELSE Above(up, flags)
<1>1. PICK w : /\ \A q \in Known : w[q] = WalkRule(w, q, flags)
               /\ \A q : Above(q, flags) = w[q]
  BY AboveUnfolds
<1> QED
  BY <1>1 DEF WalkRule

\* The recorded parent of a running process in an update.
LEMMA UpAlive ==
  ASSUME LostInv, ~ Orphans, pc = "item", NEW p \in alive \cap Known, Recorded(p)
  PROVE  /\ p \in Nat /\ p \in Pids /\ Info(p).ppid = parentOf[p] /\ Info(p).ppid \in Nat
         /\ Info(p).ppid # 0 => /\ Info(p).ppid > 0 /\ Info(p).ppid < p
                                /\ Info(p).ppid \in alive \cap Known
                                /\ Has(Info(p).ppid, trie)
<1> DEFINE up == parentOf[p]
<1>1. TreeInv /\ p \in Pids /\ p \in Nat /\ up \in 0..MaxPid /\ up \in Nat
  BY Consts DEF LostInv, TreeInv, ProcTypes
<1>2. Info(p).ppid = up
  BY DEF Recorded
<1>3. up = 0 \/ (up \in alive /\ up < p)
  BY <1>1, ParentAlive
<1>4. p \in {q \in Known : Stays(q)}
  BY <1>1 DEF Stays, TreeInv, MarksOK
<1>5. up > 0 => up \in Known
  BY <1>2, <1>4 DEF LostInv, WalksOK, Closed
<1> HIDE DEF up
<1>6. up # 0 => up > 0 /\ up < p /\ up \in alive \cap Known /\ Has(up, trie)
  BY <1>1, <1>3, <1>5 DEF Known
<1> QED
  BY <1>1, <1>2, <1>6 DEF up

\* What a walk finds is an ancestor ...
LEMMA FoundDescends ==
  ASSUME LostInv, ~ Orphans, pc = "item", \A a \in alive \cap Known : Recorded(a),
         NEW S, NEW flags,
         \A a \in alive \cap Known : FlagsOf(a) \cap flags # {} => Descends(a, S),
         NEW p \in alive \cap Known, Above(p, flags) = "found"
  PROVE  Descends(p, S)
<1> DEFINE T == {n \in Nat : \A q \in alive \cap Known :
                               q <= n /\ Above(q, flags) = "found" => Descends(q, S)}
<1>1. 0 \in T
  BY Consts DEF Known
<1>2. ASSUME NEW n \in T PROVE n + 1 \in T
  <2> SUFFICES ASSUME NEW q \in alive \cap Known, q <= n + 1, Above(q, flags) = "found"
               PROVE  Descends(q, S)
    OBVIOUS
  <2>1. TreeInv /\ q \in Pids /\ q \in Nat /\ n \in Nat
    BY UpAlive DEF LostInv
  <2>2. PICK up : up = parentOf[q]
    OBVIOUS
  <2>3. /\ Info(q).ppid = up /\ up \in Nat
        /\ up # 0 => up > 0 /\ up < q /\ up \in alive \cap Known /\ Has(up, trie)
    BY <2>2, UpAlive
  <2>4. Above(q, flags) = IF up <= 0 THEN "top" ELSE IF ~ Has(up, trie) THEN "lost"
                          ELSE IF FlagsOf(up) \cap flags # {} THEN "found"
                          ELSE Above(up, flags)
    BY <2>1, <2>3, AboveRule
  <2>5. up # 0 /\ (FlagsOf(up) \cap flags # {} \/ Above(up, flags) = "found")
    BY <2>3, <2>4
  <2>6. up \in alive \cap Known /\ up <= n
    BY <2>1, <2>3, <2>5
  <2>7. Descends(up, S)
    BY <2>5, <2>6
  <2> QED
    BY <2>1, <2>2, <2>5, <2>7, DescendsUnfolds
<1>3. \A n \in Nat : n \in T
  <2>1. \A n \in Nat : n \in T => n + 1 \in T
    BY <1>2
  <2> HIDE DEF T
  <2> QED
    BY <1>1, <2>1, Induction
<1>4. p \in Nat /\ p <= p
  BY UpAlive
<1>5. p \in T
  <2> HIDE DEF T
  <2> QED
    BY <1>3, <1>4
<1> QED
  BY <1>4, <1>5

\* ... and a walk among processes N finds the ancestor that has a flag.
LEMMA DescendsFound ==
  ASSUME LostInv, ~ Orphans, pc = "item", \A a \in alive \cap Known : Recorded(a),
         NEW S, NEW flags, NEW N \in SUBSET (alive \cap Known),
         \A a \in N : parentOf[a] # 0 => parentOf[a] \in N,
         \A a \in N : a \in S => FlagsOf(a) \cap flags # {},
         NEW p \in N, Descends(p, S), p \notin S
  PROVE  Above(p, flags) = "found"
<1> DEFINE T == {n \in Nat : \A q \in N : q <= n /\ Descends(q, S) /\ q \notin S
                                          => Above(q, flags) = "found"}
<1>1. 0 \in T
  BY Consts DEF Known
<1>2. ASSUME NEW n \in T PROVE n + 1 \in T
  <2> SUFFICES ASSUME NEW q \in N, q <= n + 1, Descends(q, S), q \notin S
               PROVE  Above(q, flags) = "found"
    OBVIOUS
  <2>1. TreeInv /\ q \in Pids /\ q \in Nat /\ n \in Nat /\ q \in Known
    BY UpAlive DEF LostInv
  <2>2. PICK up : up = parentOf[q]
    OBVIOUS
  <2>3. /\ Info(q).ppid = up /\ up \in Nat
        /\ up # 0 => up > 0 /\ up < q /\ Has(up, trie)
    BY <2>2, UpAlive
  <2>4. Above(q, flags) = IF up <= 0 THEN "top" ELSE IF ~ Has(up, trie) THEN "lost"
                          ELSE IF FlagsOf(up) \cap flags # {} THEN "found"
                          ELSE Above(up, flags)
    BY <2>1, <2>3, AboveRule
  <2>5. up # 0 /\ Descends(up, S)
    BY <2>1, <2>2, DescendsUnfolds
  <2>6. up \in N /\ up <= n /\ ~ (up <= 0) /\ Has(up, trie)
    BY <2>1, <2>2, <2>3, <2>5
  <2>7. FlagsOf(up) \cap flags # {} \/ Above(up, flags) = "found"
    BY <2>5, <2>6
  <2> QED
    BY <2>4, <2>6, <2>7
<1>3. \A n \in Nat : n \in T
  <2>1. \A n \in Nat : n \in T => n + 1 \in T
    BY <1>2
  <2> HIDE DEF T
  <2> QED
    BY <1>1, <2>1, Induction
<1>4. p \in Nat /\ p <= p
  BY UpAlive
<1>5. p \in T
  <2> HIDE DEF T
  <2> QED
    BY <1>3, <1>4
<1> QED
  BY <1>4, <1>5

\* No line with -x names a process as parent and exclusion, unless only the parents are
\* controlled: an exclusion overrides a parent, and its children would be left out.
Disjoint == \A m \in Modes : m.x /\ ~ (m.o /\ m.p) => m.parents \cap m.exclusions = {}

\* The walk to an exclusion.
LEMMA ExclusionFound ==
  ASSUME ListInv, ~ Orphans, pc = "item", NEW p \in alive \cap Known
  PROVE  UnderExclusion(p) <=> \/ "EXCLUDE" \in FlagsOf(p)
                               \/ ~ mode.x /\ Above(p, {"EXCLUDE"}) = "found"
<1>1. LostInv /\ TreeInv /\ p \in Pids
  BY DEF ListInv, LostInv, Known
<1>2. CASE mode.x
  BY <1>2 DEF ListInv, FlagsOK, UnderExclusion
<1>3. CASE ~ mode.x
  <2>1. \A a \in alive \cap Known : Recorded(a)
    BY <1>3 DEF ListInv, RecordsOK
  <2>2. \A a \in alive \cap Known : FlagsOf(a) \cap {"EXCLUDE"} # {}
                                    => Descends(a, mode.exclusions)
    BY <1>3 DEF ListInv, FlagsOK, UnderExclusion
  <2>3. \A a \in alive \cap Known : a \in mode.exclusions => FlagsOf(a) \cap {"EXCLUDE"} # {}
    BY DEF ListInv, FlagsOK
  <2>4. \A a \in alive \cap Known : parentOf[a] # 0 => parentOf[a] \in alive \cap Known
    BY <1>1, <2>1, UpAlive
  <2>5. Above(p, {"EXCLUDE"}) = "found" => Descends(p, mode.exclusions)
    BY <1>1, <2>1, <2>2, FoundDescends
  <2>6. Descends(p, mode.exclusions) /\ p \notin mode.exclusions
        => Above(p, {"EXCLUDE"}) = "found"
    BY <1>1, <2>1, <2>3, <2>4, DescendsFound
  <2> QED
    BY <1>3, <2>2, <2>3, <2>5, <2>6 DEF UnderExclusion
<1> QED
  BY <1>2, <1>3

\* The walk to a parent, from a process under no exclusion.
LEMMA ParentFound ==
  ASSUME ListInv, ~ Orphans, Disjoint, pc = "item", NEW p \in alive \cap Known,
         ~ explicitParentList, ~ UnderExclusion(p)
  PROVE  UnderParent(p) <=> ToParents(p) = "found"
<1> DEFINE F == {"PARENT", "CHILD"}
           N == {a \in alive \cap Known : ~ UnderExclusion(a)}
<1>1. LostInv /\ TreeInv /\ p \in Pids /\ mode \in Modes
  BY DEF ListInv, LostInv, TreeInv, ProcTypes, Known
<1>2. ~ (mode.o /\ mode.p)
  BY DEF ListInv, OptionsOK
<1>3. \A a \in alive \cap Known : Recorded(a)
  BY DEF ListInv, RecordsOK
<1>4. \A a \in alive \cap Known : FlagsOf(a) \cap F # {} => Descends(a, mode.parents)
  BY <1>2 DEF ListInv, FlagsOK, UnderParent
<1>5. \A a \in alive \cap Known : parentOf[a] # 0 => parentOf[a] \in alive \cap Known
  BY <1>1, <1>3, UpAlive
<1>6. Above(p, F) = "found" => Descends(p, mode.parents)
  <2> HIDE DEF F
  <2> QED
    BY <1>1, <1>3, <1>4, FoundDescends
<1>7. ASSUME NEW K \in SUBSET (alive \cap Known), p \in K,
             \A a \in K : parentOf[a] # 0 => parentOf[a] \in K,
             \A a \in K : a \in mode.parents => a \notin mode.exclusions
      PROVE  UnderParent(p) <=> ToParents(p) = "found"
  <2>1. \A a \in K : a \in mode.parents => FlagsOf(a) \cap F # {}
    BY <1>7 DEF ListInv, FlagsOK
  <2> HIDE DEF F
  <2>2. Descends(p, mode.parents) /\ p \notin mode.parents => Above(p, F) = "found"
    BY <1>1, <1>3, <1>7, <2>1, DescendsFound
  <2> QED
    BY <1>2, <1>4, <1>6, <1>7, <2>1, <2>2 DEF UnderParent, ToParents, F
<1>8. CASE mode.x
  <2>1. mode.parents \cap mode.exclusions = {}
    BY <1>1, <1>2, <1>8 DEF Disjoint
  <2> QED
    BY <1>5, <1>7, <2>1
<1>9. CASE ~ mode.x
  <2>1. \A a \in N : a \in Pids /\ ~ Descends(a, mode.exclusions)
    BY <1>9 DEF UnderExclusion, Known
  <2>2. \A a \in N : a \notin mode.exclusions /\ (parentOf[a] # 0 => parentOf[a] \in N)
    <3> SUFFICES ASSUME NEW a \in N
                 PROVE  a \notin mode.exclusions /\ (parentOf[a] # 0 => parentOf[a] \in N)
      OBVIOUS
    <3>1. /\ a \notin mode.exclusions
          /\ parentOf[a] # 0 => ~ Descends(parentOf[a], mode.exclusions)
      BY <1>1, <2>1, DescendsUnfolds
    <3> QED
      BY <1>5, <1>9, <3>1 DEF UnderExclusion
  <2>3. p \in N /\ N \in SUBSET (alive \cap Known)
    OBVIOUS
  <2> HIDE DEF N
  <2> QED
    BY <1>7, <2>2, <2>3
<1> QED
  BY <1>8, <1>9

\* A process that is classified in an update gets the flags that the options say.
LEMMA ClassifiedRight ==
  ASSUME ListInv, ~ Orphans, Disjoint, pc = "item", NEW p \in alive \cap Known,
         "NEW" \in FlagsOf(p)
  PROVE  /\ "NEW" \notin Updated(p) /\ FlagsOf(p) \ {"OK", "NEW"} \subseteq Updated(p)
         /\ "EXCLUDE" \in Updated(p) => UnderExclusion(p)
         /\ Updated(p) \cap {"PARENT", "CHILD"} # {} => UnderParent(p)
         /\ "STOPPABLE" \in Updated(p) <=> Asked(p)
<1> DEFINE old == FlagsOf(p) \ {"OK", "NEW"}
           flags == IF ~ mode.x /\ Above(p, {"EXCLUDE"}) = "found"
                      THEN old \cup {"EXCLUDE"} ELSE old
           under == IF "PARENT" \in flags THEN flags ELSE flags \cup {"CHILD"}
<1>1. Updated(p) = IF "EXCLUDE" \in flags THEN flags
                   ELSE IF explicitParentList
                     THEN IF "PARENT" \in flags THEN Probed(p, flags) ELSE flags
                   ELSE IF ToParents(p) # "found" THEN flags ELSE Probed(p, under)
  BY DEF Updated, Classified
<1>2. "EXCLUDE" \in flags <=> UnderExclusion(p)
  BY ExclusionFound
<1>3. /\ "STOPPABLE" \notin FlagsOf(p) /\ "NEW" \notin old /\ "STOPPABLE" \notin old
      /\ p \notin mode.parents => "PARENT" \notin FlagsOf(p)
      /\ Late => p \notin early
      /\ p \in mode.exclusions => "EXCLUDE" \in FlagsOf(p)
      /\ p \in mode.parents \ mode.exclusions => "PARENT" \in FlagsOf(p)
      /\ FlagsOf(p) \cap {"PARENT", "CHILD"} # {} => UnderParent(p)
  BY DEF ListInv, NewOK, FlagsOK
<1>4. \A F : Probed(p, F) = IF p \in Stubborn THEN F ELSE F \cup {"STOPPABLE"}
  BY DEF Probed, get_stoppable_status
<1>5. CASE UnderExclusion(p)
  <2>1. Updated(p) = flags
    BY <1>1, <1>2, <1>5
  <2> QED
    BY <1>2, <1>3, <1>5, <2>1 DEF Asked
<1>6. CASE ~ UnderExclusion(p)
  <2>1. flags = old /\ "EXCLUDE" \notin old
    BY <1>2, <1>6
  <2> HIDE DEF flags
  <2>2. CASE explicitParentList
    <3>1. Updated(p) = IF "PARENT" \in old /\ p \notin Stubborn THEN old \cup {"STOPPABLE"}
                                                                ELSE old
      BY <1>1, <1>4, <2>1, <2>2
    <3>2. "PARENT" \in old /\ p \notin Stubborn <=> Asked(p)
      <4>1. mode.o /\ (mode.p \/ Late)
        BY <2>2 DEF ListInv, OptionsOK, Late
      <4>2. CASE mode.p
        <5>1. p \notin mode.exclusions
          BY <1>2, <1>3, <2>1
        <5>2. p \in mode.parents <=> "PARENT" \in old
          BY <1>3, <4>1, <4>2, <5>1 DEF UnderParent
        <5> QED
          BY <1>6, <4>1, <4>2, <5>2 DEF Asked, UnderParent
      <4>3. CASE ~ mode.p
        <5>1. p \notin early /\ Late
          BY <1>3, <4>1, <4>3
        <5>2. p \notin Listing
          BY <5>1 DEF ListInv, ListingOK
        <5> QED
          BY <1>3, <4>1, <4>3, <5>1, <5>2 DEF Asked, Listing
      <4> QED
        BY <4>2, <4>3
    <3>3. old \cap {"PARENT", "CHILD"} # {} => UnderParent(p)
      BY <1>3
    <3> HIDE DEF old
    <3>4. /\ "NEW" \notin Updated(p) /\ old \subseteq Updated(p) /\ "EXCLUDE" \notin Updated(p)
          /\ Updated(p) \cap {"PARENT", "CHILD"} = old \cap {"PARENT", "CHILD"}
          /\ "STOPPABLE" \in Updated(p) <=> "PARENT" \in old /\ p \notin Stubborn
      BY <1>3, <2>1, <3>1
    <3> QED
      BY <3>2, <3>3, <3>4 DEF old
  <2>3. CASE ~ explicitParentList
    <3>1. UnderParent(p) <=> ToParents(p) = "found"
      BY <1>6, <2>3, ParentFound
    <3>2. Asked(p) <=> p \notin Stubborn /\ UnderParent(p)
      <4>1. ~ (mode.o /\ ~ mode.p /\ Late)
        BY <2>3 DEF ListInv, OptionsOK, Late
      <4> QED
        BY <1>6, <4>1 DEF Asked
    <3>3. /\ "NEW" \notin Updated(p) /\ old \subseteq Updated(p) /\ "EXCLUDE" \notin Updated(p)
          /\ "STOPPABLE" \in Updated(p) <=> ToParents(p) = "found" /\ p \notin Stubborn
          /\ ToParents(p) # "found" => Updated(p) = old
      <4> HIDE DEF old
      <4> QED
        BY <1>1, <1>3, <1>4, <2>1, <2>3
    <3> QED
      BY <1>3, <3>1, <3>2, <3>3
  <2> QED
    BY <2>2, <2>3
<1> QED
  BY <1>5, <1>6

-----------------------------------------------------------------------------
(* ListsTheWanted: the steps *)

\* What the options say of a process changes with its descent only.
LEMMA SameDescent ==
  ASSUME TreeInv, TreeInv', mode' = mode, NEW p \in Pids, p <= born,
         \A q \in Pids : q <= born => parentOf'[q] = parentOf[q]
  PROVE  /\ UnderExclusion(p)' = UnderExclusion(p)
         /\ UnderParent(p)' = UnderParent(p)
<1>1. parentOf \in Parents /\ parentOf' \in Parents /\ born \in Nat
  BY Consts DEF TreeInv, ProcTypes, BirthsOK, Parents
<1>2. ASSUME NEW S PROVE Reach(parentOf', S)[p] = Reach(parentOf, S)[p]
  BY <1>1, ReachKept
<1>3. /\ Descends(p, mode.exclusions)' = Reach(parentOf', mode.exclusions)[p]
      /\ Descends(p, mode.parents)' = Reach(parentOf', mode.parents)[p]
  <2>1. /\ Descends(p, mode.exclusions)' = Reach(parentOf', mode'.exclusions)[p]
        /\ Descends(p, mode.parents)' = Reach(parentOf', mode'.parents)[p]
    BY DEF Descends, Reach, ReachRule
  <2>2. mode' = mode
    OBVIOUS
  <2> QED
    BY <2>1, <2>2
<1>4. /\ Descends(p, mode.exclusions)' = Descends(p, mode.exclusions)
      /\ Descends(p, mode.parents)' = Descends(p, mode.parents)
  BY <1>2, <1>3, DescendsReach
<1> QED
  BY <1>4 DEF UnderExclusion, UnderParent

\* ... and with the snapshot.
LEMMA SameAsked ==
  ASSUME mode' = mode, early' = early, Late' = Late, NEW p,
         UnderExclusion(p)' = UnderExclusion(p), UnderParent(p)' = UnderParent(p)
  PROVE  Asked(p)' = Asked(p)
BY DEF Asked

\* Steps that change no flag and no descent keep FlagsOK.
LEMMA FlagsKept ==
  ASSUME FlagsOK, mode' = mode,
         \A p \in alive' \cap Known' :
           /\ p \in alive \cap Known /\ FlagsOf(p)' = FlagsOf(p)
           /\ UnderExclusion(p)' = UnderExclusion(p) /\ UnderParent(p)' = UnderParent(p)
           /\ "NEW" \notin FlagsOf(p) => Asked(p)' = Asked(p)
  PROVE  FlagsOK'
<1> SUFFICES ASSUME NEW p \in alive', p \in Known'
             PROVE  (/\ p \in mode.exclusions => "EXCLUDE" \in FlagsOf(p)
                     /\ p \in mode.parents \ mode.exclusions => "PARENT" \in FlagsOf(p)
                     /\ "EXCLUDE" \in FlagsOf(p) => UnderExclusion(p)
                     /\ FlagsOf(p) \cap {"PARENT", "CHILD"} # {} => UnderParent(p)
                     /\ "NEW" \notin FlagsOf(p) => ("STOPPABLE" \in FlagsOf(p) <=> Asked(p)))'
  BY DEF FlagsOK
<1>1. /\ p \in alive \cap Known /\ FlagsOf(p)' = FlagsOf(p)
      /\ UnderExclusion(p)' = UnderExclusion(p) /\ UnderParent(p)' = UnderParent(p)
      /\ "NEW" \notin FlagsOf(p) => Asked(p)' = Asked(p)
  OBVIOUS
<1>2. /\ p \in mode.exclusions => "EXCLUDE" \in FlagsOf(p)
      /\ p \in mode.parents \ mode.exclusions => "PARENT" \in FlagsOf(p)
      /\ "EXCLUDE" \in FlagsOf(p) => UnderExclusion(p)
      /\ FlagsOf(p) \cap {"PARENT", "CHILD"} # {} => UnderParent(p)
      /\ "NEW" \notin FlagsOf(p) => ("STOPPABLE" \in FlagsOf(p) <=> Asked(p))
  BY <1>1 DEF FlagsOK
<1> QED
  BY <1>1, <1>2

\* The first flags are those of the options, and nothing else is in the tree.
LEMMA ListInit == Init => ListInv
<1> SUFFICES ASSUME Init PROVE ListInv
  OBVIOUS
<1>1. LostInv /\ TreeInv
  BY LostInit DEF LostInv
<1>2. /\ mode \in Modes /\ alive = DOMAIN AtStart /\ pc = "scan" /\ pos = 0 /\ updates = 1
      /\ early = {} /\ explicitParentList = (mode.o /\ mode.p)
      /\ trie = create_proc_tree(mode)
  BY DEF Init
<1>3. Known = Listing /\ \A p \in Known : Info(p) = FirstInfo(mode, p)
  <2>1. /\ Held(trie) = Listed(mode)
        /\ \A p \in Listed(mode) : trie_value(p, trie) = {FirstInfo(mode, p)}
    BY <1>2, CreatedTree
  <2> QED
    BY <2>1 DEF Held, Known, Listed, Listing, Info
<1>4. Listing \subseteq alive
  BY <1>2, ProcTreeAssumption DEF Listing
<1>5. OptionsOK
  <2>1. explicitParentList <=> mode.o /\ mode.p
    BY <1>2
  <2> QED
    BY <1>2, <2>1 DEF OptionsOK
<1>6. ListingOK
  BY <1>1, <1>2, <1>3, <1>4 DEF ListingOK, Late, Freeing, TreeInv, BirthsOK
<1>7. RecordsOK
  BY <1>1, <1>2, Consts DEF RecordsOK, Scanning, TreeInv, ProcTypes
<1>8. \A p \in Known : FlagsOf(p) = IF p \in mode.exclusions THEN {"EXCLUDE"}
                                                             ELSE {"PARENT", "NEW"}
  BY <1>3 DEF FlagsOf, FirstInfo, Exclude
<1>9. NewOK
  BY <1>2, <1>3, <1>8 DEF NewOK, Late, Listing
<1>10. FlagsOK
  <2> SUFFICES ASSUME NEW p \in alive \cap Known
               PROVE  /\ p \in mode.exclusions => "EXCLUDE" \in FlagsOf(p)
                      /\ p \in mode.parents \ mode.exclusions => "PARENT" \in FlagsOf(p)
                      /\ "EXCLUDE" \in FlagsOf(p) => UnderExclusion(p)
                      /\ FlagsOf(p) \cap {"PARENT", "CHILD"} # {} => UnderParent(p)
                      /\ "NEW" \notin FlagsOf(p) => ("STOPPABLE" \in FlagsOf(p) <=> Asked(p))
    BY DEF FlagsOK
  <2>1. p \in Pids /\ p \in Listing
    BY <1>3 DEF Known
  <2>2. p \in mode.exclusions => UnderExclusion(p)
    BY <1>1, <2>1, DescendsUnfolds DEF UnderExclusion
  <2>3. p \in mode.parents => UnderParent(p)
    BY <1>1, <2>1, DescendsUnfolds DEF UnderParent
  <2>4. CASE p \in mode.exclusions
    BY <1>8, <2>2, <2>4 DEF Asked
  <2>5. CASE p \notin mode.exclusions
    BY <1>8, <2>1, <2>3, <2>5 DEF Listing
  <2> QED
    BY <2>4, <2>5
<1>11. ListOK
  BY <1>2 DEF ListOK
<1> QED
  BY <1>1, <1>5, <1>6, <1>7, <1>9, <1>10, <1>11 DEF ListInv

\* Births give PIDs beyond all that are known, and without orphans the ends of processes
\* change the descent of no process that runs.
LEMMA ListProcs ==
  ASSUME ListInv, ~ Orphans, NEW p \in Pids, fork(p) \/ exit(p) PROVE ListInv'
<1>1. /\ trie' = trie /\ pc' = pc /\ pos' = pos /\ updates' = updates /\ mode' = mode
      /\ early' = early /\ explicitParentList' = explicitParentList
      /\ stoppableList' = stoppableList
  BY DEF fork, exit, treeVars, restVars, listVars
<1>2. LostInv /\ LostInv' /\ TreeInv /\ TreeInv'
  BY LostProcs DEF ListInv, LostInv
<1>3. /\ born' \in Nat /\ born \in Nat /\ born <= born'
      /\ \A q \in alive' : q <= born => q \in alive
      /\ \A q \in Pids : q <= born => parentOf'[q] = parentOf[q]
  <2>1. born \in Pids /\ born \in Nat /\ parentOf \in [Pids -> 0..MaxPid]
    BY <1>2, Consts DEF TreeInv, ProcTypes
  <2>2. CASE fork(p)
    <3>1. /\ born' = born + 1 /\ alive' = alive \cup {born + 1}
          /\ parentOf' = [parentOf EXCEPT ![born + 1] = p]
      BY <2>2 DEF fork
    <3> QED
      BY <2>1, <3>1
  <2>3. CASE exit(p)
    <3>1. /\ born' = born /\ alive' = alive \ {p} /\ {c \in alive : parentOf[c] = p} = {}
          /\ parentOf' = [c \in Pids |-> IF c \in {d \in alive : parentOf[d] = p}
                                         THEN 1 ELSE parentOf[c]]
      BY <2>3 DEF exit
    <3> QED
      BY <2>1, <3>1
  <2> QED
    BY <2>2, <2>3
<1>4. \A q \in Known : q \in Pids /\ q <= born
  BY <1>2 DEF TreeInv, BirthsOK, Known
<1>5. /\ Known' = Known /\ ToGo' = ToGo
      /\ \A q : Info(q)' = Info(q) /\ FlagsOf(q)' = FlagsOf(q) /\ InList(q)' = InList(q)
  BY <1>1, SameKnown DEF InList
<1>6. \A q \in Known : /\ UnderExclusion(q)' = UnderExclusion(q)
                       /\ UnderParent(q)' = UnderParent(q)
  BY <1>1, <1>2, <1>3, <1>4, SameDescent
<1>7. Late' = Late
  BY <1>1 DEF Late
<1>8. \A q \in Known : Asked(q)' = Asked(q)
  BY <1>1, <1>6, <1>7, SameAsked
<1>9. alive' \cap Known' \subseteq alive \cap Known
  BY <1>3, <1>4, <1>5
<1>10. FlagsOK'
  BY <1>1, <1>5, <1>6, <1>8, <1>9, FlagsKept DEF ListInv
<1>11. OptionsOK'
  BY <1>1 DEF ListInv, OptionsOK
<1>12. ListingOK'
  <2>1. Listing' = Listing /\ Freeing' = Freeing
    BY <1>1 DEF Listing, Freeing
  <2>2. \A q \in Listing \cup early : q <= born
    BY DEF ListInv, ListingOK
  <2>3. alive' \cap (Listing \cup early) \subseteq alive
    BY <1>3, <2>2
  <2>4. \A q \in Listing \cup early : q <= born'
    <3>1. Listing \cup early \subseteq Nat
      BY <1>2, ProcTreeAssumption, Consts DEF TreeInv, ProcTypes, Listing
    <3> QED
      BY <1>3, <2>2, <3>1
  <2> QED
    BY <1>1, <1>5, <1>7, <2>1, <2>3, <2>4 DEF ListInv, ListingOK
<1>13. RecordsOK'
  <2>1. \A q \in alive' : q <= pos => q \in alive /\ q \in Pids /\ q <= born
    <3>1. alive' \subseteq Pids /\ pos \in Nat /\ pos <= born
      BY <1>2, Consts DEF TreeInv, ProcTypes, BirthsOK
    <3>2. \A q \in alive' : q \in Pids /\ q \in Nat
      BY <3>1, Consts
    <3>3. \A q \in alive' : q <= pos => q <= born
      BY <1>3, <3>1, <3>2
    <3> QED
      BY <1>3, <3>2, <3>3
  <2>2. \A q \in alive' : q <= pos \/ q \in Known => (Recorded(q)' <=> Recorded(q))
    BY <1>3, <1>4, <1>5, <2>1 DEF Recorded
  <2> QED
    BY <1>1, <1>5, <1>9, <2>1, <2>2 DEF ListInv, RecordsOK, Scanning
<1>14. NewOK' /\ ListOK'
  BY <1>1, <1>5, <1>7, <1>9 DEF ListInv, NewOK, ListOK
<1> QED
  BY <1>2, <1>10, <1>11, <1>12, <1>13, <1>14 DEF ListInv

\* Steps of the limiter leave the descent of all processes alone.
LEMMA LimiterDescent ==
  ASSUME TreeInv, UNCHANGED procVars, mode' = mode
  PROVE  \A p : UnderExclusion(p)' = UnderExclusion(p) /\ UnderParent(p)' = UnderParent(p)
<1>1. parentOf' = parentOf
  BY DEF procVars
<1>2. \A p, S : Descends(p, S)' = Descends(p, S')
  BY <1>1 DEF Descends
<1>3. \A p : /\ Descends(p, mode.exclusions)' = Descends(p, mode.exclusions)
             /\ Descends(p, mode.parents)' = Descends(p, mode.parents)
  BY <1>1 DEF Descends
<1> QED
  BY <1>3 DEF UnderExclusion, UnderParent

\* A process that is read is new, or keeps its flags; if its parent is not read now, it is
\* recorded already.
LEMMA ListScan ==
  ASSUME ListInv, ~ Orphans, ScanEntry PROVE ListInv'
<1>0. PICK p : p = pos'
  OBVIOUS
<1>1. LostInv /\ LostInv' /\ TreeInv /\ TreeInv'
  BY LostScan DEF ListInv, LostInv
<1>2. /\ pc = "scan" /\ updates' = updates /\ alive' = alive /\ parentOf' = parentOf
      /\ mode' = mode /\ early' = early /\ explicitParentList' = explicitParentList
      /\ UNCHANGED procVars /\ born' = born
  BY DEF ScanEntry, restVars, procVars
<1>3. /\ p \in alive /\ p > pos /\ p \in Pids /\ p \in Nat /\ pos \in Nat
      /\ \A q \in alive : q < p => q <= pos
  <2>1. pos \in 0..MaxPid /\ alive \subseteq Pids
    BY <1>1 DEF TreeInv, ProcTypes
  <2>2. /\ pos \in Nat /\ \A q \in Pids : q \in Nat
    BY <2>1, Consts
  <2>3. p \in alive /\ p > pos /\ \A q \in alive : q < p => q <= pos
    BY <1>0, <1>1, ScanFacts
  <2> QED
    BY <2>1, <2>2, <2>3
<1>4. pc' # "crashed"
  BY <1>1 DEF LostInv
<1>5. /\ pc' \in {"scan", "ppid"} /\ (pc' = "scan" => ~ NeedsPpid(p))
  BY <1>0, <1>4 DEF ScanEntry
<1>6. PICK i \in Infos :
        /\ OnlyAt(p, {i}, trie, trie')
        /\ IF p \in Known THEN i = [Info(p) EXCEPT !.flags = @ \cup {"OK"}]
                          ELSE i = [ppid |-> 0, flags |-> {"OK", "NEW"}]
  BY <1>0, <1>1, <1>4, ScanFacts
<1>7. /\ Known' = Known \cup {p} /\ Info(p)' = i
      /\ \A q \in Pids \ {p} : Info(q)' = Info(q) /\ FlagsOf(q)' = FlagsOf(q)
  BY <1>3, <1>6, ChangeFacts
<1>8. p \in Known => i.ppid = Info(p).ppid /\ i.flags = FlagsOf(p) \cup {"OK"}
  <2>1. p \in Known => Info(p) \in Infos
    BY <1>1, InfoFacts DEF TreeInv, NodesOK
  <2> QED
    BY <1>6, <2>1 DEF Infos, FlagsOf
<1>9. FlagsOf(p)' = i.flags
  BY <1>7 DEF FlagsOf
<1>10. Late' = Late /\ ~ Freeing /\ ~ Freeing' /\ Listing' = Listing
  BY <1>2, <1>5 DEF Late, Freeing, Listing
<1>11. \A q : /\ UnderExclusion(q)' = UnderExclusion(q) /\ UnderParent(q)' = UnderParent(q)
              /\ Asked(q)' = Asked(q)
  BY <1>1, <1>2, <1>10, LimiterDescent, SameAsked
<1>12. p \notin Known => p \notin Listing /\ p \notin early
  BY <1>3, <1>10 DEF ListInv, ListingOK
<1>13. OptionsOK'
  BY <1>2, <1>5 DEF ListInv, OptionsOK
<1>14. ListingOK'
  BY <1>2, <1>7, <1>10 DEF ListInv, ListingOK
<1>15. RecordsOK'
  <2> SUFFICES ASSUME ~ (explicitParentList /\ mode.x), NEW q \in alive, q <= p,
                      ~ (pc' = "ppid" /\ q = p)
               PROVE  Recorded(q)'
    BY <1>0, <1>2, <1>5 DEF RecordsOK, Scanning
  <2>1. q \in Pids /\ q \in Nat
    BY <1>1, Consts DEF TreeInv, ProcTypes
  <2>2. CASE q = p
    <3>1. ~ NeedsPpid(p)
      BY <1>5, <2>2
    <3>2. p \in Known /\ (Info(p).ppid # 0 \/ p = 1)
      BY <1>3, <3>1 DEF NeedsPpid, Known
    <3>3. Info(p).ppid \in {0, parentOf[p]}
      BY <1>1, <1>3, <3>2 DEF LostInv, PpidsOK
    <3>4. p = 1 => parentOf[p] = 0
      <4>1. parentOf[p] \in 0..MaxPid /\ parentOf[p] < p
        BY <1>1, <1>3 DEF TreeInv, ProcTypes, BirthsOK
      <4> QED
        BY <4>1
    <3> QED
      BY <1>2, <1>7, <1>8, <2>2, <3>2, <3>3, <3>4 DEF Recorded
  <2>3. CASE q # p
    <3>1. q <= pos
      BY <1>3, <2>1, <2>3
    <3>2. Recorded(q)
      BY <1>2, <3>1 DEF ListInv, RecordsOK, Scanning
    <3> QED
      BY <1>2, <1>7, <2>1, <2>3, <3>2 DEF Recorded
  <2> QED
    BY <2>2, <2>3
<1>16. NewOK'
  <2> SUFFICES ASSUME NEW q \in alive, q \in Known', "NEW" \in FlagsOf(q)'
               PROVE  /\ "STOPPABLE" \notin FlagsOf(q)'
                      /\ q \notin mode.parents => "PARENT" \notin FlagsOf(q)'
                      /\ Late => q \notin early
    BY <1>2, <1>5, <1>10 DEF NewOK
  <2>1. CASE q = p /\ p \notin Known
    BY <1>6, <1>9, <1>12, <2>1
  <2>2. CASE q \in Known
    <3>1. FlagsOf(q)' = FlagsOf(q) \/ FlagsOf(q)' = FlagsOf(q) \cup {"OK"}
      BY <1>7, <1>8, <1>9, <2>2 DEF Known
    <3> QED
      BY <2>2, <3>1 DEF ListInv, NewOK
  <2> QED
    BY <1>7, <2>1, <2>2
<1>17. FlagsOK'
  <2> SUFFICES ASSUME NEW q \in alive, q \in Known'
               PROVE  /\ q \in mode.exclusions => "EXCLUDE" \in FlagsOf(q)'
                      /\ q \in mode.parents \ mode.exclusions => "PARENT" \in FlagsOf(q)'
                      /\ "EXCLUDE" \in FlagsOf(q)' => UnderExclusion(q)
                      /\ FlagsOf(q)' \cap {"PARENT", "CHILD"} # {} => UnderParent(q)
                      /\ "NEW" \notin FlagsOf(q)' => ("STOPPABLE" \in FlagsOf(q)' <=> Asked(q))
    BY <1>2, <1>11 DEF FlagsOK
  <2>1. CASE q = p /\ p \notin Known
    BY <1>6, <1>9, <1>12, <2>1 DEF Listing
  <2>2. CASE q \in Known
    <3>1. FlagsOf(q)' = FlagsOf(q) \/ FlagsOf(q)' = FlagsOf(q) \cup {"OK"}
      BY <1>7, <1>8, <1>9, <2>2 DEF Known
    <3>2. /\ q \in mode.exclusions => "EXCLUDE" \in FlagsOf(q)
          /\ q \in mode.parents \ mode.exclusions => "PARENT" \in FlagsOf(q)
          /\ "EXCLUDE" \in FlagsOf(q) => UnderExclusion(q)
          /\ FlagsOf(q) \cap {"PARENT", "CHILD"} # {} => UnderParent(q)
          /\ "NEW" \notin FlagsOf(q) => ("STOPPABLE" \in FlagsOf(q) <=> Asked(q))
      BY <2>2 DEF ListInv, FlagsOK
    <3> QED
      BY <3>1, <3>2
  <2> QED
    BY <1>7, <2>1, <2>2
<1>18. ListOK'
  BY <1>5 DEF ListOK
<1> QED
  BY <1>1, <1>13, <1>14, <1>15, <1>16, <1>17, <1>18 DEF ListInv

\* The parent that is read is recorded.
LEMMA ListPpid ==
  ASSUME ListInv, ~ Orphans, ReadPpid PROVE ListInv'
<1>0. PICK p : p = pos
  OBVIOUS
<1> DEFINE i == [Info(p) EXCEPT !.ppid = get_ppid_of(p)]
<1>1. LostInv /\ LostInv' /\ TreeInv /\ TreeInv'
  BY LostPpid DEF ListInv, LostInv
<1>2. /\ pc = "ppid" /\ pc' = "scan" /\ pos' = pos /\ updates' = updates /\ alive' = alive
      /\ parentOf' = parentOf /\ mode' = mode /\ early' = early /\ born' = born
      /\ explicitParentList' = explicitParentList /\ UNCHANGED procVars
  BY DEF ReadPpid, restVars, procVars
<1>3. /\ p \in Known /\ p \in Pids /\ OnlyAt(p, {i}, trie, trie')
      /\ i.ppid = get_ppid_of(p) /\ i.flags = FlagsOf(p)
  <2>1. Info(p) \in Infos
    BY <1>0, <1>1, PpidFacts, InfoFacts DEF TreeInv, NodesOK
  <2> QED
    BY <1>0, <1>1, <2>1, PpidFacts DEF Infos, FlagsOf
<1> HIDE DEF i
<1>4. /\ Known' = Known /\ Info(p)' = i
      /\ \A q \in Pids \ {p} : Info(q)' = Info(q) /\ FlagsOf(q)' = FlagsOf(q)
  BY <1>3, ChangeFacts
<1>5. \A q \in Pids : FlagsOf(q)' = FlagsOf(q)
  <2>1. FlagsOf(p)' = FlagsOf(p)
    BY <1>3, <1>4 DEF FlagsOf
  <2> QED
    BY <1>4, <2>1
<1>6. Late' = Late /\ Freeing' = Freeing /\ Listing' = Listing
  BY <1>2 DEF Late, Freeing, Listing
<1>7. \A q : /\ UnderExclusion(q)' = UnderExclusion(q) /\ UnderParent(q)' = UnderParent(q)
             /\ Asked(q)' = Asked(q)
  BY <1>1, <1>2, <1>6, LimiterDescent, SameAsked
<1>8. FlagsOK'
  BY <1>2, <1>4, <1>5, <1>7, FlagsKept DEF ListInv, Known
<1>9. RecordsOK'
  <2> SUFFICES ASSUME ~ (explicitParentList /\ mode.x), NEW q \in alive, q <= pos
               PROVE  Recorded(q)'
    BY <1>2 DEF RecordsOK, Scanning
  <2>1. CASE q = p
    <3>1. Info(q)'.ppid = parentOf[q]
      BY <1>3, <1>4, <2>1 DEF get_ppid_of
    <3> QED
      BY <1>2, <3>1 DEF Recorded
  <2>2. CASE q # p
    <3>1. Recorded(q) /\ q \in Pids
      BY <1>0, <1>1, <1>2, <2>2 DEF ListInv, RecordsOK, Scanning, TreeInv, ProcTypes
    <3> QED
      BY <1>2, <1>4, <2>2, <3>1 DEF Recorded
  <2> QED
    BY <2>1, <2>2
<1>10. NewOK'
  BY <1>2, <1>4, <1>5, <1>6 DEF ListInv, NewOK, Known
<1>11. OptionsOK' /\ ListingOK' /\ ListOK'
  BY <1>2, <1>4, <1>6 DEF ListInv, OptionsOK, ListingOK, ListOK
<1> QED
  BY <1>1, <1>8, <1>9, <1>10, <1>11 DEF ListInv

\* A new process is classified as the options ask, and listed if it is to be stopped.
LEMMA ListUpdate ==
  ASSUME ListInv, ~ Orphans, Disjoint, UpdateItem PROVE ListInv'
<1>1. LostInv /\ LostInv' /\ TreeInv /\ TreeInv'
  BY LostUpdate DEF ListInv, LostInv
<1>2. /\ pc = "item" /\ updates' = updates /\ alive' = alive /\ parentOf' = parentOf
      /\ mode' = mode /\ early' = early /\ explicitParentList' = explicitParentList
      /\ UNCHANGED procVars /\ born' = born
  BY DEF UpdateItem, restVars, procVars
<1>3. PICK p \in ToGo :
        /\ pos' = p /\ p \in Known /\ p \in Pids
        /\ \/ pc' = "crashed"
           \/ /\ pc' = pc /\ ToGo' = ToGo \ {p}
              /\ \A q \in Pids \ {p} : Info(q)' = Info(q) /\ FlagsOf(q)' = FlagsOf(q)
              /\ \/ /\ Marked(p) /\ Known' = Known
                    /\ Info(p)'.ppid = Info(p).ppid /\ FlagsOf(p)' = Updated(p)
                    /\ stoppableList' = IF Listable(p) THEN Append(stoppableList, p)
                                                       ELSE stoppableList
                 \/ /\ ~ Marked(p) /\ Known' = Known \ {p}
                    /\ stoppableList' = stoppableList
  BY <1>1, UpdateFacts
<1>4. /\ pc' = pc /\ ToGo' = ToGo \ {p} /\ pc' # "crashed"
      /\ \A q \in Pids \ {p} : Info(q)' = Info(q) /\ FlagsOf(q)' = FlagsOf(q)
      /\ Known' \subseteq Known /\ Known \ {p} \subseteq Known'
  BY <1>1, <1>3 DEF LostInv
<1>5. p \in alive => Marked(p)
  BY <1>1, <1>2, <1>3 DEF TreeInv, MarksOK
<1>6. alive \cap Known \subseteq Known'
  BY <1>3, <1>4, <1>5
<1>7. p \in Known' => /\ Info(p)'.ppid = Info(p).ppid /\ FlagsOf(p)' = Updated(p)
  BY <1>3, <1>4
<1>8. /\ p \in Known' => "NEW" \notin FlagsOf(p)'
      /\ "NEW" \notin FlagsOf(p) => Updated(p) = FlagsOf(p) \ {"OK"}
  <2>1. \A F : Probed(p, F) = F \/ Probed(p, F) = F \cup {"STOPPABLE"}
    BY DEF Probed
  <2>2. "NEW" \notin Classified(p)
    BY <2>1 DEF Classified
  <2> QED
    BY <1>7, <2>2 DEF Updated
<1>9. Late' = Late /\ Freeing' = Freeing /\ Listing' = Listing
  BY <1>2, <1>4 DEF Late, Freeing, Listing
<1>10. \A q : /\ UnderExclusion(q)' = UnderExclusion(q) /\ UnderParent(q)' = UnderParent(q)
              /\ Asked(q)' = Asked(q)
  BY <1>1, <1>2, <1>9, LimiterDescent, SameAsked
<1>11. OptionsOK'
  BY <1>2, <1>4 DEF ListInv, OptionsOK
<1>12. ListingOK'
  BY <1>2, <1>6, <1>9 DEF ListInv, ListingOK
<1>13. RecordsOK'
  <2> SUFFICES ASSUME ~ (explicitParentList /\ mode.x), NEW q \in alive, q \in Known'
               PROVE  Recorded(q)'
    BY <1>2, <1>4 DEF RecordsOK, Scanning
  <2>1. Recorded(q) /\ q \in Pids
    BY <1>2, <1>4 DEF ListInv, RecordsOK, Known
  <2>2. Info(q)'.ppid = Info(q).ppid
    BY <1>4, <1>7, <2>1
  <2> QED
    BY <1>2, <2>1, <2>2 DEF Recorded
<1>14. NewOK'
  <2>1. ASSUME NEW q \in Known', q # p
        PROVE  q \in Known /\ FlagsOf(q)' = FlagsOf(q) /\ (q \notin ToGo' => q \notin ToGo)
    BY <1>4, <2>1 DEF Known
  <2> QED
    BY <1>2, <1>4, <1>8, <1>9, <2>1 DEF ListInv, NewOK
<1>15. FlagsOK'
  <2> SUFFICES ASSUME NEW q \in alive, q \in Known'
               PROVE  /\ q \in mode.exclusions => "EXCLUDE" \in FlagsOf(q)'
                      /\ q \in mode.parents \ mode.exclusions => "PARENT" \in FlagsOf(q)'
                      /\ "EXCLUDE" \in FlagsOf(q)' => UnderExclusion(q)
                      /\ FlagsOf(q)' \cap {"PARENT", "CHILD"} # {} => UnderParent(q)
                      /\ "NEW" \notin FlagsOf(q)' => ("STOPPABLE" \in FlagsOf(q)' <=> Asked(q))
    BY <1>2, <1>10 DEF FlagsOK
  <2>1. /\ q \in alive \cap Known
        /\ q \in mode.exclusions => "EXCLUDE" \in FlagsOf(q)
        /\ q \in mode.parents \ mode.exclusions => "PARENT" \in FlagsOf(q)
        /\ "EXCLUDE" \in FlagsOf(q) => UnderExclusion(q)
        /\ FlagsOf(q) \cap {"PARENT", "CHILD"} # {} => UnderParent(q)
        /\ "NEW" \notin FlagsOf(q) => ("STOPPABLE" \in FlagsOf(q) <=> Asked(q))
    BY <1>4 DEF ListInv, FlagsOK
  <2>2. CASE q # p
    <3>1. FlagsOf(q)' = FlagsOf(q)
      BY <1>4, <2>1, <2>2 DEF Known
    <3> QED
      BY <2>1, <3>1
  <2>3. CASE q = p /\ "NEW" \notin FlagsOf(p)
    <3>1. FlagsOf(q)' = FlagsOf(q) \ {"OK"}
      BY <1>7, <1>8, <2>3
    <3> QED
      BY <2>1, <2>3, <3>1
  <2>4. CASE q = p /\ "NEW" \in FlagsOf(p)
    <3>1. /\ FlagsOf(q) \ {"OK", "NEW"} \subseteq Updated(q)
          /\ "EXCLUDE" \in Updated(q) => UnderExclusion(q)
          /\ Updated(q) \cap {"PARENT", "CHILD"} # {} => UnderParent(q)
          /\ "STOPPABLE" \in Updated(q) <=> Asked(q)
      BY <1>2, <2>1, <2>4, ClassifiedRight
    <3>2. FlagsOf(q)' = Updated(q)
      BY <1>7, <2>4
    <3> QED
      BY <2>1, <3>1, <3>2
  <2> QED
    BY <2>2, <2>3, <2>4
<1>16. ListOK'
  <2> SUFFICES ASSUME NEW q \in Known'
               PROVE  InList(q)' <=> q \notin ToGo' /\ "STOPPABLE" \in FlagsOf(q)'
    BY <1>2, <1>4 DEF ListOK
  <2>1. q \in Known /\ q \in Pids /\ (InList(q) <=> q \notin ToGo /\ "STOPPABLE" \in FlagsOf(q))
    BY <1>2, <1>4 DEF ListInv, ListOK, Known
  <2>2. stoppableList \in Seq(Pids)
    BY <1>1 DEF TreeInv, ProcTypes
  <2>3. CASE p \in Known' /\ Listable(p)
    <3>1. stoppableList' = Append(stoppableList, p)
      BY <1>1, <1>3, <2>3 DEF LostInv
    <3>2. InList(q)' <=> InList(q) \/ q = p
      <4>1. /\ Len(stoppableList') = Len(stoppableList) + 1
            /\ \A i \in 1..Len(stoppableList) : stoppableList'[i] = stoppableList[i]
            /\ stoppableList'[Len(stoppableList) + 1] = p /\ Len(stoppableList) \in Nat
        BY <1>3, <2>2, <3>1
      <4>2. \A i : i \in 1..Len(stoppableList') <=> \/ i \in 1..Len(stoppableList)
                                                    \/ i = Len(stoppableList) + 1
        BY <4>1
      <4> QED
        BY <4>1, <4>2 DEF InList
    <3>3. "STOPPABLE" \in Updated(p)
      BY <2>3 DEF Listable
    <3> QED
      BY <1>4, <1>7, <2>1, <2>3, <3>2, <3>3
  <2>4. CASE ~ (p \in Known' /\ Listable(p))
    <3>1. stoppableList' = stoppableList
      BY <1>1, <1>3, <2>4 DEF LostInv
    <3>2. InList(q)' = InList(q)
      BY <3>1 DEF InList
    <3>3. q = p => "STOPPABLE" \notin Updated(p)
      BY <2>4 DEF Listable
    <3> QED
      BY <1>3, <1>4, <1>7, <2>1, <3>2, <3>3
  <2> QED
    BY <2>3, <2>4
<1> QED
  BY <1>1, <1>11, <1>12, <1>13, <1>14, <1>15, <1>16 DEF ListInv

\* The list is emptied when the scan ends; early is set when the first update ends.
LEMMA ListStages ==
  ASSUME ListInv, EndScan \/ EndUpdate \/ EndSnapshot \/ update_proc_tree
                  \/ trie_deallocate \/ EndFree
  PROVE  ListInv'
<1>1. LostInv /\ LostInv' /\ TreeInv /\ TreeInv'
  BY LostStages DEF ListInv, LostInv
<1>2. /\ trie' = trie /\ alive' = alive /\ parentOf' = parentOf /\ mode' = mode
      /\ UNCHANGED procVars /\ born' = born
  BY DEF EndScan, EndUpdate, EndSnapshot, update_proc_tree, trie_deallocate, EndFree,
     treeVars, procVars, restVars
<1>3. /\ Known' = Known /\ Listing' = Listing
      /\ \A q : Info(q)' = Info(q) /\ FlagsOf(q)' = FlagsOf(q)
  BY <1>2, SameKnown DEF Listing
<1>4. \A q : UnderExclusion(q)' = UnderExclusion(q) /\ UnderParent(q)' = UnderParent(q)
  BY <1>1, <1>2, LimiterDescent
<1>5. /\ updates \in 1..MaxUpdates /\ Known \subseteq Pids /\ stoppableList \in Seq(Pids)
      /\ updates > 1 \/ updates = 1
  <2>1. updates \in 1..MaxUpdates /\ stoppableList \in Seq(Pids)
    BY <1>1 DEF TreeInv, ProcTypes
  <2>2. updates > 1 \/ updates = 1
    BY <2>1, Consts
  <2> QED
    BY <2>1, <2>2 DEF Known
<1>6. ASSUME Late' = Late, early' = early PROVE FlagsOK'
  <2>1. \A q : Asked(q)' = Asked(q)
    BY <1>2, <1>4, <1>6, SameAsked
  <2> QED
    BY <1>2, <1>3, <1>4, <2>1, FlagsKept DEF ListInv
<1>7. CASE EndScan
  <2>1. /\ pc = "scan" /\ Unread = {} /\ pos' = 0 /\ pc' = "item" /\ stoppableList' = <<>>
        /\ updates' = updates /\ early' = early /\ explicitParentList' = explicitParentList
    BY <1>1, <1>7 DEF EndScan, restVars, LostInv, RootOK
  <2>2. ToGo' = Known
    BY <1>2, <2>1 DEF ToGo, ToVisit, Known
  <2>3. Late' = Late /\ ~ Freeing /\ ~ Freeing'
    BY <2>1 DEF Late, Freeing
  <2>4. OptionsOK' /\ ListingOK' /\ NewOK' /\ FlagsOK'
    BY <1>2, <1>3, <1>6, <2>1, <2>2, <2>3 DEF ListInv, OptionsOK, ListingOK, NewOK
  <2>5. RecordsOK'
    <3>1. \A q \in alive : q <= pos
      <4>1. alive \subseteq Pids /\ pos \in 0..MaxPid
        BY <1>1 DEF TreeInv, ProcTypes
      <4> QED
        BY <2>1, <4>1, Consts DEF Unread
    <3>2. ~ (explicitParentList /\ mode.x) => \A q \in alive : Recorded(q)
      BY <2>1, <3>1 DEF ListInv, RecordsOK, Scanning
    <3>3. \A q : Recorded(q)' = Recorded(q)
      BY <1>2, <1>3 DEF Recorded
    <3> QED
      BY <1>2, <2>1, <3>2, <3>3 DEF RecordsOK, Scanning
  <2>6. ListOK'
    <3>1. \A q : ~ InList(q)'
      BY <2>1 DEF InList
    <3> QED
      BY <1>3, <2>1, <2>2, <3>1 DEF ListOK
  <2> QED
    BY <1>1, <2>4, <2>5, <2>6 DEF ListInv
<1>8. CASE EndUpdate
  <2>1. /\ pc = "item" /\ ToGo = {} /\ pc' = (IF TakesSnapshot THEN "snapshot" ELSE "idle")
        /\ early' = (IF updates = 1 THEN Known ELSE early) /\ updates' = updates
        /\ explicitParentList' = explicitParentList /\ stoppableList' = stoppableList
    BY <1>8 DEF EndUpdate, ToGo, listVars
  <2>2. Late' /\ (updates # 1 => Late) /\ (updates = 1 => ~ Late) /\ ~ Freeing /\ ~ Freeing'
    BY <1>5, <2>1 DEF Late, Freeing
  <2>3. OptionsOK'
    BY <1>2, <1>5, <2>1 DEF ListInv, OptionsOK, TakesSnapshot
  <2>4. \A q \in Known : "NEW" \notin FlagsOf(q)
    BY <2>1 DEF ListInv, NewOK
  <2>5. ListingOK'
    <3>1. CASE updates = 1
      <4>1. \A q \in Known : q <= born
        BY <1>1 DEF TreeInv, BirthsOK
      <4> QED
        BY <1>2, <1>3, <2>1, <2>2, <3>1, <4>1 DEF ListInv, ListingOK
    <3>2. CASE updates # 1
      BY <1>2, <1>3, <2>1, <2>2, <3>2 DEF ListInv, ListingOK
    <3> QED
      BY <3>1, <3>2
  <2>6. RecordsOK' /\ NewOK'
    BY <1>3, <2>1, <2>4 DEF RecordsOK, NewOK, Scanning
  <2>7. FlagsOK'
    <3>1. \A q \in Known : Asked(q)' = Asked(q)
      BY <1>2, <1>4, <2>1, <2>2 DEF Asked
    <3> QED
      BY <1>2, <1>3, <1>4, <3>1, FlagsKept DEF ListInv
  <2>8. ListOK'
    <3>1. \A q : InList(q)' = InList(q)
      BY <2>1 DEF InList
    <3> QED
      BY <1>3, <2>1, <3>1 DEF ListInv, ListOK
  <2> QED
    BY <1>1, <2>3, <2>5, <2>6, <2>7, <2>8 DEF ListInv
<1>9. CASE EndSnapshot \/ update_proc_tree \/ trie_deallocate \/ EndFree
  <2>1. /\ early' = early /\ stoppableList' = stoppableList
        /\ \/ /\ pc = "snapshot" /\ pc' = "idle" /\ explicitParentList' /\ updates' = updates
           \/ /\ pc = "idle" /\ pc' = "scan" /\ updates' = updates + 1 /\ pos' = 0
              /\ explicitParentList' = explicitParentList
           \/ /\ \/ pc = "idle" /\ pc' = "free"
                 \/ pc = "free" /\ pc' = "gone"
              /\ updates' = updates /\ explicitParentList' = explicitParentList
    BY <1>1, <1>9 DEF EndSnapshot, update_proc_tree, trie_deallocate, EndFree, restVars,
       listVars, LostInv, RootOK
  <2>2. Late' /\ Late /\ (Freeing => Freeing')
    BY <1>5, <2>1 DEF Late, Freeing
  <2>3. OptionsOK'
    BY <1>2, <1>5, <2>1 DEF ListInv, OptionsOK
  <2>4. ListingOK'
    BY <1>2, <1>3, <2>1, <2>2 DEF ListInv, ListingOK
  <2>5. RecordsOK'
    <3>1. \A q \in alive' : q > 0
      BY <1>1, Consts DEF TreeInv, ProcTypes
    <3>2. \A q \in alive' : ~ (q <= 0)
      <4>1. alive' \subseteq Pids
        BY <1>1 DEF TreeInv, ProcTypes
      <4> QED
        BY <3>1, <4>1, Consts
    <3> QED
      BY <2>1, <3>2 DEF RecordsOK, Scanning
  <2>6. NewOK'
    BY <1>2, <1>3, <2>1, <2>2 DEF ListInv, NewOK
  <2>7. FlagsOK'
    BY <1>6, <2>1, <2>2
  <2>8. ListOK'
    <3>1. \A q : InList(q)' = InList(q)
      BY <2>1 DEF InList
    <3> QED
      BY <1>3, <2>1, <3>1 DEF ListInv, ListOK
  <2> QED
    BY <1>1, <2>3, <2>4, <2>5, <2>6, <2>7, <2>8 DEF ListInv
<1> QED
  BY <1>7, <1>8, <1>9

\* The snapshot marks as parents those that are asked for, and these are under a parent.
LEMMA ListSnapshot ==
  ASSUME ListInv, update_snapshot_pid PROVE ListInv'
<1>0. PICK p : p = NextVisited(trie, Pids, pos)
  OBVIOUS
<1> DEFINE flags == FlagsOf(p) \ {"CHILD"}
           i == [Info(p) EXCEPT !.flags =
                   IF "STOPPABLE" \in flags THEN flags \cup {"PARENT"} ELSE flags]
<1>1. /\ pc = "snapshot" /\ pc' = pc /\ ToGo # {} /\ pos' = p /\ trie' = Stored(p, i, trie)
      /\ UNCHANGED <<procVars, listVars, num_nodes, dangling, restVars>>
  BY <1>0 DEF update_snapshot_pid, ToGo
<1>2. /\ mode' = mode /\ updates' = updates /\ early' = early /\ UNCHANGED procVars
      /\ explicitParentList' = explicitParentList /\ alive' = alive /\ born' = born
      /\ parentOf' = parentOf /\ stoppableList' = stoppableList
  BY <1>1 DEF procVars, restVars, listVars
<1>3. LostInv /\ LostInv' /\ TreeInv /\ TreeInv' /\ p \in Known
  BY <1>0, <1>1, LostVisits, NextInTree DEF ListInv, LostInv
<1>4. /\ i \in Infos
      /\ i.flags = IF "STOPPABLE" \in flags THEN flags \cup {"PARENT"} ELSE flags
  <2>1. Info(p) \in Infos /\ FlagsOf(p) \subseteq Flags
    BY <1>3, InfoFacts DEF TreeInv, NodesOK
  <2> QED
    BY <2>1 DEF Infos, Flags
<1> HIDE DEF i
<1>5. /\ Known' = Known /\ Info(p)' = i
      /\ \A q \in Pids \ {p} : Info(q)' = Info(q) /\ FlagsOf(q)' = FlagsOf(q)
  BY <1>0, <1>1, <1>3, <1>4, StoreVisit
<1>6. FlagsOf(p)' = IF "STOPPABLE" \in FlagsOf(p) THEN (FlagsOf(p) \ {"CHILD"}) \cup {"PARENT"}
                                                  ELSE FlagsOf(p) \ {"CHILD"}
  BY <1>4, <1>5 DEF FlagsOf
<1>7. "NEW" \notin FlagsOf(p) /\ \A q \in Known : "NEW" \notin FlagsOf(q)
  BY <1>1, <1>3 DEF ListInv, NewOK
<1>8. Late' = Late /\ Freeing' = Freeing /\ Listing' = Listing
  BY <1>1, <1>2 DEF Late, Freeing, Listing
<1>9. \A q : /\ UnderExclusion(q)' = UnderExclusion(q) /\ UnderParent(q)' = UnderParent(q)
             /\ Asked(q)' = Asked(q)
  BY <1>2, <1>3, <1>8, LimiterDescent, SameAsked
<1>10. \A q \in Known : /\ "NEW" \notin FlagsOf(q)'
                        /\ "STOPPABLE" \in FlagsOf(q)' <=> "STOPPABLE" \in FlagsOf(q)
  BY <1>5, <1>6, <1>7 DEF Known
<1>11. FlagsOK'
  <2> SUFFICES ASSUME NEW q \in alive, q \in Known
               PROVE  /\ q \in mode.exclusions => "EXCLUDE" \in FlagsOf(q)'
                      /\ q \in mode.parents \ mode.exclusions => "PARENT" \in FlagsOf(q)'
                      /\ "EXCLUDE" \in FlagsOf(q)' => UnderExclusion(q)
                      /\ FlagsOf(q)' \cap {"PARENT", "CHILD"} # {} => UnderParent(q)
                      /\ "NEW" \notin FlagsOf(q)' => ("STOPPABLE" \in FlagsOf(q)' <=> Asked(q))
    BY <1>2, <1>5, <1>9 DEF FlagsOK
  <2>1. /\ q \in mode.exclusions => "EXCLUDE" \in FlagsOf(q)
        /\ q \in mode.parents \ mode.exclusions => "PARENT" \in FlagsOf(q)
        /\ "EXCLUDE" \in FlagsOf(q) => UnderExclusion(q)
        /\ FlagsOf(q) \cap {"PARENT", "CHILD"} # {} => UnderParent(q)
        /\ "STOPPABLE" \in FlagsOf(q) <=> Asked(q)
    BY <1>7 DEF ListInv, FlagsOK
  <2>2. CASE q # p
    <3>1. FlagsOf(q)' = FlagsOf(q)
      BY <1>5, <2>2 DEF Known
    <3> QED
      BY <2>1, <3>1
  <2>3. CASE q = p
    <3>1. Asked(q) => UnderParent(q)
      BY DEF Asked
    <3>2. /\ "EXCLUDE" \in FlagsOf(q)' <=> "EXCLUDE" \in FlagsOf(q)
          /\ "PARENT" \in FlagsOf(q) => "PARENT" \in FlagsOf(q)'
          /\ FlagsOf(q)' \cap {"PARENT", "CHILD"} # {}
             => FlagsOf(q) \cap {"PARENT", "CHILD"} # {} \/ "STOPPABLE" \in FlagsOf(q)
      BY <1>6, <2>3
    <3> QED
      BY <1>10, <2>1, <3>1, <3>2
  <2> QED
    BY <2>2, <2>3
<1>12. OptionsOK' /\ ListingOK'
  BY <1>1, <1>2, <1>5, <1>8 DEF ListInv, OptionsOK, ListingOK
<1>13. RecordsOK'
  BY <1>1 DEF RecordsOK, Scanning
<1>14. NewOK'
  BY <1>1, <1>5, <1>10 DEF NewOK
<1>15. ListOK'
  <2>1. \A q : InList(q)' = InList(q)
    BY <1>2 DEF InList
  <2> QED
    BY <1>1, <1>5, <1>10, <2>1 DEF ListInv, ListOK
<1> QED
  BY <1>3, <1>11, <1>12, <1>13, <1>14, <1>15 DEF ListInv

\* trie_deallocate only removes.
LEMMA ListFree ==
  ASSUME ListInv, trie_node_free PROVE ListInv'
<1>0. PICK p : p = NextVisited(trie, Pids, pos)
  OBVIOUS
<1>1. /\ pc = "free" /\ pc' = pc /\ ToGo # {} /\ pos' = p /\ RemoveNode(p)
      /\ UNCHANGED <<procVars, listVars, restVars>>
  BY <1>0 DEF trie_node_free, ToGo
<1>2. /\ mode' = mode /\ updates' = updates /\ early' = early /\ UNCHANGED procVars
      /\ explicitParentList' = explicitParentList /\ alive' = alive /\ born' = born
      /\ parentOf' = parentOf
  BY <1>1 DEF procVars, restVars
<1>3. LostInv /\ LostInv' /\ TreeInv
  BY LostVisits DEF ListInv, LostInv
<1>4. /\ Known' = Known \ {p}
      /\ \A q \in Pids \ {p} : Info(q)' = Info(q) /\ FlagsOf(q)' = FlagsOf(q)
  BY <1>0, <1>1, <1>3, DropVisit
<1>5. \A q \in Known' : q \in Known /\ FlagsOf(q)' = FlagsOf(q)
  BY <1>4 DEF Known
<1>6. Late' = Late /\ Freeing' /\ Listing' = Listing
  BY <1>1, <1>2 DEF Late, Freeing, Listing
<1>7. \A q : /\ UnderExclusion(q)' = UnderExclusion(q) /\ UnderParent(q)' = UnderParent(q)
             /\ Asked(q)' = Asked(q)
  BY <1>2, <1>3, <1>6, LimiterDescent, SameAsked
<1>8. FlagsOK'
  BY <1>2, <1>5, <1>7, FlagsKept DEF ListInv
<1>9. OptionsOK' /\ ListingOK'
  BY <1>1, <1>2, <1>6 DEF ListInv, OptionsOK, ListingOK
<1>10. RecordsOK' /\ ListOK'
  BY <1>1 DEF RecordsOK, ListOK, Scanning
<1>11. NewOK'
  BY <1>1, <1>2, <1>5, <1>6 DEF ListInv, NewOK
<1> QED
  BY <1>3, <1>8, <1>9, <1>10, <1>11 DEF ListInv

\* A stuttering step keeps the invariant.
LEMMA ListStutter ==
  ASSUME ListInv, ~ Orphans, UNCHANGED vars PROVE ListInv'
<1>1. LostInv /\ LostInv' /\ TreeInv
  BY LostNext DEF ListInv, LostInv
<1>2. /\ trie' = trie /\ alive' = alive /\ parentOf' = parentOf /\ mode' = mode /\ born' = born
      /\ UNCHANGED procVars /\ pc' = pc /\ pos' = pos /\ updates' = updates /\ early' = early
      /\ explicitParentList' = explicitParentList /\ stoppableList' = stoppableList
  BY DEF vars, treeVars, procVars, restVars, listVars
<1>3. /\ Known' = Known /\ ToGo' = ToGo
      /\ \A q : Info(q)' = Info(q) /\ FlagsOf(q)' = FlagsOf(q) /\ InList(q)' = InList(q)
  BY <1>2, SameKnown DEF InList
<1>4. Late' = Late /\ Freeing' = Freeing /\ Listing' = Listing
  BY <1>2 DEF Late, Freeing, Listing
<1>5. \A q : /\ UnderExclusion(q)' = UnderExclusion(q) /\ UnderParent(q)' = UnderParent(q)
             /\ Asked(q)' = Asked(q) /\ Recorded(q)' = Recorded(q)
  BY <1>1, <1>2, <1>3, <1>4, LimiterDescent, SameAsked DEF Recorded
<1>6. FlagsOK'
  BY <1>2, <1>3, <1>5, FlagsKept DEF ListInv
<1>7. OptionsOK' /\ ListingOK'
  BY <1>2, <1>3, <1>4 DEF ListInv, OptionsOK, ListingOK
<1>8. RecordsOK'
  BY <1>2, <1>3, <1>5 DEF ListInv, RecordsOK, Scanning
<1>9. NewOK' /\ ListOK'
  BY <1>2, <1>3, <1>4 DEF ListInv, NewOK, ListOK
<1> QED
  BY <1>1, <1>6, <1>7, <1>8, <1>9 DEF ListInv

\* Every step keeps the invariant.
LEMMA ListNext ==
  ASSUME ~ Orphans, Disjoint PROVE ListInv /\ [Next]_vars => ListInv'
<1> SUFFICES ASSUME ListInv, [Next]_vars PROVE ListInv'
  OBVIOUS
<1>1. CASE ScanEntry
  BY <1>1, ListScan
<1>2. CASE ReadPpid
  BY <1>2, ListPpid
<1>3. CASE UpdateItem
  BY <1>3, ListUpdate
<1>4. CASE EndScan \/ EndUpdate \/ EndSnapshot \/ update_proc_tree
           \/ trie_deallocate \/ EndFree
  BY <1>4, ListStages
<1>5. CASE update_snapshot_pid
  BY <1>5, ListSnapshot
<1>6. CASE trie_node_free
  BY <1>6, ListFree
<1>7. CASE \E p \in Pids : fork(p) \/ exit(p)
  BY <1>7, ListProcs
<1>8. CASE UNCHANGED vars
  BY <1>8, ListStutter
<1> QED
  BY <1>1, <1>2, <1>3, <1>4, <1>5, <1>6, <1>7, <1>8 DEF Next, limiter

\* It says that the list holds the wanted processes.
LEMMA ListInvWanted == ListInv => ListsTheWanted
<1> SUFFICES ASSUME ListInv, pc = "idle", NEW p \in alive \cap Known
             PROVE  Wanted(p) <=> \E i \in 1..Len(stoppableList) : stoppableList[i] = p
  BY DEF ListsTheWanted
<1>1. Late
  BY DEF Late
<1>2. InList(p) <=> Asked(p)
  BY DEF ListInv, ListOK, NewOK, FlagsOK
<1>3. mode.o /\ mode.p /\ p \in mode.parents => p \in early
  BY <1>1 DEF ListInv, ListingOK, Listing
<1>4. Wanted(p) <=> Asked(p)
  BY <1>1, <1>3 DEF Wanted, Asked, UnderExclusion, UnderParent
<1> QED
  BY <1>2, <1>4 DEF InList

\* Between updates the list holds exactly the processes that the options ask for, among
\* those in the tree, as long as no process exits before its children and no line with -x
\* names a process as parent and exclusion.
THEOREM ListIsWanted ==
  ASSUME ~ Orphans, Disjoint PROVE Spec => []ListsTheWanted
<1>1. Init => ListInv
  BY ListInit
<1>2. ListInv /\ [Next]_vars => ListInv'
  BY ListNext
<1>3. ListInv => ListsTheWanted
  BY ListInvWanted
<1> QED
  BY <1>1, <1>2, <1>3, PTL DEF Spec
=============================================================================
