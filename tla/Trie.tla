-------------------------------- MODULE Trie --------------------------------
(***************************************************************************)
(* The binary trie that holds the processes                                *)
(* (src/power_modulating_interfaces/signal_insert_delays/trie.c).          *)
(*                                                                         *)
(* A node is the sequence of the bits that lead to it, the lowest first; a *)
(* trie maps each allocated node to the set of its value, {} when value is *)
(* NULL.  All operators are recursive functions or plain sets.             *)
(***************************************************************************)
EXTENDS Integers, Sequences, FiniteSets

CONSTANT MaxPid   \* bound: the keys are the PIDs up to MaxPid

\* The links that lead to the node of a key.
Path[key \in 0..MaxPid] ==
  IF key < 2 THEN <<key>> ELSE <<key % 2>> \o Path[key \div 2]

EmptyTrie == [node \in {} |-> {}]

Upto(node) == {SubSeq(node, 1, n) : n \in 1..Len(node)}
Under(node, other) == node \in Upto(other)

-----------------------------------------------------------------------------
trie_value(key, t) == IF Path[key] \in DOMAIN t THEN t[Path[key]] ELSE {}
Has(key, t) == trie_value(key, t) # {}

\* The trie after a new value for key: an existing one stays.
trie_insert(key, value, t) ==
  [node \in DOMAIN t \cup Upto(Path[key]) |->
     IF node = Path[key] /\ ~ Has(key, t) THEN {value}
     ELSE IF node \in DOMAIN t THEN t[node] ELSE {}]

\* *value is changed in place.
Stored(key, value, t) == [t EXCEPT ![Path[key]] = {value}]

-----------------------------------------------------------------------------
(* trie_remove *)

\* Seeded fault: a one bit is taken for a zero when both links are there.
ZeroFirst(t, node, bit) ==
  LET one == Append(node, 1)  zero == Append(node, 0) IN
  IF zero \in DOMAIN t THEN zero ELSE IF bit = 1 /\ one \in DOMAIN t THEN one ELSE <<>>
\* The link that trie_remove_recursive follows: for a one bit without a link it
\* takes the zero link.  <<>>: it stops.
Follow(t, node, bit) ==
  LET one == Append(node, 1)  zero == Append(node, 0) IN
  IF bit = 1 /\ one \in DOMAIN t THEN one ELSE IF zero \in DOMAIN t THEN zero ELSE <<>>

\* The node whose value is taken.
Landing(t, path) ==
  LET at[n \in 1..Len(path)] ==
        IF n = 1 THEN IF <<path[1]>> \in DOMAIN t THEN <<path[1]>> ELSE <<>>
        ELSE IF at[n-1] = <<>> THEN <<>> ELSE Follow(t, at[n-1], path[n])
  IN  at[Len(path)]

\* Seeded fault: the nodes on the way stay.
NodeOnly(t, node) == {node} \ {n \in Upto(node) : \E o \in DOMAIN t : Under(n, o) /\ o # n}
\* The nodes on the way that are left without value and branches.
Useless(t, node) ==
  {n \in Upto(node) : \A o \in DOMAIN t : Under(n, o) => t[o] = {} /\ Under(o, node)}

\* The nodes freed; those above the landing only if a value was there.
Freed(t, key) ==
  LET node == Landing(t, Path[key])
      bare == Useless([t EXCEPT ![node] = {}], node)
  IN  IF node = <<>> THEN {} ELSE IF t[node] # {} THEN bare ELSE bare \cap {node}

trie_remove(key, t) ==
  LET node == Landing(t, Path[key]) IN
  IF node = <<>> THEN t
  ELSE [n \in DOMAIN t \ Freed(t, key) |-> IF n = node THEN {} ELSE t[n]]

\* The link of the root is not reset when its node is freed (line 156).
LeftDangling(t, key) == {n[1] : n \in {m \in Freed(t, key) : Len(m) = 1}}

-----------------------------------------------------------------------------
(* trie_iterate *)

\* A node comes before its branches, the zero branch before the one branch.
Before(node, other) ==
  \/ Under(node, other) /\ node # other
  \/ \E n \in 1..Len(node) :
        /\ n <= Len(other) /\ SubSeq(node, 1, n-1) = SubSeq(other, 1, n-1)
        /\ node[n] = 0 /\ other[n] = 1

\* The keys of Keys that an iteration that has come to key last has still to
\* visit (last = 0: it has just begun).  Keys are positive.
ToVisit(t, Keys, last) ==
  {k \in Keys : Has(k, t) /\ (last = 0 \/ Before(Path[last], Path[k]))}
NextVisited(t, Keys, last) ==
  CHOOSE k \in ToVisit(t, Keys, last) :
     \A o \in ToVisit(t, Keys, last) : o = k \/ Before(Path[k], Path[o])
=============================================================================
