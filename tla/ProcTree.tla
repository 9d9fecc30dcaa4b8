------------------------------ MODULE ProcTree ------------------------------
(***************************************************************************)
(* Which processes the limiter controls: the process tree built by the     *)
(* command line (cmdline.c) and updated from /proc (get_children.c), while *)
(* processes fork and exit between any two steps.                          *)
(*                                                                         *)
(* PIDs, 1..MaxPid, are given out in the order of births.                  *)
(* What the reads of freed nodes return is taken from the allocator of the *)
(* time: free leaves the links of a node as they were.  A use of the root's*)
(* dangling link and of a NULL parent end in "crashed".                    *)
(***************************************************************************)
EXTENDS Trie

CONSTANTS
  AtStart,    \* the parents of the processes that exist at the start
  Immortal,   \* processes that do not exit: init, kthreadd and the limiter
  Stubborn,   \* processes that cannot be stopped or do not go on
  Orphans,    \* whether a process may exit before its children
  Modes,      \* the command lines
  MaxUpdates  \* bound: updates of the tree

Pids  == 1..MaxPid
Flags == {"PARENT", "CHILD", "EXCLUDE", "STOPPABLE", "OK", "NEW"}
Infos == [ppid : -1..MaxPid, flags : SUBSET Flags]

ASSUME ProcTreeAssumption ==
  /\ MaxPid \in Nat \ {0} /\ MaxUpdates \in Nat \ {0} /\ Orphans \in BOOLEAN
  /\ DOMAIN AtStart \subseteq Pids
  /\ \A p \in DOMAIN AtStart :
       AtStart[p] \in {0} \cup {q \in DOMAIN AtStart : q < p}
  /\ {1, 2} \subseteq Immortal /\ Immortal \subseteq DOMAIN AtStart
  /\ Stubborn \subseteq Pids
  /\ \A m \in Modes : /\ m.parents \subseteq DOMAIN AtStart
                      /\ m.exclusions \subseteq DOMAIN AtStart
                      /\ {m.p, m.o, m.x} \subseteq BOOLEAN

VARIABLES
  alive, parentOf, born,   \* the process table; born: the last PID given out
  mode,                    \* the command line
  explicitParentList,
  trie, num_nodes,
  dangling,                \* the links of the root that point to freed nodes
  stoppableList, stoppableListSize,
  pc,
  pos,                     \* the PID last read from /proc, or last visited
  updates,
  early                    \* history: the processes known to the first update

procVars == <<alive, parentOf, born>>
listVars == <<stoppableList, stoppableListSize>>
treeVars == <<trie, num_nodes, dangling>>
restVars == <<mode, explicitParentList, updates, early>>
vars == <<procVars, listVars, treeVars, restVars, pc, pos>>

ListMax(S) == CHOOSE n \in S : \A m \in S : m <= n
Info(p)    == CHOOSE i \in trie_value(p, trie) : TRUE
FlagsOf(p) == Info(p).flags
Known      == {p \in Pids : Has(p, trie)}
Descends(p, S) ==   \* p is in S or born of a process of S, as ps shows it
  LET reach[q \in Pids] == \/ q \in S
                           \/ parentOf[q] # 0 /\ reach[parentOf[q]]
  IN  reach[p]

-----------------------------------------------------------------------------
(* The process table *)

fork(p) ==
  /\ p \in alive /\ born < MaxPid
  /\ born' = born + 1
  /\ alive' = alive \cup {born + 1}
  /\ parentOf' = [parentOf EXCEPT ![born + 1] = p]
  /\ UNCHANGED <<listVars, treeVars, restVars, pc, pos>>

exit(p) ==
  LET children == {c \in alive : parentOf[c] = p} IN
  /\ p \in alive \ Immortal
  /\ Orphans \/ children = {}
  /\ alive' = alive \ {p}
  /\ parentOf' = [c \in Pids |-> IF c \in children THEN 1 ELSE parentOf[c]]
  /\ UNCHANGED <<born, listVars, treeVars, restVars, pc, pos>>

-----------------------------------------------------------------------------
(* create_proc_tree *)

Exclude(i) == [i EXCEPT !.flags = {"EXCLUDE"}]

\* The parents, and then the exclusions, which override them.
create_proc_tree(m) ==
  LET listed == m.parents \cup m.exclusions
      info(p) == LET i == [ppid |-> 0, flags |-> {"PARENT", "NEW"}]
                 IN  IF p \in m.exclusions THEN Exclude(i) ELSE i
      after[n \in 0..MaxPid] ==
        IF n = 0 THEN EmptyTrie
        ELSE IF n \in listed THEN trie_insert(n, info(n), after[n-1]) ELSE after[n-1]
  IN  after[MaxPid]

\* The command line creates the tree and updates it for the first time; without
\* -p the parent is init, and -o takes effect only after the snapshot.
Init ==
  /\ mode \in Modes
  /\ alive = DOMAIN AtStart /\ born = ListMax(alive)
  /\ parentOf = [p \in Pids |-> IF p \in alive THEN AtStart[p] ELSE 0]
  /\ explicitParentList = (mode.o /\ mode.p)
  /\ trie = create_proc_tree(mode)
  /\ num_nodes = Cardinality(mode.parents \cup mode.exclusions)
  /\ dangling = {}
  /\ stoppableList = <<>> /\ stoppableListSize = 0
  /\ pc = "scan" /\ pos = 0 /\ updates = 1 /\ early = {}

-----------------------------------------------------------------------------
(* update_proc_tree: /proc is read in the order of the PIDs *)

Unread == {p \in alive : p > pos}

\* Seeded fault: a process that is known is not marked.
NotMarked(i) == i
MarkOK(i) == [i EXCEPT !.flags = @ \cup {"OK"}]

NewInfo == [ppid |-> 0, flags |-> {"OK", "NEW"}]

NeedsPpid(p) ==
  /\ ~ (explicitParentList /\ mode.x)
  /\ Has(p, trie) => Info(p).ppid = 0 /\ p # 1

ScanEntry ==
  /\ pc = "scan" /\ Unread # {}
  /\ LET p == CHOOSE q \in Unread : \A r \in Unread : q <= r IN
     /\ pos' = p
     /\ IF p % 2 \in dangling
        THEN pc' = "crashed" /\ UNCHANGED treeVars
        ELSE /\ trie' = IF Has(p, trie) THEN Stored(p, MarkOK(Info(p)), trie)
                                        ELSE trie_insert(p, NewInfo, trie)
             /\ num_nodes' = IF Has(p, trie) THEN num_nodes ELSE num_nodes + 1
             /\ pc' = IF NeedsPpid(p) THEN "ppid" ELSE "scan"
             /\ UNCHANGED dangling
  /\ UNCHANGED <<procVars, listVars, restVars>>

\* The process may have exited since it was listed.
get_ppid_of(p) == IF p \in alive THEN parentOf[p] ELSE -1

ReadPpid ==
  /\ pc = "ppid" /\ pc' = "scan"
  /\ trie' = Stored(pos, [Info(pos) EXCEPT !.ppid = get_ppid_of(pos)], trie)
  /\ UNCHANGED <<procVars, listVars, num_nodes, dangling, restVars, pos>>

\* Seeded fault: the block grows in every update.
GrownBy(n) == stoppableListSize + n + 1
SizeFor(n) == IF n + 1 > stoppableListSize THEN n + 1 ELSE stoppableListSize

EndScan ==
  /\ pc = "scan" /\ Unread = {}
  /\ pos' = 0 /\ stoppableList' = <<>>
  /\ stoppableListSize' = SizeFor(Cardinality({p \in Known : "OK" \in FlagsOf(p)}))
  /\ pc' = IF dangling = {} THEN "item" ELSE "crashed"
  /\ UNCHANGED <<procVars, treeVars, restVars>>

-----------------------------------------------------------------------------
(* update_proc_tree_item, for each process of the tree *)

\* What the walk from p to its ancestors meets first: a process with one of the
\* flags ("found"), the top ("top"), or a parent that is not in the tree ("lost").
\* Seeded fault: the walk ends at the parent.
OneUp(p, flags) ==
  LET q == Info(p).ppid IN
  IF q <= 0 THEN "top" ELSE IF ~ Has(q, trie) THEN "lost"
  ELSE IF FlagsOf(q) \cap flags # {} THEN "found" ELSE "top"
Above(p, flags) ==
  LET walk[q \in Known] ==
        LET up == Info(q).ppid IN
        IF up <= 0 THEN "top" ELSE IF ~ Has(up, trie) THEN "lost"
        ELSE IF FlagsOf(up) \cap flags # {} THEN "found" ELSE walk[up]
  IN  walk[p]

get_stoppable_status(p) ==
  IF p \in alive \ Stubborn THEN "STOPPABLE" ELSE "UNSTOPPABLE"

Probed(p, flags) ==
  IF get_stoppable_status(p) = "STOPPABLE" THEN flags \cup {"STOPPABLE"} ELSE flags

ToParents(p) == IF FlagsOf(p) \cap {"PARENT", "CHILD"} # {} THEN "found"
                ELSE Above(p, {"PARENT", "CHILD"})

\* The flags of a process that is seen for the first time.
Classified(p) ==
  LET old == FlagsOf(p) \ {"OK", "NEW"}
      flags == IF ~ mode.x /\ Above(p, {"EXCLUDE"}) = "found"
                 THEN old \cup {"EXCLUDE"} ELSE old
  IN  IF "EXCLUDE" \in flags THEN flags
      ELSE IF explicitParentList
        THEN IF "PARENT" \in flags THEN Probed(p, flags) ELSE flags
      ELSE IF ToParents(p) # "found" THEN flags
      ELSE Probed(p, IF "PARENT" \in flags THEN flags ELSE flags \cup {"CHILD"})

\* The walk dereferences a NULL parent (lines 213 and 237).
WalkIsLost(p) ==
  /\ {"OK", "NEW"} \subseteq FlagsOf(p)
  /\ \/ ~ mode.x /\ Above(p, {"EXCLUDE"}) = "lost"
     \/ /\ "EXCLUDE" \notin FlagsOf(p) /\ ~ explicitParentList
        /\ mode.x \/ Above(p, {"EXCLUDE"}) # "found"
        /\ ToParents(p) = "lost"

Updated(p) ==
  IF "NEW" \in FlagsOf(p) THEN Classified(p) ELSE FlagsOf(p) \ {"OK"}

RemoveNode(p) ==
  /\ trie' = trie_remove(p, trie)
  /\ num_nodes' = IF Landing(trie, Path[p]) # <<>> THEN num_nodes - 1 ELSE num_nodes
  /\ dangling' = dangling \cup LeftDangling(trie, p)

Listable(p) == "STOPPABLE" \in Updated(p)

UpdateItem ==
  /\ pc = "item" /\ ToVisit(trie, Pids, pos) # {}
  /\ LET p == NextVisited(trie, Pids, pos) IN
     /\ pos' = p
     /\ IF WalkIsLost(p)
        THEN pc' = "crashed" /\ UNCHANGED <<treeVars, listVars>>
        ELSE IF "OK" \in FlagsOf(p)
        THEN /\ trie' = Stored(p, [Info(p) EXCEPT !.flags = Updated(p)], trie)
             /\ stoppableList' = IF Listable(p) THEN Append(stoppableList, p)
                                                ELSE stoppableList
             /\ UNCHANGED <<num_nodes, dangling, stoppableListSize, pc>>
        ELSE RemoveNode(p) /\ UNCHANGED <<listVars, pc>>
  /\ UNCHANGED <<procVars, restVars>>

\* Without -p, -o turns the processes found so far into the parent list.
TakesSnapshot == mode.o /\ ~ mode.p /\ ~ explicitParentList

EndUpdate ==
  /\ pc = "item" /\ ToVisit(trie, Pids, pos) = {}
  /\ pos' = 0
  /\ pc' = IF TakesSnapshot THEN "snapshot" ELSE "idle"
  /\ early' = IF updates = 1 THEN Known ELSE early
  /\ UNCHANGED <<procVars, listVars, treeVars, mode, explicitParentList, updates>>

update_snapshot_pid ==
  /\ pc = "snapshot" /\ ToVisit(trie, Pids, pos) # {}
  /\ LET p == NextVisited(trie, Pids, pos)
         flags == FlagsOf(p) \ {"CHILD"}
     IN
     /\ pos' = p
     /\ trie' = Stored(p, [Info(p) EXCEPT !.flags =
          IF "STOPPABLE" \in flags THEN flags \cup {"PARENT"} ELSE flags], trie)
  /\ UNCHANGED <<procVars, listVars, num_nodes, dangling, restVars, pc>>

EndSnapshot ==
  /\ pc = "snapshot" /\ ToVisit(trie, Pids, pos) = {}
  /\ pos' = 0 /\ pc' = "idle" /\ explicitParentList' = TRUE
  /\ UNCHANGED <<procVars, listVars, treeVars, mode, updates, early>>

\* _update_proc_tree, called by a timer or on an error.
update_proc_tree ==
  /\ pc = "idle" /\ updates < MaxUpdates
  /\ updates' = updates + 1 /\ pc' = "scan" /\ pos' = 0
  /\ UNCHANGED <<procVars, listVars, treeVars, mode, explicitParentList, early>>

-----------------------------------------------------------------------------
(* trie_deallocate, at the end of the program *)

trie_deallocate ==
  /\ pc = "idle" /\ pos' = 0
  /\ pc' = IF dangling = {} THEN "free" ELSE "crashed"
  /\ UNCHANGED <<procVars, listVars, treeVars, restVars>>

trie_node_free ==
  /\ pc = "free" /\ ToVisit(trie, Pids, pos) # {}
  /\ LET p == NextVisited(trie, Pids, pos) IN pos' = p /\ RemoveNode(p)
  /\ UNCHANGED <<procVars, listVars, restVars, pc>>

EndFree ==
  /\ pc = "free" /\ ToVisit(trie, Pids, pos) = {}
  /\ pc' = "gone" /\ UNCHANGED <<procVars, listVars, treeVars, restVars, pos>>

-----------------------------------------------------------------------------
limiter == \/ ScanEntry \/ ReadPpid \/ EndScan \/ UpdateItem \/ EndUpdate
           \/ update_snapshot_pid \/ EndSnapshot \/ update_proc_tree
           \/ trie_deallocate \/ trie_node_free \/ EndFree

Next == limiter \/ \E p \in Pids : fork(p) \/ exit(p)

Spec == Init /\ [][Next]_vars

-----------------------------------------------------------------------------
\* The type invariant.
TypeOK ==
  /\ alive \subseteq Pids /\ parentOf \in [Pids -> 0..MaxPid]
  /\ born \in 0..MaxPid /\ mode \in Modes /\ explicitParentList \in BOOLEAN
  /\ \A node \in DOMAIN trie : /\ trie[node] \subseteq Infos
                               /\ Cardinality(trie[node]) <= 1
  /\ num_nodes \in 0..MaxPid /\ dangling \subseteq {0, 1}
  /\ stoppableList \in Seq(Pids) /\ stoppableListSize \in 0..MaxPid + 1
  /\ pc \in {"scan", "ppid", "item", "snapshot", "idle", "free", "gone", "crashed"}
  /\ pos \in 0..MaxPid /\ updates \in 1..MaxUpdates /\ early \subseteq Pids

\* What the usage text says of p, read off the process table: under a parent,
\* not under an exclusion; -o and -x leave the descendants aside.
Wanted(p) ==
  /\ p \notin Stubborn
  /\ IF mode.x THEN p \notin mode.exclusions ELSE ~ Descends(p, mode.exclusions)
  /\ IF mode.o /\ mode.p THEN p \in mode.parents ELSE Descends(p, mode.parents)
  /\ mode.o => p \in early

\* Between updates, the list holds exactly those of the processes in the tree
\* that the options ask for (get_children.h:44-57, cmdline.c:20-33), whatever
\* was born or exited during the update.
ListsTheWanted ==
  pc = "idle" => \A p \in alive \cap Known :
    Wanted(p) <=> \E i \in 1..Len(stoppableList) : stoppableList[i] = p

\* The update neither follows a parent that has left the tree nor a link of the
\* root to a freed node (get_children.c:213, 237; trie.c:156).
NeverLost == pc # "crashed"

\* No node is kept without need, and num_nodes counts the values.
Trimmed ==
  /\ num_nodes = Cardinality(Known)
  /\ \A node \in DOMAIN trie : \E p \in Known : Under(node, Path[p])

\* A process leaves the tree in an update only when it has exited.
OnlyDeadLeave ==
  [][pc = "item" => \A p \in alive : Has(p, trie) => Has(p, trie)']_vars

M == INSTANCE KeyMap WITH
       Keys <- Pids, key <- pos, map <- [p \in Pids |-> trie_value(p, trie)]

\* The trie implements the map of trie.h for the calls that are made of it: each
\* step inserts, removes or changes the key it means and no other.
ImplementsMap == M!Spec
=============================================================================
