------------------------------- MODULE KeyMap -------------------------------
(* What a trie promises (trie.h): a map of which a call changes no other key *)
(* than the one it names.                                                    *)
EXTENDS Naturals

CONSTANT Keys
VARIABLES
  map,   \* for each key the set of its value, {} when it has none
  key    \* the key that the last call named

OthersKept(k) == DOMAIN map' = Keys /\ \A o \in Keys \ {k} : map'[o] = map[o]

Insert(k) == map[k] = {} /\ map'[k] # {}
Remove(k) == map[k] # {} /\ map'[k] = {}
Change(k) == map[k] # {} /\ map'[k] \notin {map[k], {}}

Init == DOMAIN map = Keys
Next == /\ key' \in Keys /\ OthersKept(key')
        /\ Insert(key') \/ Remove(key') \/ Change(key')
Spec == Init /\ [][Next]_map
=============================================================================
