------------------------------ MODULE LRUCache ------------------------------
(***************************************************************************)
(* The cache of the name server (src/cache.c): a hash table with open      *)
(* addressing over nodes that also form a doubly linked list, the node     *)
(* used last at its head.                                                  *)
(*                                                                         *)
(* Each operation holds the mutex of the cache from its first to its last  *)
(* line, so it is one step here.  The exception is an operation whose      *)
(* probing never ends: it keeps the mutex, and no other ever gets it.      *)
(***************************************************************************)
EXTENDS Integers, FiniteSets

CONSTANTS
    Key, Value,
    NoValue,         \* the cache holds nothing of a key
    NoNode,          \* an empty slot of the table
    Capacity,        \* slots of the table, and nodes before one is evicted
    Hash             \* hash_string

ASSUME CacheAssumption ==
    /\ Capacity \in Nat \ {0}
    /\ Hash \in [Key -> 0 .. Capacity - 1]
    /\ NoValue \notin Value
    /\ NoNode \notin [key : Key, value : Value]
    /\ IsFiniteSet(Key)

VARIABLES
    table,           \* hash_table: the node in each slot, or NoNode
    links,           \* next and prev of the nodes, which are named by their slots
    size,
    hung,            \* an operation probes for ever, with the mutex held
    latest,          \* history: the value put last for each key, if not removed since
    cut              \* history: a removal has emptied a slot in front of a node

vars == <<table, links, size, hung, latest, cut>>

-----------------------------------------------------------------------------
Slot == 0 .. Capacity - 1
Head == -1
Tail == Capacity
Null == -2
End  == {Head, Tail}

Occupied == {s \in Slot : table[s] # NoNode}

\* The slots probed for key k, in turn: (hash + i) % capacity.
Probe(k, i) == IF Hash[k] + i < Capacity THEN Hash[k] + i ELSE Hash[k] + i - Capacity

\* Probing for k ends at the i-th slot: it is empty or has the key, and no slot before.
Holds(k, s)   == table[s] # NoNode /\ table[s].key = k
Ends(k, s)    == table[s] # NoNode => table[s].key = k
EndsAt(k, i)  == Ends(k, Probe(k, i)) /\ \A j \in 0 .. i - 1 : ~Ends(k, Probe(k, j))
Endless(k)    == \A s \in Slot : ~Ends(k, s)

\* remove_node, add_to_head and move_to_head, which do without a search.
Unlink(L, n) == [L EXCEPT !.next[L.prev[n]] = L.next[n],
                          !.prev[L.next[n]] = L.prev[n]]

\* Mutant of LinkFirst: the old first node keeps its prev.
LinkFirstHalf(L, n) == [next |-> [L.next EXCEPT ![n] = L.next[Head], ![Head] = n],
                               prev |-> [L.prev EXCEPT ![n] = Head]]

LinkFirst(L, n) == [next |-> [L.next EXCEPT ![n] = L.next[Head], ![Head] = n],
                    prev |-> [L.prev EXCEPT ![n] = Head, ![L.next[Head]] = n]]
ToHead(L, n) == LinkFirst(Unlink(L, n), n)

\* A node is freed; what its pointers were is of no interest.
Freed(L, n) == [L EXCEPT !.next[n] = Null, !.prev[n] = Null]

Init ==
    /\ table = [s \in Slot |-> NoNode]
    /\ links = [next |-> [n \in Slot \cup End |-> IF n = Head THEN Tail ELSE Null],
                prev |-> [n \in Slot \cup End |-> IF n = Tail THEN Head ELSE Null]]
    /\ size = 0 /\ hung = FALSE
    /\ latest = [k \in Key |-> NoValue] /\ cut = FALSE

-----------------------------------------------------------------------------
\* A table without an empty slot and without the key has no end to the probing of
\* cache_get and cache_remove; cache_put stops its first search after one round,
\* and never ends the second, for an empty slot.
ProbeForEver(k) ==
    /\ ~hung
    /\ Endless(k)
    /\ hung' = TRUE
    /\ UNCHANGED <<table, links, size, latest, cut>>

\* cache_get: a node that is found moves to the head.
Get(k) ==
    /\ ~hung
    /\ \E i \in 0 .. Capacity - 1 :
         LET s == Probe(k, i)
         IN  /\ EndsAt(k, i)
             /\ links' = IF Holds(k, s) THEN ToHead(links, s) ELSE links
    /\ UNCHANGED <<table, size, hung, latest, cut>>

\* cache_put, of a key that is found: the value is replaced.
Update(k, v) ==
    /\ ~hung
    /\ \E i \in 0 .. Capacity - 1 :
         LET s == Probe(k, i)
         IN  /\ EndsAt(k, i)
             /\ Holds(k, s)
             /\ table' = [table EXCEPT ![s].value = v]
             /\ links' = ToHead(links, s)
    /\ latest' = [latest EXCEPT ![k] = v]
    /\ UNCHANGED <<size, hung, cut>>

\* Mutants of Insert: the node is put at its hash, whatever is there; it is counted
\* as if one more were kept.
InsertAtHash(k, v) ==
    /\ ~hung
    /\ \E i \in 0 .. Capacity - 1 : EndsAt(k, i) /\ ~Holds(k, Probe(k, i))
    /\ table' = [table EXCEPT ![Hash[k]] = [key |-> k, value |-> v]]
    /\ links' = IF table[Hash[k]] = NoNode THEN LinkFirst(links, Hash[k]) ELSE links
    /\ size' = size + 1
    /\ latest' = [latest EXCEPT ![k] = v]
    /\ UNCHANGED <<hung, cut>>

InsertEvicting(k, v) ==
    /\ ~hung
    /\ \E i \in 0 .. Capacity - 1 :
         LET s    == Probe(k, i)
             t1   == [table EXCEPT ![s] = [key |-> k, value |-> v]]
             l1   == LinkFirst(links, s)
             last == l1.prev[Tail]
         IN  /\ EndsAt(k, i)
             /\ ~Holds(k, s)
             /\ IF size + 1 >= Capacity
                  THEN /\ table' = [t1 EXCEPT ![last] = NoNode]
                       /\ links' = Freed(Unlink(l1, last), last)
                       /\ size'  = size
                  ELSE table' = t1 /\ links' = l1 /\ size' = size + 1
    /\ latest' = [latest EXCEPT ![k] = v]
    /\ UNCHANGED <<hung, cut>>

\* cache_put, of a key that is not found: a new node, and then the node used last
\* is evicted if there are more than the capacity.
Insert(k, v) ==
    /\ ~hung
    /\ \E i \in 0 .. Capacity - 1 :
         LET s    == Probe(k, i)
             t1   == [table EXCEPT ![s] = [key |-> k, value |-> v]]
             l1   == LinkFirst(links, s)
             last == l1.prev[Tail]
         IN  /\ EndsAt(k, i)
             /\ ~Holds(k, s)
             /\ IF size + 1 > Capacity
                  THEN /\ table' = [t1 EXCEPT ![last] = NoNode]
                       /\ links' = Freed(Unlink(l1, last), last)
                       /\ size'  = size
                  ELSE table' = t1 /\ links' = l1 /\ size' = size + 1
    /\ latest' = [latest EXCEPT ![k] = v]
    /\ UNCHANGED <<hung, cut>>

\* Mutants of Remove: a key that is not found is counted too; the slot keeps the node.
RemoveCounts(k) ==
    /\ ~hung
    /\ \E i \in 0 .. Capacity - 1 :
         LET s == Probe(k, i)
         IN  /\ EndsAt(k, i)
             /\ table' = [table EXCEPT ![s] = NoNode]
             /\ links' = IF Holds(k, s) THEN Freed(Unlink(links, s), s) ELSE links
             /\ size' = size - 1
    /\ latest' = [latest EXCEPT ![k] = NoValue]
    /\ UNCHANGED <<hung, cut>>

RemoveKeeps(k) ==
    /\ ~hung
    /\ \E i \in 0 .. Capacity - 1 :
         LET s == Probe(k, i)
         IN  /\ EndsAt(k, i)
             /\ Holds(k, s)
             /\ links' = Freed(Unlink(links, s), s)
             /\ size' = size - 1
    /\ latest' = [latest EXCEPT ![k] = NoValue]
    /\ UNCHANGED <<table, hung, cut>>

\* cache_remove empties the slot and leaves the slots behind it as they are.
Remove(k) ==
    /\ ~hung
    /\ \E i \in 0 .. Capacity - 1 :
         LET s      == Probe(k, i)
             behind == IF s + 1 < Capacity THEN s + 1 ELSE 0
         IN  /\ EndsAt(k, i)
             /\ IF Holds(k, s)
                  THEN /\ table' = [table EXCEPT ![s] = NoNode]
                       /\ links' = Freed(Unlink(links, s), s)
                       /\ size' = size - 1
                       /\ cut' = (cut \/ table'[behind] # NoNode)
                  ELSE UNCHANGED <<table, links, size, cut>>
    /\ latest' = [latest EXCEPT ![k] = NoValue]
    /\ UNCHANGED hung

Next ==
    \E k \in Key :
        \/ ProbeForEver(k) \/ Get(k) \/ Remove(k)
        \/ \E v \in Value : Update(k, v) \/ Insert(k, v)

Spec == Init /\ [][Next]_vars

-----------------------------------------------------------------------------
TypeOK ==
    /\ table \in [Slot -> [key : Key, value : Value] \cup {NoNode}]
    /\ links \in [next : [Slot \cup End -> Slot \cup End \cup {Null}],
                  prev : [Slot \cup End -> Slot \cup End \cup {Null}]]
    /\ size \in Nat
    /\ hung \in BOOLEAN /\ cut \in BOOLEAN
    /\ latest \in [Key -> Value \cup {NoValue}]

\* next and prev of the nodes S and of the ends lead to nodes of S or to the other
\* end, and undo each other.
Linked(L, S) ==
    /\ \A n \in S \cup {Head} : L.next[n] \in S \cup {Tail} /\ L.prev[L.next[n]] = n
    /\ \A n \in S \cup {Tail} : L.prev[n] \in S \cup {Head} /\ L.next[L.prev[n]] = n

\* The list, the table and the count agree, although each operation changes them
\* one by one (remove_node, add_to_head, hash_table, size).
ListIsTable == Linked(links, Occupied) /\ size = Cardinality(Occupied)

\* What cache_get finds for a key is what was put last, and nothing after it was
\* removed: as long as no removal has emptied a slot in front of a node.  Behind such
\* a hole nodes are not found, are inserted again, and come back (cache.c 142-163).
LookupIsLatest ==
    ~cut => \A k \in Key : \A i \in 0 .. Capacity - 1 :
              EndsAt(k, i) =>
                latest[k] = IF Holds(k, Probe(k, i)) THEN table[Probe(k, i)].value ELSE NoValue

\* An operation never ends only if the table is full; until a removal leaves a hole,
\* that takes as many keys as there are slots (the probing loops, which but one have
\* no test for a full circle).
HangsOnlyWhenFull ==
    hung => /\ size = Capacity
            /\ cut \/ Cardinality(Key) > Capacity

\* A node leaves the table only when its key is removed: the eviction of cache_put
\* never runs, because an insertion that would exceed the capacity does not get there.
OnlyRemovalFrees ==
    [][\A s \in Occupied : table'[s] # NoNode \/ latest'[table[s].key] = NoValue]_vars

\* What the comment at cache.c:123 takes for granted: a full cache makes room.
PutsEnd == ~hung
=============================================================================
