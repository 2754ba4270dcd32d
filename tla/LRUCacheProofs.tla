--------------------------- MODULE LRUCacheProofs ---------------------------
(***************************************************************************)
(* Proofs about LRUCache, for any keys, values, hash function and capacity.*)
(***************************************************************************)
EXTENDS LRUCache, FiniteSetTheorems, TLAPS

Index == 0 .. Capacity - 1
Node  == Slot \cup End
Links == [next : [Node -> Node \cup {Null}], prev : [Node -> Node \cup {Null}]]

\* Every node can be reached from the hash of its key over occupied slots.
Reachable ==
    \A s \in Occupied : \A i, j \in Index :
        Probe(table[s].key, i) = s /\ j < i => table[Probe(table[s].key, j)] # NoNode

\* A key has one node.
KeyOnce == \A s, t \in Occupied : table[s].key = table[t].key => s = t

\* The nodes hold what was put last, and a key that was put last has a node.
NodesLatest ==
    /\ \A s \in Occupied : latest[table[s].key] = table[s].value
    /\ \A k \in Key : latest[k] # NoValue => \E s \in Occupied : table[s].key = k

\* The invariant: what LookupIsLatest needs is true of every node, until a removal
\* leaves a hole in front of one.
Unbroken == ~cut => Reachable /\ KeyOnce /\ NodesLatest
Stopped  == hung => /\ Occupied = Slot
                    /\ cut \/ \E k \in Key : \A s \in Slot : table[s].key # k
IInv     == TypeOK /\ ListIsTable /\ Unbroken /\ Stopped

-----------------------------------------------------------------------------
\* The slots probed for a key are all the slots, each once, in the order of the table
\* and round its end ((hash + 1) % capacity).
LEMMA ProbeFacts ==
    ASSUME NEW k \in Key
    PROVE  /\ \A i \in Index : Probe(k, i) \in Slot
           /\ \A i, j \in Index : Probe(k, i) = Probe(k, j) => i = j
           /\ \A s \in Slot : \E i \in Index : Probe(k, i) = s
           /\ \A i, j \in Index : j = i + 1 =>
                 Probe(k, j) = IF Probe(k, i) + 1 < Capacity THEN Probe(k, i) + 1 ELSE 0
<1> Hash[k] \in 0 .. Capacity - 1 /\ Capacity \in Nat \ {0}
  BY CacheAssumption
<1>1. \A s \in Slot : \E i \in Index : Probe(k, i) = s
  <2> SUFFICES ASSUME NEW s \in Slot PROVE \E i \in Index : Probe(k, i) = s
    OBVIOUS
  <2>1. CASE s >= Hash[k]
    <3>1. s - Hash[k] \in Index /\ Probe(k, s - Hash[k]) = s
      BY <2>1 DEF Index, Probe, Slot
    <3> QED BY <3>1
  <2>2. CASE s < Hash[k]
    <3>1. s - Hash[k] + Capacity \in Index /\ Probe(k, s - Hash[k] + Capacity) = s
      BY <2>2 DEF Index, Probe, Slot
    <3> QED BY <3>1
  <2> QED BY <2>1, <2>2 DEF Slot
<1>2. \A i \in Index : Probe(k, i) \in Slot
  BY DEF Index, Probe, Slot
<1>3. ASSUME NEW i \in Index, NEW j \in Index, Probe(k, i) = Probe(k, j) PROVE i = j
  <2>1. i \in Int /\ j \in Int /\ 0 <= i /\ i < Capacity /\ 0 <= j /\ j < Capacity
    BY DEF Index
  <2> QED BY <1>3, <2>1 DEF Probe
<1>4. ASSUME NEW i \in Index, NEW j \in Index, j = i + 1
      PROVE  Probe(k, j) = IF Probe(k, i) + 1 < Capacity THEN Probe(k, i) + 1 ELSE 0
  <2>1. i \in Int /\ 0 <= i /\ i + 1 < Capacity
    BY <1>4 DEF Index
  <2> QED BY <1>4, <2>1 DEF Probe
<1> QED BY <1>1, <1>2, <1>3, <1>4

\* add_to_head links a new node in.
LEMMA LinkedFirst ==
    ASSUME NEW L \in Links, NEW S \in SUBSET Slot, NEW n \in Slot, n \notin S, Linked(L, S)
    PROVE  LinkFirst(L, n) \in Links /\ Linked(LinkFirst(L, n), S \cup {n})
<1> DEFINE f == L.next[Head]
           M == LinkFirst(L, n)
<1>1. Head \notin Slot /\ Tail \notin Slot /\ Head # Tail /\ Capacity \in Nat
  BY CacheAssumption DEF Head, Tail, Slot
<1>2. f \in S \cup {Tail} /\ L.prev[f] = Head /\ f # n
  BY <1>1 DEF Linked
<1>3. M \in Links
  BY <1>2 DEF LinkFirst, Links, Node, End
<1>4. /\ \A m \in Node : M.next[m] = IF m = Head THEN n ELSE IF m = n THEN f ELSE L.next[m]
      /\ \A m \in Node : M.prev[m] = IF m = f THEN n ELSE IF m = n THEN Head ELSE L.prev[m]
  BY <1>1, <1>2 DEF LinkFirst, Links, Node, End
<1>5. \A m \in S \cup {n} \cup {Head} : /\ M.next[m] \in S \cup {n} \cup {Tail}
                                        /\ M.prev[M.next[m]] = m
  BY <1>1, <1>2, <1>4 DEF Linked, Node, End
<1>6. \A m \in S \cup {n} \cup {Tail} : /\ M.prev[m] \in S \cup {n} \cup {Head}
                                        /\ M.next[M.prev[m]] = m
  BY <1>1, <1>2, <1>4 DEF Linked, Node, End
<1> QED BY <1>3, <1>5, <1>6 DEF Linked

\* remove_node takes a node out.
LEMMA LinkedWithout ==
    ASSUME NEW L \in Links, NEW S \in SUBSET Slot, NEW n \in S, Linked(L, S)
    PROVE  Unlink(L, n) \in Links /\ Linked(Unlink(L, n), S \ {n})
<1> DEFINE p == L.prev[n]
           q == L.next[n]
           M == Unlink(L, n)
<1>1. Head \notin Slot /\ Tail \notin Slot /\ Head # Tail /\ Capacity \in Nat
  BY CacheAssumption DEF Head, Tail, Slot
<1>2. p \in S \cup {Head} /\ q \in S \cup {Tail} /\ L.next[p] = n /\ L.prev[q] = n
  BY DEF Linked
<1>3. M \in Links
  BY <1>2 DEF Unlink, Links, Node, End
<1>4. /\ \A m \in Node : M.next[m] = IF m = p THEN q ELSE L.next[m]
      /\ \A m \in Node : M.prev[m] = IF m = q THEN p ELSE L.prev[m]
  BY <1>1, <1>2 DEF Unlink, Links, Node, End
<1>5. \A m \in (S \ {n}) \cup {Head} : /\ M.next[m] \in (S \ {n}) \cup {Tail}
                                       /\ M.prev[M.next[m]] = m
  BY <1>1, <1>2, <1>4 DEF Linked, Node, End
<1>6. \A m \in (S \ {n}) \cup {Tail} : /\ M.prev[m] \in (S \ {n}) \cup {Head}
                                       /\ M.next[M.prev[m]] = m
  BY <1>1, <1>2, <1>4 DEF Linked, Node, End
<1> QED BY <1>3, <1>5, <1>6 DEF Linked

\* Freeing a node that is not in the list leaves the list as it is.
LEMMA LinkedFreed ==
    ASSUME NEW L \in Links, NEW S \in SUBSET Slot, NEW n \in Slot, n \notin S, Linked(L, S)
    PROVE  Freed(L, n) \in Links /\ Linked(Freed(L, n), S)
<1>1. Head \notin Slot /\ Tail \notin Slot /\ Head # Tail /\ Capacity \in Nat
  BY CacheAssumption DEF Head, Tail, Slot
<1>2. Freed(L, n) \in Links
  BY DEF Freed, Links, Node, End
<1>3. \A m \in Node : m # n => /\ Freed(L, n).next[m] = L.next[m]
                               /\ Freed(L, n).prev[m] = L.prev[m]
  BY DEF Freed, Links, Node, End
<1> QED BY <1>1, <1>2, <1>3 DEF Linked, Node, End

\* move_to_head keeps the same nodes.
LEMMA LinkedToHead ==
    ASSUME NEW L \in Links, NEW S \in SUBSET Slot, NEW n \in S, Linked(L, S)
    PROVE  ToHead(L, n) \in Links /\ Linked(ToHead(L, n), S)
<1>1. Unlink(L, n) \in Links /\ Linked(Unlink(L, n), S \ {n})
  BY LinkedWithout
<1>2. LinkFirst(Unlink(L, n), n) \in Links /\ Linked(LinkFirst(Unlink(L, n), n), (S \ {n}) \cup {n})
  BY <1>1, LinkedFirst
<1>3. (S \ {n}) \cup {n} = S
  OBVIOUS
<1> QED BY <1>2, <1>3 DEF ToHead

-----------------------------------------------------------------------------
LEMMA TailFacts == Head \notin Slot /\ Tail \notin Slot /\ Capacity \in Nat \ {0}
BY CacheAssumption DEF Head, Tail, Slot

LEMMA OccupiedFinite == IsFiniteSet(Slot) /\ Cardinality(Slot) = Capacity
<1>1. IsFiniteSet(Slot) /\ Cardinality(Slot) = (Capacity - 1) - 0 + 1
  BY CacheAssumption, FS_Interval DEF Slot
<1> QED BY <1>1, CacheAssumption

\* A node that probing for its key ends at is the node of the key.
LEMMA FoundIsNode ==
    ASSUME TypeOK, NEW k \in Key, NEW i \in Index, EndsAt(k, i)
    PROVE  /\ Probe(k, i) \in Slot
           /\ Holds(k, Probe(k, i)) => Probe(k, i) \in Occupied /\ table[Probe(k, i)].key = k
           /\ ~Holds(k, Probe(k, i)) => Probe(k, i) \notin Occupied
BY ProbeFacts DEF EndsAt, Ends, Holds, Occupied

\* Until there is a hole, a key whose probing ends at an empty slot has no node.
LEMMA NotFoundIsAbsent ==
    ASSUME TypeOK, Reachable, NEW k \in Key, NEW i \in Index, EndsAt(k, i),
           ~Holds(k, Probe(k, i)), NEW s \in Occupied, table[s].key = k
    PROVE  FALSE
<1>1. PICK j \in Index : Probe(k, j) = s
  BY ProbeFacts DEF Occupied
<1>2. Probe(k, i) \notin Occupied /\ Probe(k, i) \in Slot
  BY FoundIsNode
<1>3. ~(j < i)
  BY <1>1 DEF EndsAt, Ends, Index
<1>4. j # i
  BY <1>1, <1>2
<1>5. i < j
  BY <1>3, <1>4 DEF Index
<1> QED BY <1>1, <1>2, <1>5 DEF Reachable, Occupied

LEMMA InitInv == Init => IInv
<1> SUFFICES ASSUME Init PROVE IInv
  OBVIOUS
<1>1. Occupied = {}
  BY DEF Init, Occupied
<1>2. size = Cardinality(Occupied)
  BY <1>1, FS_EmptySet DEF Init
<1>3. Linked(links, Occupied)
  BY <1>1, TailFacts DEF Init, Linked, Head, Tail, End
<1>4. TypeOK
  BY CacheAssumption DEF Init, TypeOK, Slot, End, Head, Tail, Null
<1>5. Unbroken /\ Stopped
  BY <1>1 DEF Init, Unbroken, Reachable, KeyOnce, NodesLatest, Stopped
<1> QED BY <1>2, <1>3, <1>4, <1>5 DEF IInv, ListIsTable

\* An operation that probes for ever: every slot is occupied by another key.
LEMMA ProbeForEverInv ==
    ASSUME IInv, NEW k \in Key, ProbeForEver(k) PROVE IInv'
<1>1. \A s \in Slot : table[s] # NoNode /\ table[s].key # k
  BY DEF ProbeForEver, Endless, Ends
<1>2. Occupied = Slot /\ Occupied' = Occupied
  BY <1>1 DEF Occupied, ProbeForEver
<1>3. TypeOK' /\ ListIsTable' /\ Unbroken'
  BY <1>2 DEF IInv, TypeOK, ListIsTable, Linked, Unbroken, Reachable, KeyOnce, NodesLatest,
              ProbeForEver
<1>4. Stopped'
  BY <1>1, <1>2 DEF Stopped, ProbeForEver
<1> QED BY <1>3, <1>4 DEF IInv

LEMMA GetInv ==
    ASSUME IInv, NEW k \in Key, Get(k) PROVE IInv'
<1> USE DEF Index
<1>1. PICK i \in Index : /\ EndsAt(k, i)
                         /\ links' = IF Holds(k, Probe(k, i)) THEN ToHead(links, Probe(k, i))
                                                              ELSE links
  BY DEF Get
<1>2. Occupied' = Occupied
  BY DEF Occupied, Get
<1>3. links' \in Links /\ Linked(links', Occupied)
  <2>1. links \in Links /\ Linked(links, Occupied) /\ Occupied \in SUBSET Slot
    BY DEF IInv, TypeOK, ListIsTable, Links, Node, Occupied
  <2>2. CASE Holds(k, Probe(k, i))
    BY <1>1, <2>1, <2>2, FoundIsNode, LinkedToHead DEF IInv
  <2> QED BY <1>1, <2>1, <2>2
<1>4. TypeOK'
  BY <1>3 DEF IInv, TypeOK, Get, Links, Node
<1>5. ListIsTable'
  BY <1>2, <1>3 DEF IInv, ListIsTable, Linked, Get
<1>6. Unbroken' /\ Stopped'
  BY <1>2 DEF IInv, Unbroken, Reachable, KeyOnce, NodesLatest, Stopped, Get
<1> QED BY <1>4, <1>5, <1>6 DEF IInv

LEMMA UpdateInv ==
    ASSUME IInv, NEW k \in Key, NEW v \in Value, Update(k, v) PROVE IInv'
<1> USE DEF Index
<1>1. PICK i \in Index : /\ EndsAt(k, i)
                         /\ Holds(k, Probe(k, i))
                         /\ table' = [table EXCEPT ![Probe(k, i)].value = v]
                         /\ links' = ToHead(links, Probe(k, i))
  BY DEF Update
<1> DEFINE s == Probe(k, i)
<1>2. s \in Occupied /\ s \in Slot /\ table[s].key = k
  BY <1>1, FoundIsNode DEF IInv
<1>3. table[s] \in [key : Key, value : Value]
  BY <1>2 DEF IInv, TypeOK, Occupied
<1>4. /\ table' \in [Slot -> [key : Key, value : Value] \cup {NoNode}]
      /\ table'[s] = [key |-> k, value |-> v]
      /\ \A t \in Slot : t # s => table'[t] = table[t]
  BY <1>1, <1>2, <1>3 DEF IInv, TypeOK
<1>5. Occupied' = Occupied /\ \A t \in Occupied : table'[t].key = table[t].key
  BY <1>2, <1>4, CacheAssumption DEF Occupied
<1>6. links' \in Links /\ Linked(links', Occupied)
  BY <1>1, <1>2, LinkedToHead DEF IInv, TypeOK, ListIsTable, Links, Node, Occupied
<1>7. TypeOK'
  BY <1>4, <1>6 DEF IInv, TypeOK, Update, Links, Node
<1>8. ListIsTable'
  BY <1>5, <1>6 DEF IInv, ListIsTable, Linked, Update
<1>9. Unbroken'
  <2> SUFFICES ASSUME ~cut' PROVE Reachable' /\ KeyOnce' /\ NodesLatest'
    BY DEF Unbroken
  <2>1. Reachable /\ KeyOnce /\ NodesLatest
    BY DEF IInv, Unbroken, Update
  <2>2. Reachable'
    <3> SUFFICES ASSUME NEW t \in Occupied, NEW a \in Index, NEW b \in Index,
                        Probe(table[t].key, a) = t, b < a
                 PROVE  table'[Probe(table[t].key, b)] # NoNode
      BY <1>5 DEF Reachable, Probe
    <3>1. table[Probe(table[t].key, b)] # NoNode
      BY <2>1 DEF Reachable
    <3>2. Probe(table[t].key, b) \in Slot
      BY ProbeFacts DEF IInv, TypeOK, Occupied
    <3> QED BY <3>1, <3>2, <1>5 DEF Occupied
  <2>3. KeyOnce'
    BY <2>1, <1>5 DEF KeyOnce
  <2>4. NodesLatest'
    BY <2>1, <1>2, <1>4, <1>5 DEF NodesLatest, KeyOnce, Update, IInv, TypeOK, Occupied
  <2> QED BY <2>2, <2>3, <2>4
<1>10. Stopped'
  BY DEF Stopped, Update
<1> QED BY <1>7, <1>8, <1>9, <1>10 DEF IInv

\* A put that gets as far as an empty slot leaves the size within the capacity.
LEMMA InsertHasRoom ==
    ASSUME IInv, NEW s \in Slot, s \notin Occupied
    PROVE  size + 1 <= Capacity /\ Cardinality(Occupied \cup {s}) = size + 1
<1>1. IsFiniteSet(Occupied) /\ IsFiniteSet(Occupied \cup {s}) /\ Occupied \cup {s} \subseteq Slot
  BY OccupiedFinite, FS_Subset, FS_AddElement DEF Occupied
<1>2. Cardinality(Occupied \cup {s}) = Cardinality(Occupied) + 1
  BY <1>1, FS_AddElement
<1>3. Cardinality(Occupied \cup {s}) <= Cardinality(Slot)
  BY <1>1, OccupiedFinite, FS_Subset
<1> QED BY <1>2, <1>3, OccupiedFinite DEF IInv, ListIsTable

LEMMA InsertInv ==
    ASSUME IInv, NEW k \in Key, NEW v \in Value, Insert(k, v)
    PROVE  IInv' /\ \A s \in Occupied : table'[s] # NoNode
<1> USE DEF Index
<1>1. PICK i \in Index :
        /\ EndsAt(k, i)
        /\ ~Holds(k, Probe(k, i))
        /\ ~(size + 1 > Capacity) =>
              /\ table' = [table EXCEPT ![Probe(k, i)] = [key |-> k, value |-> v]]
              /\ links' = LinkFirst(links, Probe(k, i))
              /\ size' = size + 1
  BY DEF Insert
<1> DEFINE s == Probe(k, i)
<1>2. s \in Slot /\ s \notin Occupied
  BY <1>1, FoundIsNode DEF IInv
<1>3. /\ table' = [table EXCEPT ![s] = [key |-> k, value |-> v]]
      /\ links' = LinkFirst(links, s)
      /\ size' = size + 1
      /\ size + 1 = Cardinality(Occupied \cup {s})
  BY <1>1, <1>2, InsertHasRoom, CacheAssumption DEF IInv, TypeOK
<1>4. /\ table' \in [Slot -> [key : Key, value : Value] \cup {NoNode}]
      /\ table'[s] = [key |-> k, value |-> v]
      /\ \A t \in Slot : t # s => table'[t] = table[t]
  BY <1>2, <1>3 DEF IInv, TypeOK
<1>5. Occupied' = Occupied \cup {s} /\ \A t \in Occupied : t # s /\ table'[t] = table[t]
  BY <1>2, <1>4, CacheAssumption DEF Occupied
<1>6. links' \in Links /\ Linked(links', Occupied \cup {s})
  BY <1>2, <1>3, LinkedFirst DEF IInv, TypeOK, ListIsTable, Links, Node, Occupied
<1>7. TypeOK'
  BY <1>3, <1>4, <1>6 DEF IInv, TypeOK, Insert, Links, Node
<1>8. ListIsTable'
  BY <1>3, <1>5, <1>6 DEF ListIsTable, Linked
<1>9. Unbroken'
  <2> SUFFICES ASSUME ~cut' PROVE Reachable' /\ KeyOnce' /\ NodesLatest'
    BY DEF Unbroken
  <2>1. Reachable /\ KeyOnce /\ NodesLatest
    BY DEF IInv, Unbroken, Insert
  <2>2. \A t \in Occupied : table[t].key # k
    BY <1>1, <2>1, NotFoundIsAbsent DEF IInv
  <2>3. Reachable'
    <3>1. ASSUME NEW t \in Occupied', NEW a \in Index, NEW b \in Index,
                 Probe(table'[t].key, a) = t, b < a
          PROVE  table'[Probe(table'[t].key, b)] # NoNode
      <4>1. table'[t].key \in Key
        BY <1>4, <1>5 DEF IInv, TypeOK, Occupied
      <4>2. Probe(table'[t].key, b) \in Slot
        BY <4>1, ProbeFacts
      <4>3. CASE t = s
        <5>1. a = i
          BY <3>1, <4>3, <1>4, ProbeFacts
        <5>2. ~Ends(k, Probe(k, b))
          BY <3>1, <5>1, <1>1 DEF EndsAt
        <5>3. table[Probe(k, b)] # NoNode /\ Probe(k, b) # s /\ table'[t].key = k
          BY <5>2, <1>2, <1>4, <4>3 DEF Ends, Occupied
        <5> QED BY <5>3, <4>2, <1>4
      <4>4. CASE t # s
        <5>1. t \in Occupied /\ table'[t] = table[t]
          BY <4>4, <1>5
        <5>2. table[Probe(table[t].key, b)] # NoNode
          BY <5>1, <3>1, <2>1 DEF Reachable
        <5> QED BY <5>1, <5>2, <4>2, <1>5 DEF Occupied
      <4> QED BY <4>3, <4>4
    <3> QED BY <3>1 DEF Reachable, Probe
  <2>4. KeyOnce'
    BY <2>1, <2>2, <1>4, <1>5 DEF KeyOnce
  <2>5. NodesLatest'
    BY <2>1, <2>2, <1>4, <1>5 DEF NodesLatest, Insert, IInv, TypeOK, Occupied
  <2> QED BY <2>3, <2>4, <2>5
<1>10. Stopped'
  BY DEF Stopped, Insert
<1>11. \A t \in Occupied : table'[t] # NoNode
  BY <1>5 DEF Occupied
<1> QED BY <1>7, <1>8, <1>9, <1>10, <1>11 DEF IInv

\* A removal that finds its node.  Without a hole behind it, no other node was reached
\* over the slot that is emptied.
LEMMA RemoveFoundInv ==
    ASSUME IInv, NEW k \in Key, NEW i \in Index, Remove(k), EndsAt(k, i),
           Holds(k, Probe(k, i)),
           table' = [table EXCEPT ![Probe(k, i)] = NoNode],
           links' = Freed(Unlink(links, Probe(k, i)), Probe(k, i)),
           size' = size - 1,
           cut' = (cut \/ table'[IF Probe(k, i) + 1 < Capacity THEN Probe(k, i) + 1 ELSE 0] # NoNode)
    PROVE  IInv' /\ \A s \in Occupied : table'[s] # NoNode \/ latest'[table[s].key] = NoValue
<1> USE DEF Index
<1> DEFINE s == Probe(k, i)
           behind == IF s + 1 < Capacity THEN s + 1 ELSE 0
<1>1. s \in Occupied /\ s \in Slot /\ table[s].key = k /\ behind \in Slot
  BY FoundIsNode, CacheAssumption DEF IInv, Slot
<1>2. /\ table' \in [Slot -> [key : Key, value : Value] \cup {NoNode}]
      /\ table'[s] = NoNode
      /\ \A t \in Slot : t # s => table'[t] = table[t]
  BY <1>1 DEF IInv, TypeOK
<1>3. Occupied' = Occupied \ {s} /\ \A t \in Occupied' : table'[t] = table[t]
  BY <1>1, <1>2 DEF Occupied
<1>4. links' \in Links /\ Linked(links', Occupied \ {s})
  <2>1. links \in Links /\ Linked(links, Occupied) /\ Occupied \in SUBSET Slot
    BY DEF IInv, TypeOK, ListIsTable, Links, Node, Occupied
  <2>2. Unlink(links, s) \in Links /\ Linked(Unlink(links, s), Occupied \ {s})
    BY <1>1, <2>1, LinkedWithout
  <2> QED BY <1>1, <2>1, <2>2, LinkedFreed
<1>5. size' = Cardinality(Occupied \ {s}) /\ size' \in Nat
  <2>1. IsFiniteSet(Occupied)
    BY OccupiedFinite, FS_Subset DEF Occupied
  <2>2. Cardinality(Occupied \ {s}) = Cardinality(Occupied) - 1 /\ IsFiniteSet(Occupied \ {s})
    BY <1>1, <2>1, FS_RemoveElement
  <2>3. Cardinality(Occupied \ {s}) \in Nat
    BY <2>2, FS_CardinalityType
  <2> QED BY <2>2, <2>3 DEF IInv, ListIsTable
<1>6. TypeOK'
  BY <1>2, <1>4, <1>5 DEF IInv, TypeOK, Remove, Links, Node
<1>7. ListIsTable'
  BY <1>3, <1>4, <1>5 DEF ListIsTable, Linked
<1>8. latest' = [latest EXCEPT ![k] = NoValue] /\ ~hung'
  BY DEF Remove
<1>9. Unbroken'
  <2> SUFFICES ASSUME ~cut' PROVE Reachable' /\ KeyOnce' /\ NodesLatest'
    BY DEF Unbroken
  <2>1. Reachable /\ KeyOnce /\ NodesLatest /\ table'[behind] = NoNode
    BY DEF IInv, Unbroken
  <2>2. Reachable'
    <3>1. ASSUME NEW t \in Occupied', NEW a \in Index, NEW b \in Index,
                 Probe(table'[t].key, a) = t, b < a
          PROVE  table'[Probe(table'[t].key, b)] # NoNode
      <4> DEFINE kt == table[t].key
      <4>1. t \in Occupied /\ t # s /\ table'[t] = table[t] /\ kt \in Key
        BY <1>3 DEF IInv, TypeOK, Occupied
      <4>2. Probe(kt, b) \in Slot /\ table[Probe(kt, b)] # NoNode
        BY <4>1, <3>1, <2>1, ProbeFacts DEF Reachable
      <4>3. ASSUME Probe(kt, b) = s PROVE FALSE
        <5>1. b + 1 \in Index /\ b + 1 # b
          BY <3>1, TailFacts
        <5>2. Probe(kt, b + 1) = behind
          BY <4>1, <4>3, <5>1, ProbeFacts
        <5>3. behind # s
          BY <4>1, <4>3, <5>1, <5>2, ProbeFacts
        <5>4. table[behind] = NoNode
          BY <5>3, <1>1, <1>2, <2>1
        <5>5. b + 1 # a
          BY <3>1, <4>1, <5>2, <5>4 DEF Occupied
        <5>6. b + 1 < a
          BY <3>1, <5>5
        <5>7. table[Probe(kt, b + 1)] # NoNode
          BY <3>1, <4>1, <5>1, <5>6, <2>1 DEF Reachable
        <5> QED BY <5>2, <5>4, <5>7
      <4> QED BY <4>1, <4>2, <4>3, <1>2
    <3> QED BY <3>1 DEF Reachable, Probe
  <2>3. KeyOnce'
    BY <2>1, <1>3 DEF KeyOnce
  <2>4. NodesLatest'
    <3>1. \A t \in Occupied' : table[t].key # k
      BY <1>1, <1>3, <2>1 DEF KeyOnce
    <3> QED BY <3>1, <1>1, <1>3, <1>8, <2>1 DEF NodesLatest, IInv, TypeOK, Occupied
  <2> QED BY <2>2, <2>3, <2>4
<1>10. Stopped'
  BY <1>8 DEF Stopped
<1>11. \A t \in Occupied : table'[t] # NoNode \/ latest'[table[t].key] = NoValue
  BY <1>1, <1>2, <1>8 DEF IInv, TypeOK, Occupied
<1> QED BY <1>6, <1>7, <1>9, <1>10, <1>11 DEF IInv

LEMMA RemoveInv ==
    ASSUME IInv, NEW k \in Key, Remove(k)
    PROVE  IInv' /\ \A s \in Occupied : table'[s] # NoNode \/ latest'[table[s].key] = NoValue
<1> USE DEF Index
<1>1. PICK i \in Index :
        LET s == Probe(k, i)
            behind == IF s + 1 < Capacity THEN s + 1 ELSE 0
        IN  /\ EndsAt(k, i)
            /\ IF Holds(k, s)
                 THEN /\ table' = [table EXCEPT ![s] = NoNode]
                      /\ links' = Freed(Unlink(links, s), s)
                      /\ size' = size - 1
                      /\ cut' = (cut \/ table'[behind] # NoNode)
                 ELSE UNCHANGED <<table, links, size, cut>>
  BY DEF Remove
<1>2. CASE Holds(k, Probe(k, i))
  BY <1>1, <1>2, RemoveFoundInv
<1>3. CASE ~Holds(k, Probe(k, i))
  <2>1. UNCHANGED <<table, links, size, cut>> /\ Occupied' = Occupied
    BY <1>1, <1>3 DEF Occupied
  <2>2. latest' = [latest EXCEPT ![k] = NoValue] /\ hung' = hung /\ ~hung
    BY DEF Remove
  <2>3. TypeOK' /\ ListIsTable' /\ Stopped'
    BY <2>1, <2>2 DEF IInv, TypeOK, ListIsTable, Linked, Stopped
  <2>4. Unbroken'
    <3> SUFFICES ASSUME ~cut' PROVE Reachable' /\ KeyOnce' /\ NodesLatest'
      BY DEF Unbroken
    <3>1. Reachable /\ KeyOnce /\ NodesLatest
      BY <2>1 DEF IInv, Unbroken
    <3>2. \A t \in Occupied : table[t].key # k
      BY <1>1, <1>3, <3>1, NotFoundIsAbsent DEF IInv
    <3>3. Reachable' /\ KeyOnce'
      BY <2>1, <3>1 DEF Reachable, KeyOnce
    <3>4. NodesLatest'
      BY <2>1, <2>2, <3>1, <3>2 DEF NodesLatest, IInv, TypeOK, Occupied
    <3> QED BY <3>3, <3>4
  <2> QED BY <2>1, <2>3, <2>4 DEF IInv, Occupied
<1> QED BY <1>2, <1>3

LEMMA StepInv == IInv /\ [Next]_vars => IInv'
<1> SUFFICES ASSUME IInv, [Next]_vars PROVE IInv'
  OBVIOUS
<1>1. CASE UNCHANGED vars
  BY <1>1 DEF IInv, TypeOK, ListIsTable, Linked, Unbroken, Reachable, KeyOnce, NodesLatest,
              Stopped, Occupied, vars
<1>2. ASSUME NEW k \in Key, ProbeForEver(k) PROVE IInv'
  BY <1>2, ProbeForEverInv
<1>3. ASSUME NEW k \in Key, Get(k) PROVE IInv'
  BY <1>3, GetInv
<1>4. ASSUME NEW k \in Key, Remove(k) PROVE IInv'
  BY <1>4, RemoveInv
<1>5. ASSUME NEW k \in Key, NEW v \in Value, Update(k, v) PROVE IInv'
  BY <1>5, UpdateInv
<1>6. ASSUME NEW k \in Key, NEW v \in Value, Insert(k, v) PROVE IInv'
  BY <1>6, InsertInv
<1> QED BY <1>1, <1>2, <1>3, <1>4, <1>5, <1>6 DEF Next

THEOREM Invariance == Spec => []IInv
BY InitInv, StepInv, PTL DEF Spec

\* The table, the list and the counters of cache.c keep their types.
THEOREM TypeCorrect == Spec => []TypeOK
<1>1. IInv => TypeOK
  BY DEF IInv
<1> QED BY Invariance, <1>1, PTL

\* The list holds the nodes of the table, and size counts them, after every operation.
THEOREM ListAgrees == Spec => []ListIsTable
<1>1. IInv => ListIsTable
  BY DEF IInv
<1> QED BY Invariance, <1>1, PTL

\* Until a removal leaves a hole in front of a node, cache_get finds what was put last,
\* however the keys collide.
THEOREM LookupsCorrect == Spec => []LookupIsLatest
<1>1. IInv => LookupIsLatest
  <2> SUFFICES ASSUME IInv, ~cut, NEW k \in Key, NEW i \in 0 .. Capacity - 1, EndsAt(k, i)
               PROVE  latest[k] = IF Holds(k, Probe(k, i)) THEN table[Probe(k, i)].value
                                                           ELSE NoValue
    BY DEF LookupIsLatest
  <2>1. Reachable /\ KeyOnce /\ NodesLatest
    BY DEF IInv, Unbroken
  <2>2. CASE Holds(k, Probe(k, i))
    BY <2>1, <2>2, FoundIsNode DEF NodesLatest, IInv, Index
  <2>3. CASE ~Holds(k, Probe(k, i))
    BY <2>1, <2>3, NotFoundIsAbsent DEF NodesLatest, IInv, TypeOK, Index
  <2> QED BY <2>2, <2>3
<1> QED BY Invariance, <1>1, PTL

\* An operation hangs only in a full table, and until a removal has left a hole only if
\* there are more keys than slots.
THEOREM HangsExplained == Spec => []HangsOnlyWhenFull
<1>1. IInv => HangsOnlyWhenFull
  <2> SUFFICES ASSUME IInv, hung PROVE size = Capacity /\ (cut \/ Cardinality(Key) > Capacity)
    BY DEF HangsOnlyWhenFull
  <2>1. Occupied = Slot /\ size = Capacity
    BY OccupiedFinite DEF IInv, Stopped, ListIsTable
  <2>2. ASSUME ~cut PROVE Cardinality(Key) > Capacity
    <3>1. PICK k \in Key : \A s \in Slot : table[s].key # k
      BY <2>2 DEF IInv, Stopped
    <3> DEFINE keyOf == [s \in Slot |-> table[s].key]
               rest  == Key \ {k}
    <3>2. keyOf \in [Slot -> rest]
      BY <2>1, <3>1 DEF IInv, TypeOK, Occupied
    <3>3. IsFiniteSet(rest) /\ Cardinality(rest) = Cardinality(Key) - 1
      BY CacheAssumption, FS_RemoveElement
    <3>4. ~(Cardinality(rest) < Cardinality(Slot))
      <4> SUFFICES ASSUME Cardinality(rest) < Cardinality(Slot) PROVE FALSE
        OBVIOUS
      <4>1. \E s, t \in Slot : s # t /\ keyOf[s] = keyOf[t]
        <5> HIDE DEF keyOf, rest
        <5> QED BY <3>2, <3>3, OccupiedFinite, FS_PigeonHole
      <4> QED BY <4>1, <2>1, <2>2 DEF IInv, Unbroken, KeyOnce
    <3> QED BY <3>3, <3>4, OccupiedFinite, FS_CardinalityType, CacheAssumption
  <2> QED BY <2>1, <2>2
<1> QED BY Invariance, <1>1, PTL

\* Nodes leave the table by removal only: cache.c never evicts.
THEOREM NeverEvicts == Spec => OnlyRemovalFrees
<1> DEFINE Kept == \A s \in Occupied : table'[s] # NoNode \/ latest'[table[s].key] = NoValue
<1>1. ASSUME IInv, [Next]_vars PROVE [Kept]_vars
  <2>1. ASSUME NEW k \in Key, ProbeForEver(k) \/ Get(k) PROVE Kept
    BY <2>1 DEF ProbeForEver, Get, Occupied
  <2>2. ASSUME NEW k \in Key, NEW v \in Value, Update(k, v) PROVE Kept
    <3>1. PICK i \in Index : /\ EndsAt(k, i) /\ Holds(k, Probe(k, i))
                             /\ table' = [table EXCEPT ![Probe(k, i)].value = v]
      BY <2>2 DEF Update, Index
    <3>2. Probe(k, i) \in Slot /\ table[Probe(k, i)] \in [key : Key, value : Value]
      BY <1>1, <3>1, FoundIsNode DEF IInv, TypeOK, Occupied
    <3>3. table'[Probe(k, i)] \in [key : Key, value : Value]
      BY <1>1, <3>1, <3>2 DEF IInv, TypeOK
    <3>4. \A t \in Slot : t # Probe(k, i) => table'[t] = table[t]
      BY <1>1, <3>1 DEF IInv, TypeOK
    <3> QED BY <3>3, <3>4, CacheAssumption DEF Occupied
  <2>3. ASSUME NEW k \in Key, NEW v \in Value, Insert(k, v) PROVE Kept
    BY <1>1, <2>3, InsertInv
  <2>4. ASSUME NEW k \in Key, Remove(k) PROVE Kept
    BY <1>1, <2>4, RemoveInv
  <2> QED BY <1>1, <2>1, <2>2, <2>3, <2>4 DEF Next
<1>2. QED
  BY Invariance, <1>1, PTL DEF Spec, OnlyRemovalFrees
=============================================================================
