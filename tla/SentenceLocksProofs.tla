------------------------ MODULE SentenceLocksProofs ------------------------
(***************************************************************************)
(* Theorems about SentenceLocks, for any number of users, connections and  *)
(* sentences, whatever realloc and the network do: Moves and DropsBusyConn *)
(* may have any of their values.                                           *)
(***************************************************************************)
EXTENDS SentenceLocks, TLAPS

USE DEF Sentence


-----------------------------------------------------------------------------
\* The names of the control points, so that proofs need not expand the set.
LEMMA ControlPoints ==
    /\ "idle" \in Control /\ "grow" \in Control /\ "session" \in Control
    /\ "lookupLock" \in Control /\ "enterLock" \in Control
    /\ "testLock" \in Control /\ "claim" \in Control
    /\ "lookupUnlock" \in Control /\ "enterUnlock" \in Control
    /\ "testUnlock" \in Control /\ "clear" \in Control
BY DEF Control, Inside

ThreadTypes == /\ pc \in [Conn -> Control]
               /\ idx \in [Conn -> Sentence]
               /\ block \in [Conn -> Nat]

\* A thread that moves on or replies keeps the types of the threads' variables.
LEMMA GotoTypes ==
    ASSUME ThreadTypes, NEW c \in Conn, NEW l \in Control, Goto(c, l)
    PROVE  ThreadTypes'
BY DEF ThreadTypes, Goto

LEMMA ReplyTypes ==
    ASSUME ThreadTypes, NEW c \in Conn, Reply(c)
    PROVE  ThreadTypes'
BY LockAssumption, ControlPoints DEF ThreadTypes, Reply

LEMMA LookupTypes ==
    ASSUME ThreadTypes, generation \in Nat, NEW c \in Conn, NEW l, NEW m \in Control,
           Lookup(c, l, m)
    PROVE  ThreadTypes'
<1>1. CASE idx[c] < lockCount
  BY <1>1 DEF ThreadTypes, Lookup
<1>2. CASE ~(idx[c] < lockCount)
  BY <1>2, ReplyTypes DEF Lookup
<1>3. QED
  BY <1>1, <1>2

LEMMA ReleaseTypes ==
    ASSUME TypeOK, NEW c \in Conn, ReleaseMutex(c)
    PROVE  mutex' \in [Sentence -> Conn \cup {NoConn}]
BY DEF TypeOK, ReleaseMutex

\* Every variable keeps its type: slots and indices stay within the array, and
\* a pointer's generation is a number (all of ss.c's lock handling).
THEOREM TypeCorrect == Spec => []TypeOK
<1> USE LockAssumption, ControlPoints DEF LockAssumption
<1>1. Init => TypeOK
  <2> SUFFICES ASSUME Init PROVE TypeOK
    OBVIOUS
  <2>1. lockCount \in 0 .. MaxSentence + 1 /\ cursor \in 0 .. MaxSentence + 1
    BY DEF Init
  <2>2. conn \in [User -> Conn] /\ idx \in [Conn -> Sentence] /\ pc \in [Conn -> Control]
    BY DEF Init
  <2> QED BY <2>1, <2>2 DEF Init, TypeOK
<1>2. TypeOK /\ [Next]_vars => TypeOK'
  <2> SUFFICES ASSUME TypeOK, [Next]_vars PROVE TypeOK'
    OBVIOUS
  <2>0. ThreadTypes
    BY DEF TypeOK, ThreadTypes
  <2>1. ASSUME NEW c \in Conn, NEW i \in Sentence, ReceiveLock(c, i) PROVE TypeOK'
    <3>1. lapsed' \in SUBSET (User \X Sentence)
      BY <2>1 DEF TypeOK, ReceiveLock
    <3>2. QED
      BY <2>1, <3>1 DEF TypeOK, ReceiveLock, table, nmVars
  <2>2. ASSUME NEW c \in Conn, Grow(c) PROVE TypeOK'
    <3>1. ThreadTypes'
      BY <2>0, <2>2, GotoTypes DEF Grow
    <3>2. lockCount' \in 0 .. MaxSentence + 1
      <4>1. idx[c] \in Sentence /\ lockCount \in 0 .. MaxSentence + 1
        BY DEF TypeOK
      <4>2. lockCount' = lockCount \/ lockCount' = idx[c] + 1
        BY <2>2 DEF Grow, table
      <4> QED BY <4>1, <4>2
    <3>3. generation' \in Nat
      <4>1. generation' \in {generation, generation + 1}
        BY <2>2 DEF Grow, table
      <4>2. generation \in Nat
        BY DEF TypeOK
      <4> QED BY <4>1, <4>2
    <3>4. pulled' \in BOOLEAN
      BY <2>2 DEF TypeOK, Grow
    <3>5. UNCHANGED <<holder, mutex>>
      BY <2>2 DEF Grow, table
    <3>6. QED
      BY <2>2, <3>1, <3>2, <3>3, <3>4, <3>5 DEF TypeOK, ThreadTypes, Grow, nmVars
  <2>3. ASSUME NEW c \in Conn, LookupLock(c) \/ LookupUnlock(c) PROVE TypeOK'
    <3>1. ThreadTypes'
      BY <2>0, <2>3, LookupTypes DEF LookupLock, LookupUnlock, TypeOK
    <3>2. QED
      BY <2>3, <3>1 DEF TypeOK, ThreadTypes, LookupLock, LookupUnlock, Lookup, table,
                        nmVars, history
  <2>4. ASSUME NEW c \in Conn, EnterLock(c) \/ EnterUnlock(c) PROVE TypeOK'
    <3>1. ThreadTypes'
      BY <2>0, <2>4, GotoTypes DEF EnterLock, EnterUnlock, Enter
    <3>2. mutex' \in [Sentence -> Conn \cup {NoConn}]
      BY <2>4 DEF TypeOK, EnterLock, EnterUnlock, Enter
    <3>3. QED
      BY <2>4, <3>1, <3>2 DEF TypeOK, ThreadTypes, EnterLock, EnterUnlock, Enter, nmVars, history
  <2>5. ASSUME NEW c \in Conn, TestLock(c) \/ TestUnlock(c) PROVE TypeOK'
    <3>1. ThreadTypes'
      BY <2>0, <2>5, GotoTypes, ReplyTypes DEF TestLock, TestUnlock
    <3>2. mutex' \in [Sentence -> Conn \cup {NoConn}]
      BY <2>5, ReleaseTypes DEF TypeOK, TestLock, TestUnlock
    <3>3. lapsed' \in SUBSET (User \X Sentence)
      BY <2>5 DEF TypeOK, TestLock, TestUnlock, history
    <3>4. UNCHANGED <<lockCount, generation, holder, conn, granted, nmVars, steady, pulled>>
      BY <2>5 DEF TestLock, TestUnlock, history
    <3>5. QED
      BY <3>1, <3>2, <3>3, <3>4 DEF TypeOK, ThreadTypes, nmVars
  <2>6. ASSUME NEW c \in Conn, Claim(c) PROVE TypeOK'
    <3>1. ThreadTypes' /\ mutex' \in [Sentence -> Conn \cup {NoConn}]
      BY <2>0, <2>6, GotoTypes, ReleaseTypes DEF Claim
    <3>2. holder' \in [Sentence -> User \cup {NoUser}]
      BY <2>6 DEF TypeOK, Claim
    <3>3. lapsed' \in SUBSET (User \X Sentence)
      BY <2>6 DEF TypeOK, Claim
    <3>4. QED
      BY <2>6, <3>1, <3>2, <3>3 DEF TypeOK, ThreadTypes, Claim, nmVars
  <2>7. ASSUME NEW c \in Conn, SessionStarted(c) PROVE TypeOK'
    <3>1. ThreadTypes'
      BY <2>0, <2>7, ReplyTypes DEF SessionStarted
    <3>2. granted' \in SUBSET (User \X Sentence)
      BY <2>7 DEF TypeOK, SessionStarted
    <3>3. QED
      BY <2>7, <3>1, <3>2 DEF TypeOK, ThreadTypes, SessionStarted, table, nmVars, history
  <2>8. ASSUME NEW c \in Conn, SessionFailed(c) PROVE TypeOK'
    <3>1. ThreadTypes'
      BY <2>0, <2>8, GotoTypes DEF SessionFailed
    <3>2. QED
      BY <2>8, <3>1 DEF TypeOK, ThreadTypes, SessionFailed, table, nmVars, history
  <2>9. ASSUME NEW c \in Conn, ReceiveUnlock(c) PROVE TypeOK'
    <3>1. granted' \in SUBSET (User \X Sentence) /\ lapsed' \in SUBSET (User \X Sentence)
      BY <2>9 DEF TypeOK, ReceiveUnlock
    <3>2. QED
      BY <2>9, <3>1 DEF TypeOK, ReceiveUnlock, GrantsOf, table, nmVars
  <2>10. ASSUME NEW c \in Conn, Clear(c) PROVE TypeOK'
    <3>1. ThreadTypes' /\ mutex' \in [Sentence -> Conn \cup {NoConn}]
      BY <2>0, <2>10, ReplyTypes, ReleaseTypes DEF Clear
    <3>2. holder' \in [Sentence -> User \cup {NoUser}]
      BY <2>10 DEF TypeOK, Clear
    <3>3. steady' \in SUBSET Sentence
      BY <2>10 DEF TypeOK, Clear
    <3>4. QED
      BY <2>10, <3>1, <3>2, <3>3 DEF TypeOK, ThreadTypes, Clear, nmVars, history
  <2>11. ASSUME NEW u \in User, NEW c \in Conn, Reconnect(u, c) PROVE TypeOK'
    <3>1. granted' \in SUBSET (User \X Sentence) /\ lapsed' \in SUBSET (User \X Sentence)
      BY <2>11 DEF TypeOK, Reconnect
    <3>2. QED
      BY <2>11, <3>1 DEF TypeOK, Reconnect, table, threads, nmVars
  <2>12. ASSUME NameServer PROVE TypeOK'
    <3>1. CASE ScanStart
      BY <3>1 DEF TypeOK, ScanStart, table, threads
    <3>2. CASE ScanSlot
      <4>1. cursor' \in 0 .. MaxSentence + 1
        BY <3>2 DEF TypeOK, ScanSlot
      <4>2. steady' \in SUBSET Sentence
        BY <3>2 DEF TypeOK, ScanSlot
      <4>3. nm' \in {"idle", "scan", "unlocked", "grow"}
        BY <3>2 DEF TypeOK, ScanSlot
      <4>4. QED
        BY <3>2, <4>1, <4>2, <4>3 DEF TypeOK, ScanSlot, table, threads
    <3>3. CASE ScanEnd \/ DeleteFile \/ CreateFile
      <4>1. cursor' \in 0 .. MaxSentence + 1
        BY <3>3 DEF TypeOK, ScanEnd, DeleteFile, CreateFile
      <4>2. steady' \in SUBSET Sentence
        BY <3>3 DEF TypeOK, ScanEnd, DeleteFile, CreateFile, history
      <4>3. exists' \in BOOLEAN
        BY <3>3 DEF TypeOK, ScanEnd, DeleteFile, CreateFile
      <4>4. nm' \in {"idle", "scan", "unlocked", "grow"}
        BY <3>3 DEF TypeOK, ScanEnd, DeleteFile, CreateFile
      <4>5. UNCHANGED <<table, threads, conn, granted, lapsed, pulled>>
        BY <3>3 DEF ScanEnd, DeleteFile, CreateFile, history
      <4>6. QED
        BY <4>1, <4>2, <4>3, <4>4, <4>5 DEF TypeOK, table, threads
    <3>4. CASE CreateLocks
      <4>1. lockCount' \in 0 .. MaxSentence + 1
        BY <3>4 DEF TypeOK, CreateLocks
      <4>2. /\ nm' = "idle"
            /\ UNCHANGED <<generation, holder, mutex, threads, conn, granted, cursor, exists, history>>
        BY <3>4 DEF CreateLocks
      <4>3. QED
        BY <4>1, <4>2 DEF TypeOK, threads, history
    <3>5. QED
      BY <2>12, <3>1, <3>2, <3>3, <3>4 DEF NameServer, Scan
  <2>13. ASSUME UNCHANGED vars PROVE TypeOK'
    BY <2>13 DEF TypeOK, vars, table, threads, nmVars, history
  <2>14. QED
    BY <2>1, <2>2, <2>3, <2>4, <2>5, <2>6, <2>7, <2>8, <2>9, <2>10, <2>11, <2>12,
       <2>13 DEF Next, Client, Serve
<1>3. QED
  BY <1>1, <1>2, PTL DEF Spec

-----------------------------------------------------------------------------
(***************************************************************************)
(* Inside a slot.  A thread whose pointer is still good holds the slot's   *)
(* mutex from the test to the write, so that what it tested is still so    *)
(* when it writes.  A reallocation that moves the array makes every        *)
(* pointer taken before it stale for good: generations only grow.          *)
(***************************************************************************)
SlotOK(c) ==
    /\ block[c] <= generation
    /\ Fresh(c) =>
         /\ pc[c] \in Inside => mutex[idx[c]] = c
         /\ pc[c] = "claim" => holder[idx[c]] \in {NoUser, UserOf[c]}
         /\ pc[c] = "clear" => holder[idx[c]] = UserOf[c]

SlotInv == \A c \in Conn : SlotOK(c)

\* A step that leaves the slots and a thread alone leaves SlotOK of it alone.
LEMMA SlotFrame ==
    ASSUME NEW d, SlotOK(d), UNCHANGED table,
           pc'[d] = pc[d], idx'[d] = idx[d], block'[d] = block[d]
    PROVE  SlotOK(d)'
BY DEF SlotOK, Fresh, table

\* A thread outside a slot only needs its pointer to be no newer than the array.
LEMMA SlotOutside ==
    ASSUME NEW d, pc'[d] \notin Inside, block'[d] <= generation'
    PROVE  SlotOK(d)'
BY DEF SlotOK, Inside

LEMMA SlotStep ==
    ASSUME TypeOK, TypeOK', SlotInv, [Next]_vars
    PROVE  SlotInv'
<1> USE LockAssumption DEF LockAssumption
<1> SUFFICES ASSUME NEW d \in Conn PROVE SlotOK(d)'
  BY DEF SlotInv
<1>0. SlotOK(d) /\ \A c \in Conn : SlotOK(c)
  BY DEF SlotInv
<1>1. ASSUME NEW c \in Conn, NEW i \in Sentence, ReceiveLock(c, i) PROVE SlotOK(d)'
  <2>1. CASE c = d
    BY <1>0, <1>1, <2>1, SlotOutside DEF ReceiveLock, TypeOK, table, SlotOK, Inside
  <2>2. CASE c # d
    BY <1>0, <1>1, <2>2, SlotFrame DEF ReceiveLock, TypeOK
  <2>3. QED
    BY <2>1, <2>2
<1>2. ASSUME NEW c \in Conn, Grow(c) PROVE SlotOK(d)'
  <2>1. generation' \in Nat /\ generation' >= generation /\ UNCHANGED <<holder, mutex>>
    <3>1. CASE idx[c] < lockCount
      BY <1>2, <3>1 DEF Grow, TypeOK, table
    <3>2. CASE ~(idx[c] < lockCount)
      <4>1. generation \in Nat /\ generation' \in {generation, generation + 1}
        BY <1>2, <3>2 DEF Grow, TypeOK
      <4>2. UNCHANGED <<holder, mutex>>
        BY <1>2, <3>2 DEF Grow
      <4>3. QED
        BY <4>1, <4>2
    <3>3. QED
      BY <3>1, <3>2
  <2>2. block'[d] = block[d] /\ idx'[d] = idx[d] /\ block[d] \in Nat
    BY <1>2 DEF Grow, Goto, TypeOK
  <2>3. CASE c = d
    BY <1>0, <1>2, <2>1, <2>2, <2>3, SlotOutside DEF Grow, Goto, TypeOK, SlotOK, Inside
  <2>4. CASE c # d
    <3>1. pc'[d] = pc[d]
      BY <1>2, <2>4 DEF Grow, Goto, TypeOK
    <3>2. CASE generation' = generation
      BY <1>0, <2>1, <2>2, <3>1, <3>2 DEF SlotOK, Fresh
    <3>3. CASE generation' # generation
      <4>1. block[d] <= generation /\ generation \in Nat
        BY <1>0 DEF SlotOK, TypeOK
      <4>2. block[d] <= generation' /\ block[d] # generation'
        BY <2>1, <2>2, <3>3, <4>1
      <4>3. QED
        BY <2>2, <4>2 DEF SlotOK, Fresh
    <3>4. QED
      BY <3>2, <3>3
  <2>5. QED
    BY <2>3, <2>4
<1>3. ASSUME NEW c \in Conn, LookupLock(c) \/ LookupUnlock(c) PROVE SlotOK(d)'
  <2>1. CASE c = d
    <3>1. generation' = generation /\ generation \in Nat
      BY <1>3 DEF LookupLock, LookupUnlock, Lookup, table, TypeOK
    <3>2. pc'[d] \in {"idle", "enterLock", "enterUnlock"}
      BY <1>3, <2>1 DEF LookupLock, LookupUnlock, Lookup, Reply, TypeOK
    <3>3. block'[d] \in {0, generation}
      BY <1>3, <2>1 DEF LookupLock, LookupUnlock, Lookup, Reply, TypeOK
    <3>4. QED
      BY <3>1, <3>2, <3>3, SlotOutside DEF Inside
  <2>2. CASE c # d
    BY <1>0, <1>3, <2>2, SlotFrame DEF LookupLock, LookupUnlock, Lookup, Reply, TypeOK
  <2>3. QED
    BY <2>1, <2>2
<1>4. ASSUME NEW c \in Conn, EnterLock(c) \/ EnterUnlock(c) PROVE SlotOK(d)'
  <2>1. UNCHANGED <<generation, holder, idx, block>>
    BY <1>4 DEF EnterLock, EnterUnlock, Enter, Goto
  <2>2. CASE c = d
    <3>1. pc'[d] \in {"testLock", "testUnlock"}
      BY <1>4, <2>2 DEF EnterLock, EnterUnlock, Enter, Goto, TypeOK
    <3>2. Fresh(d) => mutex'[idx[d]] = d
      BY <1>4, <2>2 DEF EnterLock, EnterUnlock, Enter, TypeOK
    <3>3. QED
      BY <1>0, <2>1, <3>1, <3>2 DEF SlotOK, Fresh
  <2>3. CASE c # d
    <3>1. pc'[d] = pc[d]
      BY <1>4, <2>3 DEF EnterLock, EnterUnlock, Enter, Goto, TypeOK
    <3>2. ASSUME Fresh(d), pc[d] \in Inside PROVE mutex'[idx[d]] = d
      <4>1. mutex[idx[d]] = d /\ idx[d] \in Sentence
        BY <1>0, <3>2 DEF SlotOK, TypeOK
      <4>2. Fresh(c) => idx[c] # idx[d]
        BY <1>4, <4>1 DEF EnterLock, EnterUnlock, Enter
      <4>3. QED
        BY <1>4, <4>1, <4>2 DEF EnterLock, EnterUnlock, Enter, TypeOK
    <3>3. QED
      BY <1>0, <2>1, <3>1, <3>2 DEF SlotOK, Fresh
  <2>4. QED
    BY <2>2, <2>3
<1>5. ASSUME NEW c \in Conn, c # d, ReleaseMutex(c), pc[c] \in Inside,
             UNCHANGED <<generation, holder>>,
             pc'[d] = pc[d], idx'[d] = idx[d], block'[d] = block[d]
      PROVE  SlotOK(d)'
  <2>1. ASSUME Fresh(d), pc[d] \in Inside PROVE mutex'[idx[d]] = d
    <3>1. mutex[idx[d]] = d /\ idx[d] \in Sentence
      BY <1>0, <2>1 DEF SlotOK, TypeOK
    <3>2. Fresh(c) => idx[c] # idx[d]
      BY <1>0, <1>5, <3>1 DEF SlotOK
    <3>3. QED
      BY <1>5, <3>1, <3>2 DEF ReleaseMutex, TypeOK
  <2>2. QED
    BY <1>0, <1>5, <2>1 DEF SlotOK, Fresh
<1>6. ASSUME NEW c \in Conn, TestLock(c) \/ TestUnlock(c) PROVE SlotOK(d)'
  <2>1. UNCHANGED <<generation, holder>> /\ pc[c] \in Inside
    BY <1>6 DEF TestLock, TestUnlock, Inside
  <2>2. CASE Reply(c) /\ ReleaseMutex(c)
    <3>1. CASE c = d
      BY <2>1, <2>2, <3>1, SlotOutside DEF Reply, TypeOK, Inside
    <3>2. CASE c # d
      BY <1>5, <2>1, <2>2, <3>2 DEF Reply, TypeOK
    <3>3. QED
      BY <3>1, <3>2
  <2>3. CASE UNCHANGED mutex /\ Goto(c, "claim")
    <3>1. pc[c] = "testLock" /\ (Fresh(c) => holder[idx[c]] \in {NoUser, UserOf[c]})
      <4>1. pc'[c] = "claim"
        BY <2>3 DEF Goto, TypeOK
      <4>2. TestLock(c)
        BY <1>6, <4>1 DEF TestUnlock, Goto, Reply, TypeOK
      <4> QED BY <4>1, <4>2 DEF TestLock, Reply, TypeOK
    <3>2. CASE c = d
      BY <1>0, <2>1, <2>3, <3>1, <3>2 DEF SlotOK, Fresh, Goto, TypeOK, Inside
    <3>3. CASE c # d
      BY <1>0, <2>1, <2>3, <3>3 DEF SlotOK, Fresh, Goto, TypeOK
    <3>4. QED
      BY <3>2, <3>3
  <2>4. CASE UNCHANGED mutex /\ Goto(c, "clear")
    <3>1. pc[c] = "testUnlock" /\ (Fresh(c) => holder[idx[c]] = UserOf[c])
      <4>1. pc'[c] = "clear"
        BY <2>4 DEF Goto, TypeOK
      <4>2. TestUnlock(c)
        BY <1>6, <4>1 DEF TestLock, Goto, Reply, TypeOK
      <4> QED BY <4>1, <4>2 DEF TestUnlock, Reply, TypeOK
    <3>2. CASE c = d
      BY <1>0, <2>1, <2>4, <3>1, <3>2 DEF SlotOK, Fresh, Goto, TypeOK, Inside
    <3>3. CASE c # d
      BY <1>0, <2>1, <2>4, <3>3 DEF SlotOK, Fresh, Goto, TypeOK
    <3>4. QED
      BY <3>2, <3>3
  <2>5. QED
    BY <1>6, <2>2, <2>3, <2>4 DEF TestLock, TestUnlock
<1>7. ASSUME NEW c \in Conn, Claim(c) \/ Clear(c) PROVE SlotOK(d)'
  <2>1. UNCHANGED generation /\ ReleaseMutex(c) /\ pc[c] \in {"claim", "clear"}
    BY <1>7 DEF Claim, Clear
  <2>2. CASE c = d
    <3>1. pc'[d] \in {"session", "idle"} /\ (block'[d] = block[d] \/ block'[d] = 0)
      BY <1>7, <2>2 DEF Claim, Clear, Goto, Reply, TypeOK
    <3>2. block'[d] <= generation'
      <4>1. block[d] <= generation /\ generation \in Nat /\ generation' = generation
        BY <1>0, <2>1 DEF SlotOK, TypeOK
      <4>2. QED
        BY <3>1, <4>1
    <3>3. QED
      BY <3>1, <3>2, SlotOutside DEF Inside
  <2>3. CASE c # d
    <3>1. pc'[d] = pc[d] /\ idx'[d] = idx[d] /\ block'[d] = block[d]
      BY <1>7, <2>3 DEF Claim, Clear, Goto, Reply, TypeOK
    <3>2. ASSUME Fresh(d), pc[d] \in Inside
          PROVE  mutex'[idx[d]] = d /\ holder'[idx[d]] = holder[idx[d]]
      <4>1. mutex[idx[d]] = d /\ idx[d] \in Sentence
        BY <1>0, <3>2 DEF SlotOK, TypeOK
      <4>2. Fresh(c) => idx[c] # idx[d]
        BY <1>0, <2>1, <2>3, <4>1 DEF SlotOK, Inside
      <4>3. mutex'[idx[d]] = d
        BY <2>1, <4>1, <4>2 DEF ReleaseMutex, TypeOK
      <4>4. holder'[idx[d]] = holder[idx[d]]
        BY <1>7, <4>1, <4>2 DEF Claim, Clear, TypeOK
      <4>5. QED
        BY <4>3, <4>4
    <3>3. QED
      BY <1>0, <2>1, <3>1, <3>2 DEF SlotOK, Fresh, Inside
  <2>4. QED
    BY <2>2, <2>3
<1>8. ASSUME NEW c \in Conn, SessionStarted(c) \/ SessionFailed(c) \/ ReceiveUnlock(c)
      PROVE  SlotOK(d)'
  <2>1. UNCHANGED table
    BY <1>8 DEF SessionStarted, SessionFailed, ReceiveUnlock
  <2>2. CASE c = d
    <3>1. /\ pc'[d] \in {"idle", "lookupUnlock"}
          /\ block'[d] = block[d] \/ block'[d] = 0
      BY <1>8, <2>2 DEF SessionStarted, SessionFailed, ReceiveUnlock, Goto, Reply, TypeOK
    <3>2. block'[d] <= generation'
      <4>1. block[d] <= generation /\ generation \in Nat /\ generation' = generation
        BY <1>0, <2>1 DEF SlotOK, TypeOK, table
      <4>2. QED
        BY <3>1, <4>1
    <3>3. QED
      BY <3>1, <3>2, SlotOutside DEF Inside
  <2>3. CASE c # d
    <3>1. pc'[d] = pc[d] /\ idx'[d] = idx[d] /\ block'[d] = block[d]
      BY <1>8, <2>3 DEF SessionStarted, SessionFailed, ReceiveUnlock, Goto, Reply, TypeOK
    <3>2. QED
      BY <1>0, <2>1, <3>1, SlotFrame
  <2>4. QED
    BY <2>2, <2>3
<1>9. ASSUME UNCHANGED <<generation, holder, mutex, threads>> PROVE SlotOK(d)'
  BY <1>0, <1>9 DEF SlotOK, Fresh, threads
<1>10. ASSUME \/ \E u \in User, c \in Conn : Reconnect(u, c)
              \/ NameServer
              \/ UNCHANGED vars
       PROVE  UNCHANGED <<generation, holder, mutex, threads>>
  BY <1>10 DEF Reconnect, NameServer, ScanStart, Scan, ScanSlot, ScanEnd, DeleteFile,
               CreateFile, CreateLocks, vars, table
<1>11. QED
  BY <1>1, <1>2, <1>3, <1>4, <1>6, <1>7, <1>8, <1>9, <1>10 DEF Next, Client, Serve

\* A thread inside a slot of the array in use owns the slot's mutex, and what it
\* has tested there stays true until it writes (lock_sentence_ss and
\* unlock_sentence_ss between pthread_mutex_lock and pthread_mutex_unlock).
THEOREM SlotsGuarded == Spec => []SlotInv
<1>1. Init => SlotInv
  BY DEF Init, SlotInv, SlotOK, Inside
<1>2. TypeOK /\ TypeOK' /\ SlotInv /\ [Next]_vars => SlotInv'
  BY SlotStep
<1>3. QED
  BY <1>1, <1>2, TypeCorrect, PTL DEF Spec

\* A slot passes from one user to another only through the unlocked state, even
\* when realloc moves the array under a thread and when clients reconnect.
THEOREM Handover == Spec => HandoverThroughFree
<1> DEFINE Step == \A i \in Sentence : holder'[i] # holder[i] =>
                                          NoUser \in {holder[i], holder'[i]}
<1>1. ASSUME TypeOK, SlotInv, [Next]_vars PROVE [Step]_holder
  <2>1. ASSUME NEW c \in Conn, Claim(c) PROVE Step
    BY <1>1, <2>1 DEF Claim, TypeOK, SlotInv, SlotOK
  <2>2. ASSUME NEW c \in Conn, Clear(c) PROVE Step
    BY <1>1, <2>2 DEF Clear, TypeOK
  <2>3. ASSUME \A c \in Conn : ~Claim(c) /\ ~Clear(c) PROVE UNCHANGED holder
    BY <1>1, <2>3 DEF Next, Client, NameServer, Serve, ReceiveLock, Grow, LookupLock,
       LookupUnlock, Lookup, EnterLock, EnterUnlock, Enter, TestLock, TestUnlock,
       SessionStarted, SessionFailed, ReceiveUnlock, Reconnect, ScanStart, Scan, ScanSlot,
       ScanEnd, DeleteFile, CreateFile, CreateLocks, vars, table
  <2>4. QED
    BY <2>1, <2>2, <2>3
<1>2. QED
  BY <1>1, TypeCorrect, SlotsGuarded, PTL DEF Spec, HandoverThroughFree

-----------------------------------------------------------------------------
(***************************************************************************)
(* Exclusion.  A user counts on a lock when he has been told of it, or when*)
(* the request he waits for has recorded it; unless it has lapsed, it is   *)
(* recorded, and a thread that is about to clear the record does so for a  *)
(* user who does not count on it.  Stale pointers and the threads of       *)
(* connections that were given up may be about all the time.               *)
(***************************************************************************)
OneRequest == \A c \in Conn :
    pc[c] # "idle" /\ Awaited(c) => <<UserOf[c], idx[c]>> \notin granted
SessionIsHeld == \A c \in Conn :
    pc[c] = "session" /\ Awaited(c) /\ <<UserOf[c], idx[c]>> \notin lapsed
        => holder[idx[c]] = UserOf[c]
ClearIsSafe == \A c \in Conn :
    pc[c] = "clear" /\ Fresh(c) /\ <<UserOf[c], idx[c]>> \notin lapsed =>
        /\ <<UserOf[c], idx[c]>> \notin granted
        /\ \A d \in Conn : pc[d] = "session" /\ Awaited(d) /\ UserOf[d] = UserOf[c]
                             => idx[d] # idx[c]
Held == \A u \in User, i \in Sentence :
    <<u, i>> \in granted /\ <<u, i>> \notin lapsed => holder[i] = u

ExclusionInv == OneRequest /\ SessionIsHeld /\ ClearIsSafe /\ Held

\* A user has one connection, and the thread of it is the one he waits for.
LEMMA OneAwaited ==
    ASSUME NEW c \in Conn, NEW d \in Conn, UserOf[c] = UserOf[d], Awaited(c), Awaited(d)
    PROVE  c = d
BY DEF Awaited

\* Where a thread is inside a slot of the array in use, no other thread is.
LEMMA AloneInside ==
    ASSUME SlotInv, NEW c \in Conn, NEW d \in Conn, Fresh(c), Fresh(d),
           pc[c] \in Inside, pc[d] \in Inside, idx[c] = idx[d]
    PROVE  c = d
BY DEF SlotInv, SlotOK

\* A thread moves on, and neither records nor grants nor lapses change.
LEMMA QuietStep ==
    ASSUME TypeOK, SlotInv, ExclusionInv, NEW c \in Conn,
           UNCHANGED <<holder, granted, conn, lapsed>>,
           generation' \in {generation, generation + 1},
           pc'[c] \notin {"session", "clear"},
           pc'[c] # "idle" => pc[c] # "idle" /\ idx'[c] = idx[c],
           \A d \in Conn \ {c} : pc'[d] = pc[d] /\ idx'[d] = idx[d] /\ block'[d] = block[d]
    PROVE  ExclusionInv'
<1>1. ASSUME NEW d \in Conn \ {c}, Fresh(d)' PROVE Fresh(d)
  <2>1. block[d] \in Nat /\ generation \in Nat /\ block[d] <= generation
    BY DEF TypeOK, SlotInv, SlotOK
  <2> QED BY <1>1, <2>1 DEF Fresh
<1>2. OneRequest'
  BY DEF ExclusionInv, OneRequest, Awaited
<1>3. SessionIsHeld'
  BY DEF ExclusionInv, SessionIsHeld, Awaited
<1>4. ClearIsSafe'
  <2> SUFFICES ASSUME NEW d \in Conn, pc'[d] = "clear", Fresh(d)',
                      <<UserOf[d], idx'[d]>> \notin lapsed'
               PROVE  /\ <<UserOf[d], idx'[d]>> \notin granted'
                      /\ \A e \in Conn : pc'[e] = "session" /\ Awaited(e)' /\ UserOf[e] = UserOf[d]
                                           => idx'[e] # idx'[d]
    BY DEF ClearIsSafe
  <2>1. d # c /\ Fresh(d)
    BY <1>1
  <2> QED BY <2>1 DEF ExclusionInv, ClearIsSafe, Awaited
<1>5. Held'
  BY DEF ExclusionInv, Held
<1> QED BY <1>2, <1>3, <1>4, <1>5 DEF ExclusionInv

\* LOCK arrives at a user who counts on nothing.
LEMMA ReceiveLockStep ==
    ASSUME TypeOK, ExclusionInv, NEW c \in Conn, NEW i \in Sentence, ReceiveLock(c, i)
    PROVE  ExclusionInv'
<1> USE LockAssumption DEF LockAssumption
<1>1. /\ UNCHANGED <<holder, granted, conn, generation, block>>
      /\ lapsed' = lapsed \ ({UserOf[c]} \X Sentence) /\ Awaited(c)
      /\ \A j \in Sentence : <<UserOf[c], j>> \notin granted
      /\ pc'[c] = "grow" /\ idx'[c] = i
      /\ \A d \in Conn \ {c} : pc'[d] = pc[d] /\ idx'[d] = idx[d]
  BY DEF ReceiveLock, GrantsOf, table, TypeOK
<1>2. \A d \in Conn : UserOf[d] \in User /\ idx[d] \in Sentence
  BY DEF TypeOK
<1>3. OneRequest'
  BY <1>1 DEF ExclusionInv, OneRequest, Awaited
<1>4. SessionIsHeld'
  <2> SUFFICES ASSUME NEW d \in Conn, pc'[d] = "session", Awaited(d)',
                      <<UserOf[d], idx'[d]>> \notin lapsed'
               PROVE  holder'[idx'[d]] = UserOf[d]
    BY DEF SessionIsHeld
  <2>1. d # c /\ Awaited(d)
    BY <1>1 DEF Awaited
  <2>2. UserOf[d] # UserOf[c]
    BY <1>1, <2>1, OneAwaited
  <2> QED BY <1>1, <2>1, <2>2 DEF ExclusionInv, SessionIsHeld
<1>5. ClearIsSafe'
  <2> SUFFICES ASSUME NEW d \in Conn, pc'[d] = "clear", Fresh(d)',
                      <<UserOf[d], idx'[d]>> \notin lapsed'
               PROVE  /\ <<UserOf[d], idx'[d]>> \notin granted'
                      /\ \A e \in Conn : pc'[e] = "session" /\ Awaited(e)' /\ UserOf[e] = UserOf[d]
                                           => idx'[e] # idx'[d]
    BY DEF ClearIsSafe
  <2>1. d # c /\ Fresh(d) /\ idx'[d] = idx[d] /\ pc[d] = "clear"
    BY <1>1 DEF Fresh
  <2>2. CASE UserOf[d] = UserOf[c]
    <3>1. \A e \in Conn : Awaited(e)' /\ UserOf[e] = UserOf[d] => e = c
      BY <1>1, <2>2 DEF Awaited
    <3> QED BY <1>1, <1>2, <2>1, <2>2, <3>1
  <2>3. CASE UserOf[d] # UserOf[c]
    <3>1. <<UserOf[d], idx[d]>> \notin lapsed
      BY <1>1, <2>1, <2>3
    <3> QED BY <1>1, <2>1, <3>1 DEF ExclusionInv, ClearIsSafe, Awaited
  <2> QED BY <2>2, <2>3
<1>6. Held'
  <2> SUFFICES ASSUME NEW u \in User, NEW j \in Sentence, <<u, j>> \in granted, <<u, j>> \notin lapsed'
               PROVE  holder[j] = u
    BY <1>1 DEF Held
  <2>1. u # UserOf[c]
    BY <1>1
  <2> QED BY <1>1, <2>1 DEF ExclusionInv, Held
<1> QED BY <1>3, <1>4, <1>5, <1>6 DEF ExclusionInv

\* UNLOCK arrives, and the user counts no longer on the sentence.
LEMMA ReceiveUnlockStep ==
    ASSUME TypeOK, ExclusionInv, NEW c \in Conn, ReceiveUnlock(c)
    PROVE  ExclusionInv'
<1> USE LockAssumption DEF LockAssumption
<1>1. PICK i \in Sentence :
         /\ idx' = [idx EXCEPT ![c] = i]
         /\ granted' = granted \ {<<UserOf[c], i>>} /\ lapsed' = lapsed \ {<<UserOf[c], i>>}
  BY DEF ReceiveUnlock, GrantsOf
<1>2. /\ UNCHANGED <<holder, conn, generation, block>> /\ Awaited(c)
      /\ pc'[c] = "lookupUnlock" /\ idx'[c] = i /\ pc[c] = "idle"
      /\ \A d \in Conn \ {c} : pc'[d] = pc[d] /\ idx'[d] = idx[d]
  BY <1>1 DEF ReceiveUnlock, table, TypeOK
<1>3. OneRequest'
  BY <1>1, <1>2 DEF ExclusionInv, OneRequest, Awaited
<1>4. SessionIsHeld'
  <2> SUFFICES ASSUME NEW d \in Conn, pc'[d] = "session", Awaited(d)',
                      <<UserOf[d], idx'[d]>> \notin lapsed'
               PROVE  holder'[idx'[d]] = UserOf[d]
    BY DEF SessionIsHeld
  <2>1. d # c /\ Awaited(d)
    BY <1>2 DEF Awaited
  <2>2. UserOf[d] # UserOf[c]
    BY <1>2, <2>1, OneAwaited
  <2> QED BY <1>1, <1>2, <2>1, <2>2 DEF ExclusionInv, SessionIsHeld
<1>5. ClearIsSafe'
  <2> SUFFICES ASSUME NEW d \in Conn, pc'[d] = "clear", Fresh(d)',
                      <<UserOf[d], idx'[d]>> \notin lapsed'
               PROVE  /\ <<UserOf[d], idx'[d]>> \notin granted'
                      /\ \A e \in Conn : pc'[e] = "session" /\ Awaited(e)' /\ UserOf[e] = UserOf[d]
                                           => idx'[e] # idx'[d]
    BY DEF ClearIsSafe
  <2>1. d # c /\ Fresh(d) /\ idx'[d] = idx[d] /\ pc[d] = "clear"
    BY <1>2 DEF Fresh
  <2>2. CASE UserOf[d] = UserOf[c] /\ idx[d] = i
    <3>1. \A e \in Conn : Awaited(e)' /\ UserOf[e] = UserOf[d] => e = c
      BY <1>2, <2>2 DEF Awaited
    <3> QED BY <1>1, <1>2, <2>1, <2>2, <3>1
  <2>3. CASE ~(UserOf[d] = UserOf[c] /\ idx[d] = i)
    <3>1. <<UserOf[d], idx[d]>> \notin lapsed
      BY <1>1, <2>1, <2>3
    <3> QED BY <1>1, <1>2, <2>1, <3>1 DEF ExclusionInv, ClearIsSafe, Awaited
  <2> QED BY <2>2, <2>3
<1>6. Held'
  BY <1>1, <1>2 DEF ExclusionInv, Held
<1> QED BY <1>3, <1>4, <1>5, <1>6 DEF ExclusionInv

\* A user goes on over another connection, counting on nothing; a request over the
\* old one may still be served.
LEMMA ReconnectStep ==
    ASSUME TypeOK, ExclusionInv, NEW u \in User, NEW c \in Conn, Reconnect(u, c)
    PROVE  ExclusionInv'
<1> USE LockAssumption DEF LockAssumption
<1>1. /\ UNCHANGED <<holder, pc, idx, block, generation>>
      /\ granted' = granted \ ({u} \X Sentence) /\ lapsed' = lapsed \ ({u} \X Sentence)
      /\ UserOf[c] = u /\ pc[c] = "idle"
  BY DEF Reconnect, table, threads
<1>2. \A d \in Conn : Awaited(d)' => d = c \/ (Awaited(d) /\ UserOf[d] # u)
  BY DEF Reconnect, Awaited, TypeOK
<1>3. \A d \in Conn : UserOf[d] \in User /\ idx[d] \in Sentence
  BY DEF TypeOK
<1>4. OneRequest' /\ SessionIsHeld'
  BY <1>1, <1>2 DEF ExclusionInv, OneRequest, SessionIsHeld
<1>5. ClearIsSafe'
  <2> SUFFICES ASSUME NEW d \in Conn, pc[d] = "clear", Fresh(d),
                      <<UserOf[d], idx[d]>> \notin lapsed'
               PROVE  /\ <<UserOf[d], idx[d]>> \notin granted'
                      /\ \A e \in Conn : pc[e] = "session" /\ Awaited(e)' /\ UserOf[e] = UserOf[d]
                                           => idx[e] # idx[d]
    BY <1>1 DEF ClearIsSafe, Fresh
  <2>1. CASE UserOf[d] = u
    <3>1. \A e \in Conn : Awaited(e)' /\ UserOf[e] = UserOf[d] => pc[e] = "idle"
      BY <1>1, <1>2, <2>1
    <3> QED BY <1>1, <1>3, <2>1, <3>1
  <2>2. CASE UserOf[d] # u
    <3>1. <<UserOf[d], idx[d]>> \notin lapsed
      BY <1>1, <2>2
    <3> QED BY <1>1, <1>2, <3>1 DEF ExclusionInv, ClearIsSafe
  <2> QED BY <2>1, <2>2
<1>6. Held'
  BY <1>1 DEF ExclusionInv, Held
<1> QED BY <1>4, <1>5, <1>6 DEF ExclusionInv

\* LOCK records its user, or lapses when its pointer is stale.
LEMMA ClaimStep ==
    ASSUME TypeOK, SlotInv, ExclusionInv, NEW c \in Conn, Claim(c)
    PROVE  ExclusionInv'
<1> USE LockAssumption DEF LockAssumption
<1>1. /\ UNCHANGED <<granted, conn, generation, idx, block>> /\ lapsed \subseteq lapsed'
      /\ pc[c] = "claim" /\ pc'[c] = "session"
      /\ \A d \in Conn \ {c} : pc'[d] = pc[d]
      /\ ~Fresh(c) => UNCHANGED holder /\ (Awaited(c) => <<UserOf[c], idx[c]>> \in lapsed')
  BY DEF Claim, Goto, TypeOK
<1>2. ASSUME Fresh(c)
      PROVE  /\ holder[idx[c]] \in {NoUser, UserOf[c]} /\ holder'[idx[c]] = UserOf[c]
             /\ \A i \in Sentence \ {idx[c]} : holder'[i] = holder[i]
  BY <1>1, <1>2 DEF SlotInv, SlotOK, Claim, TypeOK
<1>3. ASSUME NEW u \in User, NEW i \in Sentence, holder[i] = u PROVE holder'[i] = u
  BY <1>1, <1>2, <1>3
<1>4. \A d \in Conn : UserOf[d] \in User /\ idx[d] \in Sentence
  BY DEF TypeOK
<1>5. OneRequest'
  BY <1>1 DEF ExclusionInv, OneRequest, Awaited
<1>6. SessionIsHeld'
  <2> SUFFICES ASSUME NEW d \in Conn, pc'[d] = "session", Awaited(d),
                      <<UserOf[d], idx[d]>> \notin lapsed'
               PROVE  holder'[idx[d]] = UserOf[d]
    BY <1>1 DEF SessionIsHeld, Awaited
  <2>1. CASE d = c
    BY <1>1, <1>2, <2>1
  <2>2. CASE d # c
    BY <1>1, <1>3, <1>4, <2>2 DEF ExclusionInv, SessionIsHeld
  <2> QED BY <2>1, <2>2
<1>7. ClearIsSafe'
  <2> SUFFICES ASSUME NEW d \in Conn, pc'[d] = "clear", Fresh(d),
                      <<UserOf[d], idx[d]>> \notin lapsed',
                      NEW e \in Conn, pc'[e] = "session", Awaited(e), UserOf[e] = UserOf[d]
               PROVE  <<UserOf[d], idx[d]>> \notin granted /\ idx[e] # idx[d]
    <3>1. \A d \in Conn : pc'[d] = "clear" /\ Fresh(d) /\ <<UserOf[d], idx[d]>> \notin lapsed'
            => <<UserOf[d], idx[d]>> \notin granted
      BY <1>1 DEF ExclusionInv, ClearIsSafe
    <3> QED BY <1>1, <3>1 DEF ClearIsSafe, Fresh, Awaited
  <2>1. d # c /\ pc[d] = "clear" /\ <<UserOf[d], idx[d]>> \notin lapsed
    BY <1>1
  <2>2. CASE e # c
    BY <1>1, <2>1, <2>2 DEF ExclusionInv, ClearIsSafe
  <2>3. CASE e = c
    <3>1. CASE Fresh(c)
      BY <1>1, <2>1, <2>3, <3>1, AloneInside DEF ExclusionInv, ClearIsSafe, Inside
    <3>2. CASE ~Fresh(c)
      BY <1>1, <2>1, <2>3, <3>2 DEF ExclusionInv, ClearIsSafe
    <3> QED BY <3>1, <3>2
  <2> QED BY <2>2, <2>3
<1>8. Held'
  BY <1>1, <1>3 DEF ExclusionInv, Held
<1> QED BY <1>5, <1>6, <1>7, <1>8 DEF ExclusionInv

\* The user is told, if he still waits.
LEMMA SessionStartedStep ==
    ASSUME TypeOK, ExclusionInv, NEW c \in Conn, SessionStarted(c)
    PROVE  ExclusionInv'
<1> USE LockAssumption DEF LockAssumption
<1>1. /\ UNCHANGED <<holder, conn, lapsed, generation>>
      /\ granted' = IF Awaited(c) THEN granted \cup {<<UserOf[c], idx[c]>>} ELSE granted
      /\ pc[c] = "session" /\ pc'[c] = "idle"
      /\ \A d \in Conn \ {c} : pc'[d] = pc[d] /\ idx'[d] = idx[d] /\ block'[d] = block[d]
  BY DEF SessionStarted, Reply, TypeOK, table, history
<1>2. OneRequest'
  <2> SUFFICES ASSUME NEW d \in Conn, pc'[d] # "idle", Awaited(d)
               PROVE  <<UserOf[d], idx'[d]>> \notin granted'
    BY <1>1 DEF OneRequest, Awaited
  <2>1. d # c /\ (Awaited(c) => UserOf[d] # UserOf[c])
    BY <1>1, OneAwaited
  <2> QED BY <1>1, <2>1 DEF ExclusionInv, OneRequest
<1>3. SessionIsHeld'
  BY <1>1 DEF ExclusionInv, SessionIsHeld, Awaited
<1>4. ClearIsSafe'
  <2> SUFFICES ASSUME NEW d \in Conn, pc'[d] = "clear", Fresh(d)',
                      <<UserOf[d], idx'[d]>> \notin lapsed
               PROVE  /\ <<UserOf[d], idx'[d]>> \notin granted'
                      /\ \A e \in Conn : pc'[e] = "session" /\ Awaited(e)' /\ UserOf[e] = UserOf[d]
                                           => idx'[e] # idx'[d]
    BY <1>1 DEF ClearIsSafe
  <2>1. d # c /\ Fresh(d) /\ pc[d] = "clear" /\ idx'[d] = idx[d]
    BY <1>1 DEF Fresh
  <2>2. /\ <<UserOf[d], idx[d]>> \notin granted
        /\ \A e \in Conn : pc[e] = "session" /\ Awaited(e) /\ UserOf[e] = UserOf[d]
                             => idx[e] # idx[d]
    BY <1>1, <2>1 DEF ExclusionInv, ClearIsSafe
  <2>3. <<UserOf[d], idx[d]>> \notin granted'
    BY <1>1, <2>2
  <2> QED BY <1>1, <2>1, <2>2, <2>3 DEF Awaited
<1>5. Held'
  BY <1>1 DEF ExclusionInv, Held, SessionIsHeld
<1> QED BY <1>2, <1>3, <1>4, <1>5 DEF ExclusionInv

\* A thread decides to clear the record; a request that was given up makes it lapse.
LEMMA TestUnlockStep ==
    ASSUME TypeOK, SlotInv, ExclusionInv, NEW c \in Conn, TestUnlock(c)
    PROVE  ExclusionInv'
<1> USE LockAssumption DEF LockAssumption
<1>1. UNCHANGED <<holder, conn, granted, generation>> /\ pc[c] = "testUnlock"
  BY DEF TestUnlock
<1>2. CASE Reply(c) /\ UNCHANGED lapsed
  BY <1>1, <1>2, QuietStep DEF Reply, TypeOK
<1>3. CASE /\ Goto(c, "clear")
           /\ lapsed' = IF Fresh(c) /\ ~Awaited(c) THEN lapsed \cup {<<UserOf[c], idx[c]>>}
                                                   ELSE lapsed
  <2>1. /\ UNCHANGED <<idx, block>> /\ pc'[c] = "clear" /\ lapsed \subseteq lapsed'
        /\ \A d \in Conn \ {c} : pc'[d] = pc[d]
    BY <1>3 DEF Goto, TypeOK
  <2>2. OneRequest' /\ SessionIsHeld' /\ Held'
    BY <1>1, <2>1 DEF ExclusionInv, OneRequest, SessionIsHeld, Held, Awaited
  <2>3. ClearIsSafe'
    <3> SUFFICES ASSUME NEW d \in Conn, pc'[d] = "clear", Fresh(d),
                        <<UserOf[d], idx[d]>> \notin lapsed'
                 PROVE  /\ <<UserOf[d], idx[d]>> \notin granted
                        /\ \A e \in Conn : pc'[e] = "session" /\ Awaited(e) /\ UserOf[e] = UserOf[d]
                                             => idx[e] # idx[d]
      BY <1>1, <2>1 DEF ClearIsSafe, Fresh, Awaited
    <3>1. CASE d = c
      <4>1. Awaited(c)
        BY <1>3, <3>1
      <4>2. <<UserOf[c], idx[c]>> \notin granted
        BY <1>1, <4>1 DEF ExclusionInv, OneRequest
      <4>3. \A e \in Conn : Awaited(e) /\ UserOf[e] = UserOf[c] => e = c
        BY <4>1, OneAwaited
      <4> QED BY <2>1, <3>1, <4>2, <4>3
    <3>2. CASE d # c
      BY <2>1, <3>2 DEF ExclusionInv, ClearIsSafe
    <3> QED BY <3>1, <3>2
  <2> QED BY <2>2, <2>3 DEF ExclusionInv
<1> QED BY <1>2, <1>3 DEF TestUnlock

\* The record is cleared.
LEMMA ClearStep ==
    ASSUME TypeOK, SlotInv, ExclusionInv, NEW c \in Conn, Clear(c)
    PROVE  ExclusionInv'
<1> USE LockAssumption DEF LockAssumption
<1>1. /\ UNCHANGED <<conn, granted, generation, lapsed>>
      /\ pc[c] = "clear" /\ pc'[c] = "idle"
      /\ \A d \in Conn \ {c} : pc'[d] = pc[d] /\ idx'[d] = idx[d] /\ block'[d] = block[d]
      /\ ~Fresh(c) => UNCHANGED holder
  BY DEF Clear, Reply, TypeOK
<1>2. ASSUME Fresh(c)
      PROVE  /\ holder[idx[c]] = UserOf[c]
             /\ \A i \in Sentence \ {idx[c]} : holder'[i] = holder[i]
  BY <1>1, <1>2 DEF SlotInv, SlotOK, Clear, TypeOK
<1>3. ASSUME NEW u \in User, NEW i \in Sentence, holder[i] = u, <<u, i>> \notin lapsed,
             \/ <<u, i>> \in granted
             \/ \E d \in Conn : pc[d] = "session" /\ Awaited(d) /\ UserOf[d] = u /\ idx[d] = i
      PROVE  holder'[i] = u
  <2>1. CASE Fresh(c) /\ idx[c] = i
    <3>1. UserOf[c] = u
      BY <1>2, <1>3, <2>1
    <3>2. FALSE
      BY <1>1, <1>3, <2>1, <3>1 DEF ExclusionInv, ClearIsSafe
    <3> QED BY <3>2
  <2>2. CASE ~(Fresh(c) /\ idx[c] = i)
    BY <1>1, <1>2, <1>3, <2>2
  <2> QED BY <2>1, <2>2
<1>4. \A d \in Conn : UserOf[d] \in User /\ idx[d] \in Sentence
  BY DEF TypeOK
<1>5. OneRequest'
  BY <1>1 DEF ExclusionInv, OneRequest, Awaited
<1>6. SessionIsHeld'
  <2> SUFFICES ASSUME NEW d \in Conn, pc'[d] = "session", Awaited(d),
                      <<UserOf[d], idx'[d]>> \notin lapsed
               PROVE  holder'[idx'[d]] = UserOf[d]
    BY <1>1 DEF SessionIsHeld, Awaited
  <2>1. d # c /\ pc[d] = "session" /\ idx'[d] = idx[d]
    BY <1>1
  <2>2. holder[idx[d]] = UserOf[d]
    BY <2>1 DEF ExclusionInv, SessionIsHeld
  <2> QED BY <1>3, <1>4, <2>1, <2>2
<1>7. ClearIsSafe'
  BY <1>1 DEF ExclusionInv, ClearIsSafe, Awaited, Fresh
<1>8. Held'
  BY <1>1, <1>3 DEF ExclusionInv, Held
<1> QED BY <1>5, <1>6, <1>7, <1>8 DEF ExclusionInv

\* The other steps of a thread record, grant and clear nothing.
LEMMA OtherServeStep ==
    ASSUME TypeOK, SlotInv, ExclusionInv, NEW c \in Conn,
           \/ Grow(c) \/ LookupLock(c) \/ LookupUnlock(c) \/ EnterLock(c) \/ EnterUnlock(c)
           \/ TestLock(c) \/ SessionFailed(c)
    PROVE  ExclusionInv'
<1>1. UNCHANGED <<holder, granted, conn, lapsed>> /\ pc[c] # "idle"
  BY DEF Grow, LookupLock, LookupUnlock, Lookup, EnterLock, EnterUnlock, Enter, TestLock,
         SessionFailed, table, history
<1>2. generation' \in {generation, generation + 1}
  BY DEF Grow, LookupLock, LookupUnlock, Lookup, EnterLock, EnterUnlock, Enter, TestLock,
         SessionFailed, table
<1>3. /\ pc'[c] \notin {"session", "clear"} /\ (pc'[c] # "idle" => idx'[c] = idx[c])
      /\ \A d \in Conn \ {c} : pc'[d] = pc[d] /\ idx'[d] = idx[d] /\ block'[d] = block[d]
  <2>1. CASE LookupLock(c) \/ LookupUnlock(c)
    BY <2>1 DEF LookupLock, LookupUnlock, Lookup, Reply, TypeOK
  <2>2. CASE TestLock(c)
    BY <2>2 DEF TestLock, Goto, Reply, TypeOK
  <2>3. CASE Grow(c) \/ EnterLock(c) \/ EnterUnlock(c) \/ SessionFailed(c)
    BY <2>3 DEF Grow, EnterLock, EnterUnlock, Enter, SessionFailed, Goto, TypeOK
  <2> QED BY <2>1, <2>2, <2>3
<1> QED BY <1>1, <1>2, <1>3, QuietStep

\* The strengthening is inductive.
LEMMA ExclusionInvariant == Spec => []ExclusionInv
<1>1. Init => ExclusionInv
  BY DEF Init, ExclusionInv, OneRequest, SessionIsHeld, ClearIsSafe, Held
<1>2. TypeOK /\ SlotInv /\ ExclusionInv /\ [Next]_vars => ExclusionInv'
  <2> SUFFICES ASSUME TypeOK, SlotInv, ExclusionInv, [Next]_vars PROVE ExclusionInv'
    OBVIOUS
  <2>1. ASSUME NameServer \/ UNCHANGED vars PROVE ExclusionInv'
    <3>1. UNCHANGED <<holder, granted, conn, lapsed, generation, pc, idx, block>>
      BY <2>1 DEF NameServer, ScanStart, Scan, ScanSlot, ScanEnd, DeleteFile, CreateFile,
         CreateLocks, vars, table, threads, history
    <3> QED BY <3>1 DEF ExclusionInv, OneRequest, SessionIsHeld, ClearIsSafe, Held, Awaited,
                        Fresh
  <2> QED BY <2>1, ReceiveLockStep, ReceiveUnlockStep, ReconnectStep, ClaimStep,
             SessionStartedStep, TestUnlockStep, ClearStep, OtherServeStep
          DEF Next, Client, Serve
<1>3. QED
  BY <1>1, <1>2, TypeCorrect, SlotsGuarded, PTL DEF Spec

\* Whether realloc moves the array or not, and whenever clients lose connections: a
\* user who was told SUCCESS is the recorded holder until he gives the sentence up,
\* unless his own LOCK was recorded through a stale pointer or a request he had given
\* up takes it back; what happens so to one user harms no other
\* (lock_sentence_ss, unlock_sentence_ss, init_file_locks).
THEOREM GrantsAreHeld == Spec => []GrantedIsHeld
<1>1. TypeOK /\ ExclusionInv => GrantedIsHeld
  BY DEF TypeOK, ExclusionInv, Held, GrantedIsHeld
<1>2. QED
  BY <1>1, TypeCorrect, ExclusionInvariant, PTL

\* When two users are told at the same time that they have the same sentence, the lock
\* of one of them at least has lapsed in one of the two ways named above.
THEOREM Exclusion ==
    Spec => [](\A g, h \in granted : g[2] = h[2] /\ g[1] # h[1] => g \in lapsed \/ h \in lapsed)
<1>1. GrantedIsHeld =>
        \A g, h \in granted : g[2] = h[2] /\ g[1] # h[1] => g \in lapsed \/ h \in lapsed
  BY DEF GrantedIsHeld
<1>2. QED
  BY <1>1, GrantsAreHeld, PTL

-----------------------------------------------------------------------------
(***************************************************************************)
(* The scan of check_file_locks.  A slot that was locked when the scan     *)
(* began and has not been released is in the array, is locked, and is not  *)
(* behind the cursor: the scan cannot pass it.                             *)
(***************************************************************************)
SteadySlots ==
    /\ \A i \in steady : i < lockCount /\ holder[i] # NoUser
    /\ nm = "scan" => \A i \in steady : cursor <= i
    /\ nm # "scan" => cursor = 0 /\ steady = {}

\* The steps of the threads: the array grows, locks are taken, and a lock that is
\* released is not steady any more.
LEMMA ServeSteady ==
    ASSUME TypeOK, SteadySlots, NEW c \in Conn, Serve(c)
    PROVE  SteadySlots'
<1> USE LockAssumption DEF LockAssumption
<1>1. UNCHANGED <<nm, cursor>> /\ idx[c] \in Sentence /\ UserOf[c] \in User
      /\ lockCount \in Nat /\ steady \subseteq Sentence
  BY DEF Serve, Grow, LookupLock, LookupUnlock, Lookup, EnterLock, EnterUnlock, Enter,
     TestLock, Claim, SessionStarted, SessionFailed, TestUnlock, Clear, nmVars, TypeOK
<1>2. CASE Grow(c)
  <2>1. UNCHANGED <<holder, steady>>
    BY <1>2 DEF Grow, table
  <2>2. lockCount' \in Nat /\ lockCount <= lockCount'
    <3>1. CASE idx[c] < lockCount
      BY <1>1, <1>2, <3>1 DEF Grow, table
    <3>2. CASE ~(idx[c] < lockCount)
      BY <1>1, <1>2, <3>2 DEF Grow
    <3> QED BY <3>1, <3>2
  <2>3. \A i \in steady : i < lockCount'
    BY <1>1, <2>2 DEF SteadySlots
  <2> QED BY <1>1, <2>1, <2>3 DEF SteadySlots
<1>3. CASE Claim(c)
  <2>1. UNCHANGED <<lockCount, steady>> /\ \A i \in Sentence : holder[i] # NoUser => holder'[i] # NoUser
    BY <1>1, <1>3 DEF Claim, TypeOK
  <2> QED BY <1>1, <2>1 DEF SteadySlots
<1>4. CASE Clear(c)
  <2>1. CASE Fresh(c)
    <3>1. /\ UNCHANGED lockCount /\ steady' = steady \ {idx[c]}
          /\ \A i \in Sentence : i # idx[c] => holder'[i] = holder[i]
      BY <1>4, <2>1 DEF Clear, TypeOK
    <3> QED BY <1>1, <3>1 DEF SteadySlots
  <2>2. CASE ~Fresh(c)
    BY <1>1, <1>4, <2>2 DEF Clear, SteadySlots
  <2> QED BY <2>1, <2>2
<1>5. CASE UNCHANGED <<lockCount, holder, steady>>
  BY <1>1, <1>5 DEF SteadySlots
<1> QED
  BY <1>2, <1>3, <1>4, <1>5 DEF Serve, LookupLock, LookupUnlock, Lookup, EnterLock,
     EnterUnlock, Enter, TestLock, SessionStarted, SessionFailed, TestUnlock, table,
     history

LEMMA NameServerSteady ==
    ASSUME TypeOK, SteadySlots, NameServer
    PROVE  SteadySlots'
<1>1. lockCount \in Nat /\ cursor \in Nat /\ steady \subseteq Sentence /\ Sentence \subseteq Nat
  BY LockAssumption DEF TypeOK
<1>2. CASE ScanStart
  BY <1>1, <1>2 DEF ScanStart, SteadySlots, table
<1>3. CASE ScanSlot
  <2>1. UNCHANGED <<lockCount, holder>> /\ nm = "scan"
    BY <1>3 DEF ScanSlot, table
  <2>2. CASE holder[cursor] # NoUser
    BY <1>3, <2>2 DEF ScanSlot, SteadySlots
  <2>3. CASE holder[cursor] = NoUser
    <3>1. \A i \in steady : cursor <= i /\ i # cursor /\ i \in Nat
      BY <1>1, <2>1, <2>3 DEF SteadySlots
    <3>2. cursor' = cursor + 1 /\ UNCHANGED <<nm, steady>>
      BY <1>3, <2>3 DEF ScanSlot
    <3>3. \A i \in steady : cursor + 1 <= i
      BY <1>1, <3>1
    <3> QED BY <2>1, <3>2, <3>3 DEF SteadySlots
  <2> QED BY <2>2, <2>3
<1>4. CASE ScanEnd
  <2>1. nm = "scan" /\ cursor = lockCount
    BY <1>4 DEF ScanEnd
  <2>2. steady = {}
    <3> SUFFICES ASSUME NEW i \in steady PROVE FALSE
      OBVIOUS
    <3>1. i \in Nat /\ cursor <= i /\ i < lockCount
      BY <1>1, <2>1 DEF SteadySlots
    <3> QED BY <1>1, <2>1, <3>1
  <2> QED BY <1>4, <2>2 DEF ScanEnd, SteadySlots, history
<1>5. CASE DeleteFile \/ CreateFile \/ CreateLocks
  BY <1>1, <1>5 DEF DeleteFile, CreateFile, CreateLocks, SteadySlots, table, history
<1> QED BY <1>2, <1>3, <1>4, <1>5 DEF NameServer, Scan

\* When check_file_locks answers that nothing is locked, no lock was held during the
\* whole of its scan: the array may grow or move while slots are read one after the
\* other, and clients may lose their connections.
THEOREM ScanIsSound == Spec => []ScanSound
<1>1. Init => SteadySlots
  BY DEF Init, SteadySlots
<1>2. TypeOK /\ SteadySlots /\ [Next]_vars => SteadySlots'
  <2> SUFFICES ASSUME TypeOK, SteadySlots, [Next]_vars PROVE SteadySlots'
    OBVIOUS
  <2>1. ASSUME Client \/ UNCHANGED vars
        PROVE  UNCHANGED <<lockCount, holder, steady, nm, cursor>>
    BY <2>1 DEF Client, ReceiveLock, ReceiveUnlock, Reconnect, vars, table, nmVars, history
  <2>2. ASSUME UNCHANGED <<lockCount, holder, steady, nm, cursor>>
        PROVE  SteadySlots'
    BY <2>2 DEF SteadySlots
  <2> QED BY <2>1, <2>2, ServeSteady, NameServerSteady DEF Next
<1>3. SteadySlots => ScanSound
  BY DEF SteadySlots, ScanSound
<1> QED BY <1>1, <1>2, <1>3, TypeCorrect, PTL DEF Spec

-----------------------------------------------------------------------------
\* The lock table implements LockService, whatever realloc and the network do, for the
\* locks that have not lapsed: Claim acquires, the end of LOCK tells the user, Clear
\* frees what nobody relies on, and a lock that lapses is one its user gives up.
THEOREM Refinement == Spec => KeepsPromise
<1> USE LockAssumption DEF LockAssumption
<1> USE DEF Promise!vars
<1>1. Init => Promise!Init
  BY DEF Init, Promise!Init
<1>2. ASSUME TypeOK, SlotInv, ExclusionInv, [Next]_vars
      PROVE  [Promise!Next]_Promise!vars
  <2>0. \A c \in Conn : UserOf[c] \in User /\ idx[c] \in Sentence
    BY <1>2 DEF TypeOK
  <2>1. ASSUME NEW c \in Conn, Claim(c) PROVE [Promise!Next]_Promise!vars
    <3>1. CASE Fresh(c)
      <4>1. /\ holder[idx[c]] \in {NoUser, UserOf[c]}
            /\ holder' = [holder EXCEPT ![idx[c]] = UserOf[c]]
            /\ UNCHANGED <<granted, lapsed>>
        BY <1>2, <2>1, <3>1 DEF SlotInv, SlotOK, Claim
      <4>2. Promise!Acquire(UserOf[c], idx[c])
        BY <4>1 DEF Promise!Acquire
      <4> QED BY <2>0, <4>2 DEF Promise!Next
    <3>2. CASE ~Fresh(c)
      <4>1. UNCHANGED <<holder, granted>> /\ pc[c] = "claim"
        BY <2>1, <3>2 DEF Claim
      <4>2. lapsed' = IF Awaited(c) THEN lapsed \cup {<<UserOf[c], idx[c]>>} ELSE lapsed
        BY <2>1, <3>2 DEF Claim
      <4>3. Awaited(c) => <<UserOf[c], idx[c]>> \notin granted
        BY <1>2, <4>1 DEF ExclusionInv, OneRequest
      <4>4. (granted \ lapsed)' = granted \ lapsed
        BY <4>1, <4>2, <4>3
      <4> QED BY <4>1, <4>4
    <3> QED BY <3>1, <3>2
  <2>2. ASSUME NEW c \in Conn, SessionStarted(c) PROVE [Promise!Next]_Promise!vars
    <3>1. UNCHANGED <<holder, lapsed>> /\ pc[c] = "session"
          /\ granted' = IF Awaited(c) THEN granted \cup {<<UserOf[c], idx[c]>>} ELSE granted
      BY <2>2 DEF SessionStarted, table, history
    <3>2. CASE Awaited(c) /\ <<UserOf[c], idx[c]>> \notin lapsed
      <4>1. holder[idx[c]] = UserOf[c]
        BY <1>2, <3>1, <3>2 DEF ExclusionInv, SessionIsHeld
      <4>2. (granted \ lapsed)' = (granted \ lapsed) \cup {<<UserOf[c], idx[c]>>}
        BY <3>1, <3>2
      <4>3. Promise!Tell(UserOf[c], idx[c])
        BY <3>1, <4>1, <4>2 DEF Promise!Tell
      <4> QED BY <2>0, <4>3 DEF Promise!Next
    <3>3. CASE ~(Awaited(c) /\ <<UserOf[c], idx[c]>> \notin lapsed)
      <4>1. (granted \ lapsed)' = granted \ lapsed
        BY <3>1, <3>3
      <4> QED BY <3>1, <4>1
    <3> QED BY <3>2, <3>3
  <2>3. ASSUME NEW c \in Conn, ReceiveUnlock(c) PROVE Promise!Next
    <3>1. PICK i \in Sentence : /\ granted' = granted \ {<<UserOf[c], i>>}
                                /\ lapsed' = lapsed \ {<<UserOf[c], i>>}
      BY <2>3 DEF ReceiveUnlock, GrantsOf
    <3>2. /\ UNCHANGED holder
          /\ (granted \ lapsed)' = (granted \ lapsed) \ ({UserOf[c]} \X {i})
      BY <2>3, <3>1 DEF ReceiveUnlock, table
    <3>3. Promise!GiveUp(UserOf[c], {i}) /\ {i} \in SUBSET Sentence
      BY <3>2 DEF Promise!GiveUp
    <3> QED BY <2>0, <3>3 DEF Promise!Next
  <2>4. ASSUME NEW c \in Conn, Clear(c) PROVE [Promise!Next]_Promise!vars
    <3>1. UNCHANGED <<granted, lapsed>> /\ (~Fresh(c) => UNCHANGED holder)
      BY <2>4 DEF Clear
    <3>2. CASE Fresh(c)
      <4>1. /\ holder[idx[c]] = UserOf[c] /\ pc[c] = "clear"
            /\ holder' = [holder EXCEPT ![idx[c]] = NoUser]
        BY <1>2, <2>4, <3>2 DEF SlotInv, SlotOK, Clear
      <4>2. <<UserOf[c], idx[c]>> \notin granted \ lapsed
        BY <1>2, <3>2, <4>1 DEF ExclusionInv, ClearIsSafe
      <4>3. Promise!Free(UserOf[c], idx[c])
        BY <3>1, <4>1, <4>2 DEF Promise!Free
      <4> QED BY <2>0, <4>3 DEF Promise!Next
    <3> QED BY <3>1, <3>2
  <2>5. ASSUME NEW u \in User, NEW c \in Conn, Reconnect(u, c) PROVE Promise!Next
    <3>1. (granted \ lapsed)' = (granted \ lapsed) \ ({u} \X Sentence) /\ UNCHANGED holder
      BY <2>5 DEF Reconnect, table
    <3>2. Promise!GiveUp(u, Sentence)
      BY <3>1 DEF Promise!GiveUp
    <3> QED BY <3>2 DEF Promise!Next
  <2>6. ASSUME NEW c \in Conn, TestUnlock(c) PROVE [Promise!Next]_Promise!vars
    <3>1. UNCHANGED <<holder, granted>>
          /\ lapsed' \in {lapsed, lapsed \cup {<<UserOf[c], idx[c]>>}}
      BY <2>6 DEF TestUnlock
    <3>2. CASE lapsed' = lapsed
      BY <3>1, <3>2
    <3>3. CASE lapsed' = lapsed \cup {<<UserOf[c], idx[c]>>}
      <4>1. (granted \ lapsed)' = (granted \ lapsed) \ ({UserOf[c]} \X {idx[c]})
        BY <3>1, <3>3
      <4>2. Promise!GiveUp(UserOf[c], {idx[c]}) /\ {idx[c]} \in SUBSET Sentence
        BY <2>0, <3>1, <4>1 DEF Promise!GiveUp
      <4> QED BY <2>0, <4>2 DEF Promise!Next
    <3> QED BY <3>1, <3>2, <3>3
  <2>7. ASSUME NEW c \in Conn, NEW i \in Sentence, ReceiveLock(c, i) PROVE UNCHANGED Promise!vars
    <3>1. /\ UNCHANGED <<holder, granted>> /\ lapsed' = lapsed \ ({UserOf[c]} \X Sentence)
          /\ \A j \in Sentence : <<UserOf[c], j>> \notin granted
      BY <2>7 DEF ReceiveLock, GrantsOf, table
    <3>2. (granted \ lapsed)' = granted \ lapsed
      BY <3>1
    <3> QED BY <3>1, <3>2
  <2>8. ASSUME \/ NameServer \/ UNCHANGED vars
               \/ \E c \in Conn : \/ Grow(c) \/ LookupLock(c) \/ LookupUnlock(c) \/ EnterLock(c)
                                  \/ EnterUnlock(c) \/ TestLock(c) \/ SessionFailed(c)
        PROVE  UNCHANGED Promise!vars
    <3>1. UNCHANGED <<holder, granted, lapsed>>
      BY <2>8 DEF NameServer, Grow, LookupLock, LookupUnlock, Lookup, EnterLock, EnterUnlock,
         Enter, TestLock, SessionFailed, ScanStart, Scan, ScanSlot, ScanEnd, DeleteFile,
         CreateFile, CreateLocks, vars, table, history
    <3> QED BY <3>1
  <2> QED
    BY <1>2, <2>1, <2>2, <2>3, <2>4, <2>5, <2>6, <2>7, <2>8 DEF Next, Client, Serve
<1>3. QED
  BY <1>1, <1>2, TypeCorrect, SlotsGuarded, ExclusionInvariant, PTL
     DEF Spec, KeepsPromise, Promise!Spec
=============================================================================
