------------------------ MODULE WriteSessionsProofs ------------------------
(***************************************************************************)
(* Theorems about WriteSessions, for any number of users and sentences, any*)
(* texts and any WRITEs, served one at a time or interleaved.  The first   *)
(* part is about locks, sessions and the queue, and uses nothing of what   *)
(* parsing and merging return; the second, about types and the texts in    *)
(* the files, rests on SentenceTextProofs.                                 *)
(***************************************************************************)
EXTENDS WriteSessions, SentenceTextProofs, TLAPS

USE SessionAssumption DEF SessionAssumption

LocalNames == {"at", "orig", "ptr", "edit", "buf"}

\* What the proofs need of the types: domains, and sentences that are sentences.
ThreadShape == /\ DOMAIN pc = User /\ DOMAIN local = User
               /\ \A u \in User : /\ DOMAIN local[u] = LocalNames
                                  /\ local[u].at \in Sentence
               /\ editing \in [User -> Sentence \cup {None}]

TableShape == /\ count \in 0 .. MaxSess
              /\ DOMAIN sess = 1 .. MaxSess
              /\ \A k \in 1 .. MaxSess : DOMAIN sess[k] = {"user", "idx", "orig"}
              /\ \A k \in 1 .. count : sess[k].user \in User /\ sess[k].idx \in Sentence
              /\ DOMAIN owner = Sentence

Opening == {"count", "open", "stamp", "copy"}
Closed  == {"begin", "merge", "truncate", "rewrite", "unlock", "giveUp"}

\* Between the lock and the session, the lock is there; and after the session is
\* gone it stays gone until the lock is given up.
ThreadInv == \A u \in User :
    /\ pc[u] \in Opening => owner[local[u].at] = u
    /\ pc[u] \in Closed => \A k \in 1 .. count : Key(sess[k]) # <<u, local[u].at>>

Inv == /\ ThreadShape /\ TableShape /\ ThreadInv
       /\ SessionUnderLock /\ OneSessionPerSentence

-----------------------------------------------------------------------------
\* A thread that goes on to l, when neither the array nor the locks change.
LEMMA MoveInv ==
    ASSUME Inv, NEW u \in User, NEW l, NEW L, GoWith(u, l, L), UNCHANGED <<table, owner>>,
           DOMAIN L = LocalNames, L.at \in Sentence,
           editing' \in [User -> Sentence \cup {None}],
           l \in Opening => owner[L.at] = u,
           l \in Closed => \A k \in 1 .. count : Key(sess[k]) # <<u, L.at>>
    PROVE  Inv'
<1>1. ThreadShape'
  BY DEF Inv, ThreadShape, GoWith
<1>2. TableShape' /\ SessionUnderLock' /\ OneSessionPerSentence'
  BY DEF Inv, TableShape, SessionUnderLock, OneSessionPerSentence, table
<1>3. ThreadInv'
  <2> SUFFICES ASSUME NEW v \in User
               PROVE  /\ pc'[v] \in Opening => owner[local'[v].at] = v
                      /\ pc'[v] \in Closed =>
                            \A k \in 1 .. count : Key(sess[k]) # <<v, local'[v].at>>
    BY DEF ThreadInv, table, Key
  <2>1. CASE v = u
    BY <2>1 DEF GoWith, Inv, ThreadShape
  <2>2. CASE v # u
    BY <2>2 DEF GoWith, Inv, ThreadShape, ThreadInv
  <2>3. QED
    BY <2>1, <2>2
<1>4. QED
  BY <1>1, <1>2, <1>3 DEF Inv

\* The usual cases: the thread keeps its sentence and neither opens nor closes a
\* session, or has answered.
LEMMA GotoInv ==
    ASSUME Inv, NEW u \in User, NEW l, NEW L, GoWith(u, l, L), UNCHANGED <<table, owner>>,
           DOMAIN L = LocalNames, L.at \in Sentence,
           editing' \in [User -> Sentence \cup {None}],
           l \notin Opening \cup Closed
    PROVE  Inv'
BY MoveInv

LEMMA ReplyInv ==
    ASSUME Inv, NEW u \in User, Reply(u), UNCHANGED <<table, owner>>,
           editing' \in [User -> Sentence \cup {None}]
    PROVE  Inv'
<1>1. DOMAIN NoLocals = LocalNames /\ NoLocals.at \in Sentence
  BY DEF NoLocals, LocalNames, Sentence
<1>2. "idle" \notin Opening \cup Closed
  BY DEF Opening, Closed
<1>3. QED
  BY <1>1, <1>2, GotoInv DEF Reply

-----------------------------------------------------------------------------
\* Taking a session out leaves the others, each under the lock it was under.
LEMMA DropShape ==
    ASSUME TableShape, SessionUnderLock, OneSessionPerSentence, NEW k \in 1 .. count,
           sess' = Compacted(k), count' = count - 1, UNCHANGED owner
    PROVE  /\ TableShape' /\ SessionUnderLock' /\ OneSessionPerSentence'
           /\ \A j \in 1 .. count' : \E m \in 1 .. count : m # k /\ sess'[j] = sess[m]
<1> USE DEF TableShape
<1>1. count' \in 0 .. MaxSess /\ count' < count
  OBVIOUS
<1>2. DOMAIN sess' = 1 .. MaxSess
  BY DEF Compacted
<1>3. \A j \in 1 .. MaxSess : sess'[j] = sess[j] \/ (j+1 \in 1 .. MaxSess /\ sess'[j] = sess[j+1])
  BY DEF Compacted
<1>4. ASSUME NEW j \in 1 .. count'
      PROVE  \/ j < k /\ j \in 1 .. count /\ sess'[j] = sess[j]
             \/ j >= k /\ j + 1 \in 1 .. count /\ sess'[j] = sess[j+1]
  BY <1>4, <1>1 DEF Compacted
<1>5. TableShape'
  BY <1>1, <1>2, <1>3, <1>4
<1>6. SessionUnderLock'
  BY <1>4 DEF SessionUnderLock
<1>7. OneSessionPerSentence'
  <2> SUFFICES ASSUME NEW j \in 1 .. count', NEW m \in 1 .. count', sess'[j].idx = sess'[m].idx
               PROVE  j = m
    BY DEF OneSessionPerSentence
  <2>1. \/ j < k /\ j \in 1 .. count /\ sess'[j] = sess[j]
        \/ j >= k /\ j + 1 \in 1 .. count /\ sess'[j] = sess[j+1]
    BY <1>4
  <2>2. \/ m < k /\ m \in 1 .. count /\ sess'[m] = sess[m]
        \/ m >= k /\ m + 1 \in 1 .. count /\ sess'[m] = sess[m+1]
    BY <1>4
  <2>3. QED
    BY <2>1, <2>2 DEF OneSessionPerSentence
<1>8. \A j \in 1 .. count' : \E m \in 1 .. count : m # k /\ sess'[j] = sess[m]
  <2> SUFFICES ASSUME NEW j \in 1 .. count'
               PROVE  \E m \in 1 .. count : m # k /\ sess'[j] = sess[m]
    OBVIOUS
  <2>1. CASE j < k /\ j \in 1 .. count /\ sess'[j] = sess[j]
    BY <2>1
  <2>2. CASE j >= k /\ j + 1 \in 1 .. count /\ sess'[j] = sess[j+1]
    BY <2>2
  <2>3. QED
    BY <1>4, <2>1, <2>2
<1>9. QED
  BY <1>5, <1>6, <1>7, <1>8

\* The thread that takes its session out has none for that sentence afterwards.
LEMMA DropInv ==
    ASSUME Inv, NEW u \in User, NEW i \in Sentence, NEW k \in Find(u, i), NEW l, NEW L,
           sess' = Compacted(k), count' = count - 1, UNCHANGED owner,
           GoWith(u, l, L), l \in Closed, DOMAIN L = LocalNames, L.at = i,
           editing' \in [User -> Sentence \cup {None}]
    PROVE  Inv'
<1>0. k \in 1 .. count /\ Key(sess[k]) = <<u, i>>
  BY DEF Find
<1>1. /\ TableShape' /\ SessionUnderLock' /\ OneSessionPerSentence'
      /\ \A j \in 1 .. count' : \E m \in 1 .. count : m # k /\ sess'[j] = sess[m]
  BY <1>0, DropShape DEF Inv
<1>2. ThreadShape'
  BY DEF Inv, ThreadShape, GoWith
<1>3. ThreadInv'
  <2> SUFFICES ASSUME NEW v \in User
               PROVE  /\ pc'[v] \in Opening => owner'[local'[v].at] = v
                      /\ pc'[v] \in Closed =>
                            \A j \in 1 .. count' : Key(sess'[j]) # <<v, local'[v].at>>
    BY DEF ThreadInv, Key
  <2>1. CASE v = u
    <3>1. pc'[v] = l /\ local'[v].at = i
      BY <2>1 DEF GoWith, Inv, ThreadShape
    <3>2. l \notin Opening
      BY DEF Opening, Closed
    <3>3. \A j \in 1 .. count' : Key(sess'[j]) # <<v, i>>
      BY <1>0, <1>1, <2>1 DEF Inv, OneSessionPerSentence, Key
    <3>4. QED
      BY <3>1, <3>2, <3>3
  <2>2. CASE v # u
    <3>1. pc'[v] = pc[v] /\ local'[v] = local[v]
      BY <2>2 DEF GoWith, Inv, ThreadShape
    <3>2. QED
      BY <3>1, <1>1 DEF Inv, ThreadInv, Key
  <2>3. QED
    BY <2>1, <2>2
<1>4. QED
  BY <1>1, <1>2, <1>3 DEF Inv

\* A lock given up covered no session any more.
LEMMA FreeInv ==
    ASSUME Inv, NEW u \in User, pc[u] \in Closed, Reply(u), UNCHANGED <<table, editing>>,
           owner' = [owner EXCEPT ![local[u].at] = NoUser], owner[local[u].at] = u
    PROVE  Inv'
<1> DEFINE i == local[u].at
<1>0. \A k \in 1 .. count : sess[k].idx # i
  BY DEF Inv, ThreadInv, SessionUnderLock, TableShape, Key
<1>1. TableShape' /\ SessionUnderLock' /\ OneSessionPerSentence'
  BY <1>0 DEF Inv, TableShape, SessionUnderLock, OneSessionPerSentence, table
<1>2. DOMAIN NoLocals = LocalNames /\ NoLocals.at \in Sentence /\ "idle" \notin Opening \cup Closed
  BY DEF NoLocals, LocalNames, Sentence, Opening, Closed
<1>3. ThreadShape'
  BY <1>2 DEF Inv, ThreadShape, Reply, GoWith
<1>4. ThreadInv'
  <2> SUFFICES ASSUME NEW v \in User
               PROVE  /\ pc'[v] \in Opening => owner'[local'[v].at] = v
                      /\ pc'[v] \in Closed =>
                            \A j \in 1 .. count : Key(sess[j]) # <<v, local'[v].at>>
    BY DEF ThreadInv, Key, table
  <2>1. CASE v = u
    BY <1>2, <2>1 DEF Reply, GoWith, Inv, ThreadShape
  <2>2. CASE v # u
    <3>1. pc'[v] = pc[v] /\ local'[v] = local[v]
      BY <2>2 DEF Reply, GoWith, Inv, ThreadShape
    <3>2. pc[v] \in Opening => local[v].at # i
      BY <2>2 DEF Inv, ThreadInv
    <3>3. QED
      BY <3>1, <3>2 DEF Inv, ThreadInv, ThreadShape, TableShape
  <2>3. QED
    BY <2>1, <2>2
<1>5. QED
  BY <1>1, <1>3, <1>4 DEF Inv

-----------------------------------------------------------------------------
\* A session is opened under the lock its thread has just taken.
LEMMA OpenInv ==
    ASSUME Inv, NEW u \in User, OpenSession(u)
    PROVE  Inv'
<1> DEFINE i == local[u].at
<1>0. i \in Sentence /\ pc[u] = "open" /\ owner[i] = u /\ UNCHANGED <<owner, editing>>
  BY DEF OpenSession, Inv, ThreadShape, ThreadInv, Opening, client
<1>1. "stamp" \notin Closed /\ "giveUp" \notin Opening /\ "giveUp" \in Closed
  BY DEF Opening, Closed
<1>2. ASSUME NEW k \in Find(u, i), GoWith(u, "stamp", [local[u] EXCEPT !.ptr = k]),
             UNCHANGED table
      PROVE  Inv'
  <2>1. /\ DOMAIN [local[u] EXCEPT !.ptr = k] = LocalNames
        /\ [local[u] EXCEPT !.ptr = k].at \in Sentence
    BY DEF Inv, ThreadShape, LocalNames
  <2>2. editing' \in [User -> Sentence \cup {None}]
    BY <1>0 DEF Inv, ThreadShape
  <2>3. [local[u] EXCEPT !.ptr = k].at = i
    BY <1>0 DEF Inv, ThreadShape, LocalNames
  <2>4. QED
    BY <1>0, <1>1, <1>2, <2>1, <2>2, <2>3, MoveInv
<1>3. ASSUME Find(u, i) = {}, Goto(u, "giveUp"), UNCHANGED table
      PROVE  Inv'
  <2>1. \A k \in 1 .. count : Key(sess[k]) # <<u, i>>
    BY <1>3 DEF Find
  <2>2. editing' \in [User -> Sentence \cup {None}] /\ DOMAIN local[u] = LocalNames
    BY <1>0 DEF Inv, ThreadShape
  <2>3. QED
    BY <1>0, <1>1, <1>3, <2>1, <2>2, MoveInv DEF Goto
<1>4. ASSUME Find(u, i) = {}, count < MaxSess,
             sess' = [sess EXCEPT ![count+1].user = u, ![count+1].idx = i],
             count' = count + 1,
             GoWith(u, "stamp", [local[u] EXCEPT !.ptr = count + 1])
      PROVE  Inv'
  <2>0. count \in Nat /\ count + 1 \in 1 .. MaxSess
    BY <1>4 DEF Inv, TableShape
  <2>1. /\ DOMAIN sess' = 1 .. MaxSess
        /\ sess'[count+1].user = u /\ sess'[count+1].idx = i
        /\ \A k \in 1 .. MaxSess : DOMAIN sess'[k] = {"user", "idx", "orig"}
        /\ \A k \in 1 .. count : sess'[k] = sess[k]
    BY <1>4, <2>0 DEF Inv, TableShape
  <2>2. \A k \in 1 .. count' : k \in 1 .. count \/ k = count + 1
    BY <1>4, <2>0
  <2>3. TableShape'
    BY <1>0, <1>4, <2>0, <2>1, <2>2 DEF Inv, TableShape
  <2>4. SessionUnderLock'
    BY <1>0, <2>1, <2>2 DEF Inv, SessionUnderLock
  <2>5. \A k \in 1 .. count : sess[k].idx # i
    BY <1>0, <1>4 DEF Inv, SessionUnderLock, Find, Key
  <2>6. OneSessionPerSentence'
    BY <2>1, <2>2, <2>5 DEF Inv, OneSessionPerSentence
  <2>7. ThreadShape'
    BY <1>0, <1>4 DEF Inv, ThreadShape, GoWith, LocalNames
  <2>8. ThreadInv'
    <3> SUFFICES ASSUME NEW v \in User
                 PROVE  /\ pc'[v] \in Opening => owner[local'[v].at] = v
                        /\ pc'[v] \in Closed =>
                              \A k \in 1 .. count' : Key(sess'[k]) # <<v, local'[v].at>>
      BY <1>0 DEF ThreadInv, Key
    <3>1. CASE v = u
      <4>1. pc'[u] = "stamp" /\ local'[u] = [local[u] EXCEPT !.ptr = count + 1]
        BY <1>4 DEF GoWith, Inv, ThreadShape
      <4>2. local'[u].at = i
        BY <4>1 DEF Inv, ThreadShape, LocalNames
      <4>3. QED
        BY <1>0, <1>1, <3>1, <4>1, <4>2
    <3>2. CASE v # u
      <4>1. pc'[v] = pc[v] /\ local'[v] = local[v]
        BY <1>4, <3>2 DEF GoWith, Inv, ThreadShape
      <4>2. QED
        BY <3>2, <4>1, <2>1, <2>2 DEF Inv, ThreadInv, Key
    <3>3. QED
      BY <3>1, <3>2
  <2>9. QED
    BY <2>3, <2>4, <2>6, <2>7, <2>8 DEF Inv
<1>5. QED
  BY <1>2, <1>3, <1>4 DEF OpenSession

\* The count is stored in some cell, whatever cell the pointer shows.
LEMMA StampInv ==
    ASSUME Inv, NEW u \in User, StampSession(u)
    PROVE  Inv'
<1>1. /\ DOMAIN sess' = 1 .. MaxSess
      /\ \A k \in 1 .. MaxSess : /\ DOMAIN sess'[k] = {"user", "idx", "orig"}
                                 /\ sess'[k].user = sess[k].user
                                 /\ sess'[k].idx = sess[k].idx
  BY DEF StampSession, Inv, TableShape
<1>2. \A k \in 1 .. count : k \in 1 .. MaxSess
  BY DEF Inv, TableShape
<1>3. TableShape' /\ SessionUnderLock' /\ OneSessionPerSentence'
  <2>1. TableShape'
    BY <1>1, <1>2 DEF StampSession, Inv, TableShape
  <2>2. SessionUnderLock' /\ OneSessionPerSentence'
    BY <1>1, <1>2 DEF StampSession, Inv, SessionUnderLock, OneSessionPerSentence
  <2> QED BY <2>1, <2>2
<1>4. ThreadShape'
  BY DEF StampSession, Inv, ThreadShape, Goto, GoWith, client
<1>5. ThreadInv'
  <2> SUFFICES ASSUME NEW v \in User
               PROVE  /\ pc'[v] \in Opening => owner[local'[v].at] = v
                      /\ pc'[v] \in Closed =>
                            \A k \in 1 .. count : Key(sess'[k]) # <<v, local'[v].at>>
    BY DEF ThreadInv, Key, StampSession
  <2>1. CASE v = u
    BY <2>1 DEF StampSession, Goto, GoWith, Opening, Closed, Inv, ThreadShape, ThreadInv
  <2>2. CASE v # u
    <3>1. pc'[v] = pc[v] /\ local'[v] = local[v]
      BY <2>2 DEF StampSession, Goto, GoWith, Inv, ThreadShape
    <3>2. QED
      BY <1>1, <1>2, <3>1 DEF Inv, ThreadInv, Key
  <2>3. QED
    BY <2>1, <2>2
<1>6. QED
  BY <1>3, <1>4, <1>5 DEF Inv

\* A lock is taken only from nobody, so no session of another user is under it.
LEMMA LockInv ==
    ASSUME Inv, NEW u \in User, LockSentence(u)
    PROVE  Inv'
<1> DEFINE i == local[u].at
<1>0. i \in Sentence /\ editing' \in [User -> Sentence \cup {None}] /\ UNCHANGED table
      /\ pc[u] = "lock"
  BY DEF LockSentence, Inv, ThreadShape, client
<1>1. CASE owner[i] \notin {NoUser, u}
  BY <1>0, <1>1, ReplyInv DEF LockSentence
<1>2. CASE owner[i] \in {NoUser, u}
  <2>1. owner' = [owner EXCEPT ![i] = u] /\ GoWith(u, "count", local[u])
    BY <1>2 DEF LockSentence, Goto
  <2>2. \A k \in 1 .. count : owner'[sess[k].idx] = owner[sess[k].idx]
    BY <1>2, <2>1 DEF Inv, SessionUnderLock, TableShape
  <2>3. TableShape' /\ SessionUnderLock' /\ OneSessionPerSentence'
    BY <1>0, <2>1, <2>2 DEF Inv, TableShape, SessionUnderLock, OneSessionPerSentence, table
  <2>4. ThreadShape'
    BY <1>0, <2>1 DEF Inv, ThreadShape, GoWith
  <2>5. ThreadInv'
    <3> SUFFICES ASSUME NEW v \in User
                 PROVE  /\ pc'[v] \in Opening => owner'[local'[v].at] = v
                        /\ pc'[v] \in Closed =>
                              \A k \in 1 .. count : Key(sess[k]) # <<v, local'[v].at>>
      BY <1>0 DEF ThreadInv, Key, table
    <3>1. CASE v = u
      BY <1>0, <2>1, <3>1 DEF GoWith, Opening, Closed, Inv, ThreadShape, TableShape
    <3>2. CASE v # u
      <4>1. pc'[v] = pc[v] /\ local'[v] = local[v]
        BY <2>1, <3>2 DEF GoWith, Inv, ThreadShape
      <4>2. pc[v] \in Opening => owner'[local[v].at] = owner[local[v].at]
        BY <1>2, <2>1, <3>2 DEF Inv, ThreadInv, ThreadShape, TableShape
      <4>3. QED
        BY <4>1, <4>2 DEF Inv, ThreadInv
    <3>3. QED
      BY <3>1, <3>2
  <2>6. QED
    BY <2>3, <2>4, <2>5 DEF Inv
<1>3. QED
  BY <1>1, <1>2


-----------------------------------------------------------------------------
\* Steps between which a thread only moves on.
LEMMA ServeInv ==
    ASSUME Inv, NEW u \in User, Serve(u)
    PROVE  Inv'
<1> USE DEF files, table, commits, client, history, thread
<1>0. /\ DOMAIN local[u] = LocalNames /\ local[u].at \in Sentence
      /\ editing \in [User -> Sentence \cup {None}]
  BY DEF Inv, ThreadShape
<1>1. CASE CountSentences(u)
  <2>1. owner[local[u].at] = u
    BY <1>1 DEF CountSentences, Inv, ThreadInv, Opening
  <2>2. "open" \notin Closed
    BY DEF Closed
  <2>3. /\ DOMAIN [local[u] EXCEPT !.orig = Len(Parse(main))] = LocalNames
        /\ [local[u] EXCEPT !.orig = Len(Parse(main))].at = local[u].at
    BY <1>0 DEF LocalNames
  <2>4. QED
    BY <1>0, <1>1, <2>1, <2>2, <2>3, MoveInv DEF CountSentences
<1>2. CASE CopyMain(u)
  <2>1. editing' \in [User -> Sentence \cup {None}] /\ UNCHANGED <<table, owner>>
    BY <1>0, <1>2 DEF CopyMain
  <2>2. "discard" \notin Opening \cup Closed
    BY DEF Opening, Closed
  <2>3. Reply(u) \/ Goto(u, "discard")
    BY <1>2 DEF CopyMain
  <2>4. QED
    BY <1>0, <2>1, <2>2, <2>3, ReplyInv, GotoInv DEF Goto
<1>3. CASE ParseTemp(u)
  <2>1. CASE pc'[u] = "idle" /\ Reply(u)
    BY <1>0, <1>3, <2>1, ReplyInv DEF ParseTemp
  <2>2. CASE \E text : GoWith(u, "store", [local[u] EXCEPT !.buf = text])
    <3>1. PICK text : GoWith(u, "store", [local[u] EXCEPT !.buf = text])
      BY <2>2
    <3>2. /\ DOMAIN [local[u] EXCEPT !.buf = text] = LocalNames
          /\ [local[u] EXCEPT !.buf = text].at = local[u].at
      BY <1>0 DEF LocalNames
    <3>3. "store" \notin Opening \cup Closed
      BY DEF Opening, Closed
    <3>4. QED
      BY <1>0, <1>3, <3>1, <3>2, <3>3, GotoInv DEF ParseTemp
  <2>3. QED
    BY <1>3, <2>1, <2>2 DEF ParseTemp, Reply, GoWith, Inv, ThreadShape
<1>4. CASE StoreTemp(u)
  BY <1>0, <1>4, ReplyInv DEF StoreTemp
<1>5. CASE Enqueue(u)
  <2>1. {"drop", "discard"} \cap (Opening \cup Closed) = {}
    BY DEF Opening, Closed
  <2>2. QED
    BY <1>0, <1>5, <2>1, GotoInv DEF Enqueue, Goto
<1>6. CASE DropSession(u) \/ DiscardSession(u)
  <2>1. {"begin", "giveUp"} \subseteq Closed /\ {"begin", "giveUp"} \cap Opening = {}
    BY DEF Closed, Opening
  <2>2. PICK l \in {"begin", "giveUp"} : Goto(u, l)
    BY <1>6 DEF DropSession, DiscardSession
  <2>3. UNCHANGED <<owner, editing>>
    BY <1>6 DEF DropSession, DiscardSession
  <2>4. CASE Find(u, local[u].at) = {} /\ UNCHANGED table
    <3>1. \A k \in 1 .. count : Key(sess[k]) # <<u, local[u].at>>
      BY <2>4 DEF Find
    <3>2. QED
      BY <1>0, <2>1, <2>2, <2>3, <2>4, <3>1, MoveInv DEF Goto
  <2>5. CASE \E k \in Find(u, local[u].at) : sess' = Compacted(k) /\ count' = count - 1
    <3>1. PICK k \in Find(u, local[u].at) : sess' = Compacted(k) /\ count' = count - 1
      BY <2>5
    <3>2. QED
      BY <1>0, <2>1, <2>2, <2>3, <3>1, DropInv DEF Goto
  <2>6. QED
    BY <1>6, <2>4, <2>5 DEF DropSession, DiscardSession
<1>7. ASSUME NEW l, NEW L, GoWith(u, l, L), DOMAIN L = LocalNames, L.at = local[u].at,
             pc[u] \in Closed, l \notin Opening, UNCHANGED <<table, owner, editing>>
      PROVE  Inv'
  <2>1. \A k \in 1 .. count : Key(sess[k]) # <<u, L.at>>
    BY <1>7 DEF Inv, ThreadInv
  <2>2. QED
    BY <1>0, <1>7, <2>1, MoveInv
<1>8. CASE BeginProcess(u) \/ EndProcess(u) \/ Truncate(u)
  BY <1>0, <1>7, <1>8 DEF BeginProcess, EndProcess, Truncate, Goto, Opening, Closed
<1>9. CASE MergeHead(u)
  <2>1. \E text : GoWith(u, "truncate", [local[u] EXCEPT !.buf = text])
    BY <1>9 DEF MergeHead
  <2>2. PICK text : GoWith(u, "truncate", [local[u] EXCEPT !.buf = text])
    BY <2>1
  <2>3. /\ DOMAIN [local[u] EXCEPT !.buf = text] = LocalNames
        /\ [local[u] EXCEPT !.buf = text].at = local[u].at
    BY <1>0 DEF LocalNames
  <2>4. "truncate" \notin Opening /\ pc[u] \in Closed /\ UNCHANGED <<table, owner, editing>>
    BY <1>9 DEF MergeHead, Opening, Closed
  <2>5. QED
    BY <1>7, <2>2, <2>3, <2>4
<1>10. CASE SkipHead(u)
  BY <1>10 DEF SkipHead, Inv, ThreadShape, TableShape, ThreadInv, SessionUnderLock,
               OneSessionPerSentence, Key
<1>11. CASE Rewrite(u) \/ GiveUpMerge(u)
  <2>1. /\ DOMAIN [local[u] EXCEPT !.buf = <<>>] = LocalNames
        /\ [local[u] EXCEPT !.buf = <<>>].at = local[u].at
    BY <1>0 DEF LocalNames
  <2>2. /\ {"merge", "unlock"} \cap Opening = {} /\ pc[u] \in Closed
        /\ UNCHANGED <<table, owner, editing>>
    BY <1>11 DEF Rewrite, GiveUpMerge, Opening, Closed
  <2>3. \E l \in {"merge", "unlock"} : GoWith(u, l, [local[u] EXCEPT !.buf = <<>>])
    BY <1>11 DEF Rewrite, GiveUpMerge
  <2>4. QED
    BY <1>7, <2>1, <2>2, <2>3
<1>12. CASE UnlockSentence(u) \/ GiveUpLock(u)
  <2>1. pc[u] \in Closed /\ Reply(u) /\ UNCHANGED <<table, editing>>
    BY <1>12 DEF UnlockSentence, GiveUpLock, Closed
  <2>2. CASE owner[local[u].at] = u
    <3>1. owner' = [owner EXCEPT ![local[u].at] = NoUser]
      BY <1>12, <2>2 DEF UnlockSentence, GiveUpLock
    <3>2. QED
      BY <2>1, <2>2, <3>1, FreeInv
  <2>3. CASE owner[local[u].at] # u
    <3>1. UNCHANGED owner
      BY <1>12, <2>3 DEF UnlockSentence, GiveUpLock
    <3>2. QED
      BY <1>0, <2>1, <3>1, ReplyInv
  <2>4. QED
    BY <2>2, <2>3
<1>13. CASE UndoTruncate(u)
  <2>1. "restore" \notin Opening \cup Closed
    BY DEF Opening, Closed
  <2>2. UNCHANGED <<table, owner, editing>> /\ (Goto(u, "restore") \/ Reply(u))
    BY <1>13 DEF UndoTruncate
  <2>3. QED
    BY <1>0, <2>1, <2>2, GotoInv, ReplyInv DEF Goto
<1>14. CASE Restore(u)
  BY <1>0, <1>14, ReplyInv DEF Restore
<1>15. QED
  BY <1>1, <1>2, <1>3, <1>4, <1>5, <1>6, <1>8, <1>9, <1>10, <1>11, <1>12, <1>13, <1>14,
     OpenInv, StampInv, LockInv DEF Serve

\* Requests.
LEMMA RequestInv ==
    ASSUME Inv, NEW u \in User, Request(u)
    PROVE  Inv'
<1> USE DEF files, table, commits, client, history, thread
<1>0. /\ DOMAIN local[u] = LocalNames /\ local[u].at \in Sentence
      /\ editing \in [User -> Sentence \cup {None}]
  BY DEF Inv, ThreadShape
<1>1. DOMAIN NoLocals = LocalNames
  BY DEF NoLocals, LocalNames
<1>2. {"lock", "parse", "enqueue", "undo", "discard"} \cap (Opening \cup Closed) = {}
  BY DEF Opening, Closed
<1>3. editing[u] # None => editing[u] \in Sentence
  BY <1>0
<1>4. ASSUME NEW i \in Sentence, ReceiveLock(u, i) PROVE Inv'
  <2>1. /\ DOMAIN [NoLocals EXCEPT !.at = i] = LocalNames
        /\ [NoLocals EXCEPT !.at = i].at = i
    BY DEF NoLocals, LocalNames
  <2>0. editing' \in [User -> Sentence \cup {None}] /\ UNCHANGED <<table, owner>>
    BY <1>0, <1>4 DEF ReceiveLock
  <2>2. CASE Reply(u)
    BY <2>0, <2>2, ReplyInv
  <2>3. CASE GoWith(u, "lock", [NoLocals EXCEPT !.at = i])
    BY <1>2, <2>0, <2>1, <2>3, GotoInv
  <2>4. QED
    BY <1>4, <2>2, <2>3 DEF ReceiveLock
<1>5. ASSUME NEW w, NEW content, ReceiveWrite(u, w, content) PROVE Inv'
  <2>1. CASE Reply(u)
    BY <1>0, <1>5, <2>1, ReplyInv DEF ReceiveWrite
  <2>2. ASSUME NEW k,
               GoWith(u, "parse", [NoLocals EXCEPT !.at = editing[u], !.ptr = k,
                                                   !.edit = <<w, content>>])
        PROVE  Inv'
    <3> DEFINE L == [NoLocals EXCEPT !.at = editing[u], !.ptr = k, !.edit = <<w, content>>]
    <3>1. DOMAIN L = LocalNames /\ L.at = editing[u]
      BY DEF NoLocals, LocalNames
    <3>2. editing[u] \in Sentence /\ UNCHANGED <<table, owner, editing>>
      BY <1>3, <1>5 DEF ReceiveWrite
    <3>3. GoWith(u, "parse", L)
      BY <2>2
    <3>4. HIDE DEF L
    <3>5. QED
      BY <1>0, <1>2, <3>1, <3>2, <3>3, GotoInv
  <2>3. QED
    BY <1>5, <2>1, <2>2 DEF ReceiveWrite
<1>6. CASE ReceiveUnlock(u)
  <2>1. /\ editing' \in [User -> Sentence \cup {None}] /\ editing[u] \in Sentence
        /\ UNCHANGED <<table, owner>>
    BY <1>0, <1>3, <1>6 DEF ReceiveUnlock
  <2>2. ASSUME NEW k, GoWith(u, "enqueue", [NoLocals EXCEPT !.at = editing[u], !.ptr = k])
        PROVE  Inv'
    <3> DEFINE L == [NoLocals EXCEPT !.at = editing[u], !.ptr = k]
    <3>1. DOMAIN L = LocalNames /\ L.at = editing[u] /\ GoWith(u, "enqueue", L)
      BY <2>2 DEF NoLocals, LocalNames
    <3>2. HIDE DEF L
    <3>3. QED
      BY <1>2, <2>1, <3>1, GotoInv
  <2>3. ASSUME Find(u, editing[u]) = {},
               GoWith(u, "unlock", [NoLocals EXCEPT !.at = editing[u]])
        PROVE  Inv'
    <3> DEFINE L == [NoLocals EXCEPT !.at = editing[u]]
    <3>1. DOMAIN L = LocalNames /\ L.at = editing[u] /\ GoWith(u, "unlock", L)
      BY <2>3 DEF NoLocals, LocalNames
    <3>2. \A k \in 1 .. count : Key(sess[k]) # <<u, L.at>>
      BY <2>3, <3>1 DEF Find
    <3>3. "unlock" \notin Opening
      BY DEF Opening
    <3>4. HIDE DEF L
    <3>5. QED
      BY <2>1, <3>1, <3>2, <3>3, MoveInv
  <2>4. QED
    BY <1>6, <2>2, <2>3 DEF ReceiveUnlock
<1>7. CASE ReceiveCancel(u)
  <2> DEFINE L == [NoLocals EXCEPT !.at = editing[u]]
  <2>1. /\ editing' \in [User -> Sentence \cup {None}] /\ editing[u] \in Sentence
        /\ UNCHANGED <<table, owner>>
    BY <1>0, <1>3, <1>7 DEF ReceiveCancel
  <2>2. DOMAIN L = LocalNames /\ L.at = editing[u] /\ GoWith(u, "discard", L)
    BY <1>7 DEF ReceiveCancel, NoLocals, LocalNames
  <2> HIDE DEF L
  <2>3. QED
    BY <1>2, <2>1, <2>2, GotoInv
<1>8. CASE ReceiveUndo(u)
  BY <1>0, <1>2, <1>8, GotoInv DEF ReceiveUndo, Goto
<1>9. CASE HangUp(u)
  BY <1>0, <1>9 DEF HangUp, Inv, ThreadShape, TableShape, ThreadInv, SessionUnderLock,
                  OneSessionPerSentence, Key
<1>10. QED
  BY <1>4, <1>5, <1>6, <1>7, <1>8, <1>9 DEF Request

LEMMA InitInv == Init => Inv
<1> SUFFICES ASSUME Init PROVE Inv
  OBVIOUS
<1>1. ThreadShape
  BY DEF Init, ThreadShape, NoLocals, LocalNames, Sentence
<1>2. TableShape /\ SessionUnderLock /\ OneSessionPerSentence
  BY DEF Init, TableShape, SessionUnderLock, OneSessionPerSentence
<1>3. ThreadInv
  BY DEF Init, ThreadInv, Opening, Closed
<1>4. QED
  BY <1>1, <1>2, <1>3 DEF Inv

\* CHECKPOINT and REVERT touch neither the tables nor the other threads.
LEMMA KeepFrame == ASSUME Keep PROVE UNCHANGED <<table, commits, owner, thread, client>>
BY DEF Keep, CreateCheckpoint, ReceiveRevert, RevertTruncate, Revert

LEMMA Inductive == Spec => []Inv
<1>1. Inv /\ [Next]_vars => Inv'
  <2>1. ASSUME Inv, Keep \/ UNCHANGED vars PROVE Inv'
    <3>1. UNCHANGED <<table, owner, thread, client>>
      BY <2>1, KeepFrame DEF vars
    <3>2. QED
      BY <2>1, <3>1 DEF Inv, ThreadShape, TableShape, ThreadInv, SessionUnderLock,
                  OneSessionPerSentence, Key, table, thread, client
  <2>2. QED
    BY <2>1, ServeInv, RequestInv DEF Next
<1>2. QED
  BY <1>1, InitInv, PTL DEF Spec

\* A session exists only under the lock of its sentence, on every path and with
\* any interleaving of requests (the order of the calls in MSG_LOCK_SENTENCE,
\* MSG_UNLOCK_SENTENCE and MSG_CANCEL_WRITE).
THEOREM SessionsLocked == Spec => []SessionUnderLock
BY Inductive, PTL DEF Inv

\* A sentence has at most one session, hence one writer.
THEOREM SessionsUnique == Spec => []OneSessionPerSentence
BY Inductive, PTL DEF Inv

-----------------------------------------------------------------------------
\* The queue of commits.  Its entries hold a sentence count, about which nothing
\* is known, so the queue is a sequence of some set.
SomeSeq(q) == \E S : q \in Seq(S)

LEMMA AppendSeq ==
    ASSUME NEW q, SomeSeq(q), NEW e
    PROVE  /\ SomeSeq(Append(q, e))
           /\ \A k \in DOMAIN Append(q, e) : \/ k \in DOMAIN q /\ Append(q, e)[k] = q[k]
                                             \/ Append(q, e)[k] = e
<1>1. PICK S : q \in Seq(S)
  BY DEF SomeSeq
<1>2. q \in Seq(S \cup {e})
  BY <1>1
<1>3. Append(q, e) \in Seq(S \cup {e})
  BY <1>2
<1>4. QED
  BY <1>2, <1>3 DEF SomeSeq

LEMMA TailSeq ==
    ASSUME NEW q, SomeSeq(q), q # <<>>
    PROVE  /\ SomeSeq(Tail(q))
           /\ \A k \in DOMAIN Tail(q) : k + 1 \in DOMAIN q /\ Tail(q)[k] = q[k+1]
<1>1. PICK S : q \in Seq(S)
  BY DEF SomeSeq
<1>2. Tail(q) \in Seq(S)
  BY <1>1
<1>3. QED
  BY <1>1, <1>2 DEF SomeSeq

\* What GiveUpMerge makes of the queue: the same entries, u's own marked.
LeftBy(q, u) == [k \in DOMAIN q |-> [q[k] EXCEPT !.state = IF q[k].user = u THEN "left" ELSE @]]

LEMMA LeftSeq ==
    ASSUME NEW q, SomeSeq(q), NEW u, \A k \in DOMAIN q : {"user", "state"} \subseteq DOMAIN q[k]
    PROVE  /\ SomeSeq(LeftBy(q, u)) /\ DOMAIN LeftBy(q, u) = DOMAIN q
           /\ \A k \in DOMAIN q :
                /\ DOMAIN LeftBy(q, u)[k] = DOMAIN q[k]
                /\ LeftBy(q, u)[k].user = q[k].user
                /\ (LeftBy(q, u)[k].state = "queued" => q[k].state = "queued" /\ q[k].user # u)
<1> DEFINE r == LeftBy(q, u)
<1>1. PICK S : q \in Seq(S)
  BY DEF SomeSeq
<1>2. Len(q) \in Nat /\ DOMAIN q = 1 .. Len(q)
  BY <1>1
<1>3. /\ DOMAIN r = DOMAIN q
      /\ \A k \in DOMAIN q :
            /\ DOMAIN r[k] = DOMAIN q[k] /\ r[k].user = q[k].user
            /\ (r[k].state = "queued" => q[k].state = "queued" /\ q[k].user # u)
  BY DEF LeftBy
<1>4. r \in [1 .. Len(q) -> {r[k] : k \in DOMAIN q}]
  BY <1>2 DEF LeftBy
<1>5. r \in Seq({r[k] : k \in DOMAIN q})
  BY <1>2, <1>4
<1> QED BY <1>3, <1>5 DEF SomeSeq

Serving    == {"drop", "begin", "merge", "truncate", "rewrite"}
Processing == {"merge", "truncate", "rewrite"}      \* with the queue's mutex

\* One thread at a time processes the queue, and the entry it is merging is there.
QueueMutex == \A u \in User : pc[u] \in Processing => queueOwner = u
QueueLeft  == \A u \in User : pc[u] \in {"truncate", "rewrite"} => queue # <<>>

QueueInv == /\ SomeSeq(queue)
            /\ DOMAIN pc = User
            /\ \A k \in DOMAIN queue : /\ {"user", "state"} \subseteq DOMAIN queue[k]
                                       /\ queue[k].user \in User
                                       /\ queue[k].state = "queued" => pc[queue[k].user] \in Serving
            /\ QueueMutex /\ QueueLeft

\* A thread that does not serve the queue, or goes on serving it, leaves it alone.
LEMMA QueueFrame ==
    ASSUME QueueInv, NEW u \in User, NEW l, NEW L, GoWith(u, l, L), UNCHANGED queue,
           pc[u] \notin Serving \/ l \in Serving \/ queue = <<>>,
           queueOwner' = queueOwner \/ queueOwner \in {NoUser, u},
           l \in Processing => queueOwner' = u,
           l \in {"truncate", "rewrite"} => queue # <<>>
    PROVE  QueueInv'
<1>1. DOMAIN pc' = User /\ \A v \in User : pc'[v] = IF v = u THEN l ELSE pc[v]
  BY DEF QueueInv, GoWith
<1>2. \A k \in DOMAIN queue : queue[k].state = "queued" => pc'[queue[k].user] \in Serving
  BY <1>1 DEF QueueInv
<1>3. QueueMutex'
  <2> SUFFICES ASSUME NEW v \in User, pc'[v] \in Processing PROVE queueOwner' = v
    BY DEF QueueMutex
  <2>1. v # u => pc[v] \in Processing
    BY <1>1
  <2>2. v # u => queueOwner = v
    BY <2>1 DEF QueueInv, QueueMutex
  <2>3. QED
    BY <1>1, <2>2
<1>4. QueueLeft'
  <2> SUFFICES ASSUME NEW v \in User, pc'[v] \in {"truncate", "rewrite"} PROVE queue # <<>>
    BY DEF QueueLeft
  <2>1. CASE v = u
    BY <1>1, <2>1
  <2>2. CASE v # u
    BY <1>1, <2>2 DEF QueueInv, QueueLeft
  <2>3. QED
    BY <2>1, <2>2
<1>5. QED
  BY <1>1, <1>2, <1>3, <1>4 DEF QueueInv

LEMMA QueueStep ==
    ASSUME QueueInv, NEW u \in User, Request(u) \/ Serve(u)
    PROVE  QueueInv'
<1> USE DEF commits, thread
<1>0. CASE HangUp(u)
  BY <1>0 DEF HangUp, QueueInv, QueueMutex, QueueLeft
<1>1. CASE Request(u) /\ ~HangUp(u)
  <2>1. pc[u] \notin Serving /\ UNCHANGED <<queue, queueOwner>>
    BY <1>1 DEF Request, ReceiveLock, ReceiveWrite, ReceiveUnlock, ReceiveCancel, ReceiveUndo,
                Ready, ReadyBeside, Serving
  <2>2. \E l, L : GoWith(u, l, L) /\ l \notin Processing
    <3>1. ASSUME NEW i \in Sentence, ReceiveLock(u, i)
          PROVE  \E l, L : GoWith(u, l, L) /\ l \notin Processing
      BY <3>1 DEF ReceiveLock, Reply, Processing
    <3>2. ASSUME NEW w, NEW content, ReceiveWrite(u, w, content)
          PROVE  \E l, L : GoWith(u, l, L) /\ l \notin Processing
      <4>1. \/ \E L : GoWith(u, "parse", L)
            \/ GoWith(u, "idle", NoLocals)
        BY <3>2 DEF ReceiveWrite, Reply
      <4>2. "parse" \notin Processing /\ "idle" \notin Processing
        BY DEF Processing
      <4>3. QED
        BY <4>1, <4>2
    <3>3. CASE ReceiveUnlock(u) \/ ReceiveCancel(u) \/ ReceiveUndo(u)
      <4>1. \/ \E L : GoWith(u, "enqueue", L)
            \/ \E L : GoWith(u, "unlock", L)
            \/ \E L : GoWith(u, "discard", L)
            \/ GoWith(u, "undo", local[u])
        BY <3>3 DEF ReceiveUnlock, ReceiveCancel, ReceiveUndo, Goto
      <4>2. {"enqueue", "unlock", "discard", "undo"} \cap Processing = {}
        BY DEF Processing
      <4>3. QED
        BY <4>1, <4>2
    <3>4. QED
      BY <1>1, <3>1, <3>2, <3>3 DEF Request
  <2>3. QED
    BY <2>1, <2>2, QueueFrame DEF Processing
<1>2. CASE \/ LockSentence(u) \/ CountSentences(u) \/ OpenSession(u) \/ StampSession(u)
           \/ CopyMain(u) \/ ParseTemp(u) \/ StoreTemp(u) \/ DiscardSession(u)
           \/ UnlockSentence(u) \/ GiveUpLock(u) \/ UndoTruncate(u) \/ Restore(u)
  <2>1. pc[u] \notin Serving /\ UNCHANGED <<queue, queueOwner>>
    BY <1>2 DEF LockSentence, CountSentences, OpenSession, StampSession, CopyMain, ParseTemp,
                StoreTemp, DiscardSession, UnlockSentence, GiveUpLock, UndoTruncate, Restore,
                Serving
  <2>2. \E l, L : GoWith(u, l, L) /\ l \notin Processing
    <3>1. CASE LockSentence(u) \/ CountSentences(u) \/ CopyMain(u) \/ StampSession(u)
      BY <3>1 DEF LockSentence, CountSentences, CopyMain, StampSession, Goto, Reply, Processing
    <3>2. CASE OpenSession(u)
      <4>1. \/ \E L : GoWith(u, "stamp", L)
            \/ GoWith(u, "giveUp", local[u])
        BY <3>2 DEF OpenSession, Goto
      <4>2. {"stamp", "giveUp"} \cap Processing = {}
        BY DEF Processing
      <4>3. QED
        BY <4>1, <4>2
    <3>3. CASE ParseTemp(u)
      BY <3>3 DEF ParseTemp, Reply, Processing
    <3>4. CASE \/ StoreTemp(u) \/ DiscardSession(u) \/ UnlockSentence(u) \/ GiveUpLock(u)
               \/ UndoTruncate(u) \/ Restore(u)
      BY <3>4 DEF StoreTemp, DiscardSession, UnlockSentence, GiveUpLock, UndoTruncate, Restore, Goto, Reply,
                  Processing
    <3>5. QED
      BY <1>2, <3>1, <3>2, <3>3, <3>4
  <2>3. QED
    BY <2>1, <2>2, QueueFrame DEF Processing
<1>3. ASSUME NEW e, queue' = Append(queue, e), e.user = u, {"user", "state"} \subseteq DOMAIN e,
             Goto(u, "drop"), pc[u] = "enqueue", queueOwner = NoUser, UNCHANGED queueOwner
      PROVE  QueueInv'
  <2>1. queue' = Append(queue, e) /\ e.user = u /\ {"user", "state"} \subseteq DOMAIN e
    BY <1>3
  <2>2. SomeSeq(queue')
    BY <2>1, AppendSeq DEF QueueInv
  <2>3. \A k \in DOMAIN queue' : \/ k \in DOMAIN queue /\ queue'[k] = queue[k]
                                \/ queue'[k] = e
    BY <2>1, AppendSeq DEF QueueInv
  <2>4. DOMAIN pc' = User /\ pc'[u] \in Serving /\ \A v \in User : v # u => pc'[v] = pc[v]
    BY <1>3 DEF Goto, GoWith, Serving, QueueInv
  <2>5. \A v \in User : pc'[v] \notin Processing
    BY <1>3 DEF Goto, GoWith, QueueInv, QueueMutex, QueueLeft, Processing
  <2>6. QED
    BY <2>1, <2>2, <2>3, <2>4, <2>5 DEF QueueInv, QueueMutex, QueueLeft, Processing
<1>8. CASE Enqueue(u)
  <2>1. CASE Goto(u, "discard") /\ UNCHANGED <<queue, queueOwner>>
    BY <1>8, <2>1, QueueFrame DEF Enqueue, Goto, Serving, Processing
  <2>2. CASE Goto(u, "drop")
    BY <1>3, <1>8, <2>2 DEF Enqueue, Goto, GoWith, QueueInv
  <2> QED BY <1>8, <2>1, <2>2 DEF Enqueue
<1>9. CASE GiveUpMerge(u)
  <2>1. /\ SomeSeq(queue') /\ DOMAIN queue' = DOMAIN queue
        /\ \A k \in DOMAIN queue : /\ DOMAIN queue'[k] = DOMAIN queue[k]
                                   /\ queue'[k].user = queue[k].user
                                   /\ (queue'[k].state = "queued" => queue[k].state = "queued" /\ queue[k].user # u)
    <3>1. queue' = LeftBy(queue, u)
      BY <1>9 DEF GiveUpMerge, LeftBy
    <3>2. SomeSeq(queue) /\ \A k \in DOMAIN queue : {"user", "state"} \subseteq DOMAIN queue[k]
      BY DEF QueueInv
    <3> QED BY <3>1, <3>2, LeftSeq
  <2>2. /\ DOMAIN pc' = User /\ pc'[u] = "unlock" /\ pc[u] \in Processing
        /\ \A v \in User : v # u => pc'[v] = pc[v]
    BY <1>9 DEF GiveUpMerge, GoWith, QueueInv, Processing
  <2>3. \A v \in User : pc'[v] \notin Processing
    BY <2>2 DEF QueueInv, QueueMutex, Processing
  <2> QED BY <2>1, <2>2, <2>3 DEF QueueInv, QueueMutex, QueueLeft, Processing
<1>4. CASE DropSession(u) \/ BeginProcess(u) \/ Truncate(u) \/ EndProcess(u)
  <2>1. UNCHANGED queue
    BY <1>4 DEF DropSession, BeginProcess, Truncate, EndProcess
  <2>2. CASE DropSession(u)
    BY <2>1, <2>2, QueueFrame DEF DropSession, Goto, Serving, Processing
  <2>3. CASE BeginProcess(u)
    BY <2>1, <2>3, QueueFrame DEF BeginProcess, Goto, Serving, Processing
  <2>4. CASE Truncate(u)
    <3>1. queue # <<>> /\ queueOwner = u /\ UNCHANGED queueOwner
      BY <2>4 DEF Truncate, QueueInv, QueueMutex, QueueLeft, Processing
    <3>2. QED
      BY <2>1, <2>4, <3>1, QueueFrame DEF Truncate, Goto, Serving
  <2>5. CASE EndProcess(u)
    <3>1. queueOwner = u /\ queue = <<>> /\ GoWith(u, "unlock", local[u])
      BY <2>5 DEF EndProcess, QueueInv, QueueMutex, QueueLeft, Processing, Goto
    <3>2. QED
      BY <2>1, <3>1, QueueFrame DEF Processing
  <2>6. QED
    BY <1>4, <2>2, <2>3, <2>4, <2>5
<1>5. CASE MergeHead(u)
  <2>1. \E L : GoWith(u, "truncate", L)
    BY <1>5 DEF MergeHead
  <2>2. UNCHANGED <<queue, queueOwner>> /\ queueOwner = u /\ queue # <<>>
    BY <1>5 DEF MergeHead, QueueInv, QueueMutex, QueueLeft, Processing
  <2>3. QED
    BY <2>1, <2>2, QueueFrame DEF Serving
<1>6. CASE SkipHead(u) \/ Rewrite(u)
  <2>1. queue' = Tail(queue) /\ DOMAIN pc' = User /\ UNCHANGED queueOwner
        /\ pc[u] \in Processing /\ pc'[u] = "merge"
        /\ \A v \in User : v # u => pc'[v] = pc[v]
    BY <1>6 DEF SkipHead, Rewrite, GoWith, Processing, QueueInv
  <2>2. queueOwner = u /\ queue # <<>>
    BY <1>6, <2>1 DEF SkipHead, Rewrite, QueueInv, QueueMutex, QueueLeft
  <2>3. /\ SomeSeq(queue')
        /\ \A k \in DOMAIN queue' : k+1 \in DOMAIN queue /\ queue'[k] = queue[k+1]
    BY <2>1, <2>2, TailSeq DEF QueueInv
  <2>4. \A v \in User : v # u => pc[v] \notin Processing
    BY <2>2 DEF QueueInv, QueueMutex
  <2>5. \A k \in DOMAIN queue' : /\ {"user", "state"} \subseteq DOMAIN queue'[k]
                                 /\ queue'[k].user \in User
                                 /\ queue'[k].state = "queued" => pc'[queue'[k].user] \in Serving
    BY <2>1, <2>3 DEF QueueInv, Serving
  <2>6. QED
    BY <2>1, <2>2, <2>3, <2>4, <2>5 DEF QueueInv, QueueMutex, QueueLeft, Processing
<1>7. QED
  BY <1>0, <1>1, <1>2, <1>4, <1>5, <1>6, <1>8, <1>9 DEF Serve

LEMMA QueueInductive == Spec => []QueueInv
<1>1. Init => QueueInv
  <2>1. Init => SomeSeq(queue)
    <3>1. <<>> \in Seq({})
      OBVIOUS
    <3>2. QED
      BY <3>1 DEF Init, SomeSeq
  <2>2. QED
    BY <2>1 DEF Init, QueueInv, QueueMutex, QueueLeft, Processing
<1>2. QueueInv /\ [Next]_vars => QueueInv'
  <2>1. ASSUME QueueInv, Keep \/ UNCHANGED vars PROVE QueueInv'
    <3>1. UNCHANGED <<commits, thread>>
      BY <2>1, KeepFrame DEF vars
    <3>2. QED
      BY <2>1, <3>1 DEF QueueInv, QueueMutex, QueueLeft, commits, thread
  <2>2. QED
    BY <2>1, QueueStep DEF Next
<1>3. QED
  BY <1>1, <1>2, PTL DEF Spec

\* Nobody else's failure strands a queued commit (enqueue_commit, process_commit_queue):
\* unless the processing of the user who queued it has failed, he has not been answered
\* and comes to process the queue, for any number of users and of failures.
THEOREM CommitsServed == Spec => []CommitIsServed
<1>1. QueueInv => CommitIsServed
  BY DEF QueueInv, CommitIsServed, Serving
<1>2. QED
  BY <1>1, QueueInductive, PTL

-----------------------------------------------------------------------------
\* Implementing LockService.  A user counts on a sentence he owns, and only while he
\* has no request under way but a WRITE.
ToldInv == \A u \in User : editing[u] # None => /\ owner[editing[u]] = u
                                                /\ pc[u] \in {"idle", "parse", "store"}

\* A thread leaves the program counters and the clients of the others alone,
LEMMA OthersStay ==
    ASSUME Inv, NEW u \in User, Request(u) \/ Serve(u)
    PROVE  \A v \in User \ {u} : pc'[v] = pc[v] /\ editing'[v] = editing[v]
<1> USE DEF client, thread
<1>0. DOMAIN pc = User /\ DOMAIN editing = User
  BY DEF Inv, ThreadShape
<1>1. ASSUME NEW l, NEW L, GoWith(u, l, L) PROVE \A v \in User \ {u} : pc'[v] = pc[v]
  BY <1>0, <1>1 DEF GoWith
<1>2. (\E l, L : GoWith(u, l, L)) \/ UNCHANGED pc
  <2>1. CASE Request(u)
    BY <2>1 DEF Request, ReceiveLock, ReceiveWrite, ReceiveUnlock, ReceiveCancel, ReceiveUndo,
                HangUp, Goto, Reply
  <2>2. CASE \/ LockSentence(u) \/ CountSentences(u) \/ OpenSession(u) \/ StampSession(u)
             \/ CopyMain(u) \/ ParseTemp(u) \/ StoreTemp(u) \/ Enqueue(u) \/ DropSession(u)
    BY <2>2 DEF LockSentence, CountSentences, OpenSession, StampSession, CopyMain, ParseTemp,
                StoreTemp, Enqueue, DropSession, Goto, Reply
  <2>3. CASE \/ BeginProcess(u) \/ MergeHead(u) \/ SkipHead(u) \/ Truncate(u) \/ Rewrite(u)
             \/ GiveUpMerge(u) \/ EndProcess(u) \/ UnlockSentence(u) \/ DiscardSession(u)
             \/ GiveUpLock(u) \/ UndoTruncate(u) \/ Restore(u)
    BY <2>3 DEF BeginProcess, MergeHead, SkipHead, Truncate, Rewrite, GiveUpMerge, EndProcess,
                UnlockSentence, DiscardSession, GiveUpLock, UndoTruncate, Restore, Goto, Reply
  <2> QED BY <2>1, <2>2, <2>3 DEF Serve
<1>3. UNCHANGED editing \/ \E e : editing' = [editing EXCEPT ![u] = e]
  <2>1. CASE Request(u)
    BY <2>1 DEF Request, ReceiveLock, ReceiveWrite, ReceiveUnlock, ReceiveCancel, ReceiveUndo,
                HangUp
  <2>2. CASE Serve(u)
    BY <2>2 DEF Serve, LockSentence, CountSentences, OpenSession, StampSession, CopyMain,
                ParseTemp, StoreTemp, Enqueue, DropSession, BeginProcess, MergeHead, SkipHead,
                Truncate, Rewrite, GiveUpMerge, EndProcess, UnlockSentence, DiscardSession,
                GiveUpLock, UndoTruncate, Restore
  <2> QED BY <2>1, <2>2
<1> QED BY <1>0, <1>1, <1>2, <1>3

\* and it changes no lock that another user has.
LEMMA OthersKeepLocks ==
    ASSUME Inv, NEW u \in User, Request(u) \/ Serve(u)
    PROVE  \A i \in Sentence : owner[i] \notin {NoUser, u} => owner'[i] = owner[i]
<1>1. CASE LockSentence(u) \/ UnlockSentence(u) \/ GiveUpLock(u)
  <2>1. \/ UNCHANGED owner
        \/ /\ owner[local[u].at] \in {NoUser, u}
           /\ \E v : owner' = [owner EXCEPT ![local[u].at] = v]
    BY <1>1 DEF LockSentence, UnlockSentence, GiveUpLock
  <2> QED BY <2>1 DEF Inv, TableShape
<1>2. CASE Request(u)
  BY <1>2 DEF Request, ReceiveLock, ReceiveWrite, ReceiveUnlock, ReceiveCancel, ReceiveUndo, HangUp
<1>3. CASE Serve(u) /\ ~(LockSentence(u) \/ UnlockSentence(u) \/ GiveUpLock(u))
  BY <1>3 DEF Serve, CountSentences, OpenSession, StampSession, CopyMain, ParseTemp, StoreTemp,
              Enqueue, DropSession, BeginProcess, MergeHead, SkipHead, Truncate, Rewrite,
              GiveUpMerge, EndProcess, DiscardSession, UndoTruncate, Restore
<1> QED BY <1>1, <1>2, <1>3

LEMMA ToldStep ==
    ASSUME Inv, ToldInv, NEW u \in User, Request(u) \/ Serve(u)
    PROVE  ToldInv'
<1> SUFFICES ASSUME NEW v \in User, editing'[v] # None
             PROVE  owner'[editing'[v]] = v /\ pc'[v] \in {"idle", "parse", "store"}
  BY DEF ToldInv
<1>0. editing \in [User -> Sentence \cup {None}] /\ DOMAIN pc = User /\ local[u].at \in Sentence
  BY DEF Inv, ThreadShape
<1>1. CASE v # u
  <2>1. pc'[v] = pc[v] /\ editing'[v] = editing[v]
    BY <1>1, OthersStay
  <2>2. editing[v] \in Sentence /\ owner[editing[v]] = v
    BY <1>0, <2>1 DEF ToldInv
  <2> QED BY <1>1, <2>1, <2>2, OthersKeepLocks DEF ToldInv
<1>2. CASE v = u /\ CopyMain(u)
  <2>1. pc[u] = "copy" /\ UNCHANGED owner
    BY <1>2 DEF CopyMain
  <2>2. owner[local[u].at] = u /\ editing[u] = None
    BY <2>1 DEF Inv, ThreadInv, Opening, ToldInv
  <2>3. editing' = [editing EXCEPT ![u] = local[u].at] /\ Reply(u)
    BY <1>2, <2>2 DEF CopyMain
  <2> QED BY <1>0, <1>2, <2>1, <2>2, <2>3 DEF Reply, GoWith
<1>3. CASE v = u /\ Request(u)
  <2>1. CASE \E w, content : ReceiveWrite(u, w, content)
    <3>1. UNCHANGED <<owner, editing>>
      BY <2>1 DEF ReceiveWrite, client
    <3>2. \E l \in {"parse", "idle"} : \E L : GoWith(u, l, L)
      BY <2>1 DEF ReceiveWrite, Reply
    <3>3. pc'[u] \in {"parse", "idle"}
      BY <1>0, <3>2 DEF GoWith
    <3> QED BY <1>3, <3>1, <3>3 DEF ToldInv
  <2>2. CASE editing' = [editing EXCEPT ![u] = None] \/ (editing[u] = None /\ UNCHANGED editing)
    BY <1>0, <1>3, <2>2
  <2> QED BY <1>3, <2>1, <2>2
          DEF Request, ReceiveLock, ReceiveUnlock, ReceiveCancel, ReceiveUndo, HangUp, client
<1>4. CASE v = u /\ Serve(u) /\ ~CopyMain(u)
  <2>1. UNCHANGED editing
    BY <1>4 DEF Serve, LockSentence, CountSentences, OpenSession, StampSession,
                ParseTemp, StoreTemp, Enqueue, DropSession, BeginProcess, MergeHead, SkipHead,
                Truncate, Rewrite, GiveUpMerge, EndProcess, UnlockSentence, DiscardSession,
                GiveUpLock, UndoTruncate, Restore, client
  <2>2. owner[editing[u]] = u /\ pc[u] \in {"idle", "parse", "store"}
    BY <1>4, <2>1 DEF ToldInv
  <2>3. ParseTemp(u) \/ StoreTemp(u)
    BY <1>4, <2>2 DEF Serve, LockSentence, CountSentences, OpenSession, StampSession,
                Enqueue, DropSession, BeginProcess, MergeHead, SkipHead,
                Truncate, Rewrite, GiveUpMerge, EndProcess, UnlockSentence, DiscardSession,
                GiveUpLock, UndoTruncate, Restore
  <2>4. UNCHANGED owner /\ \E l \in {"store", "idle"} : \E L : GoWith(u, l, L)
    BY <2>3 DEF ParseTemp, StoreTemp, Reply
  <2>5. pc'[u] \in {"store", "idle"}
    BY <1>0, <2>4 DEF GoWith
  <2> QED BY <1>4, <2>1, <2>2, <2>4, <2>5
<1> QED BY <1>1, <1>2, <1>3, <1>4

\* What users are told changes only with editing.
LEMMA ToldSame ==
    ASSUME UNCHANGED editing
    PROVE  UNCHANGED Told
BY DEF Told

\* A step that leaves the locks alone, and by which u counts on no sentence any more.
LEMMA GivesUp ==
    ASSUME Inv, NEW u \in User, editing[u] # None, editing' = [editing EXCEPT ![u] = None],
           UNCHANGED owner
    PROVE  Promise!Next
<1>1. /\ editing[u] \in Sentence /\ None \notin Sentence
      /\ \A v \in User : editing'[v] = IF v = u THEN None ELSE editing[v]
  BY DEF Inv, ThreadShape, None, Sentence
<1>2. Told' = Told \ ({u} \X Sentence)
  BY <1>1 DEF Told
<1>3. Promise!GiveUp(u, Sentence)
  BY <1>2 DEF Promise!GiveUp
<1>4. Sentence \in SUBSET Sentence
  OBVIOUS
<1> QED BY <1>3, <1>4 DEF Promise!Next

\* A lock is freed only of a user who counts on no sentence.
LEMMA Frees ==
    ASSUME Inv, ToldInv, NEW u \in User, pc[u] \in {"unlock", "giveUp"}, UNCHANGED editing,
           \/ UNCHANGED owner
           \/ owner[local[u].at] = u /\ owner' = [owner EXCEPT ![local[u].at] = NoUser]
    PROVE  Promise!Next \/ UNCHANGED <<owner, Told>>
<1>1. UNCHANGED Told
  BY ToldSame
<1>2. local[u].at \in Sentence /\ editing[u] = None
  BY DEF Inv, ThreadShape, ToldInv
<1>3. <<u, local[u].at>> \notin Told
  BY <1>2 DEF Told, None, Sentence
<1>4. CASE owner[local[u].at] = u /\ owner' = [owner EXCEPT ![local[u].at] = NoUser]
  <2>1. Promise!Free(u, local[u].at)
    BY <1>1, <1>3, <1>4 DEF Promise!Free
  <2> QED BY <1>2, <2>1 DEF Promise!Next
<1> QED BY <1>1, <1>4

\* The write sessions of a storage server use the sentence locks as LockService allows:
\* whoever was told SUCCESS has the lock until he sends UNLOCK, CANCEL or LOCK again, or
\* gives up, although LOCK takes the lock long before it answers and may have to give it
\* back, and UNLOCK may fail (the cases MSG_LOCK_SENTENCE, MSG_UNLOCK_SENTENCE and
\* MSG_CANCEL_WRITE).
THEOREM SessionsKeepPromise == Spec => KeepsPromise
<1> USE DEF Promise!vars, client
<1>1. Init => Promise!Init /\ ToldInv
  <2> SUFFICES ASSUME Init PROVE Promise!Init /\ ToldInv
    OBVIOUS
  <2>1. Told = {}
    BY DEF Init, Told, None, Sentence
  <2>2. ToldInv
    BY DEF Init, ToldInv
  <2> QED BY <2>1, <2>2 DEF Init, Promise!Init
<1>2. Inv /\ ToldInv /\ [Next]_vars => ToldInv'
  <2>1. ASSUME Inv, ToldInv, Keep \/ UNCHANGED vars PROVE ToldInv'
    <3>1. UNCHANGED <<owner, thread, client>>
      BY <2>1, KeepFrame DEF vars
    <3> QED BY <2>1, <3>1 DEF ToldInv, thread
  <2> QED BY <2>1, ToldStep DEF Next
<1>3. ASSUME Inv, ToldInv, [Next]_vars
      PROVE  [Promise!Next]_Promise!vars
  <2>1. ASSUME NEW u \in User, LockSentence(u) PROVE [Promise!Next]_Promise!vars
    <3>1. UNCHANGED Told /\ local[u].at \in Sentence
      BY <1>3, <2>1, ToldSame DEF LockSentence, Inv, ThreadShape
    <3>2. CASE owner[local[u].at] \in {NoUser, u}
      <4>1. Promise!Acquire(u, local[u].at)
        BY <2>1, <3>1, <3>2 DEF LockSentence, Promise!Acquire
      <4> QED BY <3>1, <4>1 DEF Promise!Next
    <3> QED BY <2>1, <3>1, <3>2 DEF LockSentence
  <2>2. ASSUME NEW u \in User, CopyMain(u), editing' # editing PROVE Promise!Next
    <3>1. /\ editing' = [editing EXCEPT ![u] = local[u].at] /\ UNCHANGED owner
          /\ pc[u] = "copy" /\ local[u].at \in Sentence
      BY <1>3, <2>2 DEF CopyMain, Inv, ThreadShape
    <3>2. editing[u] = None /\ owner[local[u].at] = u
      BY <1>3, <3>1 DEF ToldInv, Inv, ThreadInv, Opening
    <3>3. \A v \in User : editing'[v] = IF v = u THEN local[u].at ELSE editing[v]
      BY <1>3, <3>1 DEF Inv, ThreadShape
    <3>4. Told' = Told \cup {<<u, local[u].at>>}
      BY <3>1, <3>2, <3>3 DEF Told, None, Sentence
    <3>5. Promise!Tell(u, local[u].at)
      BY <3>1, <3>2, <3>4 DEF Promise!Tell
    <3> QED BY <3>1, <3>5 DEF Promise!Next
  <2>3. ASSUME NEW u \in User, UnlockSentence(u) \/ GiveUpLock(u)
        PROVE  [Promise!Next]_Promise!vars
    <3>1. pc[u] \in {"unlock", "giveUp"} /\ UNCHANGED editing
      BY <2>3 DEF UnlockSentence, GiveUpLock
    <3>2. \/ UNCHANGED owner
          \/ owner[local[u].at] = u /\ owner' = [owner EXCEPT ![local[u].at] = NoUser]
      BY <2>3 DEF UnlockSentence, GiveUpLock
    <3> QED BY <1>3, <3>1, <3>2, Frees
  <2>4. ASSUME NEW u \in User,
               \/ ReceiveUnlock(u) \/ ReceiveCancel(u) \/ HangUp(u)
               \/ \E i \in Sentence : ReceiveLock(u, i)
        PROVE  [Promise!Next]_Promise!vars
    <3>1. editing' = [editing EXCEPT ![u] = None] /\ UNCHANGED owner
      BY <2>4 DEF ReceiveUnlock, ReceiveCancel, HangUp, ReceiveLock
    <3>2. CASE editing[u] = None
      <4>1. UNCHANGED editing
        BY <1>3, <3>1, <3>2 DEF Inv, ThreadShape
      <4> QED BY <3>1, <4>1, ToldSame
    <3> QED BY <1>3, <3>1, <3>2, GivesUp
  <2>5. ASSUME NEW u \in User,
               \/ CountSentences(u) \/ OpenSession(u) \/ StampSession(u) \/ ParseTemp(u)
               \/ StoreTemp(u) \/ Enqueue(u) \/ DropSession(u) \/ BeginProcess(u)
               \/ MergeHead(u) \/ SkipHead(u) \/ Truncate(u) \/ Rewrite(u) \/ GiveUpMerge(u)
               \/ EndProcess(u) \/ DiscardSession(u) \/ UndoTruncate(u) \/ Restore(u)
               \/ CopyMain(u) /\ UNCHANGED editing
        PROVE  UNCHANGED <<owner, editing>>
    BY <2>5 DEF CountSentences, OpenSession, StampSession, ParseTemp, StoreTemp, Enqueue,
                DropSession, BeginProcess, MergeHead, SkipHead, Truncate, Rewrite, GiveUpMerge,
                EndProcess, DiscardSession, UndoTruncate, Restore, CopyMain
  <2>6. ASSUME NEW u \in User,
               \/ \E e \in Edits : e[1] = u /\ ReceiveWrite(u, e[2], e[3])
               \/ ReceiveUndo(u)
        PROVE  UNCHANGED <<owner, editing>>
    BY <2>6 DEF ReceiveWrite, ReceiveUndo
  <2>7. CASE Keep \/ UNCHANGED vars
    BY <2>7, KeepFrame, ToldSame DEF vars
  <2> QED BY <1>3, <2>1, <2>2, <2>3, <2>4, <2>5, <2>6, <2>7, ToldSame
             DEF Next, Serve, Request
<1> QED BY <1>1, <1>2, <1>3, Inductive, PTL DEF Spec, KeepsPromise, Promise!Spec

-----------------------------------------------------------------------------
(***************************************************************************)
(* What the files, the array, the queue and the locals hold.  The type of  *)
(* the locals needs more than types: a pointer that a thread follows shows *)
(* a cell that some session once had, also after compaction moved the      *)
(* sessions under it; a backup that is being restored and a checkpoint that*)
(* is being copied are there.                                              *)
(***************************************************************************)
Pointing == {"stamp", "copy", "parse", "store", "enqueue"}
Undoing  == {"undo", "restore"}

FilesOK    == /\ main \in Text /\ {undo, checkpoint} \subseteq MaybeText
              /\ temp \in [User \X Sentence -> MaybeText]
              /\ keeping \in {"idle", "empty", "refill"}
CellsOK    == /\ count \in 0 .. MaxSess /\ sess \in [1 .. MaxSess -> Cell]
              /\ \A k \in 1 .. count : sess[k].user \in User
QueueOK    == queue \in Seq(Entry) /\ queueMade \in BOOLEAN /\ queueOwner \in User \cup {NoUser}
ThreadsOK  == pc \in [User -> Control] /\ local \in [User -> Locals]
ClientsOK  == /\ owner \in [Sentence -> User \cup {NoUser}]
              /\ editing \in [User -> Sentence \cup {None}] /\ wrote \in [User -> SUBSET Token]
HistoryOK  == /\ {acked, saved} \subseteq SUBSET Token
              /\ before \in [text : Text, acked : SUBSET Token, open : BOOLEAN, last : Text]
              /\ disturbed \in BOOLEAN
PointersOK == \A u \in User : pc[u] \in Pointing => sess[local[u].ptr].user \in User
BackupOK   == /\ keeping # "idle" => checkpoint # NoFile
              /\ \A u \in User : pc[u] \in Undoing =>
                    undo # NoFile /\ \A v \in User : pc[v] \in Undoing => v = u

Typed == /\ FilesOK /\ CellsOK /\ QueueOK /\ ThreadsOK /\ ClientsOK /\ HistoryOK
         /\ PointersOK /\ BackupOK

\* Locals that change one at a time.
LEMMA LocalsParts ==
    ASSUME NEW L \in Locals
    PROVE  /\ L.at \in Sentence /\ L.orig \in Nat /\ L.ptr \in 1 .. MaxSess
           /\ L.edit \in Nat \X Text /\ L.buf \in Text
BY DEF Locals

LEMMA LocalsWith ==
    ASSUME NEW L \in Locals
    PROVE  /\ \A i \in Sentence : [L EXCEPT !.at = i] \in Locals
           /\ \A n \in Nat : [L EXCEPT !.orig = n] \in Locals
           /\ \A k \in 1 .. MaxSess : [L EXCEPT !.ptr = k] \in Locals /\ [L EXCEPT !.ptr = k].ptr = k
           /\ \A e \in Nat \X Text : [L EXCEPT !.edit = e] \in Locals
           /\ \A t \in Text : [L EXCEPT !.buf = t] \in Locals /\ [L EXCEPT !.buf = t].ptr = L.ptr
BY DEF Locals

LEMMA NoLocalsTyped == NoLocals \in Locals
<1>1. <<>> \in Text
  BY DEF Text
<1>2. \A t \in Text : <<1, t>> \in Nat \X Text
  OBVIOUS
<1>3. <<1, <<>> >> \in Nat \X Text
  BY <1>1, <1>2, Zenon
<1>4. 0 \in Sentence /\ 1 \in 1 .. MaxSess
  BY SessionAssumption DEF Sentence
<1> QED BY <1>1, <1>3, <1>4 DEF NoLocals, Locals

LEMMA NewLocals ==
    ASSUME NEW i \in Sentence, NEW k \in 1 .. MaxSess
    PROVE  /\ [NoLocals EXCEPT !.at = i] \in Locals
           /\ [NoLocals EXCEPT !.at = i, !.ptr = k] \in Locals
           /\ [NoLocals EXCEPT !.at = i, !.ptr = k].ptr = k
BY NoLocalsTyped, Zenon DEF NoLocals, Locals

WriteLocals(i, k, e) == [NoLocals EXCEPT !.at = i, !.ptr = k, !.edit = e]

LEMMA NewWriteLocals ==
    ASSUME NEW i \in Sentence, NEW k \in 1 .. MaxSess, NEW e \in Nat \X Text
    PROVE  WriteLocals(i, k, e) \in Locals /\ WriteLocals(i, k, e).ptr = k
BY NoLocalsTyped, Zenon DEF WriteLocals, NoLocals, Locals

\* A thread comes to a label with locals, and with a pointer to a session if it is
\* going to follow one.
Lands(u) == \E l \in Control, L \in Locals :
                GoWith(u, l, L) /\ (l \in Pointing => sess'[L.ptr].user \in User)

\* A cell of some session stays one.
CellsKept == \A j \in 1 .. MaxSess : sess[j].user \in User => sess'[j].user \in User

LEMMA LandsTyped ==
    ASSUME ThreadsOK, PointersOK, NEW u \in User, Lands(u), CellsKept
    PROVE  ThreadsOK' /\ PointersOK'
<1>1. PICK l \in Control, L \in Locals :
        GoWith(u, l, L) /\ (l \in Pointing => sess'[L.ptr].user \in User)
  BY DEF Lands
<1>2. ThreadsOK'
  BY <1>1 DEF ThreadsOK, GoWith
<1>3. PointersOK'
  <2> SUFFICES ASSUME NEW v \in User, pc'[v] \in Pointing
               PROVE  sess'[local'[v].ptr].user \in User
    BY DEF PointersOK
  <2>1. CASE v = u
    BY <1>1, <2>1 DEF ThreadsOK, GoWith
  <2>2. CASE v # u
    <3>1. pc'[v] = pc[v] /\ local'[v] = local[v]
      BY <1>1, <2>2 DEF ThreadsOK, GoWith
    <3>2. local[v] \in Locals
      BY DEF ThreadsOK
    <3>3. local[v].ptr \in 1 .. MaxSess
      BY <3>2, LocalsParts
    <3> QED BY <3>1, <3>3 DEF PointersOK, CellsKept
  <2> QED BY <2>1, <2>2
<1> QED BY <1>2, <1>3

-----------------------------------------------------------------------------
\* The array.
LEMMA CompactedCells ==
    ASSUME CellsOK, NEW k \in 1 .. count, sess' = Compacted(k), count' = count - 1
    PROVE  CellsOK' /\ CellsKept
<1>1. count \in 0 .. MaxSess /\ count' \in 0 .. MaxSess
  BY DEF CellsOK
<1>2. ASSUME NEW j \in 1 .. MaxSess
      PROVE  \/ j \in k .. count - 1 /\ j + 1 \in 1 .. count /\ sess'[j] = sess[j+1]
             \/ j \notin k .. count - 1 /\ sess'[j] = sess[j]
  BY <1>1 DEF Compacted
<1>3. sess' \in [1 .. MaxSess -> Cell]
  <2>1. \A j \in 1 .. MaxSess :
          (IF j \in k .. count - 1 THEN sess[j+1] ELSE sess[j]) \in Cell
    <3> TAKE j \in 1 .. MaxSess
    <3>1. j \in k .. count - 1 => j + 1 \in 1 .. MaxSess
      BY <1>1
    <3> QED BY <3>1 DEF CellsOK
  <2> QED BY <2>1 DEF Compacted
<1>4. \A j \in 1 .. count' : sess'[j].user \in User
  <2> TAKE j \in 1 .. count'
  <2>1. j \in 1 .. MaxSess /\ j \in 1 .. count
    BY <1>1
  <2> QED BY <1>2, <2>1 DEF CellsOK
<1>5. CellsKept
  BY <1>2 DEF CellsOK, CellsKept
<1> QED BY <1>1, <1>3, <1>4, <1>5 DEF CellsOK

LEMMA OpenedCells ==
    ASSUME CellsOK, NEW u \in User, NEW i \in Sentence, count < MaxSess,
           sess' = [sess EXCEPT ![count+1].user = u, ![count+1].idx = i], count' = count + 1
    PROVE  CellsOK' /\ CellsKept /\ count + 1 \in 1 .. MaxSess /\ sess'[count+1].user = u
<1>1. count + 1 \in 1 .. MaxSess /\ count \in 0 .. MaxSess
  BY DEF CellsOK
<1>2. sess[count+1] \in Cell
  BY <1>1 DEF CellsOK
<1>3. /\ sess'[count+1] \in Cell /\ sess'[count+1].user = u
      /\ \A j \in 1 .. MaxSess : j # count + 1 => sess'[j] = sess[j]
      /\ DOMAIN sess' = 1 .. MaxSess
  <2>1. PICK n \in 1 .. MaxSess : n = count + 1
    BY <1>1
  <2>2. PICK S : S = [sess EXCEPT ![n].user = u]
    OBVIOUS
  <2>3. sess \in [1 .. MaxSess -> Cell]
    BY DEF CellsOK
  <2>4. S = [j \in 1 .. MaxSess |-> IF j = n THEN [sess[n] EXCEPT !.user = u] ELSE sess[j]]
    BY <2>2, <2>3
  <2>5. S[n] = [sess[n] EXCEPT !.user = u] /\ \A j \in 1 .. MaxSess : j # n => S[j] = sess[j]
    BY <2>4
  <2>6. S[n] \in Cell /\ S[n].user = u
    BY <2>3, <2>5 DEF Cell
  <2>7. sess' = [S EXCEPT ![n].idx = i]
    BY <2>1, <2>2
  <2>8. sess' = [j \in 1 .. MaxSess |-> IF j = n THEN [S[n] EXCEPT !.idx = i] ELSE S[j]]
    BY <2>4, <2>7
  <2>9. sess'[n] = [S[n] EXCEPT !.idx = i] /\ \A j \in 1 .. MaxSess : j # n => sess'[j] = S[j]
    BY <2>8
  <2>10. sess'[n] \in Cell /\ sess'[n].user = u
    BY <2>6, <2>9 DEF Cell
  <2> QED BY <2>1, <2>5, <2>8, <2>9, <2>10
<1>4. sess'[count+1] \in Cell /\ sess'[count+1].user = u
  BY <1>3
<1>5. sess' \in [1 .. MaxSess -> Cell]
  <2>1. \A j \in 1 .. MaxSess : sess'[j] \in Cell
    BY <1>3, <1>4 DEF CellsOK
  <2>2. sess' = [j \in 1 .. MaxSess |-> sess'[j]]
    BY <1>1 DEF CellsOK
  <2> QED BY <2>1, <2>2
<1>6. \A j \in 1 .. count' : sess'[j].user \in User
  <2> TAKE j \in 1 .. count'
  <2>1. j = count + 1 \/ j \in 1 .. count
    BY <1>1
  <2>2. j \in 1 .. count => j \in 1 .. MaxSess /\ j # count + 1
    BY <1>1
  <2> QED BY <1>3, <1>4, <2>1, <2>2 DEF CellsOK
<1>7. CellsKept
  BY <1>3, <1>4 DEF CellsKept
<1>8. count' \in 0 .. MaxSess
  BY <1>1
<1> QED BY <1>1, <1>4, <1>5, <1>6, <1>7, <1>8 DEF CellsOK

LEMMA StampedCells ==
    ASSUME CellsOK, NEW k \in 1 .. MaxSess, NEW n \in Nat,
           sess' = [sess EXCEPT ![k].orig = n], UNCHANGED count
    PROVE  CellsOK' /\ CellsKept /\ sess'[k].user = sess[k].user
<1>1. sess[k] \in Cell
  BY DEF CellsOK
<1>2. /\ sess'[k] = [sess[k] EXCEPT !.orig = n]
      /\ \A j \in 1 .. MaxSess : j # k => sess'[j] = sess[j]
      /\ sess' = [j \in 1 .. MaxSess |-> sess'[j]]
  BY DEF CellsOK
<1>3. sess'[k] \in Cell /\ sess'[k].user = sess[k].user
  BY <1>1, <1>2 DEF Cell
<1>4. \A j \in 1 .. MaxSess : sess'[j] \in Cell /\ sess'[j].user = sess[j].user
  BY <1>2, <1>3 DEF CellsOK
<1>5. sess' \in [1 .. MaxSess -> Cell]
  BY <1>2, <1>4
<1>6. \A j \in 1 .. count : j \in 1 .. MaxSess
  BY DEF CellsOK
<1> QED BY <1>3, <1>4, <1>5, <1>6 DEF CellsOK, CellsKept

\* A cell that was found is of a session.
LEMMA FoundCell ==
    ASSUME CellsOK, NEW u, NEW i, NEW k \in Find(u, i)
    PROVE  k \in 1 .. count /\ k \in 1 .. MaxSess /\ sess[k].user \in User
BY DEF CellsOK, Find

LEMMA SameCells ==
    ASSUME CellsOK, UNCHANGED table
    PROVE  CellsOK' /\ CellsKept /\ sess' = sess
BY DEF CellsOK, CellsKept, table

-----------------------------------------------------------------------------
\* Each step of a thread for a user leaves it with locals it may have.
LEMMA GotoLands ==
    ASSUME ThreadsOK, NEW u \in User, NEW l \in Control \ Pointing, Goto(u, l)
    PROVE  Lands(u)
BY DEF ThreadsOK, Goto, Lands

LEMMA WithLands ==
    ASSUME NEW u \in User, NEW l \in Control \ Pointing, NEW L \in Locals, GoWith(u, l, L)
    PROVE  Lands(u)
BY DEF Lands

LEMMA PointedLands ==
    ASSUME NEW u \in User, NEW l \in Control, NEW L \in Locals, GoWith(u, l, L),
           sess'[L.ptr].user \in User
    PROVE  Lands(u)
BY DEF Lands

LEMMA ReplyLands ==
    ASSUME NEW u \in User, Reply(u)
    PROVE  Lands(u)
<1>1. "idle" \in Control \ Pointing
  BY DEF Control, Pointing
<1> QED BY <1>1, NoLocalsTyped, WithLands DEF Reply

\* A pointer in use shows a cell with a user, and so names a temporary file.
LEMMA PointedCell ==
    ASSUME CellsOK, ThreadsOK, PointersOK, NEW u \in User, pc[u] \in Pointing
    PROVE  /\ local[u] \in Locals /\ local[u].ptr \in 1 .. MaxSess
           /\ sess[local[u].ptr] \in Cell /\ sess[local[u].ptr].user \in User
           /\ Key(sess[local[u].ptr]) \in User \X Sentence
<1>1. local[u] \in Locals /\ local[u].ptr \in 1 .. MaxSess
  BY LocalsParts DEF ThreadsOK
<1>2. sess[local[u].ptr] \in Cell /\ sess[local[u].ptr].user \in User
  BY <1>1 DEF CellsOK, PointersOK
<1> QED BY <1>1, <1>2 DEF Key, Cell

LEMMA BlankSentences == << <<>> >> \in Seq(Text)
<1>1. <<>> \in Text
  BY DEF Text
<1>2. \A t \in Text : <<t>> \in Seq(Text)
  OBVIOUS
<1> QED BY <1>1, <1>2, Zenon

LEMMA SessionsLand ==
    ASSUME FilesOK, CellsOK, ThreadsOK, NEW u \in User,
           \/ LockSentence(u) \/ CountSentences(u) \/ OpenSession(u) \/ DropSession(u)
           \/ DiscardSession(u)
    PROVE  Lands(u) /\ CellsOK' /\ CellsKept
<1>0. /\ {"count", "open", "giveUp", "begin"} \subseteq Control \ Pointing
      /\ "stamp" \in Control
  BY DEF Control, Pointing
<1>1. local[u] \in Locals /\ local[u].at \in Sentence
  BY LocalsParts DEF ThreadsOK
<1>2. CASE LockSentence(u)
  <2>1. UNCHANGED table /\ (Goto(u, "count") \/ Reply(u))
    BY <1>2 DEF LockSentence
  <2> QED BY <1>0, <2>1, SameCells, GotoLands, ReplyLands
<1>3. CASE CountSentences(u)
  <2>1. UNCHANGED table /\ GoWith(u, "open", [local[u] EXCEPT !.orig = Len(Parse(main))])
    BY <1>3 DEF CountSentences
  <2>2. Len(Parse(main)) \in Nat
    BY ParseTyped DEF FilesOK
  <2>3. [local[u] EXCEPT !.orig = Len(Parse(main))] \in Locals
    BY <1>1, <2>2, LocalsWith
  <2> QED BY <1>0, <2>1, <2>3, SameCells, WithLands
<1>4. CASE OpenSession(u)
  <2>1. CASE \E k \in Find(u, local[u].at) : /\ GoWith(u, "stamp", [local[u] EXCEPT !.ptr = k])
                                             /\ UNCHANGED table
    <3>1. PICK k \in Find(u, local[u].at) : /\ GoWith(u, "stamp", [local[u] EXCEPT !.ptr = k])
                                            /\ UNCHANGED table
      BY <2>1
    <3>2. k \in 1 .. MaxSess /\ sess[k].user \in User
      BY FoundCell
    <3>3. PICK L \in Locals : L = [local[u] EXCEPT !.ptr = k] /\ L.ptr = k
      BY <1>1, <3>2, LocalsWith
    <3> QED BY <1>0, <3>1, <3>2, <3>3, SameCells, PointedLands
  <2>2. CASE /\ count < MaxSess
             /\ sess' = [sess EXCEPT ![count+1].user = u, ![count+1].idx = local[u].at]
             /\ count' = count + 1
             /\ GoWith(u, "stamp", [local[u] EXCEPT !.ptr = count + 1])
    <3>1. /\ CellsOK' /\ CellsKept
          /\ count + 1 \in 1 .. MaxSess /\ sess'[count+1].user = u
      BY <1>1, <2>2, OpenedCells
    <3>2. PICK L \in Locals : L = [local[u] EXCEPT !.ptr = count + 1] /\ L.ptr = count + 1
      <4>1. PICK j \in 1 .. MaxSess : j = count + 1
        BY <3>1, Zenon
      <4>2. [local[u] EXCEPT !.ptr = j] \in Locals /\ [local[u] EXCEPT !.ptr = j].ptr = j
        BY <1>1, LocalsWith, Zenon
      <4> QED BY <4>1, <4>2, Zenon
    <3>3. sess'[L.ptr].user \in User
      BY <3>1, <3>2
    <3> QED BY <1>0, <2>2, <3>1, <3>2, <3>3, PointedLands
  <2>3. CASE Goto(u, "giveUp") /\ UNCHANGED table
    BY <1>0, <2>3, SameCells, GotoLands
  <2> QED BY <1>4, <2>1, <2>2, <2>3 DEF OpenSession
<1>5. CASE DropSession(u) \/ DiscardSession(u)
  <2>1. Lands(u)
    BY <1>0, <1>5, GotoLands DEF DropSession, DiscardSession
  <2>2. CASE \E k \in Find(u, local[u].at) : sess' = Compacted(k) /\ count' = count - 1
    <3>1. PICK k \in Find(u, local[u].at) : sess' = Compacted(k) /\ count' = count - 1
      BY <2>2
    <3>2. k \in 1 .. count
      BY FoundCell
    <3> QED BY <2>1, <3>1, <3>2, CompactedCells
  <2> QED BY <1>5, <2>1, <2>2, SameCells DEF DropSession, DiscardSession
<1> QED BY <1>2, <1>3, <1>4, <1>5

LEMMA CopiesLand ==
    ASSUME FilesOK, CellsOK, ThreadsOK, PointersOK, NEW u \in User,
           StampSession(u) \/ CopyMain(u) \/ ParseTemp(u) \/ StoreTemp(u) \/ Enqueue(u)
    PROVE  Lands(u) /\ CellsOK' /\ CellsKept
<1>0. {"drop", "discard"} \subseteq Control \ Pointing /\ {"copy", "store"} \subseteq Control
  BY DEF Control, Pointing
<1>1. /\ local[u] \in Locals /\ local[u].ptr \in 1 .. MaxSess
      /\ sess[local[u].ptr].user \in User /\ Key(sess[local[u].ptr]) \in User \X Sentence
      /\ local[u].at \in Sentence /\ local[u].orig \in Nat /\ local[u].edit \in Nat \X Text
  <2>1. pc[u] \in Pointing
    BY DEF StampSession, CopyMain, ParseTemp, StoreTemp, Enqueue, Pointing
  <2> QED BY <2>1, PointedCell, LocalsParts
<1>2. CASE StampSession(u)
  <2>1. CellsOK' /\ CellsKept
    BY <1>1, <1>2, StampedCells DEF StampSession
  <2>2. sess'[local[u].ptr].user \in User
    BY <1>1, <2>1 DEF CellsKept
  <2>3. GoWith(u, "copy", local[u])
    BY <1>2 DEF StampSession, Goto
  <2> QED BY <1>0, <1>1, <2>1, <2>2, <2>3, PointedLands
<1>3. CASE CopyMain(u) \/ StoreTemp(u) \/ Enqueue(u)
  <2>1. UNCHANGED table /\ (Reply(u) \/ Goto(u, "drop") \/ Goto(u, "discard"))
    BY <1>3 DEF CopyMain, StoreTemp, Enqueue
  <2> QED BY <1>0, <2>1, SameCells, GotoLands, ReplyLands
<1>4. CASE ParseTemp(u)
  <2>1. UNCHANGED table
    BY <1>4 DEF ParseTemp
  <2>2. PICK s : s = IF temp[Key(sess[local[u].ptr])] \in {NoFile, <<>>} THEN << <<>> >>
                     ELSE Parse(temp[Key(sess[local[u].ptr])])
    OBVIOUS
  <2>3. CASE Reply(u)
    BY <2>1, <2>3, SameCells, ReplyLands
  <2>4. CASE /\ ValidPlace(s, local[u].at, local[u].edit[1])
             /\ GoWith(u, "store", [local[u] EXCEPT !.buf =
                    WriteBack(InsertWords(s, local[u].at, local[u].edit[1], local[u].edit[2]))])
    <3>1. WriteBack(InsertWords(s, local[u].at, local[u].edit[1], local[u].edit[2])) \in Text
      <4>1. temp[Key(sess[local[u].ptr])] \in MaybeText
        BY <1>1 DEF FilesOK
      <4>2. << <<>> >> \in Seq(Text)
        BY BlankSentences
      <4>3. s \in Seq(Text)
        BY <2>2, <4>1, <4>2, ParseTyped DEF MaybeText
      <4>4. local[u].edit[2] \in Text
        BY <1>1
      <4> QED BY <2>4, <4>3, <4>4, InsertWordsTyped, WriteBackReal
    <3>2. PICK t \in Text :
            t = WriteBack(InsertWords(s, local[u].at, local[u].edit[1], local[u].edit[2]))
      BY <3>1
    <3>3. PICK L \in Locals : L = [local[u] EXCEPT !.buf = t] /\ L.ptr = local[u].ptr
      BY <1>1, <3>2, LocalsWith
    <3>4. sess'[L.ptr].user \in User
      BY <1>1, <2>1, <3>3, SameCells
    <3> QED BY <1>0, <2>1, <2>4, <3>2, <3>3, <3>4, SameCells, PointedLands
  <2> QED BY <1>4, <2>2, <2>3, <2>4 DEF ParseTemp
<1> QED BY <1>2, <1>3, <1>4

LEMMA HeadTyped ==
    ASSUME NEW S, NEW q \in Seq(S), q # <<>>
    PROVE  Head(q) \in S /\ Tail(q) \in Seq(S)
OBVIOUS

LEMMA CommitsLand ==
    ASSUME FilesOK, CellsOK, QueueOK, ThreadsOK, NEW u \in User,
           \/ BeginProcess(u) \/ MergeHead(u) \/ Truncate(u) \/ Rewrite(u) \/ GiveUpMerge(u)
           \/ EndProcess(u) \/ UnlockSentence(u) \/ GiveUpLock(u) \/ UndoTruncate(u) \/ Restore(u)
    PROVE  Lands(u) /\ CellsOK' /\ CellsKept
<1>0. {"merge", "truncate", "rewrite", "unlock", "restore"} \subseteq Control \ Pointing
  BY DEF Control, Pointing
<1>1. UNCHANGED table
  BY DEF BeginProcess, MergeHead, Truncate, Rewrite, GiveUpMerge, EndProcess, UnlockSentence,
         GiveUpLock, UndoTruncate, Restore, table
<1>2. local[u] \in Locals
  BY DEF ThreadsOK
<1>3. CASE \/ Goto(u, "merge") \/ Goto(u, "rewrite") \/ Goto(u, "unlock") \/ Goto(u, "restore")
           \/ Reply(u)
  BY <1>0, <1>1, <1>3, SameCells, GotoLands, ReplyLands
<1>4. CASE MergeHead(u)
  <2>1. PICK e \in Entry : e = Head(queue)
    BY <1>4, HeadTyped DEF MergeHead, QueueOK
  <2>2. /\ temp[e.path] \in Text /\ Mergeable(main, e.idx, e.orig) /\ main \in Text
        /\ e.idx \in Nat /\ e.orig \in Nat
        /\ GoWith(u, "truncate",
                  [local[u] EXCEPT !.buf = Merge(main, temp[e.path], e.idx, e.orig)])
    BY <1>4, <2>1 DEF MergeHead, FilesOK, MaybeText, Entry, Sentence
  <2>3. PICK t \in Text : t = Merge(main, temp[e.path], e.idx, e.orig)
    BY <2>2, MergeTyped
  <2>4. [local[u] EXCEPT !.buf = t] \in Locals
    BY <1>2, LocalsWith
  <2>5. GoWith(u, "truncate", [local[u] EXCEPT !.buf = t])
    BY <2>2, <2>3
  <2> QED BY <1>0, <1>1, <2>4, <2>5, SameCells, WithLands
<1>5. CASE Rewrite(u) \/ GiveUpMerge(u)
  <2>1. <<>> \in Text
    BY DEF Text
  <2>2. [local[u] EXCEPT !.buf = <<>>] \in Locals
    BY <1>2, <2>1, LocalsWith
  <2> QED BY <1>0, <1>1, <1>5, <2>2, SameCells, WithLands DEF Rewrite, GiveUpMerge
<1> QED BY <1>3, <1>4, <1>5 DEF BeginProcess, Truncate, EndProcess, UnlockSentence, GiveUpLock,
                                UndoTruncate, Restore

LEMMA RequestsLand ==
    ASSUME CellsOK, ThreadsOK, ClientsOK, NEW u \in User, Request(u), ~HangUp(u)
    PROVE  Lands(u) /\ CellsOK' /\ CellsKept
<1>0. {"lock", "undo", "unlock", "discard"} \subseteq Control \ Pointing
      /\ {"parse", "enqueue"} \subseteq Control
  BY DEF Control, Pointing
<1>1. \/ editing[u] = None
      \/ editing[u] \in Sentence /\ [NoLocals EXCEPT !.at = editing[u]] \in Locals
  <2>1. editing[u] \in Sentence \cup {None} /\ 1 \in 1 .. MaxSess
    BY SessionAssumption DEF ClientsOK
  <2> QED BY <2>1, NewLocals
<1>2. CASE \E i \in Sentence : ReceiveLock(u, i)
  <2>1. PICK i \in Sentence : ReceiveLock(u, i)
    BY <1>2
  <2>2. [NoLocals EXCEPT !.at = i] \in Locals
    <3>1. 1 \in 1 .. MaxSess
      BY SessionAssumption
    <3> QED BY <3>1, NewLocals
  <2>3. UNCHANGED table /\ (GoWith(u, "lock", [NoLocals EXCEPT !.at = i]) \/ Reply(u))
    BY <2>1 DEF ReceiveLock
  <2> QED BY <1>0, <2>2, <2>3, SameCells, WithLands, ReplyLands
<1>3. ASSUME NEW e \in Edits, ReceiveWrite(u, e[2], e[3]) PROVE Lands(u) /\ CellsOK' /\ CellsKept
  <2>1. editing[u] \in Sentence /\ UNCHANGED table
    BY <1>1, <1>3 DEF ReceiveWrite
  <2>2. e[2] \in Nat /\ e[3] \in Text
    BY TextAssumption
  <2>3. PICK w \in Nat, c \in Text : w = e[2] /\ c = e[3]
    BY <2>2
  <2>4. CASE Reply(u)
    BY <2>1, <2>4, SameCells, ReplyLands
  <2>5. CASE \E k \in Find(u, editing[u]) :
               GoWith(u, "parse",
                      [NoLocals EXCEPT !.at = editing[u], !.ptr = k, !.edit = <<w, c>>])
    <3>1. PICK k \in Find(u, editing[u]) :
               GoWith(u, "parse",
                      [NoLocals EXCEPT !.at = editing[u], !.ptr = k, !.edit = <<w, c>>])
      BY <2>5
    <3>2. k \in 1 .. MaxSess /\ sess[k].user \in User
      BY FoundCell
    <3>3. PICK L \in Locals :
            L = [NoLocals EXCEPT !.at = editing[u], !.ptr = k, !.edit = <<w, c>>] /\ L.ptr = k
      <4>1. PICK i \in Sentence : i = editing[u]
        BY <2>1
      <4>2. PICK edit \in Nat \X Text : edit = <<w, c>>
        OBVIOUS
      <4>3. WriteLocals(i, k, edit) \in Locals /\ WriteLocals(i, k, edit).ptr = k
        BY <3>2, NewWriteLocals, Zenon
      <4> QED BY <4>1, <4>2, <4>3, Zenon DEF WriteLocals
    <3>4. sess'[L.ptr].user \in User
      BY <2>1, <3>2, <3>3, SameCells
    <3> QED BY <1>0, <2>1, <3>1, <3>3, <3>4, SameCells, PointedLands
  <2> QED BY <1>3, <2>3, <2>4, <2>5 DEF ReceiveWrite
<1>4. CASE ReceiveUnlock(u)
  <2>1. editing[u] \in Sentence /\ UNCHANGED table
    BY <1>1, <1>4 DEF ReceiveUnlock
  <2>2. CASE GoWith(u, "unlock", [NoLocals EXCEPT !.at = editing[u]])
    BY <1>0, <1>1, <2>1, <2>2, SameCells, WithLands DEF None, Sentence
  <2>3. CASE \E k \in Find(u, editing[u]) :
               GoWith(u, "enqueue", [NoLocals EXCEPT !.at = editing[u], !.ptr = k])
    <3>1. PICK k \in Find(u, editing[u]) :
               GoWith(u, "enqueue", [NoLocals EXCEPT !.at = editing[u], !.ptr = k])
      BY <2>3
    <3>2. k \in 1 .. MaxSess /\ sess[k].user \in User
      BY FoundCell
    <3>3. PICK L \in Locals : L = [NoLocals EXCEPT !.at = editing[u], !.ptr = k] /\ L.ptr = k
      BY <2>1, <3>2, NewLocals
    <3>4. sess'[L.ptr].user \in User
      BY <2>1, <3>2, <3>3, SameCells
    <3> QED BY <1>0, <2>1, <3>1, <3>3, <3>4, SameCells, PointedLands
  <2> QED BY <1>4, <2>2, <2>3 DEF ReceiveUnlock
<1>5. CASE ReceiveCancel(u)
  BY <1>0, <1>1, <1>5, SameCells, WithLands DEF ReceiveCancel
<1>6. CASE ReceiveUndo(u)
  BY <1>0, <1>6, SameCells, GotoLands DEF ReceiveUndo
<1> QED BY <1>2, <1>3, <1>4, <1>5, <1>6 DEF Request

\* The locals and the array after any step.
LEMMA LandsStep ==
    ASSUME Typed, [Next]_vars
    PROVE  ThreadsOK' /\ PointersOK' /\ CellsOK'
<1> USE DEF Typed
<1>1. CASE Keep \/ UNCHANGED vars
  <2>1. UNCHANGED table /\ UNCHANGED thread
    BY <1>1, KeepFrame DEF vars
  <2>2. CellsOK' /\ sess' = sess
    BY <2>1, SameCells
  <2>3. ThreadsOK' /\ PointersOK'
    BY <2>1, <2>2 DEF ThreadsOK, PointersOK, thread
  <2> QED BY <2>2, <2>3
<1>2. ASSUME NEW u \in User, Request(u) \/ Serve(u)
      PROVE  ThreadsOK' /\ PointersOK' /\ CellsOK'
  <2>1. CASE SkipHead(u) \/ HangUp(u)
    <3>1. UNCHANGED table /\ UNCHANGED thread
      BY <2>1 DEF SkipHead, HangUp
    <3>2. CellsOK' /\ sess' = sess
      BY <3>1, SameCells
    <3>3. ThreadsOK' /\ PointersOK'
      BY <3>1, <3>2 DEF ThreadsOK, PointersOK, thread
    <3> QED BY <3>2, <3>3
  <2>2. CASE (Request(u) /\ ~HangUp(u)) \/ (Serve(u) /\ ~SkipHead(u))
    <3>1. Lands(u) /\ CellsOK' /\ CellsKept
      BY <2>2, SessionsLand, CopiesLand, CommitsLand, RequestsLand DEF Serve
    <3> QED BY <3>1, LandsTyped
  <2> QED BY <1>2, <2>1, <2>2
<1> QED BY <1>1, <1>2 DEF Next

-----------------------------------------------------------------------------
\* The files after any step.
LEMMA TempPut ==
    ASSUME FilesOK, NEW p, NEW t \in MaybeText, temp' = [temp EXCEPT ![p] = t]
    PROVE  temp' \in [User \X Sentence -> MaybeText]
BY DEF FilesOK

LEMMA FilesStep ==
    ASSUME Typed, [Next]_vars
    PROVE  FilesOK'
<1> USE DEF Typed, files, kept
<1>0. /\ main \in Text /\ {undo, checkpoint, NoFile, main, <<>>} \subseteq MaybeText
      /\ <<>> \in Text
      /\ keeping \in {"idle", "empty", "refill"}
      /\ temp \in [User \X Sentence -> MaybeText]
  BY DEF FilesOK, MaybeText, Text
<1>1. ASSUME NEW u \in User, Truncate(u) \/ UndoTruncate(u) PROVE FilesOK'
  <2>1. main' \in {main, <<>>} /\ UNCHANGED <<undo, temp, kept>>
    BY <1>1 DEF Truncate, UndoTruncate
  <2> QED BY <1>0, <2>1 DEF FilesOK
<1>2. ASSUME NEW u \in User, Rewrite(u) PROVE FilesOK'
  <2>1. /\ main' = local[u].buf /\ temp' = [temp EXCEPT ![Head(queue).path] = NoFile]
        /\ UNCHANGED <<undo, kept>>
    BY <1>2 DEF Rewrite
  <2>2. local[u].buf \in Text
    BY LocalsParts DEF ThreadsOK
  <2> QED BY <1>0, <2>1, <2>2, TempPut DEF FilesOK
<1>3. ASSUME NEW u \in User, Restore(u) PROVE FilesOK'
  <2>1. main' = undo /\ undo' = NoFile /\ undo # NoFile /\ UNCHANGED <<temp, kept>>
    BY <1>3 DEF Restore, BackupOK, Undoing
  <2> QED BY <1>0, <2>1 DEF FilesOK, MaybeText
<1>4. ASSUME NEW u \in User, BeginProcess(u) PROVE FilesOK'
  <2>1. undo' \in {undo, main} /\ UNCHANGED <<main, temp, kept>>
    BY <1>4 DEF BeginProcess
  <2> QED BY <1>0, <2>1 DEF FilesOK
<1>5. ASSUME NEW u \in User, CopyMain(u) \/ StoreTemp(u) \/ SkipHead(u) \/ DiscardSession(u)
      PROVE  FilesOK'
  <2>1. UNCHANGED <<main, undo, kept>>
    BY <1>5 DEF CopyMain, StoreTemp, SkipHead, DiscardSession
  <2>2. local[u].buf \in MaybeText
    BY LocalsParts DEF ThreadsOK, MaybeText
  <2>3. UNCHANGED temp \/ \E p, t : t \in MaybeText /\ temp' = [temp EXCEPT ![p] = t]
    BY <1>0, <1>5, <2>2 DEF CopyMain, StoreTemp, SkipHead, DiscardSession
  <2>4. temp' \in [User \X Sentence -> MaybeText]
    BY <1>0, <2>3, TempPut
  <2> QED BY <1>0, <2>1, <2>4 DEF FilesOK
<1>6. ASSUME NEW u \in User,
             \/ LockSentence(u) \/ CountSentences(u) \/ OpenSession(u) \/ StampSession(u)
             \/ ParseTemp(u) \/ Enqueue(u) \/ DropSession(u) \/ MergeHead(u) \/ GiveUpMerge(u)
             \/ EndProcess(u) \/ UnlockSentence(u) \/ GiveUpLock(u)
      PROVE  UNCHANGED files
  BY <1>6 DEF LockSentence, CountSentences, OpenSession, StampSession, ParseTemp, Enqueue,
              DropSession, MergeHead, GiveUpMerge, EndProcess, UnlockSentence, GiveUpLock
<1>7. ASSUME NEW u \in User,
             \/ \E i \in Sentence : ReceiveLock(u, i)
             \/ \E e \in Edits : e[1] = u /\ ReceiveWrite(u, e[2], e[3])
             \/ ReceiveUnlock(u) \/ ReceiveCancel(u) \/ ReceiveUndo(u) \/ HangUp(u)
      PROVE  UNCHANGED files
  BY <1>7 DEF ReceiveLock, ReceiveWrite, ReceiveUnlock, ReceiveCancel, ReceiveUndo, HangUp
<1>8. CASE UNCHANGED files
  BY <1>0, <1>8 DEF FilesOK
<1>9. CASE CreateCheckpoint \/ ReceiveRevert \/ RevertTruncate
  BY <1>0, <1>9 DEF CreateCheckpoint, ReceiveRevert, RevertTruncate, FilesOK
<1>10. CASE Revert
  <2>1. /\ main' = checkpoint /\ checkpoint # NoFile /\ keeping' = "idle"
        /\ UNCHANGED <<undo, temp, checkpoint>>
    BY <1>10 DEF Revert, BackupOK
  <2> QED BY <1>0, <2>1 DEF FilesOK, MaybeText
<1> QED BY <1>1, <1>2, <1>3, <1>4, <1>5, <1>6, <1>7, <1>8, <1>9, <1>10
        DEF Next, Serve, Request, Keep, vars

\* The queue after any step.
LEMMA QueueTypedStep ==
    ASSUME Typed, QueueInv, [Next]_vars
    PROVE  QueueOK'
<1> USE DEF Typed, commits
<1>1. ASSUME NEW u \in User, Enqueue(u) PROVE QueueOK'
  <2>1. pc[u] = "enqueue" /\ UNCHANGED queueOwner
    BY <1>1 DEF Enqueue
  <2>2. /\ local[u].at \in Sentence
        /\ sess[local[u].ptr] \in Cell /\ Key(sess[local[u].ptr]) \in User \X Sentence
    BY <2>1, PointedCell, LocalsParts DEF Pointing
  <2>3. PICK e \in Entry :
          e = [user |-> u, idx |-> local[u].at, orig |-> sess[local[u].ptr].orig,
               path |-> Key(sess[local[u].ptr]), state |-> "queued"]
    BY <2>2 DEF Entry, Cell
  <2>4. \/ queue' = Append(queue, e) /\ queueMade' = TRUE
        \/ UNCHANGED <<queue, queueMade>>
    BY <1>1, <2>3 DEF Enqueue
  <2>5. queue \in Seq(Entry) /\ queueMade \in BOOLEAN /\ queueOwner \in User \cup {NoUser}
    BY DEF QueueOK
  <2>6. queue' \in Seq(Entry)
    BY <2>4, <2>5
  <2>7. queueMade' \in BOOLEAN
    BY <2>4, <2>5, Zenon
  <2> QED BY <2>1, <2>5, <2>6, <2>7 DEF QueueOK
<1>7. ASSUME NEW u \in User, GiveUpMerge(u) PROVE QueueOK'
  <2>1. queueOwner' = NoUser /\ UNCHANGED queueMade
    BY <1>7 DEF GiveUpMerge
  <2>2. \A e \in Entry : [e EXCEPT !.state = IF e.user = u THEN "left" ELSE @] \in Entry
    BY DEF Entry
  <2>3. Len(queue) \in Nat /\ DOMAIN queue = 1 .. Len(queue) /\ \A k \in DOMAIN queue : queue[k] \in Entry
    BY DEF QueueOK
  <2>4. \A k \in DOMAIN queue : [queue[k] EXCEPT !.state = IF queue[k].user = u THEN "left" ELSE @] \in Entry
    BY <2>2, <2>3, Zenon
  <2>5. queue' = [k \in DOMAIN queue |->
                    [queue[k] EXCEPT !.state = IF queue[k].user = u THEN "left" ELSE @]]
    BY <1>7 DEF GiveUpMerge
  <2>6. queue' \in [1 .. Len(queue) -> Entry]
    BY <2>3, <2>4, <2>5, Zenon
  <2>7. queue' \in Seq(Entry)
    BY <2>3, <2>6
  <2> QED BY <2>1, <2>7 DEF QueueOK
<1>2. ASSUME NEW u \in User, SkipHead(u) \/ Rewrite(u) PROVE QueueOK'
  <2>1. queue # <<>> /\ queue' = Tail(queue) /\ UNCHANGED <<queueMade, queueOwner>>
    BY <1>2 DEF SkipHead, Rewrite, QueueInv, QueueLeft
  <2> QED BY <2>1, HeadTyped DEF QueueOK
<1>3. ASSUME NEW u \in User, BeginProcess(u) \/ EndProcess(u) PROVE QueueOK'
  BY <1>3 DEF BeginProcess, EndProcess, QueueOK
<1>4. ASSUME NEW u \in User,
             \/ LockSentence(u) \/ CountSentences(u) \/ OpenSession(u) \/ StampSession(u)
             \/ CopyMain(u) \/ ParseTemp(u) \/ StoreTemp(u) \/ DropSession(u) \/ MergeHead(u)
             \/ Truncate(u) \/ UnlockSentence(u) \/ DiscardSession(u) \/ GiveUpLock(u)
             \/ UndoTruncate(u) \/ Restore(u)
      PROVE  UNCHANGED commits
  BY <1>4 DEF LockSentence, CountSentences, OpenSession, StampSession, CopyMain, ParseTemp,
              StoreTemp, DropSession, MergeHead, Truncate, UnlockSentence, DiscardSession,
              GiveUpLock, UndoTruncate, Restore
<1>5. ASSUME NEW u \in User, Request(u) PROVE UNCHANGED commits
  BY <1>5 DEF Request, ReceiveLock, ReceiveWrite, ReceiveUnlock, ReceiveCancel, ReceiveUndo,
              HangUp
<1>6. CASE UNCHANGED commits
  BY <1>6 DEF QueueOK
<1> QED BY <1>1, <1>2, <1>3, <1>4, <1>5, <1>6, <1>7, KeepFrame DEF Next, Serve, vars

-----------------------------------------------------------------------------
\* The lock owners and the clients after any step.
LEMMA ClientsStep ==
    ASSUME Typed, [Next]_vars
    PROVE  ClientsOK'
<1> USE DEF Typed, client
<1>0. /\ owner \in [Sentence -> User \cup {NoUser}]
      /\ editing \in [User -> Sentence \cup {None}] /\ wrote \in [User -> SUBSET Token]
  BY DEF ClientsOK
<1>1. ASSUME NEW u \in User PROVE local[u].at \in Sentence /\ WordsIn(local[u].edit[2]) \subseteq Token
  <2>1. local[u].at \in Sentence /\ local[u].edit[2] \in Text
    BY LocalsParts DEF ThreadsOK
  <2> QED BY <2>1, WordsTyped
<1>2. ASSUME NEW u \in User, LockSentence(u) \/ GiveUpLock(u) PROVE ClientsOK'
  <2>1. UNCHANGED client
    BY <1>2 DEF LockSentence, GiveUpLock
  <2>2. owner' \in {owner, [owner EXCEPT ![local[u].at] = u], [owner EXCEPT ![local[u].at] = NoUser]}
    BY <1>2 DEF LockSentence, GiveUpLock
  <2> QED BY <1>0, <2>1, <2>2 DEF ClientsOK
<1>3. ASSUME NEW u \in User, UnlockSentence(u) PROVE ClientsOK'
  <2>1. UNCHANGED editing /\ wrote' = [wrote EXCEPT ![u] = {}]
    BY <1>3 DEF UnlockSentence
  <2>2. owner' \in {owner, [owner EXCEPT ![local[u].at] = NoUser]}
    BY <1>3 DEF UnlockSentence
  <2> QED BY <1>0, <2>1, <2>2 DEF ClientsOK
<1>4. ASSUME NEW u \in User, CopyMain(u) PROVE ClientsOK'
  <2>1. /\ UNCHANGED <<owner, wrote>>
        /\ editing' = editing \/ editing' = [editing EXCEPT ![u] = local[u].at]
    BY <1>4 DEF CopyMain
  <2> QED BY <1>0, <1>1, <2>1 DEF ClientsOK
<1>5. ASSUME NEW u \in User, StoreTemp(u) PROVE ClientsOK'
  <2>1. /\ UNCHANGED <<owner, editing>>
        /\ \/ wrote' = wrote
           \/ wrote' = [wrote EXCEPT ![u] = @ \cup WordsIn(local[u].edit[2])]
    BY <1>5 DEF StoreTemp
  <2> QED BY <1>0, <1>1, <2>1 DEF ClientsOK
<1>6. ASSUME NEW u \in User,
             \/ ReceiveUnlock(u) \/ ReceiveCancel(u) \/ HangUp(u)
             \/ \E i \in Sentence : ReceiveLock(u, i)
      PROVE  ClientsOK'
  <2>1. /\ UNCHANGED owner /\ editing' = [editing EXCEPT ![u] = None]
        /\ wrote' \in {wrote, [wrote EXCEPT ![u] = {}]}
    BY <1>6 DEF ReceiveUnlock, ReceiveCancel, HangUp, ReceiveLock
  <2> QED BY <1>0, <2>1 DEF ClientsOK
<1>7. ASSUME NEW u \in User,
             \/ CountSentences(u) \/ OpenSession(u) \/ StampSession(u) \/ ParseTemp(u)
             \/ Enqueue(u) \/ DropSession(u) \/ BeginProcess(u) \/ MergeHead(u) \/ SkipHead(u)
             \/ Truncate(u) \/ Rewrite(u) \/ GiveUpMerge(u) \/ EndProcess(u)
             \/ DiscardSession(u) \/ UndoTruncate(u) \/ Restore(u)
      PROVE  UNCHANGED <<owner, client>>
  BY <1>7 DEF CountSentences, OpenSession, StampSession, ParseTemp, Enqueue, DropSession,
              BeginProcess, MergeHead, SkipHead, Truncate, Rewrite, GiveUpMerge, EndProcess,
              DiscardSession, UndoTruncate, Restore
<1>8. ASSUME NEW u \in User,
             \/ \E e \in Edits : e[1] = u /\ ReceiveWrite(u, e[2], e[3])
             \/ ReceiveUndo(u)
      PROVE  UNCHANGED <<owner, client>>
  BY <1>8 DEF ReceiveWrite, ReceiveUndo
<1>9. CASE UNCHANGED <<owner, client>>
  BY <1>9 DEF ClientsOK
<1> QED BY <1>2, <1>3, <1>4, <1>5, <1>6, <1>7, <1>8, <1>9, KeepFrame
        DEF Next, Serve, Request, vars

\* What the histories hold after any step.
LastRun == [text : Text, acked : SUBSET Token, open : BOOLEAN, last : Text]

LEMMA BeforeTyped ==
    ASSUME NEW t \in Text, NEW a, a \subseteq Token, NEW o \in BOOLEAN, NEW m \in Text
    PROVE  [text |-> t, acked |-> a, open |-> o, last |-> m] \in LastRun
BY DEF LastRun

LEMMA BeforeWith ==
    ASSUME NEW b \in LastRun
    PROVE  /\ \A o \in BOOLEAN : [b EXCEPT !.open = o] \in LastRun
           /\ \A t \in Text : [b EXCEPT !.last = t] \in LastRun
BY DEF LastRun

LEMMA HistoryParts ==
    ASSUME acked' \subseteq Token, saved' \subseteq Token, before' \in LastRun,
           disturbed' \in BOOLEAN
    PROVE  HistoryOK'
<1>1. {acked', saved'} \subseteq SUBSET Token
  OBVIOUS
<1> QED BY <1>1, Zenon DEF HistoryOK, LastRun

LEMMA HistoryStep ==
    ASSUME Typed, [Next]_vars
    PROVE  HistoryOK'
<1> USE DEF Typed, history
<1>0. /\ main \in Text /\ acked \subseteq Token /\ saved \subseteq Token
      /\ before \in LastRun /\ before.acked \subseteq Token /\ before.open \in BOOLEAN
  BY DEF FilesOK, HistoryOK, LastRun
<1>d. disturbed \in BOOLEAN
  BY DEF HistoryOK
<1>w. \A v \in User : wrote[v] \subseteq Token
  BY DEF ClientsOK
<1>1. ASSUME NEW u \in User, UnlockSentence(u) PROVE HistoryOK'
  <2>1. acked' \in {acked, acked \cup wrote[u]} /\ UNCHANGED <<saved, before, disturbed>>
    BY <1>1 DEF UnlockSentence
  <2>2. acked' \subseteq Token
    BY <1>0, <1>w, <2>1
  <2> QED BY <1>0, <1>d, <2>1, <2>2, HistoryParts
<1>2. ASSUME NEW u \in User, Restore(u) PROVE HistoryOK'
  <2>1. acked' = before.acked /\ UNCHANGED <<saved, before, disturbed>>
    BY <1>2 DEF Restore
  <2> QED BY <1>0, <1>d, <2>1, HistoryParts
<1>3. CASE ReceiveRevert
  <2>1. /\ UNCHANGED <<acked, saved>>
        /\ before' \in {before, [text |-> main, acked |-> acked, open |-> before.open, last |-> main]}
    BY <1>3 DEF ReceiveRevert
  <2>2. before' \in LastRun
    <3>1. [text |-> main, acked |-> acked, open |-> before.open, last |-> main] \in LastRun
      BY <1>0, BeforeTyped
    <3> QED BY <1>0, <2>1, <3>1
  <2>3. disturbed' \in BOOLEAN
    BY <1>3, <1>d, Zenon DEF ReceiveRevert
  <2> QED BY <1>0, <2>1, <2>2, <2>3, HistoryParts
<1>4. CASE CreateCheckpoint
  <2>1. saved' = acked /\ UNCHANGED <<acked, before, disturbed>>
    BY <1>4 DEF CreateCheckpoint
  <2> QED BY <1>0, <1>d, <2>1, HistoryParts
<1>5. CASE Revert
  <2>1. acked' = saved /\ UNCHANGED <<saved, before, disturbed>>
    BY <1>5 DEF Revert
  <2> QED BY <1>0, <1>d, <2>1, HistoryParts
<1>6. CASE RevertTruncate \/ \E u \in User : BeginProcess(u) \/ UndoTruncate(u)
  <2>1. UNCHANGED <<acked, saved, before>>
    BY <1>6 DEF BeginProcess, UndoTruncate, RevertTruncate
  <2>2. disturbed' \in BOOLEAN
    BY <1>6, <1>d, Zenon DEF BeginProcess, UndoTruncate, RevertTruncate
  <2> QED BY <1>0, <2>1, <2>2, HistoryParts
<1>10. ASSUME NEW u \in User, Truncate(u) PROVE HistoryOK'
  <2>1. UNCHANGED <<acked, saved>>
    BY <1>10 DEF Truncate
  <2>2. disturbed' \in BOOLEAN
    BY <1>10, Zenon DEF Truncate
  <2>3. PICK A : A = acked \cup UNION {wrote[v] : v \in Answering}
    OBVIOUS
  <2>4. A \subseteq Token
    <3>1. Answering \subseteq User
      BY DEF Answering
    <3>2. \A v \in Answering : wrote[v] \subseteq Token
      BY <1>w, <3>1
    <3> QED BY <1>0, <2>3, <3>2
  <2>5. before' = IF before.open THEN [before EXCEPT !.last = main]
                  ELSE [text |-> main, open |-> TRUE, last |-> main, acked |-> A]
    BY <1>10, <2>3 DEF Truncate
  <2>6. [text |-> main, open |-> TRUE, last |-> main, acked |-> A] \in LastRun
    BY <1>0, <2>4 DEF LastRun
  <2>7. [before EXCEPT !.last = main] \in LastRun
    BY <1>0, BeforeWith
  <2>8. before' \in LastRun
    BY <2>5, <2>6, <2>7, Zenon
  <2> QED BY <1>0, <2>1, <2>2, <2>8, HistoryParts
<1>11. ASSUME NEW u \in User, EndProcess(u) \/ GiveUpMerge(u) PROVE HistoryOK'
  <2>1. UNCHANGED <<acked, saved>> /\ before' = [before EXCEPT !.open = FALSE]
    BY <1>11 DEF EndProcess, GiveUpMerge
  <2>2. before' \in LastRun
    BY <1>0, <2>1, BeforeWith
  <2>3. disturbed' \in BOOLEAN
    BY <1>11, <1>d, Zenon DEF EndProcess, GiveUpMerge
  <2> QED BY <1>0, <2>1, <2>2, <2>3, HistoryParts
<1>7. ASSUME NEW u \in User,
             \/ LockSentence(u) \/ CountSentences(u) \/ OpenSession(u) \/ StampSession(u)
             \/ CopyMain(u) \/ ParseTemp(u) \/ StoreTemp(u) \/ Enqueue(u) \/ DropSession(u)
             \/ MergeHead(u) \/ SkipHead(u) \/ Rewrite(u) \/ DiscardSession(u) \/ GiveUpLock(u)
      PROVE  UNCHANGED <<acked, saved, before, disturbed>>
  BY <1>7 DEF LockSentence, CountSentences, OpenSession, StampSession, CopyMain, ParseTemp,
              StoreTemp, Enqueue, DropSession, MergeHead, SkipHead, Rewrite, DiscardSession,
              GiveUpLock
<1>8. ASSUME NEW u \in User, Request(u) PROVE UNCHANGED <<acked, saved, before, disturbed>>
  BY <1>8 DEF Request, ReceiveLock, ReceiveWrite, ReceiveUnlock, ReceiveCancel, ReceiveUndo,
              HangUp
<1>9. CASE UNCHANGED <<acked, saved, before, disturbed>>
  BY <1>0, <1>d, <1>9, HistoryParts
<1> QED BY <1>1, <1>2, <1>3, <1>4, <1>5, <1>6, <1>7, <1>8, <1>9, <1>10, <1>11
        DEF Next, Serve, Keep, vars

\* The backup and the checkpoint after any step.
LEMMA BackupFrame ==
    ASSUME BackupOK, ThreadsOK, NEW u \in User, NEW l, l \notin Undoing, pc' = [pc EXCEPT ![u] = l],
           UNCHANGED kept, undo' = undo \/ undo' # NoFile
    PROVE  BackupOK'
<1>1. \A v \in User : pc'[v] = IF v = u THEN l ELSE pc[v]
  BY DEF ThreadsOK
<1>2. \A v \in User : pc'[v] \in Undoing => pc[v] \in Undoing
  BY <1>1
<1> QED BY <1>2 DEF BackupOK, kept

LEMMA BackupStep ==
    ASSUME Typed, [Next]_vars
    PROVE  BackupOK'
<1> USE DEF Typed, files, kept
<1>0. main # NoFile
  BY TextAssumption DEF FilesOK
<1>1. ASSUME NEW u \in User,
             \/ LockSentence(u) \/ CountSentences(u) \/ OpenSession(u) \/ StampSession(u)
             \/ CopyMain(u) \/ ParseTemp(u) \/ StoreTemp(u) \/ Enqueue(u) \/ DropSession(u)
             \/ BeginProcess(u) \/ MergeHead(u) \/ Truncate(u) \/ Rewrite(u) \/ GiveUpMerge(u)
             \/ EndProcess(u) \/ UnlockSentence(u) \/ DiscardSession(u) \/ GiveUpLock(u)
      PROVE  BackupOK'
  <2>1. \E l : l \notin Undoing /\ pc' = [pc EXCEPT ![u] = l]
    <3>1. CASE \/ LockSentence(u) \/ CountSentences(u) \/ OpenSession(u) \/ StampSession(u)
               \/ CopyMain(u) \/ ParseTemp(u) \/ StoreTemp(u)
      BY <3>1 DEF LockSentence, CountSentences, OpenSession, StampSession, CopyMain, ParseTemp,
                  StoreTemp, Goto, Reply, GoWith, Undoing
    <3>2. CASE \/ Enqueue(u) \/ DropSession(u) \/ BeginProcess(u) \/ MergeHead(u) \/ Truncate(u)
               \/ Rewrite(u) \/ GiveUpMerge(u) \/ EndProcess(u) \/ UnlockSentence(u)
               \/ DiscardSession(u) \/ GiveUpLock(u)
      BY <3>2 DEF Enqueue, DropSession, BeginProcess, MergeHead, Truncate, Rewrite, GiveUpMerge,
                  EndProcess, UnlockSentence, DiscardSession, GiveUpLock, Goto, Reply, GoWith,
                  Undoing
    <3> QED BY <1>1, <3>1, <3>2
  <2>2. UNCHANGED kept /\ (undo' = undo \/ undo' = main)
    BY <1>1 DEF LockSentence, CountSentences, OpenSession, StampSession, CopyMain, ParseTemp,
                StoreTemp, Enqueue, DropSession, BeginProcess, MergeHead, Truncate, Rewrite,
                GiveUpMerge, EndProcess, UnlockSentence, DiscardSession, GiveUpLock
  <2> QED BY <1>0, <2>1, <2>2, BackupFrame
<1>2. ASSUME NEW u \in User,
             \/ \E i \in Sentence : ReceiveLock(u, i)
             \/ \E e \in Edits : e[1] = u /\ ReceiveWrite(u, e[2], e[3])
             \/ ReceiveUnlock(u) \/ ReceiveCancel(u)
      PROVE  BackupOK'
  <2>1. \E l : l \notin Undoing /\ pc' = [pc EXCEPT ![u] = l]
    BY <1>2 DEF ReceiveLock, ReceiveWrite, ReceiveUnlock, ReceiveCancel, Reply, GoWith, Undoing
  <2>2. UNCHANGED kept /\ undo' = undo
    BY <1>2 DEF ReceiveLock, ReceiveWrite, ReceiveUnlock, ReceiveCancel
  <2> QED BY <2>1, <2>2, BackupFrame
<1>3. ASSUME NEW u \in User, ReceiveUndo(u) PROVE BackupOK'
  <2>1. /\ pc' = [pc EXCEPT ![u] = "undo"] /\ undo # NoFile /\ UNCHANGED files
        /\ \A v \in User : pc[v] \notin Undoing
    BY <1>3 DEF ReceiveUndo, Goto, GoWith, Undoing
  <2>2. \A v \in User : v # u => pc'[v] \notin Undoing
    BY <2>1 DEF ThreadsOK
  <2> QED BY <2>1, <2>2 DEF BackupOK
<1>4. ASSUME NEW u \in User, UndoTruncate(u) PROVE BackupOK'
  <2>1. /\ pc[u] = "undo" /\ UNCHANGED <<undo, kept>>
        /\ pc' = [pc EXCEPT ![u] = "restore"] \/ pc' = [pc EXCEPT ![u] = "idle"]
    BY <1>4 DEF UndoTruncate, Goto, Reply, GoWith
  <2>2. \A v \in User : pc'[v] \in Undoing => pc[v] \in Undoing
    BY <2>1 DEF ThreadsOK, Undoing
  <2> QED BY <2>1, <2>2 DEF BackupOK
<1>5. ASSUME NEW u \in User, Restore(u) PROVE BackupOK'
  <2>1. pc[u] = "restore" /\ pc' = [pc EXCEPT ![u] = "idle"] /\ UNCHANGED kept
    BY <1>5 DEF Restore, Reply, GoWith
  <2>2. \A v \in User : pc'[v] \notin Undoing
    BY <2>1 DEF ThreadsOK, BackupOK, Undoing
  <2> QED BY <2>1, <2>2 DEF BackupOK
<1>6. CASE Keep
  <2>1. UNCHANGED pc
    BY <1>6, KeepFrame DEF thread
  <2>2. undo' = undo \/ undo' = main
    BY <1>6 DEF Keep, CreateCheckpoint, ReceiveRevert, RevertTruncate, Revert
  <2>3. keeping' # "idle" => checkpoint' # NoFile
    BY <1>0, <1>6 DEF Keep, CreateCheckpoint, ReceiveRevert, RevertTruncate, Revert, BackupOK
  <2> QED BY <1>0, <2>1, <2>2, <2>3 DEF BackupOK
<1>7. CASE (\E u \in User : SkipHead(u) \/ HangUp(u)) \/ UNCHANGED vars
  <2>1. UNCHANGED <<pc, undo, kept>>
    BY <1>7 DEF SkipHead, HangUp, vars, thread
  <2> QED BY <2>1 DEF BackupOK
<1> QED BY <1>1, <1>2, <1>3, <1>4, <1>5, <1>6, <1>7 DEF Next, Serve, Request

LEMMA TypedInit == Init => Typed
<1> SUFFICES ASSUME Init PROVE Typed
  OBVIOUS
<1>1. main \in Text /\ <<>> \in Text /\ main \in MaybeText /\ NoFile \in MaybeText
  BY TextAssumption DEF Init, MaybeText, Text
<1>2. FilesOK
  BY <1>1 DEF Init, FilesOK
<1>3. CellsOK
  <2>1. count = 0 /\ 0 \in Sentence /\ count \in 0 .. MaxSess
    BY SessionAssumption DEF Init, Sentence
  <2>2. [user |-> NoUser, idx |-> 0, orig |-> 0] \in Cell
    BY <2>1 DEF Cell
  <2>3. sess \in [1 .. MaxSess -> Cell]
    BY <2>2 DEF Init
  <2> QED BY <2>1, <2>3 DEF CellsOK
<1>4. QueueOK
  <2>1. <<>> \in Seq(Entry)
    OBVIOUS
  <2> QED BY <2>1 DEF Init, QueueOK
<1>5. ThreadsOK
  BY NoLocalsTyped DEF Init, ThreadsOK, Control
<1>6. ClientsOK
  BY DEF Init, ClientsOK
<1>7. HistoryOK
  <2>1. WordsIn(main) \subseteq Token
    BY <1>1, WordsTyped
  <2>2. /\ acked \subseteq Token /\ saved \subseteq Token
        /\ before \in [text : Text, acked : SUBSET Token, open : BOOLEAN, last : Text]
    BY <1>1, <2>1 DEF Init
  <2>3. disturbed \in BOOLEAN
    BY DEF Init
  <2> QED BY <2>2, <2>3 DEF HistoryOK
<1>8. PointersOK /\ BackupOK
  BY DEF Init, PointersOK, BackupOK, Pointing, Undoing
<1> QED BY <1>2, <1>3, <1>4, <1>5, <1>6, <1>7, <1>8 DEF Typed

LEMMA TypedInductive == Spec => []Typed
<1>1. Typed /\ QueueInv /\ [Next]_vars => Typed'
  BY LandsStep, FilesStep, QueueTypedStep, ClientsStep, HistoryStep, BackupStep DEF Typed
<1> QED BY <1>1, TypedInit, QueueInductive, PTL DEF Spec

\* What the files, the array of sessions, the queue and the locals of the threads hold:
\* no step reads a file that is not there, writes through a pointer to a cell no
\* session ever had, or queues a commit of nobody (start_write_session_ss,
\* write_file_ss, commit_write_session_ss, restore_from_undo, revert_to_checkpoint).
THEOREM SessionsTyped == Spec => []TypeOK
<1>1. Typed => TypeOK
  BY Zenon DEF Typed, FilesOK, CellsOK, QueueOK, ThreadsOK, ClientsOK, HistoryOK, TypeOK
<1> QED BY <1>1, TypedInductive, PTL

\* Every file of the server, the copies and backups included, is stable once its
\* sentences were reparsed (parse_file, write_file_content).
THEOREM FilesStable == Spec => []StableOnDisk
<1>1. Typed => StableOnDisk
  <2> SUFFICES ASSUME Typed,
                      NEW f \in ({main, undo, checkpoint} \cup {temp[p] : p \in User \X Sentence})
                                  \ {NoFile}
               PROVE  WriteBack(Parse(WriteBack(Parse(f)))) = WriteBack(Parse(f))
    BY DEF StableOnDisk
  <2>1. f \in Text
    BY DEF Typed, FilesOK, MaybeText
  <2> QED BY <2>1, RewrittenOnce, Zenon DEF Rewritten
<1> QED BY <1>1, TypedInductive, PTL

\* Only the thread that parses a copy goes on to store it.
LEMMA OnlyParseStores ==
    ASSUME Typed, [Next]_vars, NEW u \in User, pc[u] = "parse", pc'[u] = "store"
    PROVE  ParseTemp(u)
<1>0. pc \in [User -> Control]
  BY DEF Typed, ThreadsOK
<1>1. ~(Keep \/ UNCHANGED vars)
  <2> SUFFICES ASSUME Keep \/ UNCHANGED vars PROVE FALSE
    OBVIOUS
  <2>1. UNCHANGED pc
    BY KeepFrame DEF vars, thread
  <2> QED BY <2>1
<1>2. PICK v \in User : Request(v) \/ Serve(v)
  BY <1>1 DEF Next
<1>3. \E l : pc' = [pc EXCEPT ![v] = l]
  <2>1. CASE SkipHead(v) \/ HangUp(v)
    BY <1>0, <2>1 DEF SkipHead, HangUp, thread
  <2>2. CASE (Request(v) /\ ~HangUp(v)) \/ (Serve(v) /\ ~SkipHead(v))
    <3>1. Lands(v)
      BY <2>2, SessionsLand, CopiesLand, CommitsLand, RequestsLand DEF Serve, Typed
    <3> QED BY <3>1 DEF Lands, GoWith
  <2> QED BY <1>2, <2>1, <2>2
<1>4. v = u
  BY <1>0, <1>3
<1>5. ~Request(u)
  BY DEF Request, ReceiveLock, ReceiveWrite, ReceiveUnlock, ReceiveCancel, ReceiveUndo, HangUp,
         Ready, ReadyBeside
<1> QED BY <1>2, <1>4, <1>5
        DEF Serve, LockSentence, CountSentences, OpenSession, StampSession, CopyMain, StoreTemp,
            Enqueue, DropSession, BeginProcess, MergeHead, SkipHead, Truncate, Rewrite,
            GiveUpMerge, EndProcess, UnlockSentence, DiscardSession, GiveUpLock, UndoTruncate,
            Restore, Goto, GoWith

\* What a WRITE makes of a copy that is missing or empty, and of any other.
WriteInserts(ss, f, i, w, content) ==
    \A old, at :
        old = Real(f) /\ at = Len(Real(FlattenSeq(SubSeq(Parse(f), 1, i)))) + (w - 1) =>
            Real(WriteBack(InsertWords(ss, i, w, content))) = InsertedAt(old, at, content)

LEMMA EmptyWriteInserts ==
    ASSUME NEW ss, ss = << <<>> >>, NEW i, NEW w, NEW content \in Text, ValidPlace(ss, i, w), i # 1
    PROVE  WriteInserts(ss, <<>>, i, w, content)
<1>1. ss \in Seq(Text)
  BY BlankSentences, Zenon
<1>2. i = 0
  BY DEF ValidPlace
<1>3. SubSeq(Parse(<<>>), 1, i) = SubSeq(ss, 1, i)
  <2>1. SubSeq(Parse(<<>>), 1, 0) = <<>> /\ SubSeq(ss, 1, 0) = <<>>
    BY ParseEmpty
  <2> QED BY <1>2, <2>1
<1>4. Real(<<>>) = Real(FlattenSeq(ss))
  <2>1. <<>> \in Seq(Text) /\ <<>> \in Text /\ Append(<<>>, <<>>) = << <<>> >>
    BY DEF Text
  <2>2. FlattenSeq(<< <<>> >>) = FlattenSeq(<<>>) \o <<>>
    BY <2>1, FlattenAppend DEF Text
  <2>3. FlattenSeq(<< <<>> >>) = <<>>
    BY <2>2, FlattenEmpty
  <2> QED BY <2>3, Zenon
<1>5. InsertsWords(ss, i, w, content)
  BY <1>1, InsertedWritten, Zenon
<1> QED BY <1>3, <1>4, <1>5, Zenon DEF InsertsWords, WriteInserts

LEMMA ParsedWriteInserts ==
    ASSUME NEW f \in Text, NEW ss, ss = Parse(f), NEW i, NEW w, NEW content \in Text,
           ValidPlace(ss, i, w)
    PROVE  WriteInserts(ss, f, i, w, content)
<1>1. ss \in Sentences /\ Real(FlattenSeq(ss)) = Real(f)
  BY ParseReal
<1>2. ss \in Seq(Text) /\ \A k \in 1 .. Len(ss) : ss[k] # <<>>
  BY <1>1 DEF Sentences
<1>3. ss # << <<>> >>
  <2>1. Len(<< <<>> >>) = 1 /\ << <<>> >>[1] = <<>>
    OBVIOUS
  <2> QED BY <1>2, <2>1
<1>4. InsertsWords(ss, i, w, content)
  BY <1>2, <1>3, InsertedWritten, Zenon
<1> QED BY <1>1, <1>4, Zenon DEF InsertsWords, WriteInserts

\* A WRITE puts its words where it says and touches no other, for every text, place and
\* content, and whatever happened to the array of sessions under its pointer
\* (write_file_ss, insert_word_in_sentence, write_file_content).
THEOREM WritesInsert == Spec => InsertsExactly
<1>1. ASSUME Typed, [Next]_vars, NEW u \in User, pc[u] = "parse", pc'[u] = "store",
             NEW text, text = (IF temp[Key(sess[local[u].ptr])] = NoFile THEN <<>>
                               ELSE temp[Key(sess[local[u].ptr])]),
             NEW at, at = Len(Real(FlattenSeq(SubSeq(Parse(text), 1, local[u].at))))
                            + (local[u].edit[1] - 1)
      PROVE  \/ text = <<>> /\ local[u].at = 1
             \/ Real(local'[u].buf)
                  = (SubSeq(Real(text), 1, at) \o Real(local[u].edit[2]))
                       \o SubSeq(Real(text), at + 1, Len(Real(text)))
  <2>1. ParseTemp(u)
    BY <1>1, OnlyParseStores
  <2>2. pc[u] \in Pointing
    BY <1>1 DEF Pointing
  <2>3. /\ local \in [User -> Locals] /\ pc \in [User -> Control]
        /\ Key(sess[local[u].ptr]) \in User \X Sentence
        /\ temp[Key(sess[local[u].ptr])] \in MaybeText
    BY <1>1, <2>2, PointedCell DEF Typed, FilesOK, ThreadsOK
  <2>4. text \in Text
    BY <1>1, <2>3 DEF MaybeText, Text
  <2>5. PICK i \in Sentence, w \in Nat, content \in Text :
           i = local[u].at /\ w = local[u].edit[1] /\ content = local[u].edit[2]
    <3>1. local[u].at \in Sentence /\ local[u].edit \in Nat \X Text
      BY <2>3, LocalsParts
    <3> QED BY <3>1
  <2>6. PICK s : s = IF text = <<>> THEN << <<>> >> ELSE Parse(text)
    OBVIOUS
  <2>7. s = IF temp[Key(sess[local[u].ptr])] \in {NoFile, <<>>} THEN << <<>> >>
            ELSE Parse(temp[Key(sess[local[u].ptr])])
    BY <1>1, <2>6
  <2>8. /\ ValidPlace(s, i, w)
        /\ local' = [local EXCEPT ![u] = [local[u] EXCEPT !.buf =
                                             WriteBack(InsertWords(s, i, w, content))]]
    <3>1. \/ /\ ValidPlace(s, i, w)
             /\ GoWith(u, "store", [local[u] EXCEPT !.buf = WriteBack(InsertWords(s, i, w, content))])
          \/ Reply(u)
      BY <2>1, <2>5, <2>7 DEF ParseTemp
    <3>2. ~Reply(u)
      BY <1>1, <2>3 DEF Reply, GoWith
    <3> QED BY <3>1, <3>2 DEF GoWith
  <2>9. local'[u].buf = WriteBack(InsertWords(s, i, w, content))
    BY <2>3, <2>8 DEF Locals
  <2>10. ASSUME text = <<>>, i # 1 PROVE WriteInserts(s, text, i, w, content)
    BY <2>6, <2>8, <2>10, EmptyWriteInserts, Zenon
  <2>11. ASSUME text # <<>> PROVE WriteInserts(s, text, i, w, content)
    BY <2>4, <2>6, <2>8, <2>11, ParsedWriteInserts, Zenon
  <2>12. ASSUME WriteInserts(s, text, i, w, content)
         PROVE  Real(local'[u].buf) = InsertedAt(Real(text), at, local[u].edit[2])
    <3>1. at = Len(Real(FlattenSeq(SubSeq(Parse(text), 1, i)))) + (w - 1)
      BY <1>1, <2>5
    <3>2. Real(WriteBack(InsertWords(s, i, w, content))) = InsertedAt(Real(text), at, content)
      BY <2>12, <3>1, Zenon DEF WriteInserts
    <3> QED BY <2>5, <2>9, <3>2, Zenon
  <2>13. WriteInserts(s, text, i, w, content) \/ (text = <<>> /\ i = 1)
    BY <2>10, <2>11
  <2> QED BY <2>5, <2>12, <2>13, Zenon DEF InsertedAt
<1>2. Typed /\ [Next]_vars =>
        [\A u \in User : pc[u] = "parse" /\ pc'[u] = "store" =>
             LET L    == local[u]
                 copy == temp[Key(sess[L.ptr])]
                 text == IF copy = NoFile THEN <<>> ELSE copy
                 at   == Len(Real(FlattenSeq(SubSeq(Parse(text), 1, L.at)))) + (L.edit[1] - 1)
                 old  == Real(text)
             IN  \/ text = <<>> /\ L.at = 1
                 \/ Real(local'[u].buf)
                      = (SubSeq(old, 1, at) \o Real(L.edit[2])) \o SubSeq(old, at + 1, Len(old))]_vars
  BY <1>1, Zenon
<1> QED BY <1>2, TypedInductive, PTL DEF Spec, InsertsExactly
=============================================================================
