--------------------------- MODULE SentenceLocks ---------------------------
(***************************************************************************)
(* The sentence locks of one file of a storage server (src/ss.c): the      *)
(* growable array of SentenceLock slots, locks_mutex that guards the table,*)
(* the mutex inside each slot, the threads that serve LOCK and UNLOCK on   *)
(* behalf of clients, and the thread that serves the name server's         *)
(* CHECK_LOCKS, DELETE and CREATE.                                         *)
(*                                                                         *)
(* A pointer to a slot is taken under locks_mutex and used after it is     *)
(* released, so the array may be reallocated in between.  The array that   *)
(* is in use is numbered by "generation"; a thread whose pointer carries an*)
(* older number works on freed memory, which no other thread looks at.     *)
(*                                                                         *)
(* The locks of other files share only locks_mutex with this one: they can *)
(* delay a step of this module and nothing else.                           *)
(***************************************************************************)
EXTENDS Naturals

CONSTANTS
    User, NoUser,     \* usernames, and the empty locked_by
    Conn, NoConn,     \* client connections = threads of the server
    UserOf,           \* the user whose client opened a connection
    MaxSentence,      \* bound: sentences 0 .. MaxSentence are asked for
    Moves,            \* what realloc may do to the array: {FALSE} only extends it
                      \* in place, {TRUE, FALSE} may also move it
    DropsBusyConn     \* may a client lose a connection whose request is
                      \* still being served?

Sentence == 0 .. MaxSentence

ASSUME LockAssumption ==
    /\ NoUser \notin User
    /\ NoConn \notin Conn
    /\ UserOf \in [Conn -> User]
    /\ MaxSentence \in Nat
    /\ Moves \in SUBSET BOOLEAN
    /\ DropsBusyConn \in BOOLEAN

VARIABLES
    lockCount,        \* slots allocated so far (lock_count)
    generation,       \* number of the allocation in use
    holder,           \* locked / locked_by of each slot, NoUser when not locked
    mutex,            \* the connection that holds the slot's own mutex
    pc, idx, block,   \* each connection: control point, sentence asked for,
                      \* generation its SentenceLock pointer was taken from
    conn,             \* the connection each client is using
    granted,          \* <<u, i>>: u's client was answered SUCCESS to LOCK i and
                      \* has neither given i up nor lost the connection since
    nm, cursor,       \* name server thread: control point and slot scanned
    exists,           \* does the file exist on disk?
    steady,           \* history: slots found locked at the start of the
                      \* present scan and never released since
    lapsed,           \* history: <<u, i>>: u's lock on i was recorded in freed memory
                      \* only, or taken back by a thread that u had turned away from
    pulled            \* history: realloc has moved the array away from under a thread

table   == <<lockCount, generation, holder, mutex>>
threads == <<pc, idx, block>>
nmVars  == <<nm, cursor, exists>>
history == <<steady, lapsed, pulled>>
vars    == <<table, threads, conn, granted, nmVars, history>>

-----------------------------------------------------------------------------
\* Control points of a thread; Inside, it holds the mutex of its slot.
Inside  == {"testLock", "claim", "testUnlock", "clear"}
Control == {"idle", "grow", "lookupLock", "enterLock", "session", "lookupUnlock",
            "enterUnlock"} \cup Inside

\* A thread that has a pointer to its slot and will still use it.
UsesSlot(c) == pc[c] \in {"enterLock", "enterUnlock"} \cup Inside

\* The array holds no locked slot when the server starts; the file either has
\* no entry yet (restart) or the single slot create_file_ss gave it.
Init ==
    /\ lockCount \in {0, 1}
    /\ generation = 0
    /\ holder = [i \in Sentence |-> NoUser]
    /\ mutex = [i \in Sentence |-> NoConn]
    /\ pc = [c \in Conn |-> "idle"]
    /\ idx = [c \in Conn |-> 0]
    /\ block = [c \in Conn |-> 0]
    /\ conn \in {f \in [User -> Conn] : \A u \in User : UserOf[f[u]] = u}
    /\ granted = {}
    /\ nm = "idle"
    /\ cursor = 0
    /\ exists = TRUE
    /\ steady = {} /\ lapsed = {} /\ pulled = FALSE

\* locks_mutex is held across steps only by the scan of check_file_locks.
TableFree == nm # "scan"

\* The pointer of c still points into the array in use.
Fresh(c) == block[c] = generation

\* The client of c still waits for what c answers.
Awaited(c) == c = conn[UserOf[c]]

GrantsOf(u) == {i \in Sentence : <<u, i>> \in granted}

Goto(c, l) == /\ pc' = [pc EXCEPT ![c] = l]
              /\ UNCHANGED <<idx, block>>

\* The handler sends its response; its locals are gone.
Reply(c) == /\ pc' = [pc EXCEPT ![c] = "idle"]
            /\ idx' = [idx EXCEPT ![c] = 0]
            /\ block' = [block EXCEPT ![c] = 0]

-----------------------------------------------------------------------------
\* LOCK arrives.  A client edits one sentence at a time; the server has checked
\* the index against the file (a missing file counts as empty: only index 0).
ReceiveLock(c, i) ==
    /\ Awaited(c)
    /\ pc[c] = "idle"
    /\ GrantsOf(UserOf[c]) = {}
    /\ exists \/ i = 0
    /\ pc' = [pc EXCEPT ![c] = "grow"]
    /\ idx' = [idx EXCEPT ![c] = i]
    /\ lapsed' = lapsed \ ({UserOf[c]} \X Sentence)
    /\ UNCHANGED <<table, block, conn, granted, nmVars, steady, pulled>>

\* Mutant of Grow: one slot too many.
GrowByTwo(c) ==
    /\ pc[c] = "grow"
    /\ TableFree
    /\ Goto(c, "lookupLock")
    /\ IF idx[c] < lockCount
         THEN UNCHANGED table
         ELSE /\ lockCount' = idx[c] + 2
              /\ UNCHANGED <<generation, holder, mutex>>
    /\ UNCHANGED <<conn, granted, nmVars, history>>

\* init_file_locks(filename, sent_idx + 1): the array never shrinks, and the new
\* slots are unlocked.  A move copies the slots with whatever mutex state they
\* have; the first allocation is a malloc, which moves nothing.
Grow(c) ==
    /\ pc[c] = "grow"
    /\ TableFree
    /\ Goto(c, "lookupLock")
    /\ IF idx[c] < lockCount
         THEN UNCHANGED table
         ELSE /\ lockCount' = idx[c] + 1
              /\ \E moved \in Moves :
                   generation' = IF moved /\ lockCount > 0 THEN generation + 1
                                                           ELSE generation
              /\ UNCHANGED <<holder, mutex>>
    /\ pulled' = (pulled \/ (generation' # generation /\ \E d \in Conn : UsesSlot(d)))
    /\ UNCHANGED <<conn, granted, nmVars, steady, lapsed>>

\* get_sentence_lock: a pointer to the slot, or NULL beyond the end.
Lookup(c, at, then) ==
    /\ pc[c] = at
    /\ TableFree
    /\ IF idx[c] < lockCount
         THEN /\ pc' = [pc EXCEPT ![c] = then]
              /\ block' = [block EXCEPT ![c] = generation]
              /\ UNCHANGED idx
         ELSE Reply(c)
    /\ UNCHANGED <<table, conn, granted, nmVars, history>>

\* Mutant of Enter: the slot is used without its mutex.
EnterUnlocked(c, at, then) ==
    /\ pc[c] = at
    /\ Goto(c, then)
    /\ UNCHANGED <<table, conn, granted, nmVars, history>>

\* pthread_mutex_lock(&lock->mutex) through the pointer.  The mutex of a freed
\* slot has no other user.
Enter(c, at, then) ==
    /\ pc[c] = at
    /\ Fresh(c) => mutex[idx[c]] = NoConn
    /\ mutex' = IF Fresh(c) THEN [mutex EXCEPT ![idx[c]] = c] ELSE mutex
    /\ Goto(c, then)
    /\ UNCHANGED <<lockCount, generation, holder, conn, granted, nmVars, history>>

\* pthread_mutex_unlock(&lock->mutex) through the pointer.
ReleaseMutex(c) ==
    mutex' = IF Fresh(c) THEN [mutex EXCEPT ![idx[c]] = NoConn] ELSE mutex

\* Mutant of TestLock: the refusal forgets to give the mutex up.
TestLockLeaks(c) ==
    /\ pc[c] = "testLock"
    /\ IF holder[idx[c]] \notin {NoUser, UserOf[c]} THEN Reply(c) ELSE Goto(c, "claim")
    /\ UNCHANGED <<table, conn, granted, nmVars, history>>

\* lock_sentence_ss, in the slot's mutex: refused when another user has it.
\* A freed slot may read as anything.
TestLock(c) ==
    /\ pc[c] = "testLock"
    /\ \E refused \in BOOLEAN :
         /\ Fresh(c) => (refused <=> holder[idx[c]] \notin {NoUser, UserOf[c]})
         /\ IF refused THEN /\ ReleaseMutex(c)
                            /\ Reply(c)
                       ELSE /\ UNCHANGED mutex
                            /\ Goto(c, "claim")
    /\ UNCHANGED <<lockCount, generation, holder, conn, granted, nmVars, history>>

\* locked = 1, locked_by = username; then the slot's mutex is released.
Claim(c) ==
    /\ pc[c] = "claim"
    /\ IF Fresh(c)
         THEN holder' = [holder EXCEPT ![idx[c]] = UserOf[c]] /\ UNCHANGED lapsed
         ELSE /\ lapsed' = IF Awaited(c) THEN lapsed \cup {<<UserOf[c], idx[c]>>} ELSE lapsed
              /\ UNCHANGED holder
    /\ ReleaseMutex(c)
    /\ Goto(c, "session")
    /\ UNCHANGED <<lockCount, generation, conn, granted, nmVars, steady, pulled>>

\* start_write_session_ss succeeded: SUCCESS goes to the client, if the client
\* still listens on this connection.
SessionStarted(c) ==
    /\ pc[c] = "session"
    /\ granted' = IF Awaited(c) THEN granted \cup {<<UserOf[c], idx[c]>>} ELSE granted
    /\ Reply(c)
    /\ UNCHANGED <<table, conn, nmVars, history>>

\* Mutant of SessionFailed: the failure is answered like a success, then the lock
\* is taken back.
SessionFailedTold(c) ==
    /\ pc[c] = "session"
    /\ granted' = granted \cup {<<UserOf[c], idx[c]>>}
    /\ Goto(c, "lookupUnlock")
    /\ UNCHANGED <<table, conn, nmVars, history>>

\* start_write_session_ss failed: the handler takes the lock back.
SessionFailed(c) ==
    /\ pc[c] = "session"
    /\ Goto(c, "lookupUnlock")
    /\ UNCHANGED <<table, conn, granted, nmVars, history>>

\* UNLOCK or CANCEL arrives (its commit or cancellation is modelled in
\* WriteSessions): from here on the client no longer counts on the sentence.
ReceiveUnlock(c) ==
    /\ Awaited(c)
    /\ pc[c] = "idle"
    /\ \E i \in GrantsOf(UserOf[c]) :
         /\ idx' = [idx EXCEPT ![c] = i]
         /\ granted' = granted \ {<<UserOf[c], i>>}
         /\ lapsed' = lapsed \ {<<UserOf[c], i>>}
    /\ pc' = [pc EXCEPT ![c] = "lookupUnlock"]
    /\ UNCHANGED <<table, block, conn, nmVars, steady, pulled>>

\* unlock_sentence_ss, in the slot's mutex: refused unless the user has the lock.
TestUnlock(c) ==
    /\ pc[c] = "testUnlock"
    /\ \E refused \in BOOLEAN :
         /\ Fresh(c) => (refused <=> holder[idx[c]] # UserOf[c])
         /\ IF refused THEN /\ ReleaseMutex(c)
                            /\ Reply(c)
                            /\ UNCHANGED lapsed
                       ELSE /\ UNCHANGED mutex
                            /\ Goto(c, "clear")
                            /\ lapsed' = IF Fresh(c) /\ ~Awaited(c)
                                           THEN lapsed \cup {<<UserOf[c], idx[c]>>}
                                           ELSE lapsed
    /\ UNCHANGED <<lockCount, generation, holder, conn, granted, nmVars, steady, pulled>>

\* locked = 0, locked_by empty; then the slot's mutex is released.
Clear(c) ==
    /\ pc[c] = "clear"
    /\ IF Fresh(c) THEN /\ holder' = [holder EXCEPT ![idx[c]] = NoUser]
                        /\ steady' = steady \ {idx[c]}
                   ELSE UNCHANGED <<holder, steady>>
    /\ ReleaseMutex(c)
    /\ Reply(c)
    /\ UNCHANGED <<lockCount, generation, conn, granted, nmVars, lapsed, pulled>>

\* The connection is lost and the client opens another one.  It relies on
\* nothing it was told before: it goes on only after a new LOCK succeeds.  The
\* server's thread for the old connection stays alive and finishes its request.
Reconnect(u, c) ==
    /\ UserOf[c] = u /\ c # conn[u]
    /\ pc[c] = "idle"
    /\ DropsBusyConn \/ pc[conn[u]] = "idle"
    /\ conn' = [conn EXCEPT ![u] = c]
    /\ granted' = granted \ ({u} \X Sentence)
    /\ lapsed' = lapsed \ ({u} \X Sentence)
    /\ UNCHANGED <<table, threads, nmVars, steady, pulled>>

-----------------------------------------------------------------------------
\* CHECK_LOCKS, sent by the name server before DELETE: check_file_locks takes
\* locks_mutex for the whole scan.
ScanStart ==
    /\ nm = "idle"
    /\ exists
    /\ nm' = "scan"
    /\ steady' = {i \in Sentence : i < lockCount /\ holder[i] # NoUser}
    /\ UNCHANGED <<table, threads, conn, granted, cursor, exists, lapsed, pulled>>

\* One slot is read under its own mutex; a locked one ends the scan.
ScanSlot ==
    /\ nm = "scan"
    /\ cursor < lockCount
    /\ mutex[cursor] = NoConn
    /\ IF holder[cursor] # NoUser
         THEN /\ nm' = "idle"
              /\ cursor' = 0
              /\ steady' = {}
         ELSE /\ cursor' = cursor + 1
              /\ UNCHANGED <<nm, steady>>
    /\ UNCHANGED <<table, threads, conn, granted, exists, lapsed, pulled>>

\* Mutant of ScanEnd: the last slot is not looked at.
ScanEndEarly ==
    /\ nm = "scan"
    /\ cursor + 1 >= lockCount
    /\ nm' = "unlocked"
    /\ cursor' = 0
    /\ UNCHANGED <<table, threads, conn, granted, exists, history>>

\* No slot was found locked: SUCCESS is the answer, and locks_mutex is released.
ScanEnd ==
    /\ nm = "scan"
    /\ cursor = lockCount
    /\ nm' = "unlocked"
    /\ cursor' = 0
    /\ UNCHANGED <<table, threads, conn, granted, exists, history>>

\* DELETE, a message of its own: unlink, whatever the locks are by now.
DeleteFile ==
    /\ nm = "unlocked"
    /\ exists' = FALSE
    /\ nm' = "idle"
    /\ steady' = {}
    /\ UNCHANGED <<table, threads, conn, granted, cursor, lapsed, pulled>>

\* CREATE: the file appears, then init_file_locks(filename, 1).
CreateFile ==
    /\ nm = "idle"
    /\ ~exists
    /\ exists' = TRUE
    /\ nm' = "grow"
    /\ UNCHANGED <<table, threads, conn, granted, cursor, history>>

CreateLocks ==
    /\ nm = "grow"
    /\ lockCount' = IF lockCount = 0 THEN 1 ELSE lockCount
    /\ nm' = "idle"
    /\ UNCHANGED <<generation, holder, mutex, threads, conn, granted, cursor, exists,
                   history>>

-----------------------------------------------------------------------------
LookupLock(c)   == Lookup(c, "lookupLock", "enterLock")
LookupUnlock(c) == Lookup(c, "lookupUnlock", "enterUnlock")
EnterLock(c)    == Enter(c, "enterLock", "testLock")
EnterUnlock(c)  == Enter(c, "enterUnlock", "testUnlock")

\* What a server thread does on its own once a request has come in.
Serve(c) ==
    \/ Grow(c) \/ LookupLock(c) \/ LookupUnlock(c)
    \/ EnterLock(c) \/ EnterUnlock(c)
    \/ TestLock(c) \/ Claim(c) \/ SessionStarted(c) \/ SessionFailed(c)
    \/ TestUnlock(c) \/ Clear(c)

Scan == ScanSlot \/ ScanEnd

Client ==
    \/ \E c \in Conn : ReceiveUnlock(c) \/ \E i \in Sentence : ReceiveLock(c, i)
    \/ \E u \in User, c \in Conn : Reconnect(u, c)

NameServer == ScanStart \/ Scan \/ DeleteFile \/ CreateFile \/ CreateLocks

Next == Client \/ NameServer \/ \E c \in Conn : Serve(c)

\* Threads are scheduled; a mutex that keeps coming free is eventually obtained
\* (strong fairness of the steps that wait for one).  Nothing obliges a client
\* to send a request or the name server to delete or create a file.
Fairness ==
    /\ \A c \in Conn : SF_vars(Serve(c))
    /\ SF_vars(Scan)
    /\ WF_vars(CreateLocks)

Spec == Init /\ [][Next]_vars /\ Fairness

-----------------------------------------------------------------------------
TypeOK ==
    /\ lockCount \in 0 .. MaxSentence + 1
    /\ generation \in Nat
    /\ holder \in [Sentence -> User \cup {NoUser}]
    /\ mutex \in [Sentence -> Conn \cup {NoConn}]
    /\ pc \in [Conn -> Control]
    /\ idx \in [Conn -> Sentence]
    /\ block \in [Conn -> Nat]
    /\ conn \in [User -> Conn]
    /\ granted \in SUBSET (User \X Sentence)
    /\ nm \in {"idle", "scan", "unlocked", "grow"}
    /\ cursor \in 0 .. MaxSentence + 1
    /\ exists \in BOOLEAN
    /\ steady \in SUBSET Sentence
    /\ lapsed \in SUBSET (User \X Sentence) /\ pulled \in BOOLEAN

\* Two clients are never told at the same time that they have the same sentence
\* (lock_sentence_ss; the purpose of the per-sentence lock).
MutualExclusion ==
    \A g, h \in granted : g[2] = h[2] => g[1] = h[1]

\* A client that was told SUCCESS is the recorded holder until it asks to give
\* the sentence up.  Two accidents end this, and for the one user only to whom they
\* happen: his LOCK is recorded through a pointer that realloc has made stale, or a
\* request over a connection he has left takes the lock back.  No request of another
\* user, no failing LOCK and no other use of a stale pointer does (lock_sentence_ss,
\* unlock_sentence_ss, init_file_locks).
GrantedIsHeld ==
    \A g \in granted \ lapsed : holder[g[2]] = g[1]

\* If check_file_locks answers that nothing is locked, no lock was held during
\* the whole of its scan, although the slots are read one after the other.
ScanSound ==
    nm = "unlocked" => steady = {}

\* A slot passes from one user to another only through the unlocked state,
\* whatever realloc and the network do (lock_sentence_ss's refusal).
HandoverThroughFree ==
    [][\A i \in Sentence : holder'[i] # holder[i] => NoUser \in {holder[i], holder'[i]}]_holder

\* DELETE removes the file only when none of its sentences is held by a user who
\* relies on it (the CHECK_LOCKS step of the delete flow).
DeleteOnlyUnlocked ==
    [][exists /\ ~exists' => granted = {}]_vars

\* The locks as their users see them, but for the grants that have lapsed.
Promise == INSTANCE LockService WITH owner <- holder, granted <- granted \ lapsed

\* The lock table keeps the promise of LockService.
KeepsPromise == Promise!Spec

\* Every request is answered: no thread waits for ever on locks_mutex or on the
\* mutex of a slot, and check_file_locks ends, unless realloc has moved the array
\* while a thread had a pointer into it.
RequestsAnswered ==
    /\ \A c \in Conn : pc[c] # "idle" ~> pc[c] = "idle" \/ pulled
    /\ nm = "scan" ~> nm # "scan" \/ pulled

\* The same without the exception.
AlwaysAnswered ==
    /\ \A c \in Conn : pc[c] # "idle" ~> pc[c] = "idle"
    /\ nm = "scan" ~> nm # "scan"
=============================================================================
