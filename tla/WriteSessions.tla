--------------------------- MODULE WriteSessions ---------------------------
(***************************************************************************)
(* Write sessions and commits on one file of a storage server (src/ss.c).  *)
(* LOCK opens a session and copies the main file to a temporary file, WRITE*)
(* edits the copy, UNLOCK queues the copy and processes the queue, which   *)
(* merges the copies into the main file one by one; CANCEL drops the copy; *)
(* UNDO puts back the backup made when the queue was last processed.       *)
(* CHECKPOINT and REVERT copy the main file to a checkpoint and back.      *)
(*                                                                         *)
(* A user has one client, hence one thread of the server; CHECKPOINT and   *)
(* REVERT come from the name server, which has one thread.  Each step below*)
(* is what the thread does between two points where another thread can     *)
(* interfere: the mutexes write_sessions_mutex and queue->mutex, and the   *)
(* system calls that read, truncate, write and unlink a file.  A sentence  *)
(* lock is taken and given up in one step, as LockService promises and     *)
(* SentenceLocks implements it, but for the locks that lapse.              *)
(*                                                                         *)
(* Fault stands for the failures whose result the code tests: a file that  *)
(* cannot be opened for writing, memory that is not there, a table that is *)
(* full.  A file that exists can be read.                                  *)
(***************************************************************************)
EXTENDS SentenceText

CONSTANTS
    User, NoUser,
    NoFile,          \* the content of a file that does not exist
    InitialFiles,    \* what the main file may be to begin with
    Edits,           \* <<u, word index, content>>: the WRITEs user u may send
    Serial,          \* TRUE: requests are served one at a time, UNLOCKs excepted
    MaxSentence,     \* bound: sentences 0 .. MaxSentence are locked
    MaxSess,         \* cells of write_sessions (MAX_CLIENTS * 10)
    MaxLocks,        \* bound: sessions each user may begin
    MaxWrites,       \* bound: WRITEs in a session
    MaxLosses,       \* bound: connections lost by clients that hold a sentence
    MaxFaults,       \* bound: failures, see Fault
    MaxUndos,        \* bound: UNDOs
    MaxKeeps         \* bound: CHECKPOINTs and REVERTs

Sentence == 0 .. MaxSentence
None     == -1

ASSUME SessionAssumption ==
    /\ NoUser \notin User
    /\ Serial \in BOOLEAN
    /\ MaxSentence \in Nat
    /\ MaxSess \in Nat \ {0}

ASSUME TextAssumption ==
    /\ NoFile \notin Text
    /\ InitialFiles \subseteq Text
    /\ Edits \subseteq User \X Nat \X Text

VARIABLES
    main, undo,      \* the file and its .undo file
    temp,            \* temp[<<u, i>>]: the file <name>.temp_u_i
    checkpoint,      \* the file <name>.checkpoint_<tag>, of one tag
    keeping,         \* what the thread for the name server does next
    sess, count,     \* write_sessions, an array of cells, and write_session_count
    queue, queueMade, \* the file's commit queue, and whether there is one
    queueOwner,      \* the thread that holds the queue's mutex across steps
    owner,           \* the sentence locks
    pc, local,       \* what the thread of u does next; its locals, see NoLocals
    editing,         \* client: the sentence it was granted, or None
    wrote,           \* client: words whose WRITE was answered SUCCESS
    acked,           \* history: words of the first text, and of the sessions whose
                     \* UNLOCK was answered SUCCESS
    before,          \* history: main and acked before the last run of the queue that
                     \* merged something, whether it goes on, main before the last commit
    saved,           \* history: acked when the checkpoint was taken
    disturbed,       \* history: the file changed under an open session otherwise than by
                     \* the commit of another sentence into as many sentences, or the
                     \* server went on as if nothing had failed
    used             \* how much of each bound is used up

kept    == <<checkpoint, keeping>>
files   == <<main, undo, temp, kept>>
table   == <<sess, count>>
commits == <<queue, queueMade, queueOwner>>
thread  == <<pc, local>>
client  == <<editing, wrote>>
history == <<acked, before, saved, disturbed>>
vars    == <<files, table, commits, owner, thread, client, history, used>>

-----------------------------------------------------------------------------
\* The locals of a thread between two requests: the sentence it serves, a sentence
\* count, the index of a session in the array, a WRITE, a file held in memory.
NoLocals == [at |-> 0, orig |-> 0, ptr |-> 1, edit |-> <<1, <<>>>>, buf |-> <<>>]

\* A session's key also names its temporary file.
Key(cell) == <<cell.user, cell.idx>>

Init ==
    /\ main \in InitialFiles /\ undo = NoFile
    /\ temp = [p \in User \X Sentence |-> NoFile]
    /\ checkpoint = NoFile /\ keeping = "idle"
    /\ sess = [k \in 1 .. MaxSess |-> [user |-> NoUser, idx |-> 0, orig |-> 0]]
    /\ count = 0
    /\ queue = <<>> /\ queueMade = FALSE /\ queueOwner = NoUser
    /\ owner = [i \in Sentence |-> NoUser]
    /\ pc = [u \in User |-> "idle"] /\ local = [u \in User |-> NoLocals]
    /\ editing = [u \in User |-> None] /\ wrote = [u \in User |-> {}]
    /\ acked = WordsIn(main)
    /\ before = [text |-> main, acked |-> acked, open |-> FALSE, last |-> main]
    /\ saved = {} /\ disturbed = FALSE
    /\ used = [locks |-> [u \in User |-> 0], writes |-> [u \in User |-> 0],
               losses |-> 0, faults |-> 0, undos |-> 0, keeps |-> 0]

Fault == used.faults < MaxFaults /\ used' = [used EXCEPT !.faults = @ + 1]

\* A new request of u can be served, beside threads at these labels.
ReadyBeside(u, labels) ==
    /\ pc[u] = "idle"
    /\ Serial => keeping = "idle" /\ \A v \in User : pc[v] \in {"idle"} \cup labels

Ready(u) == ReadyBeside(u, {})

Committing == {"enqueue", "drop", "begin", "merge", "truncate", "rewrite", "unlock"}

\* The thread goes on at l with locals L, with the locals it has, or has answered.
GoWith(u, l, L) == /\ pc' = [pc EXCEPT ![u] = l]
                   /\ local' = [local EXCEPT ![u] = L]
Goto(u, l) == GoWith(u, l, local[u])
Reply(u)   == GoWith(u, "idle", NoLocals)

\* get_write_session: the cells that hold the session of u for sentence i.
Find(u, i) == {k \in 1 .. count : Key(sess[k]) = <<u, i>>}

\* Taking cell k out of the array moves the later cells down; the last cell
\* keeps its old content beyond the end.
Compacted(k) == [j \in 1 .. MaxSess |-> IF j \in k .. count - 1 THEN sess[j+1] ELSE sess[j]]

-----------------------------------------------------------------------------
\* LOCK: the index is checked against the main file as it reads now.  A client
\* sends it to begin a session, or again when it has lost its connection; then it
\* counts on nothing until the LOCK is answered.
ReceiveLock(u, i) ==
    /\ Ready(u)
    /\ \/ /\ editing[u] = None
          /\ used.locks[u] < MaxLocks[u]
          /\ used' = [used EXCEPT !.locks[u] = @ + 1, !.writes[u] = 0]
          /\ wrote' = [wrote EXCEPT ![u] = {}]
       \/ /\ editing[u] = i
          /\ used.losses < MaxLosses
          /\ used' = [used EXCEPT !.losses = @ + 1]
          /\ UNCHANGED wrote
    /\ editing' = [editing EXCEPT ![u] = None]
    /\ IF ValidIndex(main, i) THEN GoWith(u, "lock", [NoLocals EXCEPT !.at = i])
                              ELSE Reply(u)
    /\ UNCHANGED <<files, table, commits, owner, history>>

\* lock_sentence_ss
LockSentence(u) ==
    LET i == local[u].at
    IN  /\ pc[u] = "lock"
        /\ IF owner[i] \in {NoUser, u}
             THEN /\ owner' = [owner EXCEPT ![i] = u]
                  /\ Goto(u, "count")
             ELSE /\ UNCHANGED owner
                  /\ Reply(u)
        /\ UNCHANGED <<files, table, commits, client, history, used>>

\* start_write_session_ss: first the sentences of the main file are counted,
CountSentences(u) ==
    /\ pc[u] = "count"
    /\ GoWith(u, "open", [local[u] EXCEPT !.orig = Len(Parse(main))])
    /\ UNCHANGED <<files, table, commits, owner, client, history, used>>

\* Mutants of OpenSession: the count grows although a session was found; a session
\* is made without looking for one.
OpenSessionCounts(u) ==
    /\ pc[u] = "open"
    /\ sess' = IF Find(u, local[u].at) # {} \/ count = MaxSess THEN sess
               ELSE [sess EXCEPT ![count+1].user = u, ![count+1].idx = local[u].at]
    /\ count' = count + 1
    /\ GoWith(u, "stamp", [local[u] EXCEPT !.ptr = 1])
    /\ UNCHANGED <<files, commits, owner, client, history, used>>

OpenSessionAnew(u) ==
    /\ pc[u] = "open"
    /\ count < MaxSess
    /\ sess' = [sess EXCEPT ![count+1].user = u, ![count+1].idx = local[u].at]
    /\ count' = count + 1
    /\ GoWith(u, "stamp", [local[u] EXCEPT !.ptr = count + 1])
    /\ UNCHANGED <<files, commits, owner, client, history, used>>

\* then a session is found or made; when the array is full, also of sessions of other
\* files (Fault), LOCK fails and the lock is given up,
OpenSession(u) ==
    LET i     == local[u].at
        found == Find(u, i)
    IN  /\ pc[u] = "open"
        /\ \/ \E k \in found : /\ GoWith(u, "stamp", [local[u] EXCEPT !.ptr = k])
                               /\ UNCHANGED <<table, used>>
           \/ /\ found = {}
              /\ count < MaxSess
              /\ sess' = [sess EXCEPT ![count+1].user = u, ![count+1].idx = i]
              /\ count' = count + 1
              /\ GoWith(u, "stamp", [local[u] EXCEPT !.ptr = count + 1])
              /\ UNCHANGED used
           \/ /\ found = {}
              /\ (count = MaxSess /\ UNCHANGED used) \/ Fault
              /\ Goto(u, "giveUp")
              /\ UNCHANGED table
        /\ UNCHANGED <<files, commits, owner, client, history>>

\* then the count is stored through the pointer,
StampSession(u) ==
    /\ pc[u] = "stamp"
    /\ sess' = [sess EXCEPT ![local[u].ptr].orig = local[u].orig]
    /\ Goto(u, "copy")
    /\ UNCHANGED <<files, count, commits, owner, client, history, used>>

\* and the main file is copied to the temporary file; SUCCESS is answered.  When that
\* file cannot be opened, the session goes, and then the lock.
CopyMain(u) ==
    /\ pc[u] = "copy"
    /\ \/ /\ temp' = [temp EXCEPT ![Key(sess[local[u].ptr])] = main]
          /\ editing' = [editing EXCEPT ![u] = local[u].at]
          /\ Reply(u)
          /\ UNCHANGED used
       \/ /\ Fault
          /\ Goto(u, "discard")
          /\ UNCHANGED <<temp, editing>>
    /\ UNCHANGED <<main, undo, kept, table, commits, owner, wrote, history>>

\* A client that has lost its connection may give up; the server keeps its session and
\* its lock.
HangUp(u) ==
    /\ pc[u] = "idle"
    /\ editing[u] # None
    /\ used.losses < MaxLosses
    /\ used' = [used EXCEPT !.losses = @ + 1]
    /\ editing' = [editing EXCEPT ![u] = None]
    /\ wrote' = [wrote EXCEPT ![u] = {}]
    /\ UNCHANGED <<files, table, commits, owner, thread, history>>

-----------------------------------------------------------------------------
\* WRITE: write_file_ss looks for the session,
ReceiveWrite(u, w, content) ==
    LET i == editing[u]
    IN  /\ Ready(u)
        /\ i # None
        /\ used.writes[u] < MaxWrites
        /\ used' = [used EXCEPT !.writes[u] = @ + 1]
        /\ \/ \E k \in Find(u, i) :
                GoWith(u, "parse",
                       [NoLocals EXCEPT !.at = i, !.ptr = k, !.edit = <<w, content>>])
           \/ Find(u, i) = {} /\ Reply(u)
        /\ UNCHANGED <<files, table, commits, owner, client, history>>

\* reads the temporary file (a missing or empty one is one empty sentence) and
\* inserts the content, or refuses the place,
ParseTemp(u) ==
    LET L    == local[u]
        file == temp[Key(sess[L.ptr])]
        s    == IF file \in {NoFile, <<>>} THEN << <<>> >> ELSE Parse(file)
    IN  /\ pc[u] = "parse"
        /\ IF ValidPlace(s, L.at, L.edit[1])
             THEN GoWith(u, "store", [L EXCEPT !.buf =
                            WriteBack(InsertWords(s, L.at, L.edit[1], L.edit[2]))])
             ELSE Reply(u)
        /\ UNCHANGED <<files, table, commits, owner, client, history, used>>

\* and writes it back; SUCCESS is answered, or a failure.
StoreTemp(u) ==
    /\ pc[u] = "store"
    /\ \/ /\ temp' = [temp EXCEPT ![Key(sess[local[u].ptr])] = local[u].buf]
          /\ wrote' = [wrote EXCEPT ![u] = @ \cup WordsIn(local[u].edit[2])]
          /\ UNCHANGED used
       \/ Fault /\ UNCHANGED <<temp, wrote>>
    /\ Reply(u)
    /\ UNCHANGED <<main, undo, kept, table, commits, owner, editing, history>>

-----------------------------------------------------------------------------
\* UNLOCK: commit_write_session_ss looks for the session; without one there is
\* nothing to commit.
ReceiveUnlock(u) ==
    LET i == editing[u]
    IN  /\ ReadyBeside(u, Committing)
        /\ i # None
        /\ editing' = [editing EXCEPT ![u] = None]
        /\ \/ \E k \in Find(u, i) :
                GoWith(u, "enqueue", [NoLocals EXCEPT !.at = i, !.ptr = k])
           \/ Find(u, i) = {} /\ GoWith(u, "unlock", [NoLocals EXCEPT !.at = i])
        /\ UNCHANGED <<files, table, commits, owner, wrote, history, used>>

\* enqueue_commit: what the pointer shows goes to the tail of the queue.  (state is
\* history, see GiveUpMerge.)  Without a queue, and when the table of queues is full,
\* UNLOCK fails: the session goes, and then the lock.
Enqueue(u) ==
    LET cell == sess[local[u].ptr]
    IN  /\ pc[u] = "enqueue"
        /\ \/ /\ queueOwner = NoUser
              /\ queue' = Append(queue, [user |-> u, idx |-> local[u].at, orig |-> cell.orig,
                                         path |-> Key(cell), state |-> "queued"])
              /\ queueMade' = TRUE
              /\ Goto(u, "drop")
              /\ UNCHANGED used
           \/ /\ ~queueMade
              /\ Fault
              /\ Goto(u, "discard")
              /\ UNCHANGED <<queue, queueMade>>
        /\ UNCHANGED <<files, table, queueOwner, owner, client, history>>

\* Mutant of DropSession: the session stays in the array.
DropSessionForgets(u) ==
    /\ pc[u] = "drop"
    /\ Goto(u, "begin")
    /\ UNCHANGED <<files, table, commits, owner, client, history, used>>

\* The session is taken out of the array; its temporary file stays.
DropSession(u) ==
    LET found == Find(u, local[u].at)
    IN  /\ pc[u] = "drop"
        /\ \/ \E k \in found : sess' = Compacted(k) /\ count' = count - 1
           \/ found = {} /\ UNCHANGED table
        /\ Goto(u, "begin")
        /\ UNCHANGED <<files, commits, owner, client, history, used>>

\* Mutant of BeginProcess: a backup that is there is kept.
BeginProcessKeeps(u) ==
    /\ pc[u] = "begin"
    /\ queueOwner = NoUser
    /\ queueOwner' = u
    /\ undo' = IF undo = NoFile THEN main ELSE undo
    /\ Goto(u, "merge")
    /\ UNCHANGED <<main, temp, kept, table, queue, queueMade, owner, client, history, used>>

\* process_commit_queue: with the queue's mutex, the main file is backed up once,
\* unless nothing is queued any more.  A backup that fails is ignored.
BeginProcess(u) ==
    /\ pc[u] = "begin"
    /\ queueOwner = NoUser
    /\ queueOwner' = u
    /\ \/ /\ undo' = IF queue = <<>> THEN undo ELSE main
          /\ UNCHANGED <<disturbed, used>>
       \/ /\ queue # <<>>
          /\ Fault
          /\ disturbed' = TRUE
          /\ UNCHANGED undo
    /\ Goto(u, "merge")
    /\ UNCHANGED <<main, temp, kept, table, queue, queueMade, owner, client, acked, before,
                   saved>>

\* The head of the queue is merged in memory with the main file as it reads now.
MergeHead(u) ==
    LET e == Head(queue)
    IN  /\ pc[u] = "merge"
        /\ queue # <<>>
        /\ temp[e.path] # NoFile
        /\ Mergeable(main, e.idx, e.orig)
        /\ GoWith(u, "truncate",
                  [local[u] EXCEPT !.buf = Merge(main, temp[e.path], e.idx, e.orig)])
        /\ UNCHANGED <<files, table, commits, owner, client, history, used>>

\* Mutant of SkipHead: the entry stays at the head of the queue.
SkipHeadStays(u) ==
    /\ pc[u] = "merge"
    /\ queue # <<>>
    /\ ~Mergeable(main, Head(queue).idx, Head(queue).orig)
    /\ temp' = [temp EXCEPT ![Head(queue).path] = NoFile]
    /\ UNCHANGED <<main, undo, kept, table, commits, owner, thread, client, history, used>>

\* A commit without a temporary file, or whose place is not in the main file, is
\* dropped.
SkipHead(u) ==
    LET e == Head(queue)
    IN  /\ pc[u] = "merge"
        /\ queue # <<>>
        /\ temp[e.path] = NoFile \/ ~Mergeable(main, e.idx, e.orig)
        /\ temp' = [temp EXCEPT ![e.path] = NoFile]
        /\ queue' = Tail(queue)
        /\ UNCHANGED <<main, undo, kept, table, queueMade, queueOwner, owner, thread, client,
                       history, used>>

\* A commit adds sentences or takes some, and a session or a later commit of the
\* queue counts on the old ones.
Shifts(u) == /\ Len(Parse(local[u].buf)) # Len(Parse(main))
             /\ count > 0 \/ Len(queue) > 1

\* Those who wait for the answer to an UNLOCK whose commit was merged in an earlier run.
Answering == {v \in User : pc[v] = "unlock"}

\* write_file_content opens the main file, which empties it,
Truncate(u) ==
    /\ pc[u] = "truncate"
    /\ main' = <<>>
    /\ Goto(u, "rewrite")
    /\ disturbed' = (disturbed \/ Shifts(u))
    /\ before' = IF before.open THEN [before EXCEPT !.last = main]
                 ELSE [text |-> main, open |-> TRUE, last |-> main,
                       acked |-> acked \cup UNION {wrote[v] : v \in Answering}]
    /\ UNCHANGED <<undo, temp, kept, table, commits, owner, client, acked, saved, used>>

\* and writes the merged text; the temporary file and the entry go.
Rewrite(u) ==
    /\ pc[u] = "rewrite"
    /\ main' = local[u].buf
    /\ temp' = [temp EXCEPT ![Head(queue).path] = NoFile]
    /\ queue' = Tail(queue)
    /\ GoWith(u, "merge", [local[u] EXCEPT !.buf = <<>>])
    /\ UNCHANGED <<undo, kept, table, queueMade, queueOwner, owner, client, history, used>>

\* Without memory for the merged text, or when the main file cannot be opened, the
\* thread leaves the queue as it is, its own commits included if they are there still
\* (history: state), and SUCCESS is answered.
GiveUpMerge(u) ==
    /\ pc[u] = "truncate"
    /\ Fault
    /\ queue' = [k \in DOMAIN queue |->
                    [queue[k] EXCEPT !.state = IF queue[k].user = u THEN "left" ELSE @]]
    /\ queueOwner' = NoUser
    /\ GoWith(u, "unlock", [local[u] EXCEPT !.buf = <<>>])
    /\ before' = [before EXCEPT !.open = FALSE]
    /\ disturbed' = TRUE
    /\ UNCHANGED <<files, table, queueMade, owner, client, acked, saved>>

\* Mutant of EndProcess: the rest of the queue is left to others.
EndProcessAnyway(u) ==
    /\ pc[u] = "merge"
    /\ queueOwner' = NoUser
    /\ Goto(u, "unlock")
    /\ UNCHANGED <<files, table, queue, queueMade, owner, client, history, used>>

EndProcess(u) ==
    /\ pc[u] = "merge"
    /\ queue = <<>>
    /\ queueOwner' = NoUser
    /\ Goto(u, "unlock")
    /\ before' = [before EXCEPT !.open = FALSE]
    /\ UNCHANGED <<files, table, queue, queueMade, owner, client, acked, saved, disturbed, used>>

\* unlock_sentence_ss, and the answer to UNLOCK.
UnlockSentence(u) ==
    LET i == local[u].at
    IN  /\ pc[u] = "unlock"
        /\ IF owner[i] = u THEN /\ owner' = [owner EXCEPT ![i] = NoUser]
                                /\ acked' = acked \cup wrote[u]
                           ELSE UNCHANGED <<owner, acked>>
        /\ wrote' = [wrote EXCEPT ![u] = {}]
        /\ Reply(u)
        /\ UNCHANGED <<files, table, commits, editing, before, saved, disturbed, used>>

-----------------------------------------------------------------------------
\* CANCEL: the session is discarded, and the lock given up.
ReceiveCancel(u) ==
    LET i == editing[u]
    IN  /\ Ready(u)
        /\ i # None
        /\ editing' = [editing EXCEPT ![u] = None]
        /\ wrote' = [wrote EXCEPT ![u] = {}]
        /\ GoWith(u, "discard", [NoLocals EXCEPT !.at = i])
        /\ UNCHANGED <<files, table, commits, owner, history, used>>

\* remove_write_session unlinks the temporary file and compacts the array.
DiscardSession(u) ==
    LET found == Find(u, local[u].at)
    IN  /\ pc[u] = "discard"
        /\ \/ \E k \in found : /\ temp' = [temp EXCEPT ![Key(sess[k])] = NoFile]
                               /\ sess' = Compacted(k)
                               /\ count' = count - 1
           \/ found = {} /\ UNCHANGED <<temp, table>>
        /\ Goto(u, "giveUp")
        /\ UNCHANGED <<main, undo, kept, commits, owner, client, history, used>>

\* The lock of a session that was cancelled, failed or could not be opened goes too.
GiveUpLock(u) ==
    LET i == local[u].at
    IN  /\ pc[u] = "giveUp"
        /\ owner' = IF owner[i] = u THEN [owner EXCEPT ![i] = NoUser] ELSE owner
        /\ Reply(u)
        /\ UNCHANGED <<files, table, commits, client, history, used>>

\* UNDO, of a client that edits nothing: refused without a backup.  Bound: one
\* UNDO is served at a time.
ReceiveUndo(u) ==
    /\ Ready(u)
    /\ editing[u] = None
    /\ used.undos < MaxUndos
    /\ \A v \in User : pc[v] \notin {"undo", "restore"}
    /\ undo # NoFile
    /\ used' = [used EXCEPT !.undos = @ + 1]
    /\ Goto(u, "undo")
    /\ UNCHANGED <<files, table, commits, owner, client, history>>

\* Somebody has a copy of the main file that is not merged yet.
Editing == count > 0 \/ queue # <<>>

\* restore_from_undo empties the main file, whoever is editing it, or fails,
UndoTruncate(u) ==
    /\ pc[u] = "undo"
    /\ \/ /\ main' = <<>>
          /\ Goto(u, "restore")
          /\ disturbed' = (disturbed \/ Editing)
          /\ UNCHANGED used
       \/ /\ Fault
          /\ Reply(u)
          /\ UNCHANGED <<main, disturbed>>
    /\ UNCHANGED <<undo, temp, kept, table, commits, owner, client, acked, before, saved>>

\* then copies the backup to it and unlinks the backup.
Restore(u) ==
    /\ pc[u] = "restore"
    /\ main' = undo
    /\ undo' = NoFile
    /\ acked' = before.acked
    /\ Reply(u)
    /\ UNCHANGED <<temp, kept, table, commits, owner, client, before, saved, disturbed, used>>

-----------------------------------------------------------------------------
\* A request of the name server can be served, by the one thread for it; this many of
\* its steps fail.
KeeperReady(failures) ==
    /\ keeping = "idle"
    /\ used.keeps < MaxKeeps
    /\ Serial => \A u \in User : pc[u] = "idle"
    /\ used.faults + failures <= MaxFaults
    /\ used' = [used EXCEPT !.keeps = @ + 1, !.faults = @ + failures]

\* CHECKPOINT: create_checkpoint refuses a tag that exists, and copies the main
\* file as it reads.  (If it cannot, nothing changes.)
CreateCheckpoint ==
    /\ KeeperReady(0)
    /\ checkpoint = NoFile
    /\ checkpoint' = main
    /\ saved' = acked
    /\ UNCHANGED <<main, undo, temp, keeping, table, commits, owner, thread, client, acked,
                   before, disturbed>>

\* REVERT: revert_to_checkpoint backs the main file up, whoever holds locks of it, and
\* ignores a failure to do so,
ReceiveRevert ==
    /\ checkpoint # NoFile
    /\ keeping' = "empty"
    /\ \/ /\ KeeperReady(0)
          /\ undo' = main
          /\ before' = [text |-> main, acked |-> acked, open |-> before.open, last |-> main]
          /\ UNCHANGED disturbed
       \/ /\ KeeperReady(1)
          /\ disturbed' = TRUE
          /\ UNCHANGED <<undo, before>>
    /\ UNCHANGED <<main, temp, checkpoint, table, commits, owner, thread, client, acked, saved>>

\* empties it, or fails,
RevertTruncate ==
    /\ keeping = "empty"
    /\ \/ /\ main' = <<>>
          /\ keeping' = "refill"
          /\ disturbed' = (disturbed \/ Editing)
          /\ UNCHANGED used
       \/ /\ Fault
          /\ keeping' = "idle"
          /\ UNCHANGED <<main, disturbed>>
    /\ UNCHANGED <<undo, temp, checkpoint, table, commits, owner, thread, client, acked, before,
                   saved>>

\* and copies the checkpoint to it.
Revert ==
    /\ keeping = "refill"
    /\ main' = checkpoint
    /\ acked' = saved
    /\ keeping' = "idle"
    /\ UNCHANGED <<undo, temp, checkpoint, table, commits, owner, thread, client, before, saved,
                   disturbed, used>>

Keep == CreateCheckpoint \/ ReceiveRevert \/ RevertTruncate \/ Revert

-----------------------------------------------------------------------------
\* What a server thread does on its own once a request has come in.
Serve(u) ==
    \/ LockSentence(u) \/ CountSentences(u) \/ OpenSession(u) \/ StampSession(u)
    \/ CopyMain(u) \/ ParseTemp(u) \/ StoreTemp(u)
    \/ Enqueue(u) \/ DropSession(u) \/ BeginProcess(u)
    \/ MergeHead(u) \/ SkipHead(u) \/ Truncate(u) \/ Rewrite(u) \/ GiveUpMerge(u)
    \/ EndProcess(u) \/ UnlockSentence(u) \/ DiscardSession(u) \/ GiveUpLock(u)
    \/ UndoTruncate(u) \/ Restore(u)

Request(u) ==
    \/ \E i \in Sentence : ReceiveLock(u, i)
    \/ \E e \in Edits : e[1] = u /\ ReceiveWrite(u, e[2], e[3])
    \/ ReceiveUnlock(u) \/ ReceiveCancel(u) \/ ReceiveUndo(u) \/ HangUp(u)

Next == (\E u \in User : Request(u) \/ Serve(u)) \/ Keep

\* Threads are scheduled, and a thread that waits for the queue's mutex gets it
\* in the end.  No client is obliged to send anything.
Fairness == \A u \in User : SF_vars(Serve(u))

Spec == Init /\ [][Next]_vars /\ Fairness

-----------------------------------------------------------------------------
Control == {"idle", "lock", "count", "open", "stamp", "copy", "parse", "store", "enqueue",
            "drop", "begin", "merge", "truncate", "rewrite", "unlock", "discard",
            "giveUp", "undo", "restore"}

MaybeText == Text \cup {NoFile}

Cell   == [user : User \cup {NoUser}, idx : Sentence, orig : Nat]
Entry  == [user : User, idx : Sentence, orig : Nat, path : User \X Sentence,
           state : {"queued", "left"}]
Locals == [at : Sentence, orig : Nat, ptr : 1 .. MaxSess, edit : Nat \X Text, buf : Text]

\* The files are texts, the main file always one that exists; what a cell of the
\* array, an entry of the queue and the locals of a thread say can be followed to a
\* user, a sentence and a file, also through a pointer to a cell that was moved
\* (write_sessions, commit_entry_t, process_commit_queue).  The bounds, used, are left
\* out.
TypeOK ==
    /\ main \in Text /\ {undo, checkpoint} \subseteq MaybeText
    /\ temp \in [User \X Sentence -> MaybeText]
    /\ keeping \in {"idle", "empty", "refill"}
    /\ count \in 0 .. MaxSess /\ sess \in [1 .. MaxSess -> Cell]
    /\ queue \in Seq(Entry) /\ queueMade \in BOOLEAN /\ queueOwner \in User \cup {NoUser}
    /\ owner \in [Sentence -> User \cup {NoUser}]
    /\ pc \in [User -> Control] /\ local \in [User -> Locals]
    /\ editing \in [User -> Sentence \cup {None}] /\ wrote \in [User -> SUBSET Token]
    /\ {acked, saved} \subseteq SUBSET Token
    /\ before \in [text : Text, acked : SUBSET Token, open : BOOLEAN, last : Text]
    /\ disturbed \in BOOLEAN

\* A session exists only under the lock of its sentence, so that a sentence has
\* one writer: sessions are opened after the lock is taken and dropped or queued
\* before it is given up, on every path (start_write_session_ss,
\* commit_write_session_ss, cancel_write_session_ss).
SessionUnderLock ==
    \A k \in 1 .. count : owner[sess[k].idx] = sess[k].user

\* The locks as their users see them, who count on a sentence from the SUCCESS of LOCK
\* until they send UNLOCK, CANCEL or LOCK again, or give up a lost connection: with the
\* sessions around them, the locks still keep the promise of LockService, also when LOCK
\* fails after the lock is taken and gives it back, or UNLOCK fails (lock_sentence_ss,
\* unlock_sentence_ss and the order in which they are called).
Told == {p \in User \X Sentence : editing[p[1]] = p[2]}

Promise == INSTANCE LockService WITH granted <- Told

KeepsPromise == Promise!Spec

\* A sentence has at most one session, although the array is searched and
\* compacted between the requests of several users (get_write_session).
OneSessionPerSentence ==
    \A k, l \in 1 .. count : sess[k].idx = sess[l].idx => k = l

\* Nobody else's failure strands a commit: who queued it has not been answered yet and is
\* on his way to process the queue, or is processing it, although the others process it
\* too and may give up in the middle.  Only his own failure to write the main file
\* leaves it behind (enqueue_commit, process_commit_queue).
CommitIsServed ==
    \A k \in DOMAIN queue :
        queue[k].state = "queued" =>
            pc[queue[k].user] \in {"drop", "begin", "merge", "truncate", "rewrite"}

\* Only the thread of a user writes his temporary files, whatever happens to the
\* array of sessions under its pointer (write_file_ss, start_write_session_ss).
TempFilesPrivate ==
    [][\A p \in User \X Sentence :
           temp'[p] \notin {temp[p], NoFile} => pc[p[1]] \in {"copy", "store"}]_temp

\* No word is lost: nobody deletes words, and once UNLOCK was answered SUCCESS, the
\* words whose WRITEs were answered SUCCESS in the session are in the main file,
\* unless an UNDO or a REVERT took them back (process_commit_queue).  The file is
\* looked at when nobody is rewriting it.
Settled == keeping # "refill" /\ \A u \in User : pc[u] \notin {"rewrite", "restore"}

NoLostUpdate == Settled => acked \subseteq WordsIn(main)

\* The same as long as no sentence comes or goes while another session is open
\* (process_commit_queue shifts its index by the change, whichever side it is on),
\* and no UNDO or REVERT goes past the locks of an open session.
NoLostUpdateUndisturbed == ~disturbed => NoLostUpdate

\* UNDO puts back the text from before the last run of the queue that merged something,
\* or before the last REVERT, under the same condition: BeginProcess makes a backup for
\* a run whose commits are then all dropped, too, and one backup for all the commits of a
\* run (process_commit_queue, revert_to_checkpoint, restore_from_undo).
UndoRevertsLastRun ==
    [][\A u \in User : pc[u] = "restore" /\ pc'[u] = "idle" /\ ~disturbed => main' = before.text]_vars

\* Only the last commit is undone (notes.md:8), under the same condition.
UndoRevertsLastCommit ==
    [][\A u \in User : pc[u] = "restore" /\ pc'[u] = "idle" /\ ~disturbed => main' = before.last]_vars

\* A REVERT brings back a text that all words of its day are in: the checkpoint was
\* not taken while the file was being rewritten (create_checkpoint takes no lock).
RevertIsWhole ==
    [][keeping = "refill" /\ keeping' = "idle" => saved \subseteq WordsIn(main')]_vars

\* A commit changes the text of the committed sentence and of no other sentence, under
\* the same condition: the merged text agrees with the main file in front of the
\* sentence and behind it (process_commit_queue).
OthersUntouched ==
    [][\A u \in User :
         pc[u] = "truncate" /\ pc'[u] = "rewrite" /\ ~disturbed' =>
            LET old == Parse(main)
                new == Parse(local[u].buf)
                i   == Head(queue).idx
            IN  /\ SubSeq(new, 1, i) = SubSeq(old, 1, i)
                /\ SubSeq(new, Len(new) - (Len(old) - i - 1) + 1, Len(new))
                     = SubSeq(old, i + 2, Len(old))]_vars

\* A WRITE puts the real tokens of its content in front of the word it names and
\* loses, doubles or moves no other, whatever sentences it splits
\* (insert_word_in_sentence, then write_file_content).  Only an empty copy, whose
\* second sentence nobody could lock but by a race, takes nothing there.
InsertsExactly ==
    [][\A u \in User : pc[u] = "parse" /\ pc'[u] = "store" =>
         LET L    == local[u]
             copy == temp[Key(sess[L.ptr])]
             text == IF copy = NoFile THEN <<>> ELSE copy
             at   == Len(Real(FlattenSeq(SubSeq(Parse(text), 1, L.at)))) + (L.edit[1] - 1)
             old  == Real(text)
         IN  \/ text = <<>> /\ L.at = 1
             \/ Real(local'[u].buf)
                  = (SubSeq(old, 1, at) \o Real(L.edit[2])) \o SubSeq(old, at + 1, Len(old))]_vars

\* A file whose sentences were reparsed once (what the next commit does) is stable:
\* write_file_content does not add its separators again, so text nobody edits stops
\* changing under the commits of others (parse_file, write_file_content).
StableOnDisk ==
    \A file \in ({main, undo, checkpoint} \cup {temp[p] : p \in User \X Sentence}) \ {NoFile} :
        LET again == WriteBack(Parse(file)) IN WriteBack(Parse(again)) = again

\* Every request is answered: commits that wait for the queue's mutex are served,
\* and the loop of process_commit_queue ends.
RequestsAnswered == \A u \in User : pc[u] # "idle" ~> pc[u] = "idle"
=============================================================================
