# TLA+ models of the network file system

This directory holds TLA+ specifications of the file-sharing system in `src/`: a name server
(`nm.c`), storage servers (`ss.c`) and clients (`client.c`) that edit shared text files sentence by
sentence. The specifications are model-checked with TLC on small instances, and the most important
safety properties are proved with TLAPS for every value of the constants. Line numbers refer to the
files in `src/`.

Contents: [the system](#the-system) · [the models](#the-models) ·
[what is checked](#what-is-checked) · [what fails](#what-fails) · [what is proved](#what-is-proved) ·
[what is not modelled](#what-is-not-modelled) · [plan](#plan)

## The system

The name server keeps what is known about every file: which storage server has it, who owns it, who
may read and write it. A client asks it where a file is and then talks to the storage server itself.
To change a file a client locks one sentence (`LOCK`), sends words (`WRITE`), and finishes with
`UNLOCK` (commit) or `CANCEL`. Both kinds of server start a thread per connection.

| part | state | operations | shared with |
|---|---|---|---|
| sentence locks (`ss.c` 509-535, 728-777, 933-976) | `ss.file_locks`: per file a growable array of slots, each with `locked`, `locked_by` and a mutex; `locks_mutex` | `init_file_locks`, `get_sentence_lock`, `lock_sentence_ss`, `unlock_sentence_ss`, `check_file_locks` | all client threads; the thread that serves the name server |
| write sessions (`ss.c` 335-507) | `write_sessions[]`, `write_session_count`, a temporary file per session, `write_sessions_mutex` | `start_write_session_ss`, `get_write_session`, `write_file_ss`, `commit_write_session_ss`, `cancel_write_session_ss` | all client threads, through pointers that outlive the mutex |
| commit queue (`ss.c` 72-333) | per file a linked list and a mutex; the main file; its `.undo` | `enqueue_commit`, `process_commit_queue`, `undo_file_ss` | the threads that commit; readers of the main file |
| file text (`file_ops.c`) | the text as tokens, sentences in memory | `parse_file`, `insert_word_in_sentence`, `write_file_content` | sessions and commits |
| metadata (`nm.c`, `trie.c`) | trie of `FileMetadata`, cache, round-robin counter | CREATE, DELETE, MOVE, ADDACCESS, REMACCESS, READ/WRITE/... lookups, VIEW -l, the file list of a registration | a thread per client and per registration; one connection per storage server |
| access requests (`nm.c` 308-508) | `access_requests[]`, `request_mutex` | REQUESTACCESS, APPROVEREQUEST, DENYREQUEST | the metadata |
| LRU cache (`cache.c`) | hash table, recency list | get, put, remove | the metadata |
| registration, heartbeats (`nm.c` 1287-1517, 1782-1816; `ss.c` 637-726, 1521-1570) | `ss_list[]` with `active`, `last_heartbeat` and two socket numbers; the descriptors of the process | register, heartbeat, monitor, the threads of both connections | every handler that sends a server a command |
| client sessions (`nm.c` 101-162, 1519-1712) | `client_list[]`, registered users | connect, disconnect, compaction | every handler |
| checkpoints (`file_ops.c`, `ss.c`) | copies of the main file | CHECKPOINT, REVERT, list, view | the main file |
| folders (`nm.c`, `ss.c`) | folder records, directories | CREATEFOLDER, MOVE, VIEWFOLDER | metadata, storage |
| client (`client.c`) | its connection, the sentence being written | one command at a time; reconnects and locks again during a WRITE | both servers |

### What is hard about it

- A `SentenceLock` pointer is taken under `locks_mutex` and used after it is released, while
  another LOCK may `realloc` the array (`ss.c` 735).
- `write_sessions` is compacted (`ss.c` 384, 481) while other threads hold pointers into it.
- Commits that change the number of sentences move the sentences on which other commits wait
  (`ss.c` 181), and they are merged in the order of UNLOCK by whichever thread has the queue.
- A commit that cannot be written stays in the queue (`ss.c` 297-303), its UNLOCK is answered SUCCESS all the same
  (490), and the next run of the queue, whoever's it is, merges it. All the commits of a run share one `.undo`.
- The main file is emptied before it is rewritten (`file_ops.c` 357), and it is parsed by
  others without a lock.
- The name server reads a record, changes the copy and writes it back in three calls that are
  locked one by one (`nm.c` 1671-1676 and others); trie, cache, queue and storage servers are
  changed one after the other.
- CHECK_LOCKS and DELETE are two messages (`nm.c` 1069-1090).
- Clients reconnect in the middle of a session (`client.c` 655-822), while the server's thread
  for the old connection goes on; a line whose reply is lost is sent again; SIGINT interrupts a `recv`.
- Four kinds of threads close a storage server's descriptors, by number (`nm.c` 1413-1419, 1367-1377,
  1514, 1797-1810), and the next connection gets the number.
- A handler uses its index into `client_list` after other handlers have compacted it (`nm.c` 1692-1705).
- The cache probes a table that may have no empty slot (`cache.c` 113-117), and removing a key cuts the
  probe sequence of others (`cache.c` 150).
- REVERT and UNDO replace the main file under open sessions; a CHECKPOINT copies it without a lock.

The full list, each at its line with the property that is about it, is under `hazards` in
`PROJECT.json`.

### What makes each part correct

- *Locks*: one holder per sentence; who was told SUCCESS stays the holder until he gives the sentence up, or an
  accident takes the lock from him and from nobody else; a file is deleted only when no sentence is held; no request
  waits for ever.
- *Sessions and commits*: a session exists only under the lock of its sentence; words whose WRITE and UNLOCK were
  answered SUCCESS are in the file; a commit changes its own sentence only; UNDO restores the text before the last run
  of the queue; whatever is queued gets committed, unless its own thread failed.
- *Text*: a WRITE inserts its words at the place it names and moves no other; reparsing what was written gives the
  same sentences.
- *Metadata*: nobody has access the owner did not grant; a command changes nobody's access unless it is one of the
  commands for that; trie, cache and storage servers agree; a server that is started again brings no file a new owner.
- *Cache*: list and table hold the same nodes; a lookup finds what was put last; every operation ends.
- *Registration*: the socket kept for an active server is a connection to it; a server is given up only when it has
  gone or fallen silent, and then for good; nothing is leaked.
- *Client sessions*: a user is logged in once; the list shows who is served; who has left can come back.
- *WRITE command*: the sentence is locked as long as its user believes so; what is committed is what was acknowledged
  since the lock, once, or nothing; the command ends.

## The models

| module | stands for |
|---|---|
| `LockService` | abstract: what the locks promise, without memory, mutexes and connections |
| `SentenceLocks` | the locks of one file, down to the slot's mutex and the freed array |
| `SentenceText` | operators: parsing, inserting, writing back, merging |
| `WriteSessions` | sessions, temporary files, commit queue, UNDO, CHECKPOINT and REVERT of one file; EXTENDS `SentenceText` |
| `WriteDialogue` | one WRITE command: client, connections, and the server as it answers |
| `Namespace` | metadata, folders, cache, access requests, the files and directories on the servers and their registration |
| `LRUCache` | the inside of the cache |
| `SSRegistry` | the name server's list of storage servers, its threads and descriptors |
| `ClientSessions` | the name server's registered users and connected clients |
| `MC...` | instances for TLC |
| `SentenceLocksProofs`, `SentenceTextProofs`, `WriteSessionsProofs`, `NamespaceProofs`, `LRUCacheProofs`, `SSRegistryProofs`, `ClientSessionsProofs`, `WriteDialogueProofs` | the proofs |

The modules meet where one uses what another promises. `SentenceLocks` implements `LockService` for the locks
that have not lapsed (checked and proved); `WriteSessions` takes and gives up a lock in one step, and does so as
`LockService` allows (proved, `KeepsPromise`), so what it shows is about locks that do not lapse.
`WriteDialogue` has the server serve a request in one step, with the outcomes that `WriteSessions` shows: a LOCK that fails
after it got the lock, an UNLOCK that commits, drops, leaves or refuses. `Namespace` uses the cache as a map, lets any exchange
with a storage server break, and lets a server register at any time. `SSRegistry` and `ClientSessions`
say which of these connections there are.

`PROJECT.json` maps each definition to the lines it models.

### SentenceLocks

One file. `holder[i]` is `locked`/`locked_by` of slot `i`, `mutex[i]` the owner of its mutex,
`lockCount` the length of the array. `generation` numbers the allocations of the array: a thread that
took its pointer from an earlier one (`block[c]`) works on freed memory, where what it reads is
arbitrary (`TestLock`, `TestUnlock`) and what it writes nobody sees. `Moves` says whether
`realloc` may move the array, or only extend it in place.

A thread serves LOCK in the steps `Grow`, `LookupLock`, `EnterLock`, `TestLock`, `Claim`,
`SessionStarted` or `SessionFailed`; UNLOCK and CANCEL in `LookupUnlock`, `EnterUnlock`, `TestUnlock`,
`Clear`. These are the points between which `locks_mutex` or the slot's mutex is released, and, inside
the slot's mutex, the single reads and writes, so that mutual exclusion is a result and not an
assumption. The name server's thread scans under `locks_mutex` slot by slot (`ScanStart`, `ScanSlot`,
`ScanEnd`), then deletes. `granted` is what the clients believe: it grows when SUCCESS reaches the client
and shrinks when the client sends UNLOCK, or loses its connection. `DropsBusyConn` says whether a
connection can be lost while its request is being served.

Two accidents take a lock from a client that was told SUCCESS, and the code allows both: its claim was written through
a pointer that `realloc` had made stale (`Claim`), or a request over a connection it has left finds the record to be
its user's and takes it back (`TestUnlock`). The history `lapsed` records to whom they have happened, until that user
asks again, gives up or reconnects; `pulled` records that the array was moved while some thread still had a pointer
into it. What is said of grants is said of those that have not lapsed: the accident harms the one user it happens to,
and no order of requests, failures, other stale pointers and lost connections does the same.

Other files' locks are not modelled: they share only `locks_mutex`, which can delay a step and nothing
else. A new slot of a grown array is unlocked (the slots beyond `lockCount` are so in `Init`, and no step
touches them).

### SentenceText

Tokens are words, sentence ends, runs of blanks and newlines; letters and the width of a run of blanks are abstracted;
which tokens there are is the constant `Token`. `Parse` and `WriteBack` are `parse_file` and `write_file_content`;
`InsertWords` is `insert_word_in_sentence` with its split at the last delimiter and the spare empty slots it leaves;
`Merge` is the body of `process_commit_queue` for one entry. `Parse` is a recursive function over the tokens read so
far, with `Feed` for one of them; no operator is RECURSIVE, so that `WriteSessions` can be proved about.

### WriteSessions

One file, one client per user, and any of `InitialFiles` in it at the start. `sess` and `count` are the array with its
compaction, `local[u].ptr` the pointer that survives the mutex; `temp` are the temporary files, named by user and
sentence. A step is what a thread does between two points where another thread can interfere: a mutex
(`write_sessions_mutex`, the queue's), or a system call on a file that others use. LOCK is `ReceiveLock`,
`LockSentence`, `CountSentences`, `OpenSession`, `StampSession`, `CopyMain`; WRITE is `ReceiveWrite`, `ParseTemp`,
`StoreTemp`; UNLOCK is `ReceiveUnlock`, `Enqueue`, `DropSession`, `BeginProcess`, then `MergeHead`, `Truncate`,
`Rewrite` or `SkipHead` for each entry, `EndProcess`, `UnlockSentence`; CANCEL (`ReceiveCancel`, `DiscardSession`,
`GiveUpLock`) and UNDO follow. CHECKPOINT and REVERT (`Keep`) are served by the one thread that listens to the name
server; a REVERT, like UNDO and a commit, empties the main file before it fills it. Taking and giving up a sentence
lock is one step here: this is what `LockService` promises and `SentenceLocks` shows for the locks that have not
lapsed.

`Fault` stands for the failures the code tests for: a file that cannot be opened for writing, memory that is not
there, a table that is full. `MaxFaults` bounds them. A LOCK then finds the array of sessions full, also of sessions
of other files, and gives its lock back (`OpenSession`); or cannot open its temporary file, and its session goes, and
then the lock (`CopyMain`, `DiscardSession`, `GiveUpLock`). A WRITE is refused (`StoreTemp`). An UNLOCK finds no queue
for the file and no room for one (`Enqueue`), which ends the session without a commit; or makes no backup, which is
ignored (`BeginProcess`); or cannot write the merged file: `GiveUpMerge` leaves the entry, its temporary file and
whatever is behind it in the queue, and the user is answered SUCCESS. Such an entry is merged by the next run, of
whichever user. UNDO and REVERT may fail to open the main file. Not modelled: a file that exists and cannot be read,
and writes that fail after the file was opened (a full disk), whose results the code does not test.

A client that has lost its connection locks again, or gives up (`HangUp`): the server is told nothing and keeps
session and lock. From the LOCK it sends again until that LOCK is answered, a client counts on nothing.

`disturbed` is history: the file changed under an open session or under a queued commit otherwise than by a commit of
another sentence into as many sentences; or a commit, a backup of a run or one of a REVERT failed and the server went
on. It separates what the design keeps from what it does not (`sessions_shift`, `sessions_fault`). An entry's `state`
is history too: `left` once its own thread has given up. `acked` is history: the words whose WRITE and whose session's
UNLOCK were answered SUCCESS, minus what an UNDO or REVERT took back. With `Serial = TRUE` requests are served one at
a time, though sessions still overlap; only an UNLOCK may come while others are on their way, so that several commits
are queued when the queue is processed.

### Namespace

`meta` is the trie, `cache` the cache, `disk` what the storage servers really have, `requests` the queue. A handler
copies a record (`local[u].copy`), asks a server if it must, and writes the copy back in two steps, `UpdateMeta` and
`CachePut`, which all handlers share. The tests a command must pass are guards of its `Receive...` step, since a
refused command changes nothing. An exchange with a storage server can fail: the handlers test no result of
`send_message` and `recv_message`, so that they go on with the status an uninitialized response holds, and the server
has done its part or not (`Broken`). `reqOwner` and `sock` are held across steps by the handlers that do so:
APPROVEREQUEST holds `request_mutex` until its request is gone, VIEW -l holds a server's socket mutex while it writes
the record back.

A storage server that starts sends the list of the files in its root (`Register`). The thread that merges it
(`SearchFile`, `EnterFile`) holds `ss_mutex`, which CREATE takes to choose a server, but reads and writes the
trie in calls of their own, like a handler. `reg` is that thread. Files the trie does not know get the owner "system".
In the initial states files may exist on a server that the name server has yet to hear of.

`folders` is the folder trie, `dirs` the directories the servers really have. CREATEFOLDER (`ReceiveCreateFolder`,
`ChooseServer`, `AskMkdir`, `InsertFolder`) makes the directory, with its parents, on one server and then enters the
folder; MOVE tests the folder trie and has the file's server rename the file, which fails when the directory is on
another server. A name of a folder stands for its full path, `Path` for the directories on it; "" and "/" are both
`Root`, since only VIEWFOLDER tells them apart (a file moved to "/" is not in its listing of the root).

A file name is one that `trie_insert` takes: it refuses a name with a character outside its range (`trie.c` 52-55),
and `handle_create` does not look at the result (`nm.c` 1012), so that such a file is made on its server and known to
nobody. Names are model values here, whose letters are abstracted.

The cache is a map that never evicts, as it is while no more than `CACHE_SIZE` files are cached and no
two of their names collide. What happens otherwise is in `LRUCache`.

### LRUCache

`table` is the hash table, `links` the pointers of the list, whose nodes are named by their slots; each
operation is one step, since it holds the cache's mutex throughout. An operation whose probing never
comes to an end sets `hung` and keeps the mutex: nothing happens after it. `cut` is history: a removal has
emptied a slot in front of a node of the same probe sequence. `Hash` is a constant, so collisions are chosen by the instance.

### SSRegistry

`proc` is the process of a server, which is started, connects both its sockets, registers, beats, and may end at any
point; `wire` and `backlog` are what is under way; `thread[c]` the name server's thread of a connection, `fds` its
descriptors. A descriptor that is closed goes to the next connection that is accepted, which is how a second close of
the same number reaches another connection. A thread blocked in `recv` keeps the connection it was called on
(`thread[c].on`) and uses whatever has the number afterwards. Time is `Tick`: `age` counts it since the last
heartbeat, `Grace` ticks are the 60 seconds. `quiet` and `displaced` are history.

### ClientSessions

`users` is `registered_users`, `list` and `client_count` the client list, whose places past the count keep what was in
them; `handler[c]` is a thread with the index it had when it joined (`idx`) and the name it took from there when it
left. A client may hang up at any time and come back.

### WriteDialogue

The client side is `handle_write` (`client.c` 537-870) with its locals; the steps are the messages it sends and the
replies it waits for. The connections are explicit: requests not served yet and replies not read yet, which a loss may
deliver or drop, and which the server serves even after the client has given the connection up. The server restarts at
any time, which forgets locks, sessions and queued commits and keeps the file. A LOCK may fail once it has the lock:
then the session goes and the lock is given back, also those of an earlier LOCK (`ServeLock`; `unseated` records it of
a LOCK that came late). An UNLOCK merges the queue, with what was left in it; or answers SUCCESS and has dropped the
commit, or left it in the queue (`left`, `dropped`), where another user's UNLOCK finds it (`OthersProcess`); or is
refused because the commit could not be queued, and the lock is free all the same. A word is the number of its line,
so a line that is written twice shows. SIGINT interrupts a `recv`, because `sigint_handler` is installed without
`SA_RESTART`.

## What is checked

Sizes are for the configurations as they are; each run takes at most about two minutes on two cores.

| run | states | what it asks | bounds |
|---|---|---|---|
| `locks` | 91 372 | does the lock table implement `LockService` but for the locks that lapse, is the scan of CHECK_LOCKS sound, is every request answered unless the array was moved under a thread? | 2 users, one with two connections; 2 sentences; the array may move when it grows; only idle connections are lost |
| `text_edits` | 49 985 | do the WRITEs of a session insert exactly what they name, and are the files stable on disk? | 1 user, 6 initial files, each of their sentences and the one after the last, 2 WRITEs of 7 contents at 5 places |
| `sessions_text` | 3 589 023 | are commits of overlapping sessions kept, each in its sentence, also when several are queued, and does UNDO put back the right text, as long as no session is disturbed? | 2 users, 3 sessions, one WRITE each, contents with and without delimiters, 1 failure, 1 UNDO, 2 CHECKPOINTs or REVERTs; requests one after the other but for UNLOCKs; nothing after a disturbance |
| `sessions_threads` | 105 701 | do the tables stay consistent in every interleaving and through a failure, and is every request answered? | 2 users, 3 sessions, no WRITE, 1 lost connection, 1 failure |
| `dialogue` | 414 362 | what is locked and what is committed over connections that break, and does the command end? | 2 lines, 2 reconnections each, all 4 connections that takes, 1 restart, SIGINT, LOCKs and UNLOCKs that fail, a rival |
| `namespace` | 432 035 | what survives every interleaving of commands and registrations, what holds when they come one at a time, is every command answered? | 2 users, 1 file, 2 servers, the root and a folder in another, 4 commands or registrations |
| `cache` | 15 250 | do list and table agree, what may a lookup miss, when does probing not end? | 3 slots, 4 keys, two of which collide, 2 values |
| `registry` | 250 439 | is the list of servers right about connections, and is what is gone forgotten? | 1 server started twice, room for one, 4 descriptors |
| `clients` | 653 912 | is each user logged in once, the list right, and can everybody come back? | 3 users, one connects twice, room for 2 |

The properties, with what each is about, stand at the end of each module. Those that relate several steps
or actors:

- `GrantedIsHeld` and `KeepsPromise` relate what clients were told to the slots, for every lock that has not lapsed.
  Two grants of the same sentence therefore include a lapsed one (theorem `Exclusion`); that there can be two at all
  is `locks_realloc`.
- `ScanSound` compares the scan's answer with a history variable: the slots that were locked from its beginning to its
  end. It says no more than that: a lock may be taken right after the scan, which is the counterexample
  `locks_delete`.
- `InsertsExactly` compares an edit of nested sentences, with splits and spare slots, with insertion into the flat
  sequence of the words of the copy on disk; `StableOnDisk` compares a file parsed and written once with the same file
  parsed and written twice.
- `NoLostUpdateUndisturbed` compares the main file with the words whose senders were told SUCCESS.
- `OthersUntouched` compares the sentences before and after a commit, from both ends.
- `UndoRevertsLastRun` compares the restored file with the text before the last run of the queue that merged a commit,
  or before the last REVERT. `notes.md` 8 has UNDO take back the last commit only; with several commits in a run it
  takes back all of them (`sessions_batch`).
- `SessionUnderLock`, `OneSessionPerSentence`, `CommitIsServed` relate sessions, locks, queue and threads.
  `CommitIsServed` excepts a commit whose own thread failed to write it, and no other: a thread that gives up in the
  middle of the commits of others leaves them to threads that are still on their way.
- `AclWasGranted` relates every access-list entry to a command its owner sent; `ConsistentAlone` relates trie, cache
  and servers; `OnlyAccessCommandsAlone` restricts what a step may change, a registration included.
- `ListIsTable`, `LookupIsLatest`, `HangsOnlyWhenFull` relate the table, the list, and what was put and removed
  before; `OnlyRemovalFrees` says that the eviction of `cache_put` never runs.
- `ActiveHasSocket` relates the list of servers, the descriptors and the threads; `DeactivatedForCause` a flag to what
  happened to connections; `GoneIsForgotten` and `NothingLeft` say what must become of a server that has ended.
- `OneSession`, `ListIsServed`, `SessionEndsWithHandler` relate registry, list and handlers; `CanComeBack` is the
  liveness of logging in again.
- `LockedWhileWriting` relates what the client believes to the server's lock and session; the one way to lose them
  while the connection holds is a LOCK that comes late and fails. `CommitIsSinceLock` relates the file to the replies
  the client has read: SUCCESS does not mean that the words are in the file, since the server may have dropped or left
  the commit, but what is there is what was acknowledged, once, or nothing; `EveryLineAnswered` says that retrying
  ends.

**Why the bounds are enough to be interesting.** Two sentences and two users are what it takes for a session to wait
while another commits and for the session array to be compacted under a pointer. `MaxSess` is two, one cell for each
sentence: a LOCK that gets its sentence never finds the array full of sessions of the same file, since a sentence has
at most one. That the array is full, and a LOCK fails and gives its lock back, is therefore reached through `Fault`,
as when the array is full of sessions of other files. One failure in a run is enough for each failure path by itself,
and for what others do after it. `sessions_threads` has no WRITE, because its questions are not about text, and
`sessions_text` serves requests one after the other but for UNLOCKs, because two threads in the same request lose text
(`sessions_races`); UNLOCKs may meet, so that two commits are queued and one `.undo` covers both. Its properties say
nothing of disturbed files, so it stops where one is (`CONSTRAINT Undisturbed`; `disturbed` is never taken back). A
word behind the delimiter of its sentence and the sentence after the last one are outside its bounds: they are the
counterexamples `sessions_spill` and `sessions_append`. Four commands let an owner create, grant, delete and create
again while another user's stale copy is under way; a registration counts as one of them. One file is enough for the
metadata because no handler but VIEW -l and the registration uses two; the theorems cover any number. `MaxAcl` is one,
so that the list is full, and `MaxRequests` two. Four keys for three slots fill the cache's table, and the two that
collide do so at its last slot, so that probing goes round. A server started twice has all that two starts can do to
each other; two servers are used in `registry_misdirected` only. `Others` lets the list be full before it comes. Two
retries are enough for a line to fail for good, to succeed after a failure, and for a second line to follow either;
the code has five.

**Deadlock** is checked in `locks_delete` and `locks_late_unlock`, where the array grows in place and clients can
always send something. The other configurations switch it off because clients that have used up their bounds stop
(`MaxLocks`, `MaxCommands`, `MaxWrites`, `Starts`, `Visits`), because a WRITE command ends, because a full cache stops
(`hung`), and in `locks`, `locks_dropped`, `locks_realloc` and `locks_stuck` because a lock copied in its locked state
really does stop the server.

**Fairness.** `SF_vars(Serve(u))`: a thread that can go on again and again does. The operating system schedules
threads, and pthread mutexes that keep coming free are obtained in the end; strong fairness is about the latter. A
thread never waits for a client's next message in the middle of a request, so nothing is assumed about clients. In
`Namespace` an exchange with a storage server always ends: the sockets have no receive timeout, so
this assumes that a server answers or its connection breaks. Without it, a hung server stops the handlers
that wait for its socket mutex. A registration sends nothing while it merges its list: weak fairness is enough.

`SSRegistry`, `ClientSessions` and `WriteDialogue` have a specification without fairness, for the safety properties,
and `FairSpec`. Weak fairness of each thread suffices there: no mutex is held across steps. `SSRegistry` adds the
listeners, the monitor and the passing of time; nothing is assumed of storage servers, so that a silent one is
allowed. In `ClientSessions` nothing is assumed of clients, but that no handler is stuck for ever in an exchange with
a storage server (as in `Namespace`): `CanComeBack` needs the handler of a closed connection to notice that it is. In
`WriteDialogue` nothing is assumed of the user and the network: a request that is neither served nor lost is
impossible because the server's threads run.

Each property of these runs also has a mutant: a definition changed as a plausible bug would change it, listed
under `mutants` in `PROJECT.json` and kept beside the original in the modules. TLC finds the property violated
when the mutant takes the original's place.

## What fails

Three configurations check a promise of the code's comments or documentation that the code does not
keep. They are runs, and the counterexamples are complete behaviours of the models; the quotations are under
`findings` in `PROJECT.json`.

| configuration | property | what happens |
|---|---|---|
| `locks_realloc` | `MutualExclusion` | a LOCK of a higher sentence moves the array while another thread waits to enter its slot; the claim is written to freed memory, and another user is granted the same sentence |
| `sessions_shift` | `NoLostUpdate` | both users hold a sentence; a commit to the second sentence adds one; the index of the commit to the first is shifted too, onto a sentence its user never locked |
| `registry_restart` | `RegistrationKeepsSocket` | a server is given up and registers again over a connection with the number its old one had; closing the old socket closes the new connection |

The other configurations are kept as counterexamples to stronger statements than the regular runs make; they
show why the assumptions there are needed.

| configuration | property | what happens |
|---|---|---|
| `locks_delete` | `DeleteOnlyUnlocked` | LOCK is served between CHECK_LOCKS and DELETE |
| `locks_late_unlock` | `MutualExclusion` | an UNLOCK sent over a connection that is then lost is served after its user has locked the sentence again over a new one |
| `locks_stuck` | `AlwaysAnswered` | `realloc` copies a slot whose mutex is held; whoever wants the copy waits for ever |
| `sessions_fault` | `NoLostUpdate` | the merged file cannot be opened for writing: the commit stays in the queue, the result is ignored (`ss.c` 490), and UNLOCK is answered SUCCESS |
| `sessions_batch` | `UndoRevertsLastCommit` | two commits are queued when the queue is processed: there is one backup, made before the first, so UNDO takes back both; `notes.md` 8 has UNDO take back the last commit |
| `sessions_append` | `NoLostUpdate` | LOCK accepts the sentence after the last; the commit finds the index out of bounds, drops the text, and SUCCESS is answered |
| `sessions_spill` | `NoLostUpdate` | a word placed behind a sentence's delimiter belongs, once reparsed, to the next sentence, and the commit takes only its own |
| `sessions_relock` | `NoLostUpdate` | a client that reconnects locks again, which copies the main file over its words |
| `sessions_races` | `NoLostUpdate` | CANCEL compacts the array between finding a session and storing its sentence count, which goes to another cell; the commit is then skipped |
| `sessions_pointer` | `TempFilesPrivate` | through the same gap, one user's LOCK writes another user's temporary file |
| `sessions_checkpoint` | `RevertIsWhole` | a CHECKPOINT copies the main file while a commit has emptied it; the REVERT brings back an empty file |
| `dialogue_all` | `AllMeansAll` | "All writes completed successfully! (2 write(s))", and the first word is not in the file: the connection was lost in between; or UNLOCK was, and no word is; or UNLOCK was answered SUCCESS for a commit that was dropped or left |
| `dialogue_twice` | `NoWordTwice` | a repeated line and its late first copy, served behind the new LOCK, are both written |
| `dialogue_orphan` | `LockGivenBack` | the command has ended without a connection, and the server keeps the lock |
| `namespace_lost_update` | `OnlyAccessCommands` | a handler that only wants to set the access time writes back a copy from before an ADDACCESS or REMACCESS, which was answered SUCCESS; `notes.md` 41 has the name server as the single source of truth for access lists |
| `namespace_moved` | `FoundAlone` | after CREATEFOLDER and MOVE the file is in the folder, and the storage server looks for it in its root |
| `cache_full` | `PutsEnd` | the table has as many slots as the cache's capacity: the put that should evict looks for an empty slot for ever |
| `registry_stale` | `DeactivatedForOwnCause` | the thread of an earlier start's heartbeat connection marks the new start inactive |
| `registry_misdirected` | `CommandsReachServer` | the socket kept for a server that is gone is the number of another server's connection |
| `clients_stuck` | `SessionAlwaysEnds` | a handler deregisters the name it finds at its old index, and its own user's session stays |

Two configurations are kept for the opposite reason: nothing fails in them, and their liveness is more than TLC checks in
a few minutes. `sessions_undo` is `sessions_threads` with an UNDO between all its steps: the four invariants and
`KeepsPromise` hold on its 357 833 states. `locks_dropped` is `locks` with connections that are lost while their requests are served;
`GrantedIsHeld`, `ScanSound` and `KeepsPromise` hold on its 2 804 792 states, as the theorems say.

To reproduce one: `tlc -config locks_stuck.cfg MCSentenceLocks`, and so on (`MCWriteSessions` for `sessions_*` and
`text_edits`, `MCWriteDialogue` for `dialogue*`, `MCNamespace` for `namespace*`, `MCLRUCache` for `cache*`,
`MCSSRegistry` for `registry*`, `MCClientSessions` for `clients*`).

## What is proved

All proofs are checked by TLAPS (SMT, Zenon, and LS4 for the temporal steps). They assume only the named ASSUMEs on
the constants: null values that are not users, connections or records, a total map from connections to users, finitely
many storage servers or users where descriptors are counted, bounds that are naturals, initial files and contents of
WRITEs that are texts, and tokens among which are the delimiter, the blank and the newline. None of them restricts
what `realloc`, the network or a failing call does.

**`SentenceLocksProofs`**, for any number of users, connections and sentences:

- `TypeCorrect`, and `SlotsGuarded`: the inductive invariant `SlotInv`. A thread with a pointer into the array in use
  holds the slot's mutex between entering and leaving it; between the test and the claim the slot is free or its own;
  between the test and the clear it is its own; and no pointer is newer than the array. The last part is what makes a
  pointer stale for good once the array has moved.
- `Handover`: a slot passes from user to user only through the unlocked state. It holds wherever `realloc` puts the
  array and whatever connections are lost.
- `GrantsAreHeld` (`GrantedIsHeld`), `Exclusion`, `Refinement` (`KeepsPromise`), wherever `realloc` puts the array and
  whatever connections are lost, also while they are served: who was told SUCCESS is the holder unless his lock has
  lapsed; of two users told that they have the same sentence, one has a lapsed lock; and for the locks that have not
  lapsed `SentenceLocks` implements `LockService`. A lock lapses in the two ways given under
  [SentenceLocks](#sentencelocks), which are the two bugs `locks_realloc` and `locks_late_unlock`; the theorems say
  that there is no third. `GrantedIsHeld` is not inductive: a clear under way could hit a slot granted since. The
  strengthening (`ExclusionInv`) says that a thread whose client waits for it serves no sentence the client counts on
  (`OneRequest`), that a thread about to answer SUCCESS has the record (`SessionIsHeld`), and that a thread about to
  clear a record either takes it from a user who counts on it no more and is not about to be told of it again, or has
  made the lock lapse (`ClearIsSafe`). It rests on `SlotInv`, which holds between the test and the clear, and on
  nothing about how long a pointer stays fresh.
- `ScanIsSound` (`ScanSound`), likewise: CHECK_LOCKS answers that nothing is locked only if no lock was held from the
  beginning of its scan to the end. The invariant `SteadySlots` says that the cursor has not passed such a lock.

**`WriteSessionsProofs`**, for any number of users, sentences and session cells, any texts and any interleaving:

- `SessionsLocked`: a session exists only under its sentence's lock. `SessionsUnique`: a sentence has at most one. The
  invariant adds that a thread between taking the lock and opening the session has the lock, and that a thread between
  dropping its session and giving up the lock has no session in the array. Compaction is treated once, in `DropInv`:
  the cells left are cells that were there.
- `CommitsServed` (`CommitIsServed`): while a commit is queued, who queued it is on his way to process the queue or is
  processing it, unless his own thread has failed to write the main file (`GiveUpMerge`), in which case the entry is
  marked `left`. The failure of another thread in the middle of the queue leaves nobody behind: those whose commits it
  has not reached are still to come. The invariant `QueueInv` adds that the processing thread has the queue's mutex,
  so that nobody takes the entry it is merging.

- `SessionsKeepPromise` (`KeepsPromise`): with the sessions around them, the locks still implement `LockService`,
  whose `granted` is what each user counts on (`Told`): from the SUCCESS of LOCK until he sends UNLOCK, CANCEL or LOCK
  again, or gives up a lost connection. The invariant `ToldInv` says that he is then the owner and that no request of
  his is under way that ends in giving the lock up. A LOCK sent again that fails takes the lock of the earlier one
  with it (`ss.c` 430-435 and 1225-1228): its user has counted on nothing since he sent it. That the failing LOCKs,
  UNLOCKs and commits of others take nothing from him is what is proved. TLC finds the same on the
  instance of `sessions_undo`.

  Nothing is assumed about `Parse` and `Merge`, which these four proofs never expand.

- `SessionsTyped` (`TypeOK`). The invariant is `Typed`. Compaction moves sessions under the pointers of other threads,
  and what a pointer shows then may be somebody else's session or one that has ended; the proof needs that it is a
  session still. `PointersOK` says so: a pointer a thread is still to follow shows a cell with a user in it, and
  compaction puts a user's cell in the place of another (`CellsKept`). `QueueOK` says that a queued entry names a
  sentence and a temporary file, `BackupOK` that the checkpoint being copied and the `.undo` being restored are there
  when they are read, which needs that UNDO is served once at a time.
- `FilesStable` (`StableOnDisk`): by `RewrittenOnce`, since whatever the files hold is a text.
- `WritesInsert` (`InsertsExactly`): by `InsertWordsReal` and `WriteBackReal`, from the copy the thread has parsed to
  the buffer it will store. The exception in the property is the sentence after the only one of an empty copy.

**`SentenceTextProofs`**, for any set of tokens, and texts and sentences of any length:

- `ParseReal`, `WriteBackReal`: reading keeps the words and delimiters, in order; so does writing. `InsertWordsReal`:
  an insertion puts the content at the word it is given and moves no other, whether it splits the sentence or not.
  `RewrittenOnce`: reading and writing back is idempotent. The induction theorems of the library take an operator,
  which the provers here cannot instantiate; the lemma `Induction` states them for a set of naturals instead, from the
  well-foundedness of `<`, and the recursive definitions are met through it, one token or one sentence at a time
  (`FeedStep`, `RewriteGrows`).

**`NamespaceProofs`**, for any users, files, servers and folders:

- `TypeCorrect`, `OwnersGrant` (`AclWasGranted`), `RequestsUnique` (`NoDuplicateRequests`). Whether a record in
  the trie was granted depends on every copy of it that will be written back, so the invariant says of
  each copy a handler carries (`IInv`), and of the one a registration carries (`RegFits`), what `AclWasGranted` says of the
  trie; grants are never forgotten, so a stale
  copy stays a granted one. And it says that the handler of an approval holds `request_mutex`, so that the
  request it will remove is still at its place.

- `Consistency` (`ConsistentAlone`), while commands and registrations come one at a time: an idle name server has a
  record of every file of the servers, at its place, no other record, nothing else in its cache, and no folder without
  its directories. `AccessCommands` (`OnlyAccessCommandsAlone`), while they do: no record that is written back changes
  an owner, or the access of somebody the command does not name. `ConsistentAlone` speaks of an idle name server and
  says nothing of the steps between, so it is not inductive. The invariant `Alone` says, for each step of each
  handler, how far its command has come: `Settled` that trie, cache and disks agree on all files but the one at hand,
  `AtHand` what is already changed of that one, `Fresh` that the copies VIEW -l has still to write back are those of
  the trie, `Merging` the same for a registration. It also says that nobody else is at work: the history `disturbed`
  is set as soon as two overlap, and stays set.

**`LRUCacheProofs`**, for any keys, values, hash function and capacity:

- `TypeCorrect`, `ListAgrees` (`ListIsTable`), `LookupsCorrect` (`LookupIsLatest`), `HangsExplained`
  (`HangsOnlyWhenFull`), `NeverEvicts` (`OnlyRemovalFrees`). The list is treated by lemmas about taking a node out and
  putting it at the head, which keep it linked both ways. For lookups the invariant says that until a
  removal has cut a probe sequence, no key has two nodes and every slot in front of a node, from its hash on, is occupied; so
  probing meets the node before an empty slot.

**`SSRegistryProofs`**, for any storage servers, numbers of starts, descriptors, capacity and grace period:

- `TypeCorrect`, `ActiveSocket` (`ActiveHasSocket`), `DeactivationHasCause` (`DeactivatedForCause`). Descriptors are
  closed by number and given to the next connection, so the invariant says what a number a thread kept still
  means: it is its own connection's, unless the connection is among the `displaced` (`Sockets`, `Watching`);
  a connection is accepted once, which needs that each waits at one place of a backlog (`Waiting`); a command
  thread polls for every active server, over the socket in its entry (`Polled`); and the age of an entry is the
  time since the last heartbeat (`Ages`), which makes the monitor's reason a real one.

**`ClientSessionsProofs`**, for any users, numbers of visits, capacities and descriptors:

- `TypeCorrect`, `SingleSession` (`OneSession`), `ListExact` (`ListIsServed`), `SessionsEnd`
  (`SessionEndsWithHandler`). The entries up to `client_count` and the handlers that are served correspond one to one
  (`Entries`), by their descriptors, which are distinct among live handlers (`Descriptors`); their numbers are equal
  (`Counted`), so that the compaction never runs past the array. An entry is at its handler's index unless it was
  moved (`InPlace`), hence the name a handler takes from there is its own (`OwnName`), and an active session has a
  handler that will end it (`Held`).

**`WriteDialogueProofs`**, for any numbers of lines, retries, connections and restarts:

- `TypeCorrect`, `KeepsLock` (`LockedWhileWriting`): the client that goes on writing over the connection of the last
  grant has lock and session, whatever fails, unless a LOCK that came late got the lock and failed.
  `CommitsAcknowledged` (`CommitIsSinceLock`): the file holds the lines acknowledged since the last grant, each once,
  or nothing; after a SUCCESS it holds them unless the server dropped or left the commit; after a refusal it holds
  nothing, and nothing is left in the queue. Both depend on what is under way over every connection, the abandoned
  ones included, so the invariant says which requests and replies the channels can hold at each step of `handle_write`
  (`Talk`: while it locks, writes, unlocks, and while nothing is under way), that UNLOCK is sent once and alone
  (`UnlockOnce`), that CANCEL is a command's last request (`CancelLast`), that the connection in use is the last one
  opened (`Current`), that nothing is committed or left before UNLOCK (`NotYet`), that a session is open only under
  the lock (`Seats`), and that what is left in the queue is the commit of this command (`Leftover`). Late requests are
  what `stray` records: one that is served after the client gave it up.

Only model-checked, not proved:

- Liveness (`RequestsAnswered`, `CommandsAnswered`, `GoneIsForgotten`, `NothingLeft`, `CanComeBack`,
  `EveryLineAnswered`), which needs ENABLED and is out of this prover's reach.
- `NoLostUpdateUndisturbed`, `OthersUntouched` and `UndoRevertsLastRun`, which do not hold for every value of the
  constants. In `sessions_spill`, `sessions_append` and `sessions_races` words are lost though no session was
  disturbed; a commit to a file without blanks between its sentences ("a.b.") adds one to the sentence after its own;
  and a commit that is dropped (`sessions_append`) makes a backup all the same, so that an UNDO after it does not go
  back before the commit in front of it. The bounds of `sessions_text` leave these out; an assumption that did so in
  general would have to say of all contents what becomes of them when they are parsed again.
- The counterexamples of [what fails](#what-fails), which are existence statements.

## What is not modelled

- VIEWFOLDER, which only lists, and what a folder's record holds besides its path: nothing reads it.
- READ and STREAM on a storage server: they change nothing. What they can see is what a LOCK can see that parses the
  file while it is rewritten, and that is modelled. LISTCHECKPOINTS, VIEWCHECKPOINT, VIEWREQUESTS, LIST and INFO only
  read.
- Message encoding (`common.c`), logging, the client's command line and its other commands (one request and one reply
  each), EXEC's shell: input and output without a state others depend on. That a connection ends, or a signal comes,
  in the middle of an exchange is modelled where it is handled.
- `cache_clear`, which only the exit of the name server calls.
- Letters, times, sizes, the growth of arrays, the limits `MAX_WORD` and `BUFFER_SIZE`: abstracted. A property about
  truncated words would need them.
- A user called "system", the owner of files that servers bring.
- The temporary files and checkpoints among the files that a restarted server brings (`ss.c` 707).
- DELETE of a file leaves its sessions and temporary files behind. `SentenceLocks` has the file's existence;
  `WriteSessions` works on one file that stays.

## Plan

The components come in the order of what a failure would cost; all of them are there. What is left:

1. DELETE of a file with open sessions, in `WriteSessions`.
2. `Namespace` with a cache that may lose entries, as `LRUCache` says it does once a probe sequence is cut.
3. A proof that a commit of plain words, into a sentence that ends with its delimiter, keeps the sentences around it: the lemmas
   of `SentenceTextProofs` say what `Parse` and `Merge` do to the words of the whole file, not to one sentence of it.
