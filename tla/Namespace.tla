----------------------------- MODULE Namespace -----------------------------
(***************************************************************************)
(* The file metadata of the name server (src/nm.c): the trie of metadata   *)
(* records, the cache in front of it, the queue of access requests, and    *)
(* the files and folders the storage servers really have.                  *)
(*                                                                         *)
(* Each client is served by a thread of its own.  The trie, the cache and  *)
(* the queue are locked one call at a time: trie_search returns a copy of  *)
(* the record, which the handler changes and writes back with trie_update  *)
(* and cache_put, each a step of its own here.  A request that is refused  *)
(* by its first test changes nothing and is not a step.  A storage server  *)
(* that starts, for the first time or again, brings the list of its files, *)
(* which a thread of its own merges into the trie.                         *)
(*                                                                         *)
(* Abstracted: sizes and times in a record, the letters of the trie, the   *)
(* table inside the cache (cache.c), the sentence locks a DELETE asks for  *)
(* (SentenceLocks), and which servers are connected (SSRegistry).  Every   *)
(* user is registered (user_exists), none under the name "system".  Two    *)
(* reads of the trie by the same test are one step.                        *)
(***************************************************************************)
EXTENDS Integers, SequencesExt

CONSTANTS
    User, NoUser,
    System,          \* "system", the owner of the files that servers bring
    File,
    NoMeta,          \* no record: the file is unknown
    Servers,         \* number of storage servers, 0 .. Servers - 1
    Folder, Root,    \* Root is the storage directory, "" or "/" in folder_path
    Directory,       \* directories of the servers, those of the folders among them
    Path,            \* the directories on the path of each folder, its own included
    MaxAcl,          \* MAX_ACL_ENTRIES
    MaxRequests,     \* MAX_FILES * 10, the size of access_requests
    MaxCommands      \* bound: commands sent by all clients, and registrations

Server == 0 .. Servers - 1
Level  == {"none", "R", "RW"}        \* no ACL entry, ACCESS_READ, ACCESS_READWRITE
Meta   == [owner : User \cup {System}, ss : Server, folder : Folder, acl : [User -> Level]]

ASSUME NamespaceAssumption ==
    /\ NoUser \notin User /\ System \notin User
    /\ NoMeta \notin Meta
    /\ User # {} /\ File # {}
    /\ Servers \in Nat \ {0}
    /\ Root \in Folder
    /\ Path \in [Folder -> SUBSET Directory] /\ Folder \ {Root} \subseteq Directory
    /\ MaxAcl \in Nat /\ MaxRequests \in Nat

VARIABLES
    meta,            \* file_trie: the record of each file, or NoMeta
    cache,           \* the cache: the record it holds of each file, or NoMeta
    requests,        \* access_requests; request_id k of the code is k + 1 here
    reqOwner,        \* who holds request_mutex across steps
    sock,            \* who holds each server's socket mutex across steps
    next,            \* next_ss_id modulo the number of servers
    disk,            \* <<s, f, d>>: server s has file f in folder d
    pc, local,       \* each client's thread, see NoLocals
    folders,         \* folder_trie: the folders that are known
    dirs,            \* <<s, e>>: server s has directory e
    reg,             \* the thread that registers a server, see NoRegistration
    grants,          \* history: <<o, f, t, a>>: owner o granted t access a to f
    disturbed,       \* history: two of them worked at once, or a connection broke
    commands         \* how much of the bound is used up

queue   == <<requests, reqOwner>>
servers == <<sock, next, disk>>
history == <<grants, disturbed, commands>>
clients == <<pc, local>>
tree    == <<folders, dirs>>
vars    == <<meta, cache, queue, servers, clients, tree, reg, history>>

-----------------------------------------------------------------------------
\* The locals of a handler: the file; the server chosen; the copy of the record;
\* the folder of a MOVE or CREATEFOLDER; the access asked for; whose access the command changes;
\* the request it approves; the records VIEW -l has still to refresh; whether an
\* access time is written back.
NoLocals == [file |-> CHOOSE f \in File : TRUE, ss |-> 0, copy |-> NoMeta, to |-> Root,
             access |-> "none", change |-> NoUser, req |-> 0,
             left |-> [f \in File |-> NoMeta], touch |-> FALSE]

NewMeta(u, s) == [owner |-> u, ss |-> s, folder |-> Root, acl |-> [t \in User |-> "none"]]

\* handle_ss_connection: the server, the files of its list that are not merged yet,
\* the file at hand and the copy of its record, if there is one.  The thread holds
\* ss_mutex, so there is one at a time.
NoRegistration == [pc |-> "idle", ss |-> 0, left |-> {}, file |-> NoLocals.file, copy |-> NoMeta]

Registering(s, files) == [NoRegistration EXCEPT !.pc = "search", !.ss = s, !.left = files]

\* The directories that mkdir, called for each part of the path, leaves on server s.
MkdirAll(s, d) == dirs \cup {<<s, e>> : e \in Path[d]}

\* Who created the files that exist at first.
Creator == CHOOSE u \in User : TRUE

\* Any set of files exists, created by one user, and is cached.  The first server
\* may be about to bring others, which it had before.  There is no folder.
Init ==
    /\ meta \in [File -> {NoMeta, NewMeta(Creator, 0)}]
    /\ cache = meta
    /\ requests = <<>> /\ reqOwner = NoUser
    /\ sock = [s \in Server |-> NoUser] /\ next = 0
    /\ \E files \in SUBSET File :
         /\ {f \in File : meta[f] # NoMeta} \subseteq files
         /\ disk = {<<0, f, Root>> : f \in files}
         /\ reg = IF \E f \in files : meta[f] = NoMeta
                    THEN Registering(0, files) ELSE NoRegistration
    /\ folders = {} /\ dirs = {}
    /\ pc = [u \in User |-> "idle"] /\ local = [u \in User |-> NoLocals]
    /\ grants = {} /\ disturbed = FALSE /\ commands = 0

GoWith(u, l, L) == /\ pc' = [pc EXCEPT ![u] = l]
                   /\ local' = [local EXCEPT ![u] = L]
Goto(u, l) == GoWith(u, l, local[u])
Reply(u)   == GoWith(u, "idle", NoLocals)

\* A command is being served, or a server registered.
Busy == reg.pc # "idle" \/ \E u \in User : pc[u] # "idle"

\* A command of u is read from its socket and passes its first tests.
Begin(u, l, L) ==
    /\ pc[u] = "idle"
    /\ commands < MaxCommands
    /\ commands' = commands + 1
    /\ disturbed' = (disturbed \/ Busy)
    /\ GoWith(u, l, L)

Exists(f)     == meta[f] # NoMeta
OwnedBy(f, u) == Exists(f) /\ meta[f].owner = u

\* check_access: the levels that satisfy ACCESS_READ and ACCESS_WRITE; none
\* satisfies ACCESS_READWRITE, which only the owner has.
CanRead  == {"R", "RW"}
CanWrite == {"RW"}
HasAccess(f, u, levels) == Exists(f) /\ (meta[f].owner = u \/ meta[f].acl[u] \in levels)

\* The copy with t's entry set; a full list is left as it is.
SetAccess(m, t, a) ==
    IF m.acl[t] # "none" \/ Cardinality({v \in User : m.acl[v] # "none"}) < MaxAcl
      THEN [m EXCEPT !.acl[t] = a] ELSE m

-----------------------------------------------------------------------------
\* A server's connection breaks during an exchange: the status is whatever the
\* response, which is not initialized, holds; the server has done its part or not.
Broken == disturbed' = TRUE

\* CREATE: the name is free in the trie; a server is chosen round robin;
ReceiveCreate(u, f) ==
    /\ ~Exists(f)
    /\ Begin(u, "choose", [NoLocals EXCEPT !.file = f])
    /\ UNCHANGED <<meta, cache, queue, servers, grants>>

\* Mutant of ChooseServer: the counter is not reduced.
ChooseServerAlong(u) ==
    /\ pc[u] = "choose" /\ reg.pc = "idle"
    /\ next' = next + 1
    /\ GoWith(u, IF local[u].to = Root THEN "create" ELSE "mkdir", [local[u] EXCEPT !.ss = next])
    /\ UNCHANGED <<meta, cache, queue, sock, disk, history>>

ChooseServer(u) ==
    /\ pc[u] = "choose" /\ reg.pc = "idle"
    /\ next' = (next + 1) % Servers
    /\ GoWith(u, IF local[u].to = Root THEN "create" ELSE "mkdir", [local[u] EXCEPT !.ss = next])
    /\ UNCHANGED <<meta, cache, queue, sock, disk, history>>

\* the server creates the file in its root unless it is there;
AskCreate(u) ==
    LET s     == local[u].ss
        place == <<s, local[u].file, Root>>
    IN  /\ pc[u] = "create"
        /\ sock[s] = NoUser
        /\ \/ place \in disk /\ Reply(u) /\ UNCHANGED <<disk, disturbed>>
           \/ /\ place \notin disk /\ disk' = disk \cup {place}
              /\ Goto(u, "insert") /\ UNCHANGED disturbed
           \/ /\ Broken
              /\ disk' \in {disk, disk \cup {place}}
              /\ Goto(u, "insert") \/ Reply(u)
        /\ UNCHANGED <<meta, cache, queue, sock, next, grants, commands>>

\* trie_insert puts the new record in, over any other.
InsertMeta(u) ==
    LET m == NewMeta(u, local[u].ss)
    IN  /\ pc[u] = "insert"
        /\ meta' = [meta EXCEPT ![local[u].file] = m]
        /\ GoWith(u, "cachePut", [local[u] EXCEPT !.copy = m])
        /\ UNCHANGED <<cache, queue, servers, history>>

-----------------------------------------------------------------------------
\* DELETE, by the owner: the server is asked whether the file is locked and then
\* to unlink it from its root, with its socket mutex held throughout;
ReceiveDelete(u, f) ==
    /\ OwnedBy(f, u)
    /\ Begin(u, "delete", [NoLocals EXCEPT !.file = f, !.ss = meta[f].ss])
    /\ UNCHANGED <<meta, cache, queue, servers, grants>>

\* refused when a sentence is locked or the file is not there;
AskDelete(u) ==
    LET s     == local[u].ss
        place == <<s, local[u].file, Root>>
    IN  /\ pc[u] = "delete"
        /\ sock[s] = NoUser
        /\ \/ Reply(u) /\ UNCHANGED <<disk, disturbed>>
           \/ /\ place \in disk /\ disk' = disk \ {place}
              /\ Goto(u, "remove") /\ UNCHANGED disturbed
           \/ /\ Broken
              /\ disk' \in {disk, disk \ {place}}
              /\ Goto(u, "remove") \/ Reply(u)
        /\ UNCHANGED <<meta, cache, queue, sock, next, grants, commands>>

\* then the record goes from the trie and from the cache.
RemoveMeta(u) ==
    /\ pc[u] = "remove"
    /\ meta' = [meta EXCEPT ![local[u].file] = NoMeta]
    /\ Goto(u, "cacheRemove")
    /\ UNCHANGED <<cache, queue, servers, history>>

\* Mutant of CacheRemove: the cache is forgotten.
CacheRemoveForgets(u) ==
    /\ pc[u] = "cacheRemove"
    /\ Reply(u)
    /\ UNCHANGED <<meta, cache, queue, servers, history>>

CacheRemove(u) ==
    /\ pc[u] = "cacheRemove"
    /\ cache' = [cache EXCEPT ![local[u].file] = NoMeta]
    /\ Reply(u)
    /\ UNCHANGED <<meta, queue, servers, history>>

-----------------------------------------------------------------------------
\* ADDACCESS and REMACCESS, by the owner: the copy gets, or loses, t's entry.
ReceiveAddAccess(u, f, t, a) ==
    /\ OwnedBy(f, u)
    /\ t # u
    /\ Begin(u, "update", [NoLocals EXCEPT !.file = f, !.change = t,
                                           !.copy = SetAccess(meta[f], t, a)])
    /\ grants' = grants \cup {<<u, f, t, a>>}
    /\ UNCHANGED <<meta, cache, queue, servers>>

ReceiveRemAccess(u, f, t) ==
    /\ OwnedBy(f, u)
    /\ Begin(u, "update", [NoLocals EXCEPT !.file = f, !.change = t,
                                           !.copy = [meta[f] EXCEPT !.acl[t] = "none"]])
    /\ UNCHANGED <<meta, cache, queue, servers, grants>>

\* REQUESTACCESS: refused to a user who has the access.  READWRITE, which -W asks
\* for, is never found in the list.
ReceiveRequest(u, f, a) ==
    /\ Exists(f)
    /\ ~HasAccess(f, u, IF a = "R" THEN CanRead ELSE {})
    /\ Begin(u, "append", [NoLocals EXCEPT !.file = f, !.access = a])
    /\ UNCHANGED <<meta, cache, queue, servers, grants>>

\* Mutant of AppendRequest: the queue is not searched.
AppendRequestAgain(u) ==
    /\ pc[u] = "append"
    /\ reqOwner = NoUser
    /\ Len(requests) < MaxRequests
    /\ requests' = Append(requests, [user |-> u, file |-> local[u].file,
                                     access |-> local[u].access])
    /\ Reply(u)
    /\ UNCHANGED <<meta, cache, reqOwner, servers, history>>

AppendRequest(u) ==
    LET r == [user |-> u, file |-> local[u].file, access |-> local[u].access]
    IN  /\ pc[u] = "append"
        /\ reqOwner = NoUser
        /\ requests' = IF r \in ToSet(requests) \/ Len(requests) >= MaxRequests
                         THEN requests ELSE Append(requests, r)
        /\ Reply(u)
        /\ UNCHANGED <<meta, cache, reqOwner, servers, history>>

\* Mutant of ReceiveApprove: whoever sends it may approve.
ReceiveApproveAnyone(u, k) ==
    LET r == requests[k]
    IN  /\ reqOwner = NoUser
        /\ k \in DOMAIN requests
        /\ Exists(r.file)
        /\ reqOwner' = u
        /\ Begin(u, "update", [NoLocals EXCEPT !.file = r.file, !.change = r.user, !.req = k,
                                  !.copy = SetAccess(meta[r.file], r.user, r.access)])
        /\ grants' = grants \cup {<<u, r.file, r.user, r.access>>}
        /\ UNCHANGED <<meta, cache, requests, servers>>

\* APPROVEREQUEST, by the owner, names a request by its place in the queue.  The
\* queue's mutex is held until the record is written back and the request gone.
ReceiveApprove(u, k) ==
    LET r == requests[k]
    IN  /\ reqOwner = NoUser
        /\ k \in DOMAIN requests
        /\ OwnedBy(r.file, u)
        /\ reqOwner' = u
        /\ Begin(u, "update", [NoLocals EXCEPT !.file = r.file, !.change = r.user, !.req = k,
                                  !.copy = SetAccess(meta[r.file], r.user, r.access)])
        /\ grants' = grants \cup {<<u, r.file, r.user, r.access>>}
        /\ UNCHANGED <<meta, cache, requests, servers>>

\* Mutant of DropRequest: the mutex is kept.
DropRequestKeeps(u) ==
    /\ pc[u] = "drop"
    /\ requests' = RemoveAt(requests, local[u].req)
    /\ Reply(u)
    /\ UNCHANGED <<meta, cache, reqOwner, servers, history>>

DropRequest(u) ==
    /\ pc[u] = "drop"
    /\ requests' = RemoveAt(requests, local[u].req)
    /\ reqOwner' = NoUser
    /\ Reply(u)
    /\ UNCHANGED <<meta, cache, servers, history>>

\* DENYREQUEST, by the owner.
ReceiveDeny(u, k) ==
    /\ reqOwner = NoUser
    /\ k \in DOMAIN requests
    /\ OwnedBy(requests[k].file, u)
    /\ requests' = RemoveAt(requests, k)
    /\ Begin(u, "idle", NoLocals)
    /\ UNCHANGED <<meta, cache, reqOwner, servers, grants>>

-----------------------------------------------------------------------------
\* There is a record of the folder.
Known(d) == d \in folders

\* CREATEFOLDER: the folder is unknown; a server is chosen round robin (ChooseServer);
ReceiveCreateFolder(u, d) ==
    /\ d # Root
    /\ ~Known(d)
    /\ Begin(u, "choose", [NoLocals EXCEPT !.to = d])
    /\ UNCHANGED <<meta, cache, queue, servers, tree, grants>>

\* the server makes the directories of its path, or refuses (it is not active, or
\* has the directory);
AskMkdir(u) ==
    LET s == local[u].ss
        d == local[u].to
    IN  /\ pc[u] = "mkdir"
        /\ sock[s] = NoUser
        /\ \/ Reply(u) /\ UNCHANGED <<dirs, disturbed>>
           \/ /\ <<s, d>> \notin dirs /\ dirs' = MkdirAll(s, d)
              /\ Goto(u, "enterFolder") /\ UNCHANGED disturbed
           \/ /\ Broken
              /\ dirs' \in {dirs, MkdirAll(s, d)}
              /\ Goto(u, "enterFolder") \/ Reply(u)
        /\ UNCHANGED <<meta, cache, queue, servers, folders, grants, commands>>

\* then the folder is known.
InsertFolder(u) ==
    /\ pc[u] = "enterFolder"
    /\ folders' = folders \cup {local[u].to}
    /\ Reply(u)
    /\ UNCHANGED <<meta, cache, queue, servers, dirs, history>>

\* Server s renames file f, which it has in folder d, to folder e, whose directory
\* it has.
Rename(s, f, d, e) ==
    /\ <<s, f, d>> \in disk
    /\ e = Root \/ <<s, e>> \in dirs
    /\ disk' = (disk \ {<<s, f, d>>}) \cup {<<s, f, e>>}

\* MOVE, by the owner or a user who may write, to a folder that is known:
ReceiveMove(u, f, d) ==
    /\ HasAccess(f, u, CanWrite)
    /\ d = Root \/ Known(d)
    /\ Begin(u, "move", [NoLocals EXCEPT !.file = f, !.copy = meta[f], !.to = d])
    /\ UNCHANGED <<meta, cache, queue, servers, grants>>

\* the server renames the file, from the folder of the copy, or refuses (it is not
\* active; rename finds no such file, or no such directory, which may be on another
\* server).
AskMove(u) ==
    LET m == local[u].copy
        Renamed == Rename(m.ss, local[u].file, m.folder, local[u].to)
        Moved   == GoWith(u, "update", [local[u] EXCEPT !.copy.folder = local[u].to])
    IN  /\ pc[u] = "move"
        /\ sock[m.ss] = NoUser
        /\ \/ Reply(u) /\ UNCHANGED <<disk, disturbed>>
           \/ Renamed /\ Moved /\ UNCHANGED disturbed
           \/ /\ Broken
              /\ Moved \/ Reply(u)
              /\ UNCHANGED disk \/ Renamed
        /\ UNCHANGED <<meta, cache, queue, sock, next, grants, commands>>

-----------------------------------------------------------------------------
\* READ, STREAM, WRITE and UNDO ask where the file is, and the access is recorded;
\* WRITE and UNDO need CanWrite, which implies CanRead.
ReceiveOpen(u, f) ==
    /\ HasAccess(f, u, CanRead)
    /\ Begin(u, "find", [NoLocals EXCEPT !.file = f, !.touch = TRUE])
    /\ UNCHANGED <<meta, cache, queue, servers, grants>>

\* INFO, EXEC and the checkpoint commands only look the file's server up.
ReceiveLookup(u, f) ==
    /\ Exists(f)
    /\ Begin(u, "find", [NoLocals EXCEPT !.file = f])
    /\ UNCHANGED <<meta, cache, queue, servers, grants>>

\* find_ss_for_file: the cache, else the trie, whose record is put in the cache.
Found(u) == IF local[u].touch THEN Goto(u, "reread") ELSE Reply(u)

FindServer(u) ==
    LET f == local[u].file
    IN  /\ pc[u] = "find"
        /\ \/ cache[f] # NoMeta /\ Found(u)
           \/ cache[f] = NoMeta /\ ~Exists(f) /\ Reply(u)
           \/ /\ cache[f] = NoMeta
              /\ Exists(f)
              /\ GoWith(u, "findPut", [local[u] EXCEPT !.copy = meta[f]])
        /\ UNCHANGED <<meta, cache, queue, servers, history>>

FindPut(u) ==
    /\ pc[u] = "findPut"
    /\ cache' = [cache EXCEPT ![local[u].file] = local[u].copy]
    /\ Found(u)
    /\ UNCHANGED <<meta, queue, servers, history>>

\* The record is read again, to write its access time back.
Reread(u) ==
    LET f == local[u].file
    IN  /\ pc[u] = "reread"
        /\ IF Exists(f) THEN GoWith(u, "update", [local[u] EXCEPT !.copy = meta[f]])
                        ELSE Reply(u)
        /\ UNCHANGED <<meta, cache, queue, servers, history>>

-----------------------------------------------------------------------------
\* VIEW -l copies all records,
ReceiveView(u) ==
    /\ Begin(u, "refresh", [NoLocals EXCEPT !.left = meta])
    /\ UNCHANGED <<meta, cache, queue, servers, grants>>

\* then asks each file's server for its size, and writes the copy back with the
\* server's socket mutex held.  A server that is not connected, does not answer, or
\* does not have the file in its root, is passed over.
Refresh(u) ==
    LET left == local[u].left
        todo == {f \in File : left[f] # NoMeta}
        Next1(f) == [local[u] EXCEPT !.left[f] = NoMeta, !.file = f, !.copy = left[f]]
    IN  /\ pc[u] = "refresh"
        /\ \/ todo = {} /\ Reply(u) /\ UNCHANGED sock
           \/ \E f \in todo :
                /\ sock[left[f].ss] = NoUser
                /\ \/ /\ <<left[f].ss, f, Root>> \in disk
                      /\ sock' = [sock EXCEPT ![left[f].ss] = u]
                      /\ GoWith(u, "update", Next1(f))
                   \/ UNCHANGED sock /\ GoWith(u, "refresh", Next1(f))
        /\ UNCHANGED <<meta, cache, queue, next, disk, history>>

-----------------------------------------------------------------------------
\* trie_update: the copy replaces the record, if there is one;
UpdateMeta(u) ==
    LET f == local[u].file
    IN  /\ pc[u] = "update"
        /\ meta' = IF Exists(f) THEN [meta EXCEPT ![f] = local[u].copy] ELSE meta
        /\ Goto(u, "cachePut")
        /\ UNCHANGED <<cache, queue, servers, history>>

\* cache_put; then an approval drops its request, VIEW -l goes on, and the others
\* have answered.
CachePut(u) ==
    LET L == local[u]
    IN  /\ pc[u] = "cachePut"
        /\ cache' = [cache EXCEPT ![L.file] = L.copy]
        /\ \/ L.req # 0 /\ Goto(u, "drop") /\ UNCHANGED sock
           \/ L.req = 0 /\ sock[L.copy.ss] = u /\ Goto(u, "refresh")
                /\ sock' = [sock EXCEPT ![L.copy.ss] = NoUser]
           \/ L.req = 0 /\ sock[L.copy.ss] # u /\ Reply(u) /\ UNCHANGED sock
        /\ UNCHANGED <<meta, queue, next, disk, history>>

-----------------------------------------------------------------------------
\* A server that has started sends the list of the files in its root.
Register(s) ==
    /\ reg.pc = "idle"
    /\ commands < MaxCommands
    /\ commands' = commands + 1
    /\ disturbed' = (disturbed \/ Busy)
    /\ reg' = Registering(s, {f \in File : <<s, f, Root>> \in disk})
    /\ UNCHANGED <<meta, cache, queue, servers, clients, tree, grants>>

\* One file of the list is looked up, and at the end ss_mutex is given back.  A copy
\* gets the number of the server.
SearchFile ==
    /\ reg.pc = "search"
    /\ \/ reg.left = {} /\ reg' = NoRegistration
       \/ \E f \in reg.left :
            reg' = [reg EXCEPT !.pc = "enter", !.left = @ \ {f}, !.file = f,
                       !.copy = IF Exists(f) THEN [meta[f] EXCEPT !.ss = reg.ss] ELSE NoMeta]
    /\ UNCHANGED <<meta, cache, queue, servers, clients, tree, history>>

\* Mutant of Brought: what is known of the file is not preserved.
BroughtAnew(f) == NewMeta(System, reg.ss)

\* The record of a file that was found is updated, if there still is one; that of a
\* new file goes in over any other.
Brought(f) ==
    IF reg.copy = NoMeta THEN NewMeta(System, reg.ss)
                         ELSE IF Exists(f) THEN reg.copy ELSE NoMeta

EnterFile ==
    /\ reg.pc = "enter"
    /\ meta' = [meta EXCEPT ![reg.file] = Brought(reg.file)]
    /\ reg' = [reg EXCEPT !.pc = "search", !.copy = NoMeta]
    /\ UNCHANGED <<cache, queue, servers, clients, tree, history>>

-----------------------------------------------------------------------------
Command(u) ==
    \/ \E f \in File :
         \/ ReceiveCreate(u, f) \/ ReceiveDelete(u, f)
         \/ ReceiveOpen(u, f) \/ ReceiveLookup(u, f)
         \/ \E d \in Folder : ReceiveMove(u, f, d)
         \/ \E a \in Level \ {"none"} : ReceiveRequest(u, f, a)
         \/ \E t \in User : \/ ReceiveRemAccess(u, f, t)
                            \/ \E a \in Level \ {"none"} : ReceiveAddAccess(u, f, t, a)
    \/ \E k \in DOMAIN requests : ReceiveApprove(u, k) \/ ReceiveDeny(u, k)
    \/ ReceiveView(u)

Serve(u) ==
    \/ ChooseServer(u) \/ AskCreate(u) \/ InsertMeta(u)
    \/ AskDelete(u) \/ RemoveMeta(u) \/ CacheRemove(u)
    \/ AppendRequest(u) \/ DropRequest(u) \/ AskMove(u)
    \/ FindServer(u) \/ FindPut(u) \/ Reread(u) \/ Refresh(u)
    \/ UpdateMeta(u) \/ CachePut(u)

ServeFolder(u) == AskMkdir(u) \/ InsertFolder(u)

\* What the thread of client u does.
Handle(u) == /\ (Serve(u) /\ UNCHANGED tree) \/ ServeFolder(u)
             /\ UNCHANGED reg

Merge == SearchFile \/ EnterFile

Next == \/ \E u \in User : Command(u) /\ UNCHANGED <<tree, reg>>
        \/ \E u \in User, d \in Folder : ReceiveCreateFolder(u, d) /\ UNCHANGED reg
        \/ \E u \in User : Handle(u)
        \/ \E s \in Server : Register(s)
        \/ Merge

\* Threads are scheduled, and a mutex that keeps coming free is obtained; a client
\* need not send anything.
Fairness == WF_vars(Merge) /\ \A u \in User : SF_vars(Handle(u))

Spec == Init /\ [][Next]_vars /\ Fairness

-----------------------------------------------------------------------------
Request == [user : User, file : File, access : Level \ {"none"}]
Locals  == [file : File, ss : Server, copy : Meta \cup {NoMeta}, to : Folder, access : Level,
            change : User \cup {NoUser}, req : Nat, left : [File -> Meta \cup {NoMeta}],
            touch : BOOLEAN]
Label   == {"idle", "choose", "create", "insert", "delete", "remove", "cacheRemove", "append",
            "drop", "mkdir", "enterFolder", "move", "find", "findPut", "reread", "refresh",
            "update", "cachePut"}
Registration == [pc : {"idle", "search", "enter"}, ss : Server, left : SUBSET File, file : File,
                 copy : Meta \cup {NoMeta}]

StateOK ==
    /\ meta \in [File -> Meta \cup {NoMeta}]
    /\ cache \in [File -> Meta \cup {NoMeta}]
    /\ requests \in Seq(Request) /\ Len(requests) <= MaxRequests
    /\ reqOwner \in User \cup {NoUser}
    /\ sock \in [Server -> User \cup {NoUser}]
    /\ next \in Server
    /\ disk \subseteq Server \X File \X Folder
    /\ pc \in [User -> Label]
    /\ local \in [User -> Locals]

TreeOK == folders \subseteq Folder /\ dirs \subseteq Server \X Directory

TypeOK == StateOK /\ TreeOK /\ reg \in Registration

\* Whoever is in the list of a file was put there by its owner of record, for
\* that file and with that access, however old the copies are that handlers write
\* back and even when the file was deleted and created again meanwhile: a record
\* is always copied whole (trie_search, trie_update, handle_access,
\* handle_approverequest, handle_ss_connection).
AclWasGranted ==
    \A f \in File, t \in User :
        Exists(f) /\ meta[f].acl[t] # "none"
          => <<meta[f].owner, f, t, meta[f].acl[t]>> \in grants

\* The same request is never queued twice (handle_requestaccess).
NoDuplicateRequests ==
    \A j, k \in DOMAIN requests : requests[j] = requests[k] => j = k

\* As long as commands and registrations come one at a time, an idle name server
\* knows every file a server has, at its place, and no other; its cache holds nothing
\* else than the trie; and every folder it knows is a directory of some server, with
\* all the folders on its path (handle_create, handle_delete, handle_move,
\* handle_createfolder, create_folder_ss, handle_ss_connection).
ConsistentAlone ==
    ~disturbed /\ ~Busy =>
        /\ disk = {<<meta[f].ss, f, meta[f].folder>> : f \in {g \in File : Exists(g)}}
        /\ \A f \in File : cache[f] \in {NoMeta, meta[f]}
        /\ \A d \in folders : \E s \in Server : \A e \in Path[d] : <<s, e>> \in dirs

\* The storage servers look for every file in their root (read_file_ss, delete_file_ss,
\* start_write_session_ss), where a file that was moved to a folder is not.
FoundAlone == ~disturbed /\ ~Busy => \A f \in File : Exists(f) => <<meta[f].ss, f, Root>> \in disk

\* A step changes the owner of a file, or the access of a user to it, only on behalf
\* of a command that names this user.
AccessStep ==
    \A f \in File, t \in User :
        /\ Exists(f) /\ Exists(f)'
        /\ meta'[f].owner # meta[f].owner \/ meta'[f].acl[t] # meta[f].acl[t]
        => \E u \in User : pc[u] = "update" /\ pc'[u] = "cachePut" /\ local[u].change = t

\* Only ADDACCESS, REMACCESS and APPROVEREQUEST change who has access to a file;
\* READ, VIEW -l or MOVE, which write the record back too, do not, nor does a server
\* that is started again (trie_update in handle_client_connection, handle_view,
\* handle_move, handle_ss_connection).
OnlyAccessCommands == [][AccessStep]_vars

\* So it is as long as commands and registrations come one at a time.
OnlyAccessCommandsAlone == [][~disturbed => AccessStep]_vars

\* Every command is answered: request_mutex and the servers' socket mutexes are
\* always given back.
CommandsAnswered == \A u \in User : pc[u] # "idle" ~> pc[u] = "idle"
=============================================================================
