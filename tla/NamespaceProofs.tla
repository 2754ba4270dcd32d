-------------------------- MODULE NamespaceProofs --------------------------
(***************************************************************************)
(* Proofs about Namespace, for any users, files, servers and folders:      *)
(* its type invariant, that only the owner puts users into a list          *)
(* (AclWasGranted), and that no request is queued twice                    *)
(* (NoDuplicateRequests).                                                  *)
(*                                                                         *)
(* The inductive invariant extends AclWasGranted from the trie to every    *)
(* copy of a record a handler carries, and says that the handler of an     *)
(* approval holds the queue, so that its request is still in its place.    *)
(* IInv is the part of it about clients' handlers, RegFits the one about   *)
(* the thread that registers a server.  The second half is about commands  *)
(* and registrations that come one at a time.                              *)
(***************************************************************************)
EXTENDS Namespace, SequenceTheorems, TLAPS

\* Every entry of the record m of file f is among the grants G.
Granted(G, f, m) ==
    m # NoMeta => \A t \in User : m.acl[t] # "none" => <<m.owner, f, t, m.acl[t]>> \in G

\* What the locals L of a handler at label l satisfy.
Fits(l, L, G) ==
    /\ l = "append" => L.access # "none"
    /\ l = "move" => L.copy # NoMeta
    /\ l = "drop" => L.req # 0
    /\ Granted(G, L.file, L.copy)
    /\ \A f \in File : Granted(G, f, L.left[f])

AllFit     == \A v \in User : Fits(pc[v], local[v], grants)
AllGranted == \A f \in File : Granted(grants, f, meta[f])

\* The handler of an approval has request_mutex, and its request is in the queue.
QueueHeld ==
    \A v \in User : local[v].req # 0 => reqOwner = v /\ local[v].req \in 1 .. Len(requests)

IInv == StateOK /\ AllFit /\ AllGranted /\ QueueHeld /\ NoDuplicateRequests

-----------------------------------------------------------------------------
\* The locals of a handler that has nothing in hand.
LEMMA NoLocalsFit ==
    /\ NoLocals \in Locals
    /\ NoLocals.req = 0 /\ NoLocals.copy = NoMeta
    /\ \A f \in File : NoLocals.left[f] = NoMeta
<1>1. 0 \in Server
  BY NamespaceAssumption DEF Server
<1>2. (CHOOSE f \in File : TRUE) \in File
  BY NamespaceAssumption
<1> QED
  BY <1>1, <1>2, NamespaceAssumption DEF NoLocals, Locals, Level

\* A new record and a changed list are records.
LEMMA NewMetaType == \A u \in User \cup {System}, s \in Server : NewMeta(u, s) \in Meta
  BY NamespaceAssumption DEF NewMeta, Meta, Level

LEMMA SetAccessType ==
    ASSUME NEW m \in Meta, NEW t \in User, NEW a \in Level
    PROVE  SetAccess(m, t, a) \in Meta
  BY DEF SetAccess, Meta

\* What the owner adds is granted; what was there is, already.
LEMMA SetAccessGranted ==
    ASSUME NEW m \in Meta, NEW t \in User, NEW a \in Level, NEW G, NEW f,
           Granted(G, f, m), m # NoMeta
    PROVE  Granted(G \cup {<<m.owner, f, t, a>>}, f, SetAccess(m, t, a))
  BY DEF SetAccess, Meta, Granted

\* Nothing granted is ever forgotten.
LEMMA GrantedGrows ==
    ASSUME NEW G, NEW H, G \subseteq H, NEW f, NEW m, Granted(G, f, m)
    PROVE  Granted(H, f, m)
  BY DEF Granted

\* A handler goes on with locals that fit.
LEMMA Going ==
    ASSUME StateOK, AllFit, grants \subseteq grants',
           NEW u \in User, NEW l \in Label, NEW L \in Locals,
           Fits(l, L, grants'), GoWith(u, l, L)
    PROVE  /\ pc' \in [User -> Label]
           /\ local' \in [User -> Locals]
           /\ AllFit'
<1>1. pc' \in [User -> Label] /\ local' \in [User -> Locals]
  BY DEF StateOK, GoWith
<1>2. ASSUME NEW v \in User PROVE Fits(pc[v]', local[v]', grants')
  <2>1. CASE v = u
    BY <2>1 DEF GoWith, StateOK
  <2>2. CASE v # u
    <3>1. pc[v]' = pc[v] /\ local[v]' = local[v]
      BY <2>2 DEF GoWith, StateOK
    <3>2. Fits(pc[v], local[v], grants)
      BY DEF AllFit
    <3> QED
      BY <3>1, <3>2, GrantedGrows DEF Fits
  <2> QED BY <2>1, <2>2
<1> QED
  BY <1>1, <1>2 DEF AllFit

\* A handler that leaves the queue alone keeps it held.
LEMMA QueueKept ==
    ASSUME StateOK, QueueHeld, UNCHANGED queue,
           NEW u \in User, NEW l, NEW L, GoWith(u, l, L),
           L.req = 0 \/ L.req = local[u].req
    PROVE  QueueHeld' /\ (NoDuplicateRequests => NoDuplicateRequests')
<1>1. QueueHeld'
  BY DEF QueueHeld, GoWith, StateOK, queue
<1>2. NoDuplicateRequests => NoDuplicateRequests'
  BY DEF NoDuplicateRequests, queue
<1> QED BY <1>1, <1>2

StoreType ==
    /\ sock \in [Server -> User \cup {NoUser}]
    /\ next \in Server
    /\ disk \subseteq Server \X File \X Folder

\* A step that leaves the queue alone.
LEMMA AwayFromQueue ==
    ASSUME IInv, UNCHANGED queue, grants \subseteq grants',
           NEW u \in User, NEW l \in Label, NEW L \in Locals,
           Fits(l, L, grants'), GoWith(u, l, L), L.req = 0 \/ L.req = local[u].req,
           meta' \in [File -> Meta \cup {NoMeta}], cache' \in [File -> Meta \cup {NoMeta}],
           StoreType', AllGranted'
    PROVE  IInv'
<1>1. pc' \in [User -> Label] /\ local' \in [User -> Locals] /\ AllFit'
  BY Going DEF IInv
<1>2. QueueHeld' /\ NoDuplicateRequests'
  BY QueueKept DEF IInv
<1>3. StateOK'
  BY <1>1 DEF IInv, StateOK, StoreType, queue
<1> QED BY <1>1, <1>2, <1>3 DEF IInv

\* A step that also leaves the trie and the cache alone.
LEMMA AwayFromTrie ==
    ASSUME IInv, UNCHANGED <<meta, cache, queue>>, grants \subseteq grants',
           NEW u \in User, NEW l \in Label, NEW L \in Locals,
           Fits(l, L, grants'), GoWith(u, l, L), L.req = 0 \/ L.req = local[u].req,
           StoreType'
    PROVE  IInv'
<1>1. AllGranted'
  BY GrantedGrows DEF IInv, AllGranted
<1>2. meta' \in [File -> Meta \cup {NoMeta}] /\ cache' \in [File -> Meta \cup {NoMeta}]
  BY DEF IInv, StateOK
<1> QED BY <1>1, <1>2, AwayFromQueue

\* An answer leaves nothing of the command behind.
LEMMA AnswerFits ==
    ASSUME NEW l \in Label \ {"append", "move", "drop"}, NEW G
    PROVE  NoLocals \in Locals /\ NoLocals.req = 0 /\ Fits(l, NoLocals, G)
  BY NoLocalsFit DEF Fits, Granted

\* What a handler holds while it waits stays what it is.
LEMMA Stays ==
    ASSUME IInv, NEW u \in User, NEW l \in Label \ {"append", "move", "drop"},
           NEW G, grants \subseteq G
    PROVE  local[u] \in Locals /\ Fits(l, local[u], G)
<1>1. local[u] \in Locals /\ Fits(pc[u], local[u], grants)
  BY DEF IInv, StateOK, AllFit
<1> QED BY <1>1, GrantedGrows DEF Fits

-----------------------------------------------------------------------------
\* The handler of u goes on with locals that fit, with no other request than before.
GoesOn(u) ==
    \E l \in Label, L \in Locals :
        Fits(l, L, grants') /\ GoWith(u, l, L) /\ (L.req = 0 \/ L.req = local[u].req)

\* A command that reads the trie and changes nothing else.
LEMMA FirstSteps ==
    ASSUME IInv, NEW u \in User, NEW f \in File,
           \/ ReceiveCreate(u, f) \/ ReceiveDelete(u, f)
           \/ ReceiveOpen(u, f) \/ ReceiveLookup(u, f)
           \/ \E d \in Folder : ReceiveMove(u, f, d)
           \/ \E a \in Level \ {"none"} : ReceiveRequest(u, f, a)
    PROVE  IInv'
<1> USE NoLocalsFit
<1>1. StoreType' /\ grants \subseteq grants' /\ UNCHANGED <<meta, cache, queue>>
  BY DEF IInv, StateOK, StoreType, servers, ReceiveCreate, ReceiveDelete, ReceiveOpen,
         ReceiveLookup, ReceiveMove, ReceiveRequest
<1>2. meta[f] \in Meta \cup {NoMeta} /\ Granted(grants', f, meta[f])
  BY <1>1, GrantedGrows DEF IInv, StateOK, AllGranted
<1>3. GoesOn(u)
  <2>1. CASE ReceiveCreate(u, f)
    <3> DEFINE L == [NoLocals EXCEPT !.file = f]
    <3>1. L \in Locals /\ L.req = 0 /\ Fits("choose", L, grants')
      BY DEF Locals, Fits, Granted
    <3> QED BY <2>1, <3>1 DEF GoesOn, ReceiveCreate, Begin, Label
  <2>2. CASE ReceiveDelete(u, f)
    <3> DEFINE L == [NoLocals EXCEPT !.file = f, !.ss = meta[f].ss]
    <3>1. L \in Locals /\ L.req = 0 /\ Fits("delete", L, grants')
      BY <2>2, <1>2 DEF Locals, Fits, Granted, ReceiveDelete, OwnedBy, Exists, Meta
    <3> QED BY <2>2, <3>1 DEF GoesOn, ReceiveDelete, Begin, Label
  <2>3. CASE ReceiveOpen(u, f)
    <3> DEFINE L == [NoLocals EXCEPT !.file = f, !.touch = TRUE]
    <3>1. L \in Locals /\ L.req = 0 /\ Fits("find", L, grants')
      BY DEF Locals, Fits, Granted
    <3> QED BY <2>3, <3>1 DEF GoesOn, ReceiveOpen, Begin, Label
  <2>4. CASE ReceiveLookup(u, f)
    <3> DEFINE L == [NoLocals EXCEPT !.file = f]
    <3>1. L \in Locals /\ L.req = 0 /\ Fits("find", L, grants')
      BY DEF Locals, Fits, Granted
    <3> QED BY <2>4, <3>1 DEF GoesOn, ReceiveLookup, Begin, Label
  <2>5. ASSUME NEW d \in Folder, ReceiveMove(u, f, d) PROVE GoesOn(u)
    <3> DEFINE L == [NoLocals EXCEPT !.file = f, !.copy = meta[f], !.to = d]
    <3>1. L \in Locals /\ L.req = 0 /\ Fits("move", L, grants')
      BY <2>5, <1>2 DEF Locals, Fits, Granted, ReceiveMove, HasAccess, Exists
    <3> QED BY <2>5, <3>1 DEF GoesOn, ReceiveMove, Begin, Label
  <2>6. ASSUME NEW a \in Level \ {"none"}, ReceiveRequest(u, f, a) PROVE GoesOn(u)
    <3> DEFINE L == [NoLocals EXCEPT !.file = f, !.access = a]
    <3>1. L \in Locals /\ L.req = 0 /\ Fits("append", L, grants')
      BY DEF Locals, Fits, Granted
    <3> QED BY <2>6, <3>1 DEF GoesOn, ReceiveRequest, Begin, Label
  <2> QED BY <2>1, <2>2, <2>3, <2>4, <2>5, <2>6
<1> QED BY <1>1, <1>3, AwayFromTrie DEF GoesOn

\* The owner's list, with its new entry, or without one, is granted.
LEMMA AccessSteps ==
    ASSUME IInv, NEW u \in User, NEW f \in File, NEW t \in User,
           \/ ReceiveRemAccess(u, f, t)
           \/ \E a \in Level \ {"none"} : ReceiveAddAccess(u, f, t, a)
    PROVE  IInv'
<1> USE NoLocalsFit
<1>1. StoreType' /\ grants \subseteq grants' /\ UNCHANGED <<meta, cache, queue>>
  BY DEF IInv, StateOK, StoreType, servers, ReceiveAddAccess, ReceiveRemAccess
<1>2. meta[f] \in Meta /\ Granted(grants, f, meta[f]) /\ meta[f] # NoMeta /\ meta[f].owner = u
  BY DEF IInv, StateOK, AllGranted, ReceiveAddAccess, ReceiveRemAccess, OwnedBy, Exists
<1>3. GoesOn(u)
  <2>1. CASE ReceiveRemAccess(u, f, t)
    <3> DEFINE m == [meta[f] EXCEPT !.acl[t] = "none"]
               L == [NoLocals EXCEPT !.file = f, !.change = t, !.copy = m]
    <3>1. m \in Meta /\ Granted(grants', f, m)
      BY <1>1, <1>2 DEF Granted, Meta, Level
    <3>2. L \in Locals /\ L.req = 0 /\ Fits("update", L, grants')
      <4> HIDE DEF m
      <4> QED BY <3>1 DEF Locals, Fits, Granted
    <3> QED BY <2>1, <3>2 DEF GoesOn, ReceiveRemAccess, Begin, Label
  <2>2. ASSUME NEW a \in Level \ {"none"}, ReceiveAddAccess(u, f, t, a) PROVE GoesOn(u)
    <3> DEFINE m == SetAccess(meta[f], t, a)
               L == [NoLocals EXCEPT !.file = f, !.change = t, !.copy = m]
    <3>1. m \in Meta
      BY <1>2, SetAccessType
    <3>2. Granted(grants', f, m)
      BY <1>2, <2>2, SetAccessGranted DEF ReceiveAddAccess
    <3>3. L \in Locals /\ L.req = 0 /\ Fits("update", L, grants')
      <4> HIDE DEF m
      <4> QED BY <3>1, <3>2 DEF Locals, Fits, Granted
    <3> QED BY <2>2, <3>3 DEF GoesOn, ReceiveAddAccess, Begin, Label
  <2> QED BY <2>1, <2>2
<1> QED BY <1>1, <1>3, AwayFromTrie DEF GoesOn

\* A step of VIEW -l, whose copies are all granted.
LEMMA ViewSteps ==
    ASSUME IInv, NEW u \in User, ReceiveView(u) \/ Refresh(u)
    PROVE  IInv'
<1> USE NoLocalsFit
<1>1. UNCHANGED <<meta, cache, queue, next, disk, grants>>
  BY DEF ReceiveView, Refresh, Begin, servers, history
<1>2. local[u] \in Locals /\ Fits(pc[u], local[u], grants)
  BY DEF IInv, StateOK, AllFit
<1>3. CASE ReceiveView(u)
  <2> DEFINE L == [NoLocals EXCEPT !.left = meta]
  <2>1. L \in Locals /\ L.req = 0 /\ Fits("refresh", L, grants')
    BY <1>1 DEF IInv, StateOK, AllGranted, Locals, Fits, Granted
  <2>2. StoreType'
    BY <1>3 DEF IInv, StateOK, StoreType, ReceiveView, servers
  <2> QED BY <1>1, <1>3, <2>1, <2>2, AwayFromTrie DEF ReceiveView, Begin, Label
<1>4. CASE Refresh(u)
  <2>1. CASE Reply(u) /\ UNCHANGED sock
    <3>1. StoreType'
      BY <1>1, <2>1 DEF IInv, StateOK, StoreType
    <3> QED BY <1>1, <2>1, <3>1, AnswerFits, AwayFromTrie DEF Reply, Label
  <2>2. ASSUME NEW f \in File, local[u].left[f] # NoMeta,
               sock' = sock \/ sock' = [sock EXCEPT ![local[u].left[f].ss] = u],
               NEW l \in {"update", "refresh"},
               GoWith(u, l, [local[u] EXCEPT !.left[f] = NoMeta, !.file = f,
                                             !.copy = local[u].left[f]])
        PROVE  IInv'
    <3> DEFINE L == [local[u] EXCEPT !.left[f] = NoMeta, !.file = f, !.copy = local[u].left[f]]
    <3>1. L \in Locals /\ L.req = local[u].req
      BY <1>2 DEF Locals
    <3>2. Fits(l, L, grants')
      BY <1>1, <1>2 DEF Locals, Fits, Granted
    <3>3. StoreType'
      BY <1>1, <2>2 DEF IInv, StateOK, StoreType
    <3>4. l \in Label
      BY DEF Label
    <3> HIDE DEF L
    <3>5. GoWith(u, l, L)
      BY <2>2 DEF L
    <3> QED BY <1>1, <3>1, <3>2, <3>3, <3>4, <3>5, AwayFromTrie
  <2> QED BY <1>4, <2>1, <2>2 DEF Refresh
<1> QED BY <1>3, <1>4

-----------------------------------------------------------------------------
\* Steps that change only the servers, or nothing but the handler.
LEMMA ServerSteps ==
    ASSUME IInv, NEW u \in User, ChooseServer(u) \/ AskCreate(u) \/ AskDelete(u)
    PROVE  IInv'
<1>1. UNCHANGED <<meta, cache, queue, grants>>
  BY DEF ChooseServer, AskCreate, AskDelete, history
<1>2. local[u] \in Locals
  BY DEF IInv, StateOK
<1>3. StoreType'
  <2>1. CASE ChooseServer(u)
    BY <2>1, NamespaceAssumption DEF IInv, StateOK, StoreType, ChooseServer, Server
  <2>2. <<local[u].ss, local[u].file, Root>> \in Server \X File \X Folder
    BY <1>2, NamespaceAssumption DEF Locals
  <2>3. CASE AskCreate(u)
    BY <2>2, <2>3 DEF IInv, StateOK, StoreType, AskCreate
  <2>4. CASE AskDelete(u)
    BY <2>4 DEF IInv, StateOK, StoreType, AskDelete
  <2> QED BY <2>1, <2>3, <2>4
<1>4. CASE ChooseServer(u)
  <2> DEFINE L == [local[u] EXCEPT !.ss = next]
  <2>1. next \in Server
    BY DEF IInv, StateOK
  <2>2. PICK l \in {"create", "mkdir"} : GoWith(u, l, L)
    BY <1>4 DEF ChooseServer
  <2>3. Fits(l, local[u], grants')
    BY <1>1, Stays DEF Label
  <2>4. L \in Locals /\ L.req = local[u].req /\ Fits(l, L, grants')
    BY <1>2, <2>1, <2>3 DEF Locals, Fits
  <2> HIDE DEF L
  <2> QED BY <1>1, <1>3, <2>2, <2>4, AwayFromTrie DEF Label
<1>5. CASE Reply(u)
  BY <1>1, <1>3, <1>5, AnswerFits, AwayFromTrie DEF Reply, Label
<1>6. ASSUME NEW l \in {"insert", "remove"}, Goto(u, l) PROVE IInv'
  <2>1. l \in Label \ {"append", "move", "drop"}
    BY DEF Label
  <2>2. Fits(l, local[u], grants')
    BY <1>1, <2>1, Stays
  <2> QED BY <1>1, <1>2, <1>3, <1>6, <2>1, <2>2, AwayFromTrie DEF Goto
<1> QED BY <1>4, <1>5, <1>6 DEF AskCreate, AskDelete

\* The moved copy has the list it had.
LEMMA MoveStep ==
    ASSUME IInv, NEW u \in User, AskMove(u)
    PROVE  IInv'
<1> DEFINE m == local[u].copy
           L == [local[u] EXCEPT !.copy.folder = local[u].to]
<1>1. UNCHANGED <<meta, cache, queue, sock, next, grants>>
  BY DEF AskMove
<1>2. local[u] \in Locals /\ Fits("move", local[u], grants)
  BY DEF IInv, StateOK, AllFit, AskMove
<1>3. m \in Meta /\ Granted(grants, local[u].file, m) /\ m # NoMeta
  BY <1>2 DEF Locals, Fits
<1>4. StoreType'
  <2>1. <<m.ss, local[u].file, local[u].to>> \in Server \X File \X Folder
    BY <1>2, <1>3 DEF Locals, Meta
  <2> QED BY <1>1, <2>1 DEF IInv, StateOK, StoreType, AskMove, Rename
<1>5. CASE Reply(u)
  BY <1>1, <1>4, <1>5, AnswerFits, AwayFromTrie DEF Reply, Label
<1>6. CASE GoWith(u, "update", L)
  <2>1. [m EXCEPT !.folder = local[u].to] \in Meta
    BY <1>2, <1>3 DEF Locals, Meta
  <2>2. Granted(grants', local[u].file, [m EXCEPT !.folder = local[u].to])
    BY <1>1, <1>2, <1>3 DEF Granted, Meta
  <2>3. L = [local[u] EXCEPT !.copy = [m EXCEPT !.folder = local[u].to]]
    BY <1>2 DEF Locals
  <2>4. L \in Locals /\ L.req = local[u].req /\ Fits("update", L, grants')
    BY <1>1, <1>2, <2>1, <2>2, <2>3 DEF Locals, Fits
  <2> QED BY <1>1, <1>4, <1>6, <2>4, AwayFromTrie DEF Label
<1> QED BY <1>5, <1>6 DEF AskMove

\* What a lookup reads is granted.
LEMMA LookupSteps ==
    ASSUME IInv, NEW u \in User, FindServer(u) \/ FindPut(u) \/ Reread(u)
    PROVE  IInv'
<1> DEFINE f == local[u].file
           L == [local[u] EXCEPT !.copy = meta[f]]
<1>1. UNCHANGED <<meta, queue, sock, next, disk, grants>>
  BY DEF FindServer, FindPut, Reread, servers, history
<1>2. local[u] \in Locals /\ Fits(pc[u], local[u], grants)
  BY DEF IInv, StateOK, AllFit
<1>3. f \in File /\ meta[f] \in Meta \cup {NoMeta} /\ Granted(grants', f, meta[f])
  BY <1>1, <1>2 DEF IInv, StateOK, AllGranted, Locals
<1>4. /\ StoreType' /\ AllGranted'
      /\ meta' \in [File -> Meta \cup {NoMeta}]
      /\ cache' \in [File -> Meta \cup {NoMeta}]
  BY <1>1, <1>2 DEF IInv, StateOK, StoreType, AllGranted, FindServer, FindPut, Reread, Locals
<1>5. CASE Reply(u)
  BY <1>1, <1>4, <1>5, AnswerFits, AwayFromQueue DEF Reply, Label
<1>6. CASE Goto(u, "reread")
  <2>1. Fits("reread", local[u], grants')
    BY <1>1, Stays DEF Label
  <2> QED BY <1>1, <1>2, <1>4, <1>6, <2>1, AwayFromQueue DEF Goto, Label
<1>7. ASSUME NEW l \in {"findPut", "update"}, GoWith(u, l, L) PROVE IInv'
  <2>1. L \in Locals /\ L.req = local[u].req /\ Fits(l, L, grants')
    BY <1>1, <1>2, <1>3 DEF Locals, Fits
  <2> QED BY <1>1, <1>4, <1>7, <2>1, AwayFromQueue DEF Label
<1> QED BY <1>5, <1>6, <1>7 DEF FindServer, FindPut, Found, Reread

\* What a handler writes back is its copy.
LEMMA StoreSteps ==
    ASSUME IInv, NEW u \in User,
           InsertMeta(u) \/ RemoveMeta(u) \/ CacheRemove(u) \/ UpdateMeta(u)
    PROVE  IInv'
<1>1. UNCHANGED <<queue, sock, next, disk, grants>>
  BY DEF InsertMeta, RemoveMeta, CacheRemove, UpdateMeta, servers, history
<1>2. local[u] \in Locals /\ Fits(pc[u], local[u], grants)
  BY DEF IInv, StateOK, AllFit
<1>3. StoreType'
  BY <1>1 DEF IInv, StateOK, StoreType
<1>4. CASE InsertMeta(u)
  <2> DEFINE m == NewMeta(u, local[u].ss)
             L == [local[u] EXCEPT !.copy = m]
  <2>1. m \in Meta /\ \A g : Granted(grants', g, m)
    BY <1>2, NewMetaType DEF Locals, Granted, NewMeta
  <2>2. /\ meta' \in [File -> Meta \cup {NoMeta}] /\ cache' \in [File -> Meta \cup {NoMeta}]
        /\ AllGranted'
    BY <1>1, <1>4, <2>1 DEF IInv, StateOK, AllGranted, InsertMeta
  <2>3. L \in Locals /\ L.req = local[u].req /\ Fits("cachePut", L, grants')
    <3> HIDE DEF m
    <3> QED BY <1>1, <1>2, <2>1 DEF Locals, Fits
  <2> QED BY <1>1, <1>3, <1>4, <2>2, <2>3, AwayFromQueue DEF InsertMeta, Label
<1>5. CASE RemoveMeta(u) \/ CacheRemove(u)
  <2>1. /\ meta' \in [File -> Meta \cup {NoMeta}] /\ cache' \in [File -> Meta \cup {NoMeta}]
        /\ AllGranted'
    BY <1>1, <1>5 DEF IInv, StateOK, AllGranted, Granted, RemoveMeta, CacheRemove
  <2>2. CASE RemoveMeta(u)
    <3>1. Fits("cacheRemove", local[u], grants')
      BY <1>1, Stays DEF Label
    <3> QED BY <1>1, <1>2, <1>3, <2>1, <2>2, <3>1, AwayFromQueue DEF RemoveMeta, Goto, Label
  <2>3. CASE CacheRemove(u)
    BY <1>1, <1>3, <2>1, <2>3, AnswerFits, AwayFromQueue DEF CacheRemove, Reply, Label
  <2> QED BY <1>5, <2>2, <2>3
<1>6. CASE UpdateMeta(u)
  <2>1. local[u].copy \in Meta \cup {NoMeta} /\ Granted(grants', local[u].file, local[u].copy)
    BY <1>1, <1>2 DEF Locals, Fits
  <2>2. /\ meta' \in [File -> Meta \cup {NoMeta}] /\ cache' \in [File -> Meta \cup {NoMeta}]
        /\ AllGranted'
    BY <1>1, <1>6, <2>1 DEF IInv, StateOK, AllGranted, UpdateMeta
  <2>3. Fits("cachePut", local[u], grants')
    BY <1>1, Stays DEF Label
  <2> QED BY <1>1, <1>2, <1>3, <1>6, <2>2, <2>3, AwayFromQueue DEF UpdateMeta, Goto, Label
<1> QED BY <1>4, <1>5, <1>6

\* What follows the last write of a handler.
LEMMA CachePutStep ==
    ASSUME IInv, NEW u \in User, CachePut(u)
    PROVE  IInv'
<1>1. UNCHANGED <<meta, queue, next, disk, grants>>
  BY DEF CachePut, history
<1>2. local[u] \in Locals /\ Fits(pc[u], local[u], grants)
  BY DEF IInv, StateOK, AllFit
<1>3. cache' \in [File -> Meta \cup {NoMeta}]
  BY <1>2 DEF IInv, StateOK, CachePut, Locals
<1>4. StoreType'
  BY <1>1 DEF IInv, StateOK, StoreType, CachePut
<1>5. meta' \in [File -> Meta \cup {NoMeta}] /\ AllGranted'
  BY <1>1 DEF IInv, StateOK, AllGranted
<1>6. CASE Reply(u)
  BY <1>1, <1>3, <1>4, <1>5, <1>6, AnswerFits, AwayFromQueue DEF Reply, Label
<1>7. ASSUME NEW l \in {"drop", "refresh"}, Goto(u, l), l = "drop" => local[u].req # 0
      PROVE  IInv'
  <2>1. Fits(l, local[u], grants')
    BY <1>1, <1>2, <1>7 DEF Fits
  <2> QED BY <1>1, <1>2, <1>3, <1>4, <1>5, <1>7, <2>1, AwayFromQueue DEF Goto, Label
<1>8. Reply(u) \/ (Goto(u, "drop") /\ local[u].req # 0) \/ Goto(u, "refresh")
  BY DEF CachePut
<1> QED BY <1>6, <1>7, <1>8

-----------------------------------------------------------------------------
\* Without its k-th element, a sequence keeps its others in their order.
LEMMA RemoveAtProperties ==
    ASSUME NEW S, NEW q \in Seq(S), NEW k \in 1 .. Len(q)
    PROVE  /\ RemoveAt(q, k) \in Seq(S)
           /\ Len(RemoveAt(q, k)) = Len(q) - 1
           /\ \A i \in 1 .. Len(q) - 1 :
                 RemoveAt(q, k)[i] = IF i < k THEN q[i] ELSE q[i + 1]
<1> DEFINE a == SubSeq(q, 1, k - 1)
           b == SubSeq(q, k + 1, Len(q))
<1>1. a \in Seq(S) /\ Len(a) = k - 1 /\ \A i \in 1 .. k - 1 : a[i] = q[i]
  OBVIOUS
<1>2. b \in Seq(S) /\ Len(b) = Len(q) - k /\ \A i \in 1 .. Len(q) - k : b[i] = q[k + i]
  OBVIOUS
<1> HIDE DEF a, b
<1>3. /\ a \o b \in Seq(S)
      /\ Len(a \o b) = Len(a) + Len(b)
      /\ \A i \in 1 .. Len(a) + Len(b) : (a \o b)[i] = IF i <= Len(a) THEN a[i] ELSE b[i - Len(a)]
  BY <1>1, <1>2, ConcatProperties
<1>4. Len(a \o b) = Len(q) - 1
  BY <1>1, <1>2, <1>3
<1>5. ASSUME NEW i \in 1 .. Len(q) - 1 PROVE (a \o b)[i] = IF i < k THEN q[i] ELSE q[i + 1]
  BY <1>1, <1>2, <1>3
<1>6. RemoveAt(q, k) = a \o b
  BY DEF RemoveAt, a, b
<1> QED BY <1>3, <1>4, <1>5, <1>6

\* No two of the remaining requests are the same.
LEMMA RequestsShrink ==
    ASSUME StateOK, NoDuplicateRequests, NEW k \in 1 .. Len(requests),
           requests' = RemoveAt(requests, k)
    PROVE  requests' \in Seq(Request) /\ Len(requests') <= MaxRequests /\ NoDuplicateRequests'
<1>1. requests \in Seq(Request) /\ Len(requests) <= MaxRequests /\ MaxRequests \in Nat
  BY NamespaceAssumption DEF StateOK
<1>2. /\ requests' \in Seq(Request)
      /\ Len(requests') = Len(requests) - 1
      /\ \A i \in 1 .. Len(requests) - 1 :
            requests'[i] = IF i < k THEN requests[i] ELSE requests[i + 1]
  BY <1>1, RemoveAtProperties
<1>3. Len(requests') <= MaxRequests
  BY <1>1, <1>2
<1>4. ASSUME NEW i \in DOMAIN requests', NEW j \in DOMAIN requests', requests'[i] = requests'[j]
      PROVE  i = j
  <2> DEFINE old(n) == IF n < k THEN n ELSE n + 1
  <2>1. i \in 1 .. Len(requests) - 1 /\ j \in 1 .. Len(requests) - 1
    BY <1>1, <1>2
  <2>2. requests'[i] = requests[old(i)] /\ requests'[j] = requests[old(j)]
    BY <1>2, <2>1
  <2>3. old(i) \in DOMAIN requests /\ old(j) \in DOMAIN requests
    BY <1>1, <2>1
  <2>4. old(i) = old(j)
    BY <1>4, <2>2, <2>3 DEF NoDuplicateRequests
  <2> QED BY <2>1, <2>4
<1> QED BY <1>2, <1>3, <1>4 DEF NoDuplicateRequests

\* The queue is searched before it grows.
LEMMA AppendStep ==
    ASSUME IInv, NEW u \in User, AppendRequest(u)
    PROVE  IInv'
<1> DEFINE r == [user |-> u, file |-> local[u].file, access |-> local[u].access]
<1>1. UNCHANGED <<meta, cache, reqOwner, sock, next, disk, grants>> /\ reqOwner = NoUser
  BY DEF AppendRequest, servers, history
<1>2. local[u] \in Locals /\ Fits("append", local[u], grants)
  BY DEF IInv, StateOK, AllFit, AppendRequest
<1>3. r \in Request
  BY <1>2 DEF Locals, Fits, Request
<1>4. requests \in Seq(Request) /\ Len(requests) <= MaxRequests /\ MaxRequests \in Nat
  BY NamespaceAssumption DEF IInv, StateOK
<1>5. requests' \in Seq(Request) /\ Len(requests') <= MaxRequests /\ NoDuplicateRequests'
  <2>1. CASE requests' = requests
    BY <1>4, <2>1 DEF IInv, NoDuplicateRequests
  <2>2. CASE r \notin ToSet(requests) /\ Len(requests) < MaxRequests /\ requests' = Append(requests, r)
    <3>1. requests' \in Seq(Request) /\ Len(requests') <= MaxRequests
      BY <1>3, <1>4, <2>2
    <3>2. \A i \in DOMAIN requests : requests[i] # r
      BY <2>2 DEF ToSet
    <3>3. NoDuplicateRequests'
      <4> HIDE DEF r
      <4> QED BY <1>3, <1>4, <2>2, <3>2 DEF IInv, NoDuplicateRequests
    <3> QED BY <3>1, <3>3
  <2> QED BY <1>4, <2>1, <2>2 DEF AppendRequest
<1>6. pc' \in [User -> Label] /\ local' \in [User -> Locals] /\ AllFit'
  BY <1>1, AnswerFits, Going DEF IInv, AppendRequest, Reply, Label
<1>7. QueueHeld'
  <2>1. \A v \in User : local[v].req = 0
    BY <1>1, NamespaceAssumption DEF IInv, QueueHeld
  <2>2. \A v \in User : local'[v].req = 0
    BY <2>1, NoLocalsFit DEF AppendRequest, Reply, GoWith, IInv, StateOK
  <2> QED BY <2>2 DEF QueueHeld
<1>8. StateOK' /\ AllGranted'
  BY <1>1, <1>5, <1>6 DEF IInv, StateOK, AllGranted
<1> QED BY <1>5, <1>6, <1>7, <1>8 DEF IInv

\* The queue belongs to the handler from now on.
LEMMA ApproveStep ==
    ASSUME IInv, NEW u \in User, NEW k \in DOMAIN requests, ReceiveApprove(u, k)
    PROVE  IInv'
<1> DEFINE r == requests[k]
           m == SetAccess(meta[r.file], r.user, r.access)
           L == [NoLocals EXCEPT !.file = r.file, !.change = r.user, !.req = k, !.copy = m]
<1>1. /\ UNCHANGED <<meta, cache, requests, sock, next, disk>> /\ reqOwner = NoUser /\ reqOwner' = u
      /\ grants' = grants \cup {<<u, r.file, r.user, r.access>>}
  BY DEF ReceiveApprove, servers
<1>2. r \in Request /\ k \in 1 .. Len(requests)
  BY DEF IInv, StateOK
<1>3. /\ meta[r.file] \in Meta /\ meta[r.file] # NoMeta /\ meta[r.file].owner = u
      /\ Granted(grants, r.file, meta[r.file])
  BY <1>2 DEF IInv, StateOK, AllGranted, Request, ReceiveApprove, OwnedBy, Exists
<1>4. m \in Meta /\ Granted(grants', r.file, m)
  BY <1>1, <1>2, <1>3, SetAccessType, SetAccessGranted DEF Request
<1>5. L \in Locals /\ L.req = k /\ Fits("update", L, grants')
  <2>1. r.file \in File /\ r.user \in User /\ k \in Nat
    BY <1>2 DEF Request
  <2> HIDE DEF m, r
  <2> QED BY <1>4, <2>1, NoLocalsFit DEF Locals, Fits, Granted
<1>6. GoWith(u, "update", L)
  BY DEF ReceiveApprove, Begin
<1>7. pc' \in [User -> Label] /\ local' \in [User -> Locals] /\ AllFit'
  <2> HIDE DEF L
  <2> QED BY <1>1, <1>5, <1>6, Going DEF IInv, Label
<1>8. QueueHeld'
  <2>1. \A v \in User : local[v].req = 0
    BY <1>1, NamespaceAssumption DEF IInv, QueueHeld
  <2> HIDE DEF L
  <2> QED BY <1>1, <1>2, <1>5, <1>6, <2>1 DEF QueueHeld, GoWith, IInv, StateOK
<1>9. StateOK' /\ NoDuplicateRequests'
  BY <1>1, <1>7 DEF IInv, StateOK, NoDuplicateRequests
<1>10. AllGranted'
  BY <1>1, GrantedGrows DEF IInv, AllGranted
<1> QED BY <1>7, <1>8, <1>9, <1>10 DEF IInv

\* A request goes: the handler that holds the queue drops its own, or nobody does.
LEMMA DropSteps ==
    ASSUME IInv, NEW u \in User,
           DropRequest(u) \/ \E k \in DOMAIN requests : ReceiveDeny(u, k)
    PROVE  IInv'
<1>1. UNCHANGED <<meta, cache, sock, next, disk, grants>>
  BY DEF DropRequest, ReceiveDeny, servers, history
<1>2. PICK k \in 1 .. Len(requests) : requests' = RemoveAt(requests, k)
  <2>1. CASE DropRequest(u)
    <3>1. local[u].req \in 1 .. Len(requests)
      BY <2>1 DEF IInv, AllFit, Fits, QueueHeld, DropRequest
    <3> QED BY <2>1, <3>1 DEF DropRequest
  <2>2. CASE \E k \in DOMAIN requests : ReceiveDeny(u, k)
    BY <2>2 DEF ReceiveDeny, IInv, StateOK
  <2> QED BY <2>1, <2>2
<1>3. requests' \in Seq(Request) /\ Len(requests') <= MaxRequests /\ NoDuplicateRequests'
  BY <1>2, RequestsShrink DEF IInv
<1>4. GoWith(u, "idle", NoLocals)
  BY DEF DropRequest, Reply, ReceiveDeny, Begin
<1>5. pc' \in [User -> Label] /\ local' \in [User -> Locals] /\ AllFit'
  BY <1>1, <1>4, AnswerFits, Going DEF IInv, Label
<1>6. QueueHeld'
  <2>1. \A v \in User \ {u} : local[v].req = 0
    BY NamespaceAssumption DEF IInv, QueueHeld, AllFit, Fits, DropRequest, ReceiveDeny
  <2> QED BY <1>4, <2>1, NoLocalsFit DEF QueueHeld, GoWith, IInv, StateOK
<1>7. StateOK' /\ AllGranted'
  <2>1. reqOwner' \in User \cup {NoUser}
    BY DEF IInv, StateOK, DropRequest, ReceiveDeny
  <2> QED BY <1>1, <1>3, <1>5, <2>1 DEF IInv, StateOK, AllGranted
<1> QED BY <1>3, <1>5, <1>6, <1>7 DEF IInv

-----------------------------------------------------------------------------
\* The handlers' part of the invariant.
LEMMA Initially == Init => IInv
<1> SUFFICES ASSUME Init PROVE IInv
  OBVIOUS
<1> USE NoLocalsFit
<1>1. meta \in [File -> Meta \cup {NoMeta}] /\ AllGranted
  <2>1. 0 \in Server
    BY NamespaceAssumption DEF Server
  <2>2. Creator \in User
    BY NamespaceAssumption DEF Creator
  <2>3. NewMeta(Creator, 0) \in Meta /\ \A f : Granted(grants, f, NewMeta(Creator, 0))
    BY <2>1, <2>2, NewMetaType DEF Granted, NewMeta
  <2> QED BY <2>3 DEF Init, AllGranted, Granted
<1>2. StateOK
  BY <1>1, NamespaceAssumption DEF Init, StateOK, Label, Server
<1>3. AllFit
  BY DEF Init, AllFit, Fits, Granted
<1>4. QueueHeld /\ NoDuplicateRequests
  BY DEF Init, QueueHeld, NoDuplicateRequests
<1> QED BY <1>1, <1>2, <1>3, <1>4 DEF IInv

LEMMA HandlerSteps ==
    ASSUME IInv, NEW u \in User, Command(u) \/ Serve(u)
    PROVE  IInv'
<1>1. CASE Command(u)
  BY <1>1, FirstSteps, AccessSteps, ViewSteps, ApproveStep, DropSteps DEF Command
<1>2. CASE Serve(u)
  BY <1>2, ServerSteps, MoveStep, LookupSteps, StoreSteps, CachePutStep, AppendStep, DropSteps,
     ViewSteps DEF Serve
<1> QED BY <1>1, <1>2

\* No handler takes a grant back.
LEMMA GrantsGrow ==
    ASSUME NEW u \in User, Command(u) \/ Serve(u)
    PROVE  grants \subseteq grants'
<1>1. CASE Command(u)
  BY <1>1 DEF Command, ReceiveCreate, ReceiveDelete, ReceiveOpen, ReceiveLookup, ReceiveMove,
              ReceiveRequest, ReceiveRemAccess, ReceiveAddAccess, ReceiveApprove, ReceiveDeny,
              ReceiveView
<1>2. CASE Serve(u)
  BY <1>2 DEF Serve, ChooseServer, AskCreate, InsertMeta, AskDelete, RemoveMeta, CacheRemove,
              AppendRequest, DropRequest, AskMove, FindServer, FindPut, Reread, Refresh,
              UpdateMeta, CachePut, history
<1> QED BY <1>1, <1>2

-----------------------------------------------------------------------------
\* The copy that a registration writes back is granted as well.
RegFits == reg \in Registration /\ Granted(grants, reg.file, reg.copy)

FullInv == IInv /\ TreeOK /\ RegFits

\* CREATEFOLDER leaves files and requests alone.
LEMMA FolderSteps ==
    ASSUME IInv, TreeOK, NEW u \in User,
           \/ \E d \in Folder : ReceiveCreateFolder(u, d)
           \/ ServeFolder(u)
    PROVE  IInv' /\ TreeOK' /\ grants' = grants
<1> USE NoLocalsFit
<1>1. UNCHANGED <<meta, cache, queue, servers, grants>>
  BY DEF ReceiveCreateFolder, ServeFolder, AskMkdir, InsertFolder, history
<1>2. StoreType'
  BY <1>1 DEF IInv, StateOK, StoreType, servers
<1>3. local[u] \in Locals
  BY DEF IInv, StateOK
<1>4. TreeOK'
  <2>1. \A s \in Server, d \in Folder : {<<s, e>> : e \in Path[d]} \subseteq Server \X Directory
    BY NamespaceAssumption
  <2>2. MkdirAll(local[u].ss, local[u].to) \subseteq Server \X Directory
    BY <1>3, <2>1 DEF MkdirAll, TreeOK, Locals
  <2> QED BY <1>3, <2>2 DEF TreeOK, tree, Locals, ReceiveCreateFolder, ServeFolder, AskMkdir,
             InsertFolder
<1>5. ASSUME NEW d \in Folder, ReceiveCreateFolder(u, d) PROVE IInv'
  <2> DEFINE L == [NoLocals EXCEPT !.to = d]
  <2>1. L \in Locals /\ L.req = 0 /\ Fits("choose", L, grants')
    BY DEF Locals, Fits, Granted
  <2> QED BY <1>1, <1>2, <1>5, <2>1, AwayFromTrie DEF ReceiveCreateFolder, Begin, Label
<1>6. ASSUME Reply(u) PROVE IInv'
  BY <1>1, <1>2, <1>6, AnswerFits, AwayFromTrie DEF Reply, Label
<1>7. ASSUME Goto(u, "enterFolder") PROVE IInv'
  <2>1. Fits("enterFolder", local[u], grants')
    BY <1>1, Stays DEF Label
  <2> QED BY <1>1, <1>2, <1>3, <1>7, <2>1, AwayFromTrie DEF Goto, Label
<1>8. ASSUME ServeFolder(u) PROVE IInv'
  BY <1>6, <1>7, <1>8 DEF ServeFolder, AskMkdir, InsertFolder
<1> QED BY <1>1, <1>4, <1>5, <1>8

\* A server's list is read.
LEMMA RegisterStep ==
    ASSUME FullInv, NEW s \in Server, Register(s)
    PROVE  FullInv'
<1>1. UNCHANGED <<meta, cache, requests, reqOwner, sock, next, disk, pc, local, folders, dirs,
                grants>>
  BY DEF Register, queue, servers, clients, tree
<1>2. IInv'
  BY <1>1 DEF FullInv, IInv, StateOK, AllFit, AllGranted, QueueHeld, NoDuplicateRequests
<1>3. reg' \in Registration /\ reg'.copy = NoMeta
  BY NoLocalsFit DEF Register, Registering, NoRegistration, Registration, Locals
<1>4. RegFits'
  BY <1>3 DEF RegFits, Granted
<1> QED BY <1>1, <1>2, <1>4 DEF FullInv, TreeOK

\* A copy of a record is as granted as the record; without one, or at the end, there
\* is nothing to show.
LEMMA SearchStep ==
    ASSUME FullInv, SearchFile
    PROVE  FullInv'
<1>1. UNCHANGED <<meta, cache, requests, reqOwner, sock, next, disk, pc, local, folders, dirs,
                grants>>
  BY DEF SearchFile, queue, servers, clients, tree, history
<1>2. IInv'
  BY <1>1 DEF FullInv, IInv, StateOK, AllFit, AllGranted, QueueHeld, NoDuplicateRequests
<1>3. CASE reg' = NoRegistration
  <2>1. 0 \in Server
    BY NamespaceAssumption DEF Server
  <2> QED BY <1>1, <1>2, <1>3, <2>1, NoLocalsFit
          DEF FullInv, TreeOK, RegFits, NoRegistration, Registration, Granted, Locals
<1>4. ASSUME NEW f \in reg.left,
             reg' = [reg EXCEPT !.pc = "enter", !.left = @ \ {f}, !.file = f,
                       !.copy = IF Exists(f) THEN [meta[f] EXCEPT !.ss = reg.ss] ELSE NoMeta]
      PROVE  FullInv'
  <2> DEFINE m == IF Exists(f) THEN [meta[f] EXCEPT !.ss = reg.ss] ELSE NoMeta
  <2>1. reg \in Registration /\ f \in File
    BY DEF FullInv, RegFits, Registration
  <2>2. meta[f] \in Meta \cup {NoMeta} /\ Granted(grants, f, meta[f])
    BY <2>1 DEF FullInv, IInv, StateOK, AllGranted
  <2>3. m \in Meta \cup {NoMeta} /\ Granted(grants', f, m)
    <3>1. CASE Exists(f)
      <4>1. meta[f] \in Meta /\ reg.ss \in Server
        BY <2>1, <2>2, <3>1 DEF Exists, Registration
      <4> QED BY <1>1, <2>2, <3>1, <4>1 DEF Meta, Granted, Exists
    <3>2. CASE ~Exists(f)
      BY <3>2 DEF Granted
    <3> QED BY <3>1, <3>2
  <2>4. reg' \in Registration /\ reg'.file = f /\ reg'.copy = m
    <3> DEFINE n == [reg EXCEPT !.pc = "enter", !.left = @ \ {f}, !.file = f, !.copy = m]
    <3>1. reg' = n
      BY <1>4
    <3> HIDE DEF m
    <3>2. n \in Registration /\ n.file = f /\ n.copy = m
      BY <2>1, <2>3 DEF Registration
    <3> QED BY <3>1, <3>2
  <2> HIDE DEF m
  <2> QED BY <1>1, <1>2, <2>3, <2>4 DEF FullInv, TreeOK, RegFits
<1> QED BY <1>3, <1>4 DEF SearchFile

\* What a registration enters is its copy, or a record without a list.
LEMMA EnterStep ==
    ASSUME FullInv, EnterFile
    PROVE  FullInv'
<1> DEFINE f == reg.file
           m == Brought(f)
<1>1. /\ UNCHANGED <<cache, requests, reqOwner, sock, next, disk, pc, local, folders, dirs,
                   grants>>
      /\ meta' = [meta EXCEPT ![f] = m]
      /\ reg' = [reg EXCEPT !.pc = "search", !.copy = NoMeta]
  BY DEF EnterFile, queue, servers, clients, tree, history
<1>2. reg \in Registration /\ Granted(grants, f, reg.copy)
  BY DEF FullInv, RegFits
<1>3. m \in Meta \cup {NoMeta} /\ Granted(grants, f, m)
  <2>1. NewMeta(System, reg.ss) \in Meta /\ Granted(grants, f, NewMeta(System, reg.ss))
    BY <1>2, NewMetaType DEF Registration, Granted, NewMeta
  <2> QED BY <1>2, <2>1 DEF Brought, Registration, Granted
<1>4. f \in File
  BY <1>2 DEF Registration
<1>5. meta' \in [File -> Meta \cup {NoMeta}] /\ AllGranted'
  <2> HIDE DEF m
  <2> QED BY <1>1, <1>3, <1>4 DEF FullInv, IInv, StateOK, AllGranted
<1>6. IInv'
  BY <1>1, <1>5 DEF FullInv, IInv, StateOK, AllFit, QueueHeld, NoDuplicateRequests
<1>7. RegFits'
  BY <1>1, <1>2 DEF RegFits, Registration, Granted
<1> QED BY <1>1, <1>6, <1>7 DEF FullInv, TreeOK

-----------------------------------------------------------------------------
LEMMA InitiallyFull == Init => FullInv
<1> SUFFICES ASSUME Init PROVE FullInv
  OBVIOUS
<1>1. 0 \in Server
  BY NamespaceAssumption DEF Server
<1>2. PICK files \in SUBSET File : reg \in {Registering(0, files), NoRegistration}
  BY DEF Init
<1>3. NoRegistration \in Registration /\ NoRegistration.copy = NoMeta
  BY <1>1, NoLocalsFit DEF NoRegistration, Registration, Locals
<1>4. Registering(0, files) \in Registration /\ Registering(0, files).copy = NoMeta
  BY <1>1, <1>3 DEF Registering, Registration
<1>5. RegFits
  BY <1>2, <1>3, <1>4 DEF RegFits, Granted
<1> QED BY <1>5, Initially DEF FullInv, TreeOK, Init

LEMMA Inductive == FullInv /\ [Next]_vars => FullInv'
<1> SUFFICES ASSUME FullInv, [Next]_vars PROVE FullInv'
  OBVIOUS
<1>1. CASE UNCHANGED vars
  BY <1>1 DEF vars, queue, servers, clients, tree, history, FullInv, TreeOK, RegFits, IInv, StateOK, AllFit,
              AllGranted, QueueHeld, NoDuplicateRequests
<1>2. ASSUME NEW u \in User, Command(u) \/ Serve(u), UNCHANGED <<tree, reg>> PROVE FullInv'
  <2>1. IInv' /\ grants \subseteq grants'
    BY <1>2, HandlerSteps, GrantsGrow DEF FullInv
  <2> QED BY <1>2, <2>1, GrantedGrows DEF FullInv, TreeOK, RegFits, tree
<1>3. ASSUME NEW u \in User, UNCHANGED reg,
             \/ \E d \in Folder : ReceiveCreateFolder(u, d)
             \/ ServeFolder(u)
      PROVE  FullInv'
  BY <1>3, FolderSteps DEF FullInv, RegFits
<1> QED BY <1>1, <1>2, <1>3, RegisterStep, SearchStep, EnterStep DEF Next, Handle, Merge

\* The inductive invariant of the trie, the cache, the queue and the copies that
\* handlers and registrations have (trie_search, trie_update, handle_approverequest,
\* handle_ss_connection).
THEOREM Invariance == Spec => []FullInv
  BY InitiallyFull, Inductive, PTL DEF Spec

\* The types of the trie, the cache, the queue and the handlers' locals hold forever.
THEOREM TypeCorrect == Spec => []TypeOK
<1>1. FullInv => TypeOK
  BY DEF FullInv, TreeOK, RegFits, IInv, TypeOK
<1> QED BY <1>1, Invariance, PTL

\* Nobody has access to a file but by its owner's command (handle_access,
\* handle_approverequest), whatever stale records READ, VIEW -l, MOVE and the
\* registration of a server write back.
THEOREM OwnersGrant == Spec => []AclWasGranted
<1>1. FullInv => AclWasGranted
  BY DEF FullInv, IInv, AllGranted, Granted, AclWasGranted, Exists
<1> QED BY <1>1, Invariance, PTL

\* handle_requestaccess never queues a request twice, whatever is approved and denied
\* meanwhile.
THEOREM RequestsUnique == Spec => []NoDuplicateRequests
<1>1. FullInv => NoDuplicateRequests
  BY DEF FullInv, IInv
<1> QED BY <1>1, Invariance, PTL

-----------------------------------------------------------------------------
(***************************************************************************)
(* While commands and registrations come one at a time: an idle name server*)
(* knows where every file is (ConsistentAlone), and only a command that    *)
(* names a user changes the user's access (OnlyAccessCommandsAlone).       *)
(*                                                                         *)
(* Between two commands the trie, the cache and the disks agree (Settled). *)
(* During a command they agree on every file but the one at hand, about    *)
(* which AtHand says, for each step of each handler, how far the command   *)
(* has come; Merging says the same of a registration.                      *)
(***************************************************************************)

\* The disks D have file g where its record m says, and nowhere else.
Placed(D, g, m) ==
    \A s \in Server, d \in Folder :
        <<s, g, d>> \in D <=> m # NoMeta /\ s = m.ss /\ d = m.folder

\* The cache has nothing, or the record m.
Cached(c, m) == c \in {NoMeta, m}

\* Some server of those with the directories R has all those on the path of d.
Deep(R, d) == \E s \in Server : \A e \in Path[d] : <<s, e>> \in R

\* Trie M, cache C and disks D agree on file g.
Agree(M, C, D, g) == Placed(D, g, M[g]) /\ Cached(C[g], M[g])
Settled(M, C, D)  == \A g \in File : Agree(M, C, D, g)

\* Two records with the same owner, and the same list but for t's entry.
SameButFor(n, m, t) == n.owner = m.owner /\ \A v \in User \ {t} : n.acl[v] = m.acl[v]

\* What the handler of u, at label l with locals L, has done of its command: its file
\* has the record m in the trie and c in the cache.
AtHand(u, l, L, m, c, D) ==
    /\ l = "insert" => m = NoMeta /\ c = NoMeta /\ Placed(D, L.file, NewMeta(u, L.ss))
    /\ l = "remove" => Placed(D, L.file, NoMeta)
    /\ l = "cacheRemove" => Placed(D, L.file, m)
    /\ l = "update" => /\ m # NoMeta
                       /\ Placed(D, L.file, L.copy)
                       /\ SameButFor(L.copy, m, L.change)
    /\ l = "cachePut" => Placed(D, L.file, m) /\ L.copy = m
    /\ l \notin {"insert", "remove", "cacheRemove", "update", "cachePut"}
         => Placed(D, L.file, m) /\ Cached(c, m)
    /\ (l = "choose" /\ L.to = Root) \/ l = "create" => m = NoMeta
    /\ l = "delete" => m # NoMeta /\ L.ss = m.ss
    /\ l \in {"move", "findPut"} => m # NoMeta /\ L.copy = m

\* The records that VIEW -l has still to refresh are those of the trie.
Fresh(l, L, M) ==
    \A g \in File : L.left[g] # NoMeta =>
        /\ l \in {"refresh", "update", "cachePut", "drop"}
        /\ l \in {"update", "cachePut"} => g # L.file
        /\ L.left[g] = M[g]

Phase(u, l, L, M, C, D, R) ==
    /\ \A g \in File \ {L.file} : Agree(M, C, D, g)
    /\ AtHand(u, l, L, M[L.file], C[L.file], D)
    /\ Fresh(l, L, M)
    /\ l = "enterFolder" => Deep(R, L.to)

\* The registration r has merged the files that are not in its list any more; those
\* that are in it are in its server's root.
Merging(r, M, C, D) ==
    /\ \A g \in File :
         /\ Cached(C[g], M[g])
         /\ \/ Placed(D, g, M[g])
            \/ /\ M[g] = NoMeta
               /\ g \in r.left \/ (r.pc = "enter" /\ g = r.file)
               /\ Placed(D, g, NewMeta(System, r.ss))
    /\ \A g \in r.left : <<r.ss, g, Root>> \in D
    /\ r.pc = "enter" => <<r.ss, r.file, Root>> \in D /\ r.copy = M[r.file]

FoldersDeep == \A d \in folders : Deep(dirs, d)

AloneIn(u) == reg.pc = "idle" /\ \A v \in User \ {u} : pc[v] = "idle"

Alone ==
    ~disturbed =>
        /\ FoldersDeep
        /\ reg.pc # "idle" => /\ \A u \in User : pc[u] = "idle"
                              /\ Merging(reg, meta, cache, disk)
        /\ \A u \in User :
             pc[u] # "idle" => /\ AloneIn(u)
                               /\ Phase(u, pc[u], local[u], meta, cache, disk, dirs)
        /\ ~Busy => Settled(meta, cache, disk)

-----------------------------------------------------------------------------
\* A new record is one, for the root of its server.
LEMMA NewMetaFields ==
    ASSUME NEW u \in User \cup {System}, NEW s \in Server
    PROVE  /\ NewMeta(u, s) # NoMeta
           /\ NewMeta(u, s).ss = s /\ NewMeta(u, s).folder = Root
<1>1. NewMeta(u, s) \in Meta
  BY NewMetaType
<1> QED BY <1>1, NamespaceAssumption DEF NewMeta

\* Whose record it is says nothing about the place.
LEMMA PlacedNew ==
    ASSUME NEW u \in User \cup {System}, NEW v \in User \cup {System}, NEW s \in Server,
           NEW D, NEW g, Placed(D, g, NewMeta(u, s))
    PROVE  Placed(D, g, NewMeta(v, s))
  BY NewMetaFields DEF Placed

\* A file's places concern no other file.
LEMMA OtherFile ==
    ASSUME NEW D, NEW E, NEW f, NEW g, NEW m, g # f, Placed(D, g, m),
           \A s \in Server, d \in Folder : <<s, g, d>> \in E <=> <<s, g, d>> \in D
    PROVE  Placed(E, g, m)
  BY DEF Placed

\* The disks after the creation, the deletion and the renaming of a file.
LEMMA CreatedPlaced ==
    ASSUME NEW u \in User, NEW s \in Server, NEW D, NEW f, Placed(D, f, NoMeta)
    PROVE  Placed(D \cup {<<s, f, Root>>}, f, NewMeta(u, s))
<1>1. NewMeta(u, s) # NoMeta /\ NewMeta(u, s).ss = s /\ NewMeta(u, s).folder = Root
  BY NewMetaFields
<1> QED BY <1>1 DEF Placed

LEMMA DeletedPlaced ==
    ASSUME NEW m \in Meta, NEW D, NEW f, Placed(D, f, m), <<m.ss, f, Root>> \in D
    PROVE  Placed(D \ {<<m.ss, f, Root>>}, f, NoMeta)
<1>1. m # NoMeta /\ m.ss \in Server /\ Root \in Folder
  BY NamespaceAssumption DEF Meta
<1>2. m.folder = Root
  BY <1>1 DEF Placed
<1> QED BY <1>1, <1>2 DEF Placed

LEMMA RenamedPlaced ==
    ASSUME NEW m \in Meta, NEW e \in Folder, NEW D, NEW f, Placed(D, f, m)
    PROVE  Placed((D \ {<<m.ss, f, m.folder>>}) \cup {<<m.ss, f, e>>}, f,
                  [m EXCEPT !.folder = e])
<1> DEFINE n == [m EXCEPT !.folder = e]
<1>1. m # NoMeta /\ m.ss \in Server /\ m.folder \in Folder
  BY NamespaceAssumption DEF Meta
<1>2. n \in Meta /\ n.ss = m.ss /\ n.folder = e
  BY DEF Meta
<1>3. n # NoMeta
  BY <1>2, NamespaceAssumption
<1> HIDE DEF n
<1>4. Placed((D \ {<<m.ss, f, m.folder>>}) \cup {<<m.ss, f, e>>}, f, n)
  BY <1>1, <1>2, <1>3 DEF Placed
<1> QED BY <1>4 DEF n

-----------------------------------------------------------------------------
\* The handler of u is at work, and nobody else.
LEMMA Serving ==
    ASSUME Alone, ~disturbed, NEW u \in User, pc[u] # "idle"
    PROVE  /\ FoldersDeep /\ AloneIn(u)
           /\ Phase(u, pc[u], local[u], meta, cache, disk, dirs)
  BY DEF Alone

\* It goes on, or answers.
LEMMA Onward ==
    ASSUME FullInv, NEW u \in User, NEW l, NEW L, GoWith(u, l, L),
           UNCHANGED reg, AloneIn(u), FoldersDeep',
           l # "idle" => Phase(u, l, L, meta', cache', disk', dirs'),
           l = "idle" => Settled(meta', cache', disk')
    PROVE  Alone'
<1>1. pc \in [User -> Label] /\ local \in [User -> Locals]
  BY DEF FullInv, IInv, StateOK
<1>2. pc'[u] = l /\ local'[u] = L /\ \A v \in User \ {u} : pc'[v] = "idle"
  BY <1>1 DEF GoWith, AloneIn
<1>3. reg'.pc = "idle"
  BY DEF AloneIn
<1>4. ASSUME NEW v \in User, pc'[v] # "idle"
      PROVE  AloneIn(v)' /\ Phase(v, pc'[v], local'[v], meta', cache', disk', dirs')
  <2>1. v = u
    BY <1>2, <1>4
  <2> QED BY <1>2, <1>3, <1>4, <2>1 DEF AloneIn
<1>5. ~Busy' => Settled(meta', cache', disk')
  BY <1>2 DEF Busy
<1> QED BY <1>3, <1>4, <1>5 DEF Alone

\* A command that comes while another is served ends the peace.
LEMMA Starting ==
    ASSUME FullInv, Alone, NEW u \in User, NEW l, NEW L, Begin(u, l, L),
           UNCHANGED <<meta, cache, disk, dirs, folders, reg>>,
           Settled(meta, cache, disk) =>
             l = "idle" \/ (/\ l # "enterFolder" /\ Fresh(l, L, meta)
                            /\ AtHand(u, l, L, meta[L.file], cache[L.file], disk))
    PROVE  Alone'
<1>1. CASE Busy \/ disturbed
  BY <1>1 DEF Begin, Alone
<1>2. CASE ~Busy /\ ~disturbed
  <2>1. FoldersDeep /\ AloneIn(u) /\ Settled(meta, cache, disk)
    BY <1>2 DEF Alone, AloneIn, Busy
  <2>2. FoldersDeep'
    BY <2>1 DEF FoldersDeep
  <2>3. l # "idle" => Phase(u, l, L, meta', cache', disk', dirs')
    BY <2>1 DEF Phase, Settled
  <2>4. Settled(meta', cache', disk')
    BY <2>1
  <2> QED BY <2>1, <2>2, <2>3, <2>4, Onward DEF Begin
<1> QED BY <1>1, <1>2

\* Nothing is left to refresh by a handler that has not begun to.
LEMMA NothingLeft ==
    ASSUME NEW l, NEW L, NEW M, \A g \in File : L.left[g] = NoMeta
    PROVE  Fresh(l, L, M)
  BY DEF Fresh

\* What is known of a file whose command is about to change nothing.
LEMMA AgreedAtHand ==
    ASSUME NEW M, NEW C, NEW D, NEW u, NEW L, Agree(M, C, D, L.file),
           NEW l \in Label \ {"choose", "create", "insert", "delete", "remove", "cacheRemove",
                              "move", "findPut", "update", "cachePut"}
    PROVE  AtHand(u, l, L, M[L.file], C[L.file], D)
  BY DEF AtHand, Agree

\* A copy that differs from the record in t's access only.
LEMMA EditedAtHand ==
    ASSUME NEW M, NEW C, NEW D, NEW u, NEW L, Agree(M, C, D, L.file),
           M[L.file] \in Meta, L.copy \in Meta,
           L.copy.ss = M[L.file].ss, L.copy.folder = M[L.file].folder,
           SameButFor(L.copy, M[L.file], L.change)
    PROVE  AtHand(u, "update", L, M[L.file], C[L.file], D)
<1>1. M[L.file] # NoMeta /\ L.copy # NoMeta
  BY NamespaceAssumption
<1>2. Placed(D, L.file, L.copy)
  BY <1>1 DEF Agree, Placed
<1> QED BY <1>1, <1>2 DEF AtHand

\* The list with t's entry set.
LEMMA SetAccessFields ==
    ASSUME NEW m \in Meta, NEW t \in User, NEW a \in Level
    PROVE  LET n == SetAccess(m, t, a)
           IN  n \in Meta /\ n.ss = m.ss /\ n.folder = m.folder /\ SameButFor(n, m, t)
<1>1. CASE SetAccess(m, t, a) = m
  BY <1>1 DEF SameButFor
<1>2. CASE SetAccess(m, t, a) = [m EXCEPT !.acl[t] = a]
  <2> DEFINE n == [m EXCEPT !.acl[t] = a]
  <2>1. n \in Meta /\ n.ss = m.ss /\ n.folder = m.folder /\ n.owner = m.owner
    BY DEF Meta
  <2>2. \A v \in User \ {t} : n.acl[v] = m.acl[v]
    BY DEF Meta
  <2> QED BY <1>2, <2>1, <2>2 DEF SameButFor
<1> QED BY <1>1, <1>2 DEF SetAccess

-----------------------------------------------------------------------------
\* Commands that have read the trie.
LEMMA FirstStepsAlone ==
    ASSUME FullInv, Alone, NEW u \in User, NEW f \in File, UNCHANGED <<tree, reg>>,
           \/ ReceiveCreate(u, f) \/ ReceiveDelete(u, f)
           \/ ReceiveOpen(u, f) \/ ReceiveLookup(u, f)
           \/ \E d \in Folder : ReceiveMove(u, f, d)
           \/ \E a \in Level \ {"none"} : ReceiveRequest(u, f, a)
    PROVE  Alone'
<1> USE NoLocalsFit
<1>1. UNCHANGED <<meta, cache, disk, dirs, folders, reg>>
  BY DEF ReceiveCreate, ReceiveDelete, ReceiveOpen, ReceiveLookup, ReceiveMove, ReceiveRequest,
         servers, tree
<1>2. Settled(meta, cache, disk) => Agree(meta, cache, disk, f)
  BY DEF Settled
<1>3. CASE ReceiveCreate(u, f)
  <2> DEFINE L == [NoLocals EXCEPT !.file = f]
  <2>1. L.file = f /\ \A g \in File : L.left[g] = NoMeta
    BY DEF Locals
  <2>2. Fresh("choose", L, meta)
    BY <2>1, NothingLeft
  <2>3. Agree(meta, cache, disk, f) => AtHand(u, "choose", L, meta[f], cache[f], disk)
    BY <1>3, <2>1 DEF AtHand, Agree, ReceiveCreate, Exists
  <2>4. Begin(u, "choose", L)
    BY <1>3 DEF ReceiveCreate
  <2> HIDE DEF L
  <2> QED BY <1>1, <1>2, <2>1, <2>2, <2>3, <2>4, Starting
<1>4. CASE ReceiveDelete(u, f)
  <2> DEFINE L == [NoLocals EXCEPT !.file = f, !.ss = meta[f].ss]
  <2>1. L.file = f /\ L.ss = meta[f].ss /\ \A g \in File : L.left[g] = NoMeta
    BY DEF Locals
  <2>2. Fresh("delete", L, meta)
    BY <2>1, NothingLeft
  <2>3. Agree(meta, cache, disk, f) => AtHand(u, "delete", L, meta[f], cache[f], disk)
    BY <1>4, <2>1 DEF AtHand, Agree, ReceiveDelete, OwnedBy, Exists
  <2>4. Begin(u, "delete", L)
    BY <1>4 DEF ReceiveDelete
  <2> HIDE DEF L
  <2> QED BY <1>1, <1>2, <2>1, <2>2, <2>3, <2>4, Starting
<1>5. ASSUME NEW l \in {"find", "append"}, NEW L, Begin(u, l, L), L.file = f,
             \A g \in File : L.left[g] = NoMeta
      PROVE  Alone'
  <2>1. Fresh(l, L, meta)
    BY <1>5, NothingLeft
  <2>2. Agree(meta, cache, disk, f) => AtHand(u, l, L, meta[f], cache[f], disk)
    BY <1>5 DEF AtHand, Agree
  <2> QED BY <1>1, <1>2, <1>5, <2>1, <2>2, Starting
<1>6. CASE ReceiveOpen(u, f)
  <2> DEFINE L == [NoLocals EXCEPT !.file = f, !.touch = TRUE]
  <2>1. L.file = f /\ \A g \in File : L.left[g] = NoMeta
    BY DEF Locals
  <2> QED BY <1>5, <1>6, <2>1 DEF ReceiveOpen
<1>7. CASE ReceiveLookup(u, f)
  <2> DEFINE L == [NoLocals EXCEPT !.file = f]
  <2>1. L.file = f /\ \A g \in File : L.left[g] = NoMeta
    BY DEF Locals
  <2> QED BY <1>5, <1>7, <2>1 DEF ReceiveLookup
<1>8. ASSUME NEW d \in Folder, ReceiveMove(u, f, d) PROVE Alone'
  <2> DEFINE L == [NoLocals EXCEPT !.file = f, !.copy = meta[f], !.to = d]
  <2>1. L.file = f /\ L.copy = meta[f] /\ \A g \in File : L.left[g] = NoMeta
    BY DEF Locals
  <2>2. Fresh("move", L, meta)
    BY <2>1, NothingLeft
  <2>3. Agree(meta, cache, disk, f) => AtHand(u, "move", L, meta[f], cache[f], disk)
    BY <1>8, <2>1 DEF AtHand, Agree, ReceiveMove, HasAccess, Exists
  <2>4. Begin(u, "move", L)
    BY <1>8 DEF ReceiveMove
  <2> HIDE DEF L
  <2> QED BY <1>1, <1>2, <2>1, <2>2, <2>3, <2>4, Starting
<1>9. ASSUME NEW a \in Level \ {"none"}, ReceiveRequest(u, f, a) PROVE Alone'
  <2> DEFINE L == [NoLocals EXCEPT !.file = f, !.access = a]
  <2>1. L.file = f /\ \A g \in File : L.left[g] = NoMeta
    BY DEF Locals
  <2> QED BY <1>5, <1>9, <2>1 DEF ReceiveRequest
<1> QED BY <1>3, <1>4, <1>6, <1>7, <1>8, <1>9

\* Commands that change a list: the copy has another list, or the same.
LEMMA AccessStepsAlone ==
    ASSUME FullInv, Alone, NEW u \in User, UNCHANGED <<tree, reg>>,
           \/ \E f \in File, t \in User : ReceiveRemAccess(u, f, t)
           \/ \E f \in File, t \in User, a \in Level \ {"none"} : ReceiveAddAccess(u, f, t, a)
           \/ \E k \in DOMAIN requests : ReceiveApprove(u, k)
    PROVE  Alone'
<1> USE NoLocalsFit
<1>1. UNCHANGED <<meta, cache, disk, dirs, folders, reg>>
  BY DEF ReceiveRemAccess, ReceiveAddAccess, ReceiveApprove, servers, tree
<1>2. ASSUME NEW f \in File, Exists(f), NEW t \in User, NEW n \in Meta,
             n.ss = meta[f].ss, n.folder = meta[f].folder, SameButFor(n, meta[f], t),
             NEW L, L.file = f, L.copy = n, L.change = t,
             \A g \in File : L.left[g] = NoMeta, Begin(u, "update", L)
      PROVE  Alone'
  <2>1. meta[f] \in Meta
    BY <1>2 DEF FullInv, IInv, StateOK, Exists
  <2>2. Agree(meta, cache, disk, f) => AtHand(u, "update", L, meta[f], cache[f], disk)
    BY <1>2, <2>1, EditedAtHand
  <2>3. Fresh("update", L, meta)
    BY <1>2, NothingLeft
  <2> QED BY <1>1, <1>2, <2>2, <2>3, Starting DEF Settled
<1>3. ASSUME NEW f \in File, NEW t \in User, ReceiveRemAccess(u, f, t) PROVE Alone'
  <2> DEFINE n == [meta[f] EXCEPT !.acl[t] = "none"]
             L == [NoLocals EXCEPT !.file = f, !.change = t, !.copy = n]
  <2>1. Exists(f) /\ meta[f] \in Meta
    BY <1>3 DEF FullInv, IInv, StateOK, ReceiveRemAccess, OwnedBy, Exists
  <2>2. n \in Meta /\ n.ss = meta[f].ss /\ n.folder = meta[f].folder /\ SameButFor(n, meta[f], t)
    BY <2>1 DEF Meta, Level, SameButFor
  <2>3. Begin(u, "update", L)
    BY <1>3 DEF ReceiveRemAccess
  <2> HIDE DEF n
  <2>4. L.file = f /\ L.copy = n /\ L.change = t /\ \A g \in File : L.left[g] = NoMeta
    BY DEF Locals
  <2> HIDE DEF L
  <2> QED BY <1>2, <2>1, <2>2, <2>3, <2>4
<1>4. ASSUME NEW f \in File, NEW t \in User, NEW a \in Level, NEW k \in Nat, Exists(f),
             Begin(u, "update", [NoLocals EXCEPT !.file = f, !.change = t, !.req = k,
                                                 !.copy = SetAccess(meta[f], t, a)])
      PROVE  Alone'
  <2> DEFINE n == SetAccess(meta[f], t, a)
             L == [NoLocals EXCEPT !.file = f, !.change = t, !.req = k, !.copy = n]
  <2>1. meta[f] \in Meta
    BY <1>4 DEF FullInv, IInv, StateOK, Exists
  <2>2. n \in Meta /\ n.ss = meta[f].ss /\ n.folder = meta[f].folder /\ SameButFor(n, meta[f], t)
    BY <2>1, SetAccessFields
  <2>3. Begin(u, "update", L)
    BY <1>4
  <2> HIDE DEF n
  <2>4. L.file = f /\ L.copy = n /\ L.change = t /\ \A g \in File : L.left[g] = NoMeta
    BY DEF Locals
  <2> HIDE DEF L
  <2> QED BY <1>2, <1>4, <2>2, <2>3, <2>4
<1>5. ASSUME NEW f \in File, NEW t \in User, NEW a \in Level \ {"none"},
             ReceiveAddAccess(u, f, t, a)
      PROVE  Alone'
  <2> DEFINE n == SetAccess(meta[f], t, a)
  <2>1. Exists(f)
    BY <1>5 DEF ReceiveAddAccess, OwnedBy
  <2>2. [NoLocals EXCEPT !.file = f, !.change = t, !.copy = n]
          = [NoLocals EXCEPT !.file = f, !.change = t, !.req = 0, !.copy = n]
    <3> HIDE DEF n
    <3> QED BY DEF Locals
  <2>3. Begin(u, "update", [NoLocals EXCEPT !.file = f, !.change = t, !.req = 0, !.copy = n])
    BY <1>5, <2>2 DEF ReceiveAddAccess
  <2>4. 0 \in Nat /\ a \in Level
    OBVIOUS
  <2> QED BY <1>4, <2>1, <2>3, <2>4
<1>6. ASSUME NEW k \in DOMAIN requests, ReceiveApprove(u, k) PROVE Alone'
  <2>1. k \in Nat /\ requests[k] \in Request
    BY DEF FullInv, IInv, StateOK
  <2>2. requests[k].file \in File /\ requests[k].user \in User /\ requests[k].access \in Level
    BY <2>1 DEF Request
  <2>3. Exists(requests[k].file)
    BY <1>6 DEF ReceiveApprove, OwnedBy
  <2>4. Begin(u, "update",
              [NoLocals EXCEPT !.file = requests[k].file, !.change = requests[k].user,
                 !.req = k, !.copy = SetAccess(meta[requests[k].file], requests[k].user,
                                               requests[k].access)])
    BY <1>6 DEF ReceiveApprove
  <2> QED BY <1>4, <2>1, <2>2, <2>3, <2>4
<1> QED BY <1>3, <1>5, <1>6

\* DENYREQUEST, VIEW -l and CREATEFOLDER.
LEMMA OtherCommandsAlone ==
    ASSUME FullInv, Alone, NEW u \in User, UNCHANGED reg,
           \/ UNCHANGED tree /\ \E k \in DOMAIN requests : ReceiveDeny(u, k)
           \/ UNCHANGED tree /\ ReceiveView(u)
           \/ \E d \in Folder : ReceiveCreateFolder(u, d)
    PROVE  Alone'
<1> USE NoLocalsFit
<1>1. UNCHANGED <<meta, cache, disk, dirs, folders, reg>>
  BY DEF ReceiveDeny, ReceiveView, ReceiveCreateFolder, servers, tree
<1>2. CASE \E k \in DOMAIN requests : ReceiveDeny(u, k)
  BY <1>1, <1>2, Starting DEF ReceiveDeny
<1>3. NoLocals.file \in File
  BY DEF Locals
<1>4. CASE ReceiveView(u)
  <2> DEFINE L == [NoLocals EXCEPT !.left = meta]
  <2>1. L.file = NoLocals.file /\ L.left = meta
    BY DEF Locals
  <2>2. Fresh("refresh", L, meta)
    BY <2>1 DEF Fresh
  <2>3. Settled(meta, cache, disk) => AtHand(u, "refresh", L, meta[L.file], cache[L.file], disk)
    BY <1>3, <2>1 DEF AtHand, Agree, Settled
  <2>4. Begin(u, "refresh", L)
    BY <1>4 DEF ReceiveView
  <2> HIDE DEF L
  <2> QED BY <1>1, <2>2, <2>3, <2>4, Starting
<1>5. ASSUME NEW d \in Folder, ReceiveCreateFolder(u, d) PROVE Alone'
  <2> DEFINE L == [NoLocals EXCEPT !.to = d]
  <2>1. L.file = NoLocals.file /\ L.to = d /\ \A g \in File : L.left[g] = NoMeta
    BY DEF Locals
  <2>2. Fresh("choose", L, meta)
    BY <2>1, NothingLeft
  <2>3. Settled(meta, cache, disk) => AtHand(u, "choose", L, meta[L.file], cache[L.file], disk)
    BY <1>3, <1>5, <2>1 DEF AtHand, Agree, Settled, ReceiveCreateFolder
  <2>4. Begin(u, "choose", L)
    BY <1>5 DEF ReceiveCreateFolder
  <2> HIDE DEF L
  <2> QED BY <1>1, <2>2, <2>3, <2>4, Starting
<1> QED BY <1>2, <1>4, <1>5

-----------------------------------------------------------------------------
\* Before and after it changes anything, a command finds all files agreed on.
LEMMA Steady ==
    ASSUME NEW u, NEW L, NEW M, NEW C, NEW D, NEW R,
           NEW l \in Label \ {"insert", "remove", "cacheRemove", "update", "cachePut"},
           Phase(u, l, L, M, C, D, R)
    PROVE  Settled(M, C, D)
<1>1. Agree(M, C, D, L.file)
  BY DEF Phase, AtHand, Agree
<1> QED BY <1>1 DEF Phase, Settled

\* A handler at work, when nothing but its own steps is happening.
LEMMA AtWork ==
    ASSUME FullInv, Alone, ~disturbed, NEW u \in User, pc[u] # "idle"
    PROVE  /\ FoldersDeep /\ AloneIn(u)
           /\ Phase(u, pc[u], local[u], meta, cache, disk, dirs)
           /\ local[u] \in Locals /\ pc[u] \in Label
  BY Serving DEF FullInv, IInv, StateOK

\* A step from and to a place where all files are agreed on.
LEMMA SteadySteps ==
    ASSUME FullInv, Alone, ~disturbed, NEW u \in User, UNCHANGED <<tree, reg>>,
           \/ ChooseServer(u) \/ AppendRequest(u) \/ DropRequest(u)
           \/ FindServer(u) \/ Reread(u)
    PROVE  Alone'
<1> DEFINE K == local[u]
           f == K.file
<1>1. UNCHANGED <<meta, cache, disk, dirs, folders, reg>>
  BY DEF ChooseServer, AppendRequest, DropRequest, FindServer, Reread, servers, tree
<1>2. pc[u] \in {"choose", "append", "drop", "find", "reread"}
  BY DEF ChooseServer, AppendRequest, DropRequest, FindServer, Reread
<1>3. /\ FoldersDeep /\ AloneIn(u) /\ K \in Locals /\ f \in File
      /\ Phase(u, pc[u], K, meta, cache, disk, dirs)
  BY <1>2, AtWork DEF Locals
<1>4. Settled(meta, cache, disk)
  BY <1>2, <1>3, Steady DEF Label
<1>5. FoldersDeep' /\ Settled(meta', cache', disk')
  BY <1>1, <1>3, <1>4 DEF FoldersDeep
<1>6. ASSUME Reply(u) PROVE Alone'
  BY <1>1, <1>3, <1>5, <1>6, Onward DEF Reply
<1>7. ASSUME NEW l \in Label \ {"idle", "enterFolder"}, NEW L, GoWith(u, l, L),
             L.file = f, L.left = K.left,
             AtHand(u, l, L, meta[f], cache[f], disk), pc[u] # "drop"
      PROVE  Alone'
  <2>1. Fresh(l, L, meta)
    BY <1>2, <1>3, <1>7 DEF Phase, Fresh
  <2>2. Phase(u, l, L, meta', cache', disk', dirs')
    BY <1>1, <1>4, <1>7, <2>1 DEF Phase, Settled
  <2> QED BY <1>1, <1>3, <1>5, <1>7, <2>2, Onward
<1>8. CASE ChooseServer(u)
  <2> DEFINE L == [K EXCEPT !.ss = next]
             l == IF K.to = Root THEN "create" ELSE "mkdir"
  <2>1. L.file = f /\ L.left = K.left /\ L.to = K.to
    BY <1>3 DEF Locals
  <2>2. l \in Label \ {"idle", "enterFolder"}
    BY DEF Label
  <2>3. GoWith(u, l, L) /\ pc[u] = "choose"
    BY <1>8 DEF ChooseServer
  <2>4. AtHand(u, l, L, meta[f], cache[f], disk)
    BY <1>3, <2>1, <2>3 DEF Phase, AtHand
  <2> HIDE DEF L, l
  <2> QED BY <1>7, <2>1, <2>2, <2>3, <2>4
<1>9. ASSUME Found(u), pc[u] = "find" PROVE Alone'
  <2>1. CASE Goto(u, "reread")
    <3>1. AtHand(u, "reread", K, meta[f], cache[f], disk)
      BY <1>3, <1>4 DEF AtHand, Settled, Agree
    <3> QED BY <1>7, <1>9, <2>1, <3>1 DEF Goto, Label
  <2> QED BY <1>6, <1>9, <2>1 DEF Found
<1>10. ASSUME NEW l \in {"findPut", "update"}, pc[u] \in {"find", "reread"}, Exists(f),
              GoWith(u, l, [K EXCEPT !.copy = meta[f]])
       PROVE  Alone'
  <2> DEFINE L == [K EXCEPT !.copy = meta[f]]
  <2>1. L.file = f /\ L.left = K.left /\ L.copy = meta[f]
    BY <1>3 DEF Locals
  <2>2. AtHand(u, l, L, meta[f], cache[f], disk)
    BY <1>3, <1>4, <1>10, <2>1 DEF AtHand, Settled, Agree, SameButFor, Exists
  <2>3. GoWith(u, l, L) /\ l \in Label \ {"idle", "enterFolder"}
    BY <1>10 DEF Label
  <2> HIDE DEF L
  <2> QED BY <1>7, <1>10, <2>1, <2>2, <2>3
<1>11. CASE FindServer(u)
  BY <1>6, <1>9, <1>10, <1>11 DEF FindServer
<1>12. CASE Reread(u)
  BY <1>6, <1>10, <1>12 DEF Reread
<1> QED BY <1>6, <1>8, <1>11, <1>12 DEF AppendRequest, DropRequest

\* VIEW -l takes the next file in hand, with a copy that is still the record.
LEMMA RefreshAlone ==
    ASSUME FullInv, Alone, ~disturbed, NEW u \in User, UNCHANGED <<tree, reg>>, Refresh(u)
    PROVE  Alone'
<1> DEFINE K == local[u]
<1>1. UNCHANGED <<meta, cache, disk, dirs, folders, reg>> /\ pc[u] = "refresh"
  BY DEF Refresh, tree
<1>2. /\ FoldersDeep /\ AloneIn(u) /\ K \in Locals
      /\ Phase(u, pc[u], K, meta, cache, disk, dirs)
  BY <1>1, AtWork
<1>3. Settled(meta, cache, disk)
  BY <1>1, <1>2, Steady DEF Label
<1>4. FoldersDeep' /\ Settled(meta', cache', disk')
  BY <1>1, <1>2, <1>3 DEF FoldersDeep
<1>5. CASE Reply(u)
  BY <1>1, <1>2, <1>4, <1>5, Onward DEF Reply
<1>6. ASSUME NEW f \in File, K.left[f] # NoMeta, NEW l \in {"update", "refresh"},
             GoWith(u, l, [K EXCEPT !.left[f] = NoMeta, !.file = f, !.copy = K.left[f]])
      PROVE  Alone'
  <2> DEFINE L == [K EXCEPT !.left[f] = NoMeta, !.file = f, !.copy = K.left[f]]
  <2>1. /\ L.file = f /\ L.copy = K.left[f] /\ L.left[f] = NoMeta
        /\ \A g \in File \ {f} : L.left[g] = K.left[g]
    BY <1>2 DEF Locals
  <2>2. GoWith(u, l, L)
    BY <1>6
  <2> HIDE DEF L
  <2>3. L.copy = meta[f] /\ meta[f] # NoMeta
    BY <1>2, <1>6, <2>1 DEF Phase, Fresh
  <2>4. AtHand(u, l, L, meta[f], cache[f], disk)
    BY <1>3, <1>6, <2>1, <2>3 DEF AtHand, Settled, Agree, SameButFor
  <2>5. Fresh(l, L, meta)
    BY <1>2, <1>6, <2>1 DEF Phase, Fresh
  <2>6. Phase(u, l, L, meta', cache', disk', dirs')
    BY <1>1, <1>3, <1>6, <2>1, <2>4, <2>5 DEF Phase, Settled
  <2> QED BY <1>1, <1>2, <1>4, <1>6, <2>2, <2>6, Onward
<1> QED BY <1>5, <1>6 DEF Refresh

-----------------------------------------------------------------------------
\* The server has done its part for the file at hand, which the trie does not know yet.
LEMMA ServerDone ==
    ASSUME FullInv, Alone, ~disturbed, NEW u \in User,
           UNCHANGED <<meta, cache, dirs, folders, reg>>,
           pc[u] \in {"create", "delete", "move"},
           NEW l \in Label \ {"idle", "enterFolder"}, NEW L, GoWith(u, l, L),
           L.file = local[u].file, L.left = local[u].left,
           AtHand(u, l, L, meta[L.file], cache[L.file], disk'),
           \A g \in File \ {L.file}, s \in Server, d \in Folder :
               <<s, g, d>> \in disk' <=> <<s, g, d>> \in disk
    PROVE  Alone'
<1>1. FoldersDeep /\ AloneIn(u) /\ Phase(u, pc[u], local[u], meta, cache, disk, dirs)
  BY AtWork
<1>2. Fresh(l, L, meta)
  BY <1>1 DEF Phase, Fresh
<1>3. \A g \in File \ {L.file} : Agree(meta, cache, disk', g)
  BY <1>1, OtherFile DEF Phase, Agree
<1>4. Phase(u, l, L, meta', cache', disk', dirs')
  BY <1>2, <1>3 DEF Phase
<1>5. FoldersDeep'
  BY <1>1 DEF FoldersDeep
<1> QED BY <1>1, <1>4, <1>5, Onward

\* The server does nothing, and the command is refused.
LEMMA Refused ==
    ASSUME FullInv, Alone, ~disturbed, NEW u \in User,
           UNCHANGED <<meta, cache, disk, dirs, folders, reg>>, Reply(u),
           pc[u] \in {"create", "delete", "move", "mkdir"}
    PROVE  Alone'
<1>1. FoldersDeep /\ AloneIn(u) /\ Phase(u, pc[u], local[u], meta, cache, disk, dirs)
  BY AtWork
<1>2. Settled(meta, cache, disk)
  BY <1>1, Steady DEF Label
<1>3. FoldersDeep' /\ Settled(meta', cache', disk')
  BY <1>1, <1>2 DEF FoldersDeep
<1> QED BY <1>1, <1>3, Onward DEF Reply

\* CREATE, DELETE and MOVE at the server.
LEMMA ServerStepsAlone ==
    ASSUME FullInv, Alone, ~disturbed', NEW u \in User, UNCHANGED <<tree, reg>>,
           AskCreate(u) \/ AskDelete(u) \/ AskMove(u)
    PROVE  Alone'
<1> DEFINE K == local[u]
           f == K.file
<1>1. UNCHANGED <<meta, cache, dirs, folders, reg>> /\ ~disturbed
  BY DEF AskCreate, AskDelete, AskMove, Broken, tree
<1>2. pc[u] \in {"create", "delete", "move"}
  BY DEF AskCreate, AskDelete, AskMove
<1>3. /\ K \in Locals /\ f \in File
      /\ AtHand(u, pc[u], K, meta[f], cache[f], disk)
      /\ Placed(disk, f, meta[f]) /\ Cached(cache[f], meta[f])
      /\ meta[f] \in Meta \cup {NoMeta}
  BY <1>1, <1>2, AtWork DEF Phase, AtHand, Locals, FullInv, IInv, StateOK
<1>4. CASE AskCreate(u)
  <2>1. pc[u] = "create" /\ meta[f] = NoMeta
    BY <1>3, <1>4 DEF AskCreate, AtHand
  <2>2. CASE Reply(u) /\ UNCHANGED disk
    BY <1>1, <1>2, <2>2, Refused
  <2>3. CASE disk' = disk \cup {<<K.ss, f, Root>>} /\ Goto(u, "insert")
    <3>1. Placed(disk', f, NewMeta(u, K.ss))
      BY <1>3, <2>1, <2>3, CreatedPlaced DEF Locals
    <3>2. AtHand(u, "insert", K, meta[f], cache[f], disk')
      BY <1>3, <2>1, <3>1 DEF AtHand, Cached
    <3> QED BY <1>1, <1>2, <2>3, <3>2, ServerDone DEF Goto, Label
  <2> QED BY <1>4, <2>2, <2>3 DEF AskCreate, Broken
<1>5. CASE AskDelete(u)
  <2>1. pc[u] = "delete" /\ K.ss = meta[f].ss /\ meta[f] \in Meta
    BY <1>3, <1>5 DEF AskDelete, AtHand
  <2>2. CASE Reply(u) /\ UNCHANGED disk
    BY <1>1, <1>2, <2>2, Refused
  <2>3. CASE /\ <<K.ss, f, Root>> \in disk /\ disk' = disk \ {<<K.ss, f, Root>>}
             /\ Goto(u, "remove")
    <3>1. Placed(disk', f, NoMeta)
      BY <1>3, <2>1, <2>3, DeletedPlaced
    <3>2. AtHand(u, "remove", K, meta[f], cache[f], disk')
      BY <3>1 DEF AtHand
    <3> QED BY <1>1, <1>2, <2>3, <3>2, ServerDone DEF Goto, Label
  <2> QED BY <1>5, <2>2, <2>3 DEF AskDelete, Broken
<1>6. CASE AskMove(u)
  <2> DEFINE L == [K EXCEPT !.copy.folder = K.to]
  <2>1. pc[u] = "move" /\ K.copy = meta[f] /\ meta[f] \in Meta
    BY <1>3, <1>6 DEF AskMove, AtHand
  <2>2. CASE Reply(u) /\ UNCHANGED disk
    BY <1>1, <1>2, <2>2, Refused
  <2>3. CASE Rename(K.copy.ss, f, K.copy.folder, K.to) /\ GoWith(u, "update", L)
    <3> DEFINE n == [meta[f] EXCEPT !.folder = K.to]
    <3>1. L.file = f /\ L.left = K.left /\ L.copy = n
      BY <1>3, <2>1 DEF Locals
    <3>2. Placed(disk', f, n)
      BY <1>3, <2>1, <2>3, RenamedPlaced DEF Rename, Locals
    <3>3. SameButFor(n, meta[f], L.change)
      BY <2>1 DEF SameButFor, Meta
    <3>4. GoWith(u, "update", L) /\ meta[f] # NoMeta
      BY <2>1, <2>3, NamespaceAssumption
    <3>5. \A g \in File \ {f}, s \in Server, d \in Folder :
             <<s, g, d>> \in disk' <=> <<s, g, d>> \in disk
      BY <2>3 DEF Rename
    <3> HIDE DEF n, L
    <3>6. AtHand(u, "update", L, meta[f], cache[f], disk')
      BY <3>1, <3>2, <3>3, <3>4 DEF AtHand
    <3> QED BY <1>1, <1>2, <3>1, <3>4, <3>5, <3>6, ServerDone DEF Label
  <2> QED BY <1>6, <2>2, <2>3 DEF AskMove, Broken
<1> QED BY <1>4, <1>5, <1>6

-----------------------------------------------------------------------------
\* The trie's record of the file at hand changes; VIEW -l has it no more to refresh.
LEMMA TrieStepsAlone ==
    ASSUME FullInv, Alone, ~disturbed', NEW u \in User, UNCHANGED <<tree, reg>>,
           InsertMeta(u) \/ RemoveMeta(u) \/ UpdateMeta(u)
    PROVE  Alone'
<1> DEFINE K == local[u]
           f == K.file
<1>1. UNCHANGED <<cache, disk, dirs, folders, reg>> /\ ~disturbed
  BY DEF InsertMeta, RemoveMeta, UpdateMeta, servers, history, tree
<1>2. pc[u] \in {"insert", "remove", "update"}
  BY DEF InsertMeta, RemoveMeta, UpdateMeta
<1>3. /\ FoldersDeep /\ AloneIn(u) /\ K \in Locals /\ f \in File
      /\ Phase(u, pc[u], K, meta, cache, disk, dirs)
      /\ AtHand(u, pc[u], K, meta[f], cache[f], disk)
      /\ meta \in [File -> Meta \cup {NoMeta}]
  BY <1>1, <1>2, AtWork DEF Phase, Locals, FullInv, IInv, StateOK
<1>4. FoldersDeep'
  BY <1>1, <1>3 DEF FoldersDeep
<1>5. ASSUME NEW l \in {"cacheRemove", "cachePut"}, NEW L, GoWith(u, l, L),
             NEW m, meta' = [meta EXCEPT ![f] = m],
             L.file = f, L.left = K.left, AtHand(u, l, L, m, cache[f], disk),
             l = "cacheRemove" => pc[u] = "remove"
      PROVE  Alone'
  <2>1. meta'[f] = m /\ \A g \in File \ {f} : meta'[g] = meta[g]
    BY <1>3, <1>5
  <2>2. Fresh(l, L, meta')
    BY <1>2, <1>3, <1>5, <2>1 DEF Phase, Fresh
  <2>3. \A g \in File \ {f} : Agree(meta', cache, disk, g)
    BY <1>3, <2>1 DEF Phase, Agree
  <2>4. Phase(u, l, L, meta', cache', disk', dirs')
    BY <1>1, <1>5, <2>1, <2>2, <2>3 DEF Phase
  <2> QED BY <1>1, <1>3, <1>4, <1>5, <2>4, Onward
<1>6. CASE InsertMeta(u)
  <2> DEFINE m == NewMeta(u, K.ss)
             L == [K EXCEPT !.copy = m]
  <2>1. L.file = f /\ L.left = K.left /\ L.copy = m
    BY <1>3 DEF Locals
  <2>2. GoWith(u, "cachePut", L) /\ meta' = [meta EXCEPT ![f] = m] /\ pc[u] = "insert"
    BY <1>6 DEF InsertMeta
  <2>3. AtHand(u, "cachePut", L, m, cache[f], disk)
    BY <1>3, <2>1, <2>2 DEF AtHand
  <2> HIDE DEF L, m
  <2> QED BY <1>5, <2>1, <2>2, <2>3
<1>7. CASE RemoveMeta(u)
  <2>1. AtHand(u, "cacheRemove", K, NoMeta, cache[f], disk)
    BY <1>3, <1>7 DEF AtHand, RemoveMeta
  <2> QED BY <1>5, <1>7, <2>1 DEF RemoveMeta, Goto
<1>8. CASE UpdateMeta(u)
  <2>1. Exists(f) /\ Placed(disk, f, K.copy)
    BY <1>3, <1>8 DEF AtHand, UpdateMeta, Exists
  <2>2. AtHand(u, "cachePut", K, K.copy, cache[f], disk)
    BY <2>1 DEF AtHand
  <2> QED BY <1>5, <1>8, <2>1, <2>2 DEF UpdateMeta, Goto
<1> QED BY <1>6, <1>7, <1>8

\* The cache follows the trie, and then all files are agreed on.
LEMMA CacheStepsAlone ==
    ASSUME FullInv, Alone, ~disturbed', NEW u \in User, UNCHANGED <<tree, reg>>,
           CacheRemove(u) \/ FindPut(u) \/ CachePut(u)
    PROVE  Alone'
<1> DEFINE K == local[u]
           f == K.file
<1>1. UNCHANGED <<meta, disk, dirs, folders, reg>> /\ ~disturbed
  BY DEF CacheRemove, FindPut, CachePut, servers, history, tree
<1>2. pc[u] \in {"cacheRemove", "findPut", "cachePut"}
  BY DEF CacheRemove, FindPut, CachePut
<1>3. /\ FoldersDeep /\ AloneIn(u) /\ K \in Locals /\ f \in File
      /\ Phase(u, pc[u], K, meta, cache, disk, dirs)
      /\ AtHand(u, pc[u], K, meta[f], cache[f], disk)
      /\ cache \in [File -> Meta \cup {NoMeta}]
  BY <1>1, <1>2, AtWork DEF Phase, Locals, FullInv, IInv, StateOK
<1>4. FoldersDeep'
  BY <1>1, <1>3 DEF FoldersDeep
<1>5. \A g \in File \ {f} : cache'[g] = cache[g]
  BY <1>3 DEF CacheRemove, FindPut, CachePut
<1>6. cache'[f] \in {NoMeta, meta[f]}
  BY <1>3 DEF CacheRemove, FindPut, CachePut, AtHand
<1>7. Placed(disk, f, meta[f])
  BY <1>2, <1>3 DEF AtHand
<1>8. Settled(meta', cache', disk')
  BY <1>1, <1>3, <1>5, <1>6, <1>7 DEF Settled, Phase, Agree, Cached
<1>9. ASSUME NEW l \in {"reread", "drop", "refresh"}, Goto(u, l), pc[u] # "cacheRemove",
             l = "reread" => pc[u] = "findPut"
      PROVE  Alone'
  <2>1. Agree(meta', cache', disk', f)
    BY <1>3, <1>8 DEF Settled
  <2>2. AtHand(u, l, K, meta'[f], cache'[f], disk')
    BY <2>1, AgreedAtHand DEF Label
  <2>3. Fresh(l, K, meta')
    BY <1>1, <1>3, <1>9 DEF Phase, Fresh
  <2>4. Phase(u, l, K, meta', cache', disk', dirs')
    BY <1>8, <2>2, <2>3 DEF Phase, Settled
  <2> QED BY <1>1, <1>3, <1>4, <2>4, <1>9, Onward DEF Goto
<1>10. ASSUME Reply(u) PROVE Alone'
  BY <1>1, <1>3, <1>4, <1>8, <1>10, Onward DEF Reply
<1>11. CASE FindPut(u)
  BY <1>9, <1>10, <1>11 DEF FindPut, Found
<1>12. CASE CachePut(u)
  BY <1>9, <1>10, <1>12 DEF CachePut
<1> QED BY <1>10, <1>11, <1>12 DEF CacheRemove

-----------------------------------------------------------------------------
\* The directories of a path are made, and no directory ever goes.
LEMMA FolderStepsAlone ==
    ASSUME FullInv, Alone, ~disturbed', NEW u \in User, UNCHANGED reg, ServeFolder(u)
    PROVE  Alone'
<1> DEFINE K == local[u]
           f == K.file
<1>1. UNCHANGED <<meta, cache, disk, reg>> /\ ~disturbed /\ pc[u] \in {"mkdir", "enterFolder"}
  BY DEF ServeFolder, AskMkdir, InsertFolder, Broken, servers, history
<1>2. /\ FoldersDeep /\ AloneIn(u) /\ K \in Locals /\ f \in File
      /\ Phase(u, pc[u], K, meta, cache, disk, dirs)
  BY <1>1, AtWork DEF Locals
<1>3. Settled(meta, cache, disk)
  BY <1>1, <1>2, Steady DEF Label
<1>4. CASE Reply(u) /\ UNCHANGED <<dirs, folders>>
  <2>1. FoldersDeep' /\ Settled(meta', cache', disk')
    BY <1>1, <1>2, <1>3, <1>4 DEF FoldersDeep
  <2> QED BY <1>1, <1>2, <1>4, <2>1, Onward DEF Reply
<1>5. CASE dirs' = MkdirAll(K.ss, K.to) /\ Goto(u, "enterFolder") /\ UNCHANGED folders
  <2>1. K.ss \in Server
    BY <1>2 DEF Locals
  <2>2. Deep(dirs', K.to)
    BY <1>5, <2>1 DEF Deep, MkdirAll
  <2>3. FoldersDeep'
    BY <1>2, <1>5 DEF FoldersDeep, Deep, MkdirAll
  <2>4. Fresh("enterFolder", K, meta)
    BY <1>1, <1>2 DEF Phase, Fresh
  <2>5. AtHand(u, "enterFolder", K, meta[f], cache[f], disk)
    BY <1>2, <1>3, AgreedAtHand DEF Settled, Label
  <2>6. Phase(u, "enterFolder", K, meta', cache', disk', dirs')
    BY <1>1, <1>3, <2>2, <2>4, <2>5 DEF Phase, Settled
  <2> QED BY <1>1, <1>2, <1>5, <2>3, <2>6, Onward DEF Goto
<1>6. CASE InsertFolder(u)
  <2>1. Deep(dirs, K.to)
    BY <1>2, <1>6 DEF Phase, InsertFolder
  <2>2. FoldersDeep' /\ Settled(meta', cache', disk')
    BY <1>1, <1>2, <1>3, <1>6, <2>1 DEF FoldersDeep, InsertFolder
  <2> QED BY <1>1, <1>2, <1>6, <2>2, Onward DEF InsertFolder, Reply
<1> QED BY <1>4, <1>5, <1>6 DEF ServeFolder, AskMkdir, Broken

-----------------------------------------------------------------------------
\* The thread of a registration, when it is the only one at work.
LEMMA RegisterAlone ==
    ASSUME FullInv, Alone, NEW s \in Server, Register(s)
    PROVE  Alone'
<1>1. UNCHANGED <<meta, cache, disk, dirs, folders, pc, local>>
  BY DEF Register, servers, clients, tree
<1>2. CASE Busy \/ disturbed
  BY <1>2 DEF Register, Alone
<1>3. CASE ~Busy /\ ~disturbed
  <2>1. FoldersDeep /\ Settled(meta, cache, disk) /\ \A u \in User : pc[u] = "idle"
    BY <1>3 DEF Alone, Busy
  <2>2. /\ reg'.pc = "search" /\ reg'.ss = s
        /\ reg'.left = {f \in File : <<s, f, Root>> \in disk}
    BY DEF Register, Registering, NoRegistration
  <2>3. Merging(reg', meta, cache, disk)
    BY <2>1, <2>2 DEF Merging, Settled, Agree
  <2>4. FoldersDeep'
    BY <1>1, <2>1 DEF FoldersDeep
  <2> QED BY <1>1, <2>1, <2>2, <2>3, <2>4 DEF Alone, Busy
<1> QED BY <1>2, <1>3

LEMMA SearchAlone ==
    ASSUME FullInv, Alone, ~disturbed', SearchFile
    PROVE  Alone'
<1>1. UNCHANGED <<meta, cache, disk, dirs, folders, pc, local>> /\ ~disturbed
  BY DEF SearchFile, servers, clients, tree, history
<1>2. FoldersDeep /\ Merging(reg, meta, cache, disk) /\ \A u \in User : pc[u] = "idle"
  BY <1>1 DEF Alone, SearchFile
<1>3. FoldersDeep'
  BY <1>1, <1>2 DEF FoldersDeep
<1>4. reg \in Registration /\ reg.pc = "search"
  BY DEF FullInv, RegFits, SearchFile
<1>5. CASE reg.left = {} /\ reg' = NoRegistration
  <2>1. Settled(meta, cache, disk)
    BY <1>2, <1>4, <1>5 DEF Merging, Settled, Agree
  <2>2. reg'.pc = "idle"
    BY <1>5 DEF NoRegistration
  <2> QED BY <1>1, <1>2, <1>3, <2>1, <2>2 DEF Alone
<1>6. ASSUME NEW f \in reg.left,
             reg' = [reg EXCEPT !.pc = "enter", !.left = @ \ {f}, !.file = f,
                       !.copy = IF Exists(f) THEN [meta[f] EXCEPT !.ss = reg.ss] ELSE NoMeta]
      PROVE  Alone'
  <2> DEFINE m == IF Exists(f) THEN [meta[f] EXCEPT !.ss = reg.ss] ELSE NoMeta
             r == [reg EXCEPT !.pc = "enter", !.left = @ \ {f}, !.file = f, !.copy = m]
  <2>1. f \in File /\ reg.ss \in Server /\ <<reg.ss, f, Root>> \in disk
    BY <1>2, <1>4 DEF Merging, Registration
  <2>2. m = meta[f]
    <3>1. CASE Exists(f)
      <4>1. meta[f] \in Meta /\ Placed(disk, f, meta[f])
        BY <1>2, <2>1, <3>1 DEF Merging, FullInv, IInv, StateOK, Exists
      <4>2. meta[f].ss = reg.ss
        BY <2>1, <4>1, NamespaceAssumption DEF Placed
      <4> QED BY <3>1, <4>1, <4>2 DEF Meta
    <3> QED BY <3>1 DEF Exists
  <2> HIDE DEF m
  <2>3. /\ r.pc = "enter" /\ r.left = reg.left \ {f} /\ r.file = f /\ r.copy = m
        /\ r.ss = reg.ss
    BY <1>4 DEF Registration
  <2>4. reg' = r
    BY <1>6 DEF m
  <2> HIDE DEF r
  <2>5. Merging(r, meta, cache, disk)
    BY <1>2, <1>4, <2>1, <2>2, <2>3 DEF Merging
  <2> QED BY <1>1, <1>2, <1>3, <2>3, <2>4, <2>5 DEF Alone, Busy
<1> QED BY <1>5, <1>6 DEF SearchFile

LEMMA EnterAlone ==
    ASSUME FullInv, Alone, ~disturbed', EnterFile
    PROVE  Alone'
<1> DEFINE f == reg.file
           m == Brought(f)
<1>1. /\ UNCHANGED <<cache, disk, dirs, folders, pc, local>> /\ ~disturbed
      /\ meta' = [meta EXCEPT ![f] = m]
  BY DEF EnterFile, servers, clients, tree, history
<1>2. FoldersDeep /\ Merging(reg, meta, cache, disk) /\ \A u \in User : pc[u] = "idle"
  BY <1>1 DEF Alone, EnterFile
<1>3. FoldersDeep'
  BY <1>1, <1>2 DEF FoldersDeep
<1>4. /\ reg \in Registration /\ f \in File /\ reg.ss \in Server /\ reg.pc = "enter"
      /\ meta \in [File -> Meta \cup {NoMeta}]
  BY DEF FullInv, RegFits, Registration, EnterFile, IInv, StateOK
<1>5. reg'.pc = "search" /\ reg'.left = reg.left /\ reg'.ss = reg.ss
  BY <1>4 DEF EnterFile, Registration
<1>6. <<reg.ss, f, Root>> \in disk /\ reg.copy = meta[f]
  BY <1>2, <1>4 DEF Merging
<1>7. Placed(disk, f, m) /\ Cached(cache[f], m)
  <2>1. CASE meta[f] = NoMeta
    <3>1. ~Placed(disk, f, meta[f])
      BY <1>4, <1>6, <2>1, NamespaceAssumption DEF Placed
    <3> QED BY <1>2, <1>4, <1>6, <2>1, <3>1 DEF Merging, Brought, Cached
  <2>2. CASE meta[f] # NoMeta
    BY <1>2, <1>4, <1>6, <2>2 DEF Merging, Brought, Exists
  <2> QED BY <2>1, <2>2
<1>8. Merging(reg', meta', cache, disk)
  <2> HIDE DEF m
  <2> QED BY <1>1, <1>2, <1>4, <1>5, <1>7 DEF Merging
<1> QED BY <1>1, <1>2, <1>3, <1>5, <1>8 DEF Alone, Busy

-----------------------------------------------------------------------------
\* At first nothing is known of the files that the first server is about to bring.
LEMMA InitiallyAlone == Init => Alone
<1> SUFFICES ASSUME Init PROVE Alone
  OBVIOUS
<1>1. Creator \in User /\ 0 \in Server
  BY NamespaceAssumption DEF Creator, Server
<1>2. PICK files \in SUBSET File :
        /\ {f \in File : meta[f] # NoMeta} \subseteq files
        /\ disk = {<<0, f, Root>> : f \in files}
        /\ reg = IF \E f \in files : meta[f] = NoMeta
                   THEN Registering(0, files) ELSE NoRegistration
  BY DEF Init
<1>3. \A g \in File : /\ meta[g] \in {NoMeta, NewMeta(Creator, 0)}
                      /\ cache[g] = meta[g]
  BY DEF Init
<1>4. \A g \in files, u \in User \cup {System} : Placed(disk, g, NewMeta(u, 0))
  BY <1>1, <1>2, NewMetaFields DEF Placed
<1>5. \A g \in File \ files : Placed(disk, g, NoMeta)
  BY <1>2 DEF Placed
<1>6. /\ FoldersDeep
      /\ \A u \in User : pc[u] = "idle"
  BY DEF Init, FoldersDeep
<1>7. CASE \E f \in files : meta[f] = NoMeta
  <2>1. reg.pc = "search" /\ reg.ss = 0 /\ reg.left = files
    BY <1>2, <1>7 DEF Registering, NoRegistration
  <2>2. Merging(reg, meta, cache, disk)
    BY <1>1, <1>2, <1>3, <1>4, <1>5, <2>1 DEF Merging, Cached
  <2> QED BY <1>6, <2>1, <2>2 DEF Alone, Busy
<1>8. CASE ~\E f \in files : meta[f] = NoMeta
  <2>1. reg.pc = "idle"
    BY <1>2, <1>8 DEF NoRegistration
  <2>2. Settled(meta, cache, disk)
    BY <1>1, <1>2, <1>3, <1>4, <1>5, <1>8 DEF Settled, Agree, Cached
  <2> QED BY <1>6, <2>1, <2>2 DEF Alone
<1> QED BY <1>7, <1>8

LEMMA InductiveAlone == FullInv /\ Alone /\ [Next]_vars => Alone'
<1> SUFFICES ASSUME FullInv, Alone, [Next]_vars PROVE Alone'
  OBVIOUS
<1>1. CASE disturbed'
  BY <1>1 DEF Alone
<1>2. CASE UNCHANGED vars
  BY <1>2 DEF vars, servers, clients, tree, history, Alone, FoldersDeep, AloneIn, Busy
<1>3. ASSUME NEW u \in User, Command(u), UNCHANGED <<tree, reg>> PROVE Alone'
  BY <1>3, FirstStepsAlone, AccessStepsAlone, OtherCommandsAlone DEF Command
<1>4. ASSUME NEW u \in User, Serve(u), UNCHANGED <<tree, reg>>, ~disturbed' PROVE Alone'
  <2>1. CASE \/ ChooseServer(u) \/ AppendRequest(u) \/ DropRequest(u)
             \/ FindServer(u) \/ Reread(u) \/ Refresh(u)
    <3>1. ~disturbed
      BY <1>4, <2>1 DEF ChooseServer, AppendRequest, DropRequest, FindServer, Reread, Refresh,
                        history
    <3> QED BY <1>4, <2>1, <3>1, SteadySteps, RefreshAlone
  <2> QED BY <1>4, <2>1, ServerStepsAlone, TrieStepsAlone, CacheStepsAlone DEF Serve
<1> QED BY <1>1, <1>2, <1>3, <1>4, OtherCommandsAlone, FolderStepsAlone, RegisterAlone,
           SearchAlone, EnterAlone DEF Next, Handle, Merge

\* The inductive invariant of one command, or one registration, at a time.
THEOREM InvarianceAlone == Spec => [](FullInv /\ Alone)
<1>1. FullInv /\ Alone /\ [Next]_vars => (FullInv /\ Alone)'
  BY Inductive, InductiveAlone
<1> QED BY <1>1, InitiallyFull, InitiallyAlone, PTL DEF Spec

\* While commands and registrations come one at a time, an idle name server has a
\* record of every file of the servers, at its place, no other record, nothing else in
\* its cache, and no folder that is not a directory of a server with its whole path
\* (handle_create, handle_delete, handle_move, handle_createfolder,
\* handle_ss_connection).
THEOREM Consistency == Spec => []ConsistentAlone
<1>1. FullInv /\ Alone => ConsistentAlone
  <2> SUFFICES ASSUME FullInv, Alone, ~disturbed, ~Busy PROVE ConsistentAlone
    BY DEF ConsistentAlone
  <2> DEFINE known == {<<meta[f].ss, f, meta[f].folder>> : f \in {g \in File : Exists(g)}}
  <2>1. FoldersDeep /\ Settled(meta, cache, disk)
    BY DEF Alone
  <2>2. disk \subseteq Server \X File \X Folder /\ meta \in [File -> Meta \cup {NoMeta}]
    BY DEF FullInv, IInv, StateOK
  <2>3. ASSUME NEW p \in disk PROVE p \in known
    <3>1. PICK s \in Server, f \in File, d \in Folder : p = <<s, f, d>>
      BY <2>2
    <3>2. meta[f] # NoMeta /\ s = meta[f].ss /\ d = meta[f].folder
      BY <2>1, <3>1 DEF Settled, Agree, Placed
    <3> QED BY <3>1, <3>2 DEF Exists
  <2>4. ASSUME NEW p \in known PROVE p \in disk
    <3>1. PICK f \in File : Exists(f) /\ p = <<meta[f].ss, f, meta[f].folder>>
      OBVIOUS
    <3>2. meta[f].ss \in Server /\ meta[f].folder \in Folder
      BY <2>2, <3>1 DEF Exists, Meta
    <3> QED BY <2>1, <3>1, <3>2 DEF Settled, Agree, Placed, Exists
  <2>5. disk = known
    BY <2>3, <2>4
  <2> QED BY <2>1, <2>5 DEF ConsistentAlone, Settled, Agree, Cached, FoldersDeep, Deep
<1> QED BY <1>1, InvarianceAlone, PTL

-----------------------------------------------------------------------------
\* The steps that write to the trie.
LEMMA TrieWriters ==
    ASSUME [Next]_vars, meta' # meta
    PROVE  \/ EnterFile
           \/ \E u \in User : InsertMeta(u) \/ RemoveMeta(u) \/ UpdateMeta(u)
<1>1. ASSUME NEW u \in User, Command(u) PROVE UNCHANGED meta
  BY <1>1 DEF Command, ReceiveCreate, ReceiveDelete, ReceiveOpen, ReceiveLookup, ReceiveMove,
              ReceiveRequest, ReceiveRemAccess, ReceiveAddAccess, ReceiveApprove, ReceiveDeny,
              ReceiveView
<1>2. ASSUME NEW u \in User, Serve(u), ~(InsertMeta(u) \/ RemoveMeta(u) \/ UpdateMeta(u))
      PROVE  UNCHANGED meta
  BY <1>2 DEF Serve, ChooseServer, AskCreate, AskDelete, CacheRemove, AppendRequest,
              DropRequest, AskMove, FindServer, FindPut, Reread, Refresh, CachePut
<1>3. ASSUME NEW u \in User, ServeFolder(u) \/ \E d \in Folder : ReceiveCreateFolder(u, d)
      PROVE  UNCHANGED meta
  BY <1>3 DEF ServeFolder, AskMkdir, InsertFolder, ReceiveCreateFolder
<1>4. ASSUME NEW s \in Server, Register(s) PROVE UNCHANGED meta
  BY <1>4 DEF Register
<1>5. ASSUME SearchFile PROVE UNCHANGED meta
  BY <1>5 DEF SearchFile
<1>6. UNCHANGED vars => UNCHANGED meta
  BY DEF vars
<1> QED BY <1>1, <1>2, <1>3, <1>4, <1>5, <1>6 DEF Next, Handle, Merge

\* Of those, UpdateMeta alone can change a list, and it changes one entry of it.
LEMMA AccessStepAlone ==
    ASSUME FullInv, Alone, [Next]_vars, ~disturbed
    PROVE  AccessStep
<1>1. meta \in [File -> Meta \cup {NoMeta}] /\ pc \in [User -> Label]
  BY DEF FullInv, IInv, StateOK
<1>2. CASE meta' = meta
  BY <1>2 DEF AccessStep
<1>3. ASSUME NEW u \in User, InsertMeta(u) PROVE AccessStep
  <2>1. AtHand(u, "insert", local[u], meta[local[u].file], cache[local[u].file], disk)
    BY <1>3, AtWork DEF InsertMeta, Phase
  <2>2. ~Exists(local[u].file)
    BY <2>1 DEF AtHand, Exists
  <2>3. \A g \in File \ {local[u].file} : meta'[g] = meta[g]
    BY <1>1, <1>3 DEF InsertMeta
  <2> QED BY <2>2, <2>3 DEF AccessStep
<1>4. ASSUME NEW u \in User, RemoveMeta(u) PROVE AccessStep
  BY <1>1, <1>4 DEF RemoveMeta, AccessStep, Exists
<1>5. ASSUME NEW u \in User, UpdateMeta(u) PROVE AccessStep
  <2> DEFINE K == local[u]
             f == K.file
  <2>1. pc[u] = "update" /\ pc'[u] = "cachePut"
    BY <1>1, <1>5 DEF UpdateMeta, Goto, GoWith
  <2>2. AtHand(u, "update", K, meta[f], cache[f], disk) /\ f \in File
    BY <1>1, <2>1, AtWork DEF Phase, Locals
  <2>3. SameButFor(K.copy, meta[f], K.change) /\ Exists(f)
    BY <2>2 DEF AtHand, Exists
  <2>4. meta'[f] = K.copy /\ \A g \in File \ {f} : meta'[g] = meta[g]
    BY <1>1, <1>5, <2>2, <2>3 DEF UpdateMeta
  <2>5. ASSUME NEW g \in File, NEW t \in User,
               meta'[g].owner # meta[g].owner \/ meta'[g].acl[t] # meta[g].acl[t]
        PROVE  K.change = t
    BY <2>3, <2>4, <2>5 DEF SameButFor
  <2> QED BY <2>1, <2>5 DEF AccessStep
<1>6. CASE EnterFile
  <2> DEFINE f == reg.file
  <2>1. f \in File /\ reg.copy = meta[f]
    BY <1>6 DEF FullInv, RegFits, Registration, Alone, EnterFile, Merging
  <2>2. meta'[f] = Brought(f) /\ \A g \in File \ {f} : meta'[g] = meta[g]
    BY <1>1, <1>6, <2>1 DEF EnterFile
  <2>3. Exists(f) => meta'[f] = meta[f]
    BY <2>1, <2>2 DEF Brought, Exists
  <2> QED BY <2>2, <2>3 DEF AccessStep
<1> QED BY <1>2, <1>3, <1>4, <1>5, <1>6, TrieWriters

\* While commands and registrations come one at a time, no record that is written back
\* changes an owner, or the access of a user whom the command does not name
\* (trie_update in handle_access, handle_approverequest, handle_view, handle_move,
\* handle_ss_connection).
THEOREM AccessCommands == Spec => OnlyAccessCommandsAlone
<1>1. FullInv /\ Alone /\ [Next]_vars => [~disturbed => AccessStep]_vars
  BY AccessStepAlone
<1> QED BY <1>1, InvarianceAlone, PTL DEF Spec, OnlyAccessCommandsAlone

=============================================================================
