------------------------ MODULE ClientSessionsProofs ------------------------
(***************************************************************************)
(* Proofs about ClientSessions, for any users, numbers of visits,          *)
(* capacities and descriptors.                                             *)
(***************************************************************************)
EXTENDS ClientSessions, FiniteSetTheorems, TLAPS

Entry(c)  == [user |-> c.user, sock |-> handler[c].fd]
ListedNow == {c \in Conn : handler[c].pc \in Listed}

\* A live handler has a descriptor, and no two have the same.
Descriptors ==
    /\ \A c \in Conn : handler[c].pc \in Live => handler[c].fd \in FD
    /\ \A c, d \in Conn :
          handler[c].pc \in Live /\ handler[d].pc \in Live /\ handler[c].fd = handler[d].fd
              => c = d

ActiveKnown == \A u \in User : users[u].active => users[u].known

\* The entries up to client_count are those of the clients that are served.
EntryServed == \A p \in Place : p < client_count => \E c \in ListedNow : list[p] = Entry(c)
EntryOnce   == \A p, q \in Place :
                   p < client_count /\ q < client_count /\ list[p].sock = list[q].sock => p = q
ServedEntry == \A c \in ListedNow : \E p \in Place : p < client_count /\ list[p] = Entry(c)
Counted     == IsFiniteSet(ListedNow) /\ Cardinality(ListedNow) = client_count

\* The entry of a handler is at its index, and the name it took from there its own,
\* until the departure of another client moves the entry.
InPlace == \A c \in ListedNow : c \notin behind =>
               handler[c].idx < client_count /\ list[handler[c].idx] = Entry(c)
OwnName == \A c \in Conn : handler[c].pc \in {"unlist", "deregister"} /\ c \notin behind =>
               handler[c].name = c.user

\* An active session is that of a handler that still has to deregister it.
Held == \A u \in User : users[u].active =>
            \E c \in Conn : c.user = u /\ (handler[c].pc \in Holding \/ c \in behind)

\* The invariant, in the two parts that the shared state has: the registry of users
\* and the list of clients.
Registry == ActiveKnown /\ OneSession /\ Held
Entries  == EntryServed /\ EntryOnce /\ ServedEntry /\ Counted /\ InPlace
IInv     == TypeOK /\ Descriptors /\ OwnName /\ Registry /\ Entries

Handler == [pc : Live \cup {"none", "done"}, fd : FD \cup {NoFD}, idx : Place,
            name : User \cup {Nobody}]

-----------------------------------------------------------------------------
LEMMA ConnFacts ==
    /\ \A c \in Conn : c.user \in User /\ c.visit \in 1 .. Visits[c.user]
                       /\ c = [user |-> c.user, visit |-> c.visit]
    /\ \A u \in User : \A n \in 1 .. Visits[u] : [user |-> u, visit |-> n] \in Conn
BY DEF Conn

LEMMA PcFacts ==
    /\ Listed \subseteq Holding /\ Holding \subseteq Live
    /\ "first" \in Live /\ "close" \in Live /\ "none" \notin Live /\ "done" \notin Live
    /\ "first" \notin Holding /\ "close" \notin Holding
    /\ "join" \in Holding \ Listed /\ "deregister" \in Holding \ Listed
    /\ "served" \in Listed /\ "unlist" \in Listed
BY DEF Listed, Holding, Live

LEMMA NumberFacts == MaxClients \in Nat \ {0} /\ MaxUsers \in Nat \ {0} /\ MaxFD \in Nat \ {0}
                     /\ NoFD \notin FD
BY SessionsAssumption DEF NoFD, FD

\* A step that leaves client_list, and the part of the handlers that it mirrors.
LEMMA EntriesKept ==
    ASSUME Entries, UNCHANGED <<list, client_count>>, behind \subseteq behind',
           ListedNow' = ListedNow,
           \A c \in ListedNow : handler'[c].fd = handler[c].fd /\ handler'[c].idx = handler[c].idx
    PROVE  Entries'
<1>1. \A c \in ListedNow : Entry(c)' = Entry(c)
  BY DEF Entry
<1>2. EntryServed' /\ EntryOnce'
  BY <1>1 DEF Entries, EntryServed, EntryOnce
<1>3. ServedEntry' /\ InPlace'
  BY <1>1 DEF Entries, ServedEntry, InPlace
<1>4. Counted'
  BY DEF Entries, Counted
<1> QED BY <1>2, <1>3, <1>4 DEF Entries

\* A step that leaves the registry, and the handlers that have a session in it.
LEMMA RegistryKept ==
    ASSUME Registry, UNCHANGED users, behind \subseteq behind',
           \A c \in Conn : /\ handler'[c].pc \in Holding <=> handler[c].pc \in Holding
                           /\ handler[c].pc \in Holding => handler'[c].fd = handler[c].fd
    PROVE  Registry'
<1>1. ActiveKnown'
  BY DEF Registry, ActiveKnown
<1>2. OneSession'
  BY DEF Registry, OneSession
<1>3. Held'
  BY DEF Registry, Held
<1> QED BY <1>1, <1>2, <1>3 DEF Registry

\* A handler that goes on is one.
LEMMA HandlerRecords ==
    ASSUME NEW r \in Handler, NEW l \in Live \cup {"none", "done"}
    PROVE  /\ [r EXCEPT !.pc = l] \in Handler
           /\ \A f \in FD : [r EXCEPT !.pc = l, !.fd = f] \in Handler
           /\ \A n \in Place : [r EXCEPT !.pc = l, !.idx = n] \in Handler
           /\ \A u \in User \cup {Nobody} : [r EXCEPT !.pc = l, !.name = u] \in Handler
BY DEF Handler

LEMMA HandlerOf == ASSUME TypeOK, NEW c \in Conn PROVE handler[c] \in Handler
BY DEF TypeOK, Handler

\* A step of one handler.
LEMMA HandlerTyped ==
    ASSUME TypeOK, NEW c \in Conn, NEW r \in Handler, handler' = [handler EXCEPT ![c] = r],
           users' \in [User -> [known : BOOLEAN, active : BOOLEAN, sock : FD \cup {NoFD}]],
           list' \in [Place -> [user : User \cup {Nobody}, sock : FD \cup {NoFD}]],
           client_count' \in 0 .. MaxClients, gone' \subseteq Conn, behind' \subseteq Conn
    PROVE  TypeOK'
<1>1. handler' \in [Conn -> Handler]
  BY DEF TypeOK, Handler
<1> QED BY <1>1 DEF TypeOK, Handler

-----------------------------------------------------------------------------
\* Accepting a connection: the descriptor is free.
LEMMA ConnectStep ==
    ASSUME IInv, NEW c \in Conn, Connect(c)
    PROVE  IInv'
<1> USE PcFacts, NumberFacts
<1>0. PICK f \in FD \ Used : handler' = [handler EXCEPT ![c].pc = "first", ![c].fd = f]
  BY DEF Connect
<1>1. /\ \A d \in Conn : d # c => handler'[d] = handler[d]
      /\ handler'[c].pc = "first" /\ handler'[c].fd = f
      /\ handler[c].pc = "none"
      /\ UNCHANGED <<users, list, client_count, gone, behind>>
  BY <1>0 DEF IInv, TypeOK, Connect, In
<1>2. TypeOK'
  <2>1. [handler[c] EXCEPT !.pc = "first", !.fd = f] \in Handler
    BY HandlerOf, HandlerRecords DEF IInv
  <2>2. handler' = [handler EXCEPT ![c] = [handler[c] EXCEPT !.pc = "first", !.fd = f]]
    BY <1>0 DEF IInv, TypeOK
  <2> QED BY <1>1, <2>1, <2>2, HandlerTyped DEF IInv, TypeOK
<1>3. Descriptors'
  <2>1. \A d \in Conn : handler[d].pc \in Live => handler[d].fd # f
    <3>1. \A d \in Conn : handler[d].pc \in Live => handler[d].fd \in Used
      BY DEF Used
    <3> QED BY <3>1
  <2>2. \A d \in Conn : handler'[d].pc \in Live => handler'[d].fd \in FD
    BY <1>1 DEF IInv, Descriptors
  <2>3. ASSUME NEW d \in Conn, NEW e \in Conn, handler'[d].pc \in Live, handler'[e].pc \in Live,
               handler'[d].fd = handler'[e].fd
        PROVE  d = e
    <3>1. CASE d # c /\ e # c
      BY <1>1, <2>3, <3>1 DEF IInv, Descriptors
    <3>2. CASE d = c \/ e = c
      BY <1>1, <2>1, <2>3, <3>2
    <3> QED BY <3>1, <3>2
  <2> QED BY <2>2, <2>3 DEF Descriptors
<1>4. OwnName'
  BY <1>1 DEF IInv, OwnName
<1>5. Registry'
  BY <1>1, RegistryKept DEF IInv
<1>6. Entries'
  <2>1. ListedNow' = ListedNow
    BY <1>1 DEF ListedNow
  <2>2. c \notin ListedNow
    BY <1>1 DEF ListedNow
  <2> QED BY <1>1, <2>1, <2>2, EntriesKept DEF IInv, ListedNow
<1> QED BY <1>2, <1>3, <1>4, <1>5, <1>6 DEF IInv

\* Steps of a handler that keeps nothing but its place in the code.
LEMMA QuietStep ==
    ASSUME IInv, NEW c \in Conn, Hangup(c) \/ NoFirst(c) \/ Close(c)
    PROVE  IInv'
<1> USE PcFacts, NumberFacts
<1>1. CASE Hangup(c)
  <2>1. /\ UNCHANGED <<users, list, client_count, handler, behind>>
        /\ gone' = gone \cup {c}
    BY <1>1 DEF Hangup
  <2>2. ListedNow' = ListedNow /\ TypeOK' /\ Descriptors' /\ OwnName'
    BY <2>1 DEF IInv, TypeOK, Descriptors, OwnName, ListedNow
  <2>3. Registry' /\ Entries'
    BY <2>1, <2>2, RegistryKept, EntriesKept DEF IInv
  <2> QED BY <2>2, <2>3 DEF IInv
<1>2. CASE NoFirst(c) \/ Close(c)
  <2>1. /\ \A d \in Conn : d # c => handler'[d] = handler[d]
        /\ handler[c].pc \in {"first", "close"} /\ handler'[c].pc \in {"close", "done"}
        /\ handler'[c].pc = "close" => handler'[c].fd = handler[c].fd
        /\ UNCHANGED <<users, list, client_count, behind>>
    BY <1>2 DEF IInv, TypeOK, NoFirst, Close, In, Goto
  <2>2. TypeOK'
    <3>1. [handler[c] EXCEPT !.pc = "close"] \in Handler
      BY HandlerOf, HandlerRecords DEF IInv
    <3>2. [pc |-> "done", fd |-> NoFD, idx |-> 0, name |-> Nobody] \in Handler
      BY DEF Handler, Place
    <3>3. \E r \in Handler : handler' = [handler EXCEPT ![c] = r]
      <4>1. CASE NoFirst(c)
        <5>1. handler' = [handler EXCEPT ![c] = [handler[c] EXCEPT !.pc = "close"]]
          BY <4>1 DEF IInv, TypeOK, NoFirst, Goto
        <5> QED BY <3>1, <5>1
      <4>2. CASE Close(c)
        BY <3>2, <4>2 DEF Close
      <4> QED BY <1>2, <4>1, <4>2
    <3>4. gone' \subseteq Conn
      BY <1>2 DEF IInv, TypeOK, NoFirst, Close
    <3> QED BY <2>1, <3>3, <3>4, HandlerTyped DEF IInv, TypeOK
  <2>3. Descriptors' /\ OwnName'
    BY <2>1 DEF IInv, Descriptors, OwnName
  <2>4. Registry'
    BY <2>1, RegistryKept DEF IInv
  <2>5. c \notin ListedNow /\ ListedNow' = ListedNow
    BY <2>1 DEF ListedNow
  <2>6. Entries'
    BY <2>1, <2>5, EntriesKept DEF IInv, ListedNow
  <2> QED BY <2>2, <2>3, <2>4, <2>6 DEF IInv
<1> QED BY <1>1, <1>2

\* register_user_persistent.
LEMMA RegisterStep ==
    ASSUME IInv, NEW c \in Conn, RegisterUser(c)
    PROVE  IInv'
<1> USE PcFacts, NumberFacts
<1> DEFINE u == c.user
<1>0. u \in User
  BY ConnFacts
<1>1. /\ \A d \in Conn : d # c => handler'[d] = handler[d]
      /\ handler'[c].fd = handler[c].fd /\ handler[c].fd \in FD
      /\ handler[c].pc = "first" /\ handler'[c].pc \in {"close", "join"}
      /\ UNCHANGED <<list, client_count, gone, behind>>
  BY DEF IInv, TypeOK, Descriptors, RegisterUser, In, Goto
<1>2. TypeOK'
  <2>1. \A pc \in {"close", "join"} : [handler[c] EXCEPT !.pc = pc] \in Handler
    BY HandlerOf, HandlerRecords DEF IInv
  <2>2. \E r \in Handler : handler' = [handler EXCEPT ![c] = r]
    BY <2>1 DEF IInv, TypeOK, RegisterUser, Goto
  <2>3. users' \in [User -> [known : BOOLEAN, active : BOOLEAN, sock : FD \cup {NoFD}]]
    <3>1. [known |-> TRUE, active |-> TRUE, sock |-> handler[c].fd]
               \in [known : BOOLEAN, active : BOOLEAN, sock : FD \cup {NoFD}]
      BY <1>1
    <3>2. \/ users' = users
          \/ users' = [users EXCEPT ![u] = [known |-> TRUE, active |-> TRUE,
                                            sock |-> handler[c].fd]]
      BY DEF RegisterUser
    <3> QED BY <1>0, <3>1, <3>2 DEF IInv, TypeOK
  <2> QED BY <1>1, <2>2, <2>3, HandlerTyped DEF IInv, TypeOK
<1>3. Descriptors' /\ OwnName'
  BY <1>1 DEF IInv, Descriptors, OwnName
<1>4. c \notin ListedNow /\ ListedNow' = ListedNow
  BY <1>1 DEF ListedNow
<1>5. Entries'
  BY <1>1, <1>4, EntriesKept DEF IInv, ListedNow
<1>6. ASSUME users' = users, handler'[c].pc = "close" PROVE Registry'
  BY <1>1, <1>6, RegistryKept DEF IInv
<1>7. ASSUME ~Refused(u), handler'[c].pc = "join",
             users' = [users EXCEPT ![u] = [known |-> TRUE, active |-> TRUE,
                                            sock |-> handler[c].fd]]
      PROVE  Registry'
  <2>1. ~users[u].active
    BY <1>0, <1>7 DEF IInv, Registry, ActiveKnown, Refused
  <2>2. \A d \in Conn : handler[d].pc \in Holding => d.user # u
    BY <2>1 DEF IInv, Registry, OneSession
  <2>3. /\ \A v \in User : v # u => users'[v] = users[v]
        /\ users'[u] = [known |-> TRUE, active |-> TRUE, sock |-> handler[c].fd]
    BY <1>0, <1>7 DEF IInv, TypeOK
  <2>4. ActiveKnown'
    BY <2>3 DEF IInv, Registry, ActiveKnown
  <2>5. OneSession'
    BY <1>1, <1>7, <2>2, <2>3, ConnFacts DEF IInv, Registry, OneSession
  <2>6. Held'
    BY <1>1, <1>7, <2>3 DEF IInv, Registry, Held
  <2> QED BY <2>4, <2>5, <2>6 DEF Registry
<1>8. Registry'
  BY <1>6, <1>7, <1>1 DEF RegisterUser, Goto, IInv, TypeOK
<1> QED BY <1>2, <1>3, <1>5, <1>8 DEF IInv

\* handle_client_connection: an entry at the end of client_list, when there is room.
LEMMA JoinStep ==
    ASSUME IInv, NEW c \in Conn, Join(c), HasRoom
    PROVE  IInv'
<1> USE PcFacts, NumberFacts
<1> DEFINE n == client_count
<1>0. c.user \in User /\ n \in Place /\ n \in Nat
  BY ConnFacts DEF IInv, TypeOK, HasRoom, Place
<1>1. /\ \A d \in Conn : d # c => handler'[d] = handler[d]
      /\ handler'[c].fd = handler[c].fd /\ handler[c].fd \in FD /\ handler'[c].idx = n
      /\ handler[c].pc = "join" /\ handler'[c].pc = "served"
      /\ client_count' = n + 1
      /\ \A p \in Place : p # n => list'[p] = list[p]
      /\ list'[n] = Entry(c)
      /\ UNCHANGED <<users, gone, behind>>
  BY <1>0 DEF IInv, TypeOK, Descriptors, Join, In, Entry
<1>2. TypeOK'
  <2>1. [handler[c] EXCEPT !.pc = "served", !.idx = n] \in Handler
    <3>1. n \in Place
      BY <1>0 DEF IInv, TypeOK
    <3> QED BY <3>1, HandlerOf, HandlerRecords DEF IInv
  <2>2. handler' = [handler EXCEPT ![c] = [handler[c] EXCEPT !.pc = "served", !.idx = n]]
    BY DEF IInv, TypeOK, Join
  <2>3. Entry(c) \in [user : User \cup {Nobody}, sock : FD \cup {NoFD}]
    BY <1>0, <1>1 DEF Entry
  <2>4. list' = [list EXCEPT ![n] = Entry(c)]
    BY DEF Join, Entry
  <2>5. list' \in [Place -> [user : User \cup {Nobody}, sock : FD \cup {NoFD}]]
    BY <2>3, <2>4 DEF IInv, TypeOK
  <2>6. client_count' \in 0 .. MaxClients
    BY <1>0, <1>1 DEF HasRoom
  <2> QED BY <1>1, <2>1, <2>2, <2>5, <2>6, HandlerTyped DEF IInv, TypeOK
<1>3. Descriptors' /\ OwnName'
  BY <1>1 DEF IInv, Descriptors, OwnName
<1>4. Registry'
  BY <1>1, RegistryKept DEF IInv
<1>5. c \notin ListedNow /\ ListedNow' = ListedNow \cup {c}
  BY <1>1 DEF ListedNow
<1>6. /\ Entry(c)' = Entry(c)
      /\ \A d \in ListedNow : Entry(d)' = Entry(d) /\ handler'[d] = handler[d]
  BY <1>1, <1>5 DEF Entry, ListedNow
<1>7. \A p \in Place : p < n => list[p].sock # handler[c].fd
  <2> SUFFICES ASSUME NEW p \in Place, p < n, list[p].sock = handler[c].fd PROVE FALSE
    OBVIOUS
  <2>1. PICK d \in ListedNow : list[p] = Entry(d)
    BY DEF IInv, Entries, EntryServed
  <2>2. handler[d].fd = handler[c].fd /\ d \in Conn /\ handler[d].pc \in Live
    BY <2>1 DEF Entry, ListedNow
  <2>3. c = d
    BY <1>1, <2>2 DEF IInv, Descriptors
  <2> QED BY <1>5, <2>3
<1>8. \A p \in Place : p < n + 1 <=> p < n \/ p = n
  BY <1>0 DEF Place
<1>9. EntryServed'
  BY <1>1, <1>5, <1>6, <1>8 DEF IInv, Entries, EntryServed
<1>10. EntryOnce'
  BY <1>1, <1>7, <1>8 DEF IInv, Entries, EntryOnce, Entry
<1>11. ServedEntry'
  <2>1. ASSUME NEW d \in ListedNow
        PROVE  \E p \in Place : p < client_count' /\ list'[p] = Entry(d)'
    <3>1. PICK p \in Place : p < n /\ list[p] = Entry(d)
      BY DEF IInv, Entries, ServedEntry
    <3>2. p < n + 1 /\ p # n
      BY <1>0, <3>1 DEF Place
    <3> QED BY <1>1, <1>6, <3>1, <3>2
  <2>2. n < client_count' /\ list'[n] = Entry(c)'
    BY <1>0, <1>1, <1>6
  <2> QED BY <1>0, <1>5, <2>1, <2>2 DEF ServedEntry
<1>12. Counted'
  BY <1>1, <1>5, FS_AddElement DEF IInv, Entries, Counted
<1>13. InPlace'
  <2>1. ASSUME NEW d \in ListedNow, d \notin behind
        PROVE  handler'[d].idx < client_count' /\ list'[handler'[d].idx] = Entry(d)'
    <3>1. /\ handler[d].idx < n /\ list[handler[d].idx] = Entry(d)
          /\ handler[d].idx \in Place
      BY <2>1 DEF IInv, TypeOK, Entries, InPlace, ListedNow
    <3>2. handler[d].idx < n + 1 /\ handler[d].idx # n
      BY <1>0, <3>1 DEF Place
    <3> QED BY <1>1, <1>6, <3>1, <3>2
  <2>2. handler'[c].idx < client_count' /\ list'[handler'[c].idx] = Entry(c)'
    BY <1>0, <1>1, <1>6
  <2> QED BY <1>1, <1>5, <2>1, <2>2 DEF InPlace
<1>14. Entries'
  BY <1>9, <1>10, <1>11, <1>12, <1>13 DEF Entries
<1> QED BY <1>2, <1>3, <1>4, <1>14 DEF IInv

\* No entry is left: the handler goes on to deregister its own name.
LEMMA JoinFullStep ==
    ASSUME IInv, NEW c \in Conn, Join(c), ~HasRoom
    PROVE  IInv'
<1> USE PcFacts, NumberFacts
<1>1. /\ \A d \in Conn : d # c => handler'[d] = handler[d]
      /\ handler'[c].fd = handler[c].fd /\ handler'[c].name = c.user
      /\ handler[c].pc = "join" /\ handler'[c].pc = "deregister"
      /\ UNCHANGED <<users, list, client_count, gone, behind>>
  BY DEF IInv, TypeOK, Join, In
<1>2. TypeOK'
  <2>1. [handler[c] EXCEPT !.pc = "deregister", !.name = c.user] \in Handler
    <3>1. handler[c] \in Handler /\ c.user \in User /\ "deregister" \in Live
      BY ConnFacts DEF IInv, TypeOK, Handler
    <3> QED BY <3>1 DEF Handler
  <2>2. handler' = [handler EXCEPT ![c] = [handler[c] EXCEPT !.pc = "deregister",
                                                             !.name = c.user]]
    BY DEF IInv, TypeOK, Join
  <2> QED BY <1>1, <2>1, <2>2, HandlerTyped DEF IInv, TypeOK
<1>3. Descriptors' /\ OwnName'
  BY <1>1 DEF IInv, Descriptors, OwnName
<1>4. Registry'
  BY <1>1, RegistryKept DEF IInv
<1>5. c \notin ListedNow /\ ListedNow' = ListedNow
  BY <1>1 DEF ListedNow
<1>6. Entries'
  BY <1>1, <1>5, EntriesKept DEF IInv, ListedNow
<1> QED BY <1>2, <1>3, <1>4, <1>6 DEF IInv

\* The handler takes the name at its index, which is its own if its entry is there.
LEMMA TakeNameStep ==
    ASSUME IInv, NEW c \in Conn, TakeName(c)
    PROVE  IInv'
<1> USE PcFacts, NumberFacts
<1> DEFINE name == list[handler[c].idx].user
<1>1. /\ \A d \in Conn : d # c => handler'[d] = handler[d]
      /\ handler'[c].fd = handler[c].fd /\ handler'[c].idx = handler[c].idx
      /\ handler'[c].name = name
      /\ handler[c].pc = "served" /\ handler'[c].pc = "unlist"
      /\ UNCHANGED <<users, list, client_count, gone, behind>>
  BY DEF IInv, TypeOK, TakeName, In
<1>2. TypeOK'
  <2>1. name \in User \cup {Nobody}
    BY DEF IInv, TypeOK
  <2>2. [handler[c] EXCEPT !.pc = "unlist", !.name = name] \in Handler
    <3>1. "unlist" \in Live
      OBVIOUS
    <3> QED BY <2>1, <3>1, HandlerOf, HandlerRecords DEF IInv
  <2>3. handler' = [handler EXCEPT ![c] = [handler[c] EXCEPT !.pc = "unlist", !.name = name]]
    BY DEF IInv, TypeOK, TakeName
  <2> QED BY <1>1, <2>2, <2>3, HandlerTyped DEF IInv, TypeOK
<1>3. Descriptors'
  BY <1>1 DEF IInv, Descriptors
<1>4. c \in ListedNow /\ ListedNow' = ListedNow
  BY <1>1 DEF ListedNow
<1>5. OwnName'
  <2>1. c \notin behind => name = c.user
    <3>1. c \notin behind => list[handler[c].idx] = Entry(c)
      BY <1>4 DEF IInv, Entries, InPlace
    <3> QED BY <3>1 DEF Entry
  <2> QED BY <1>1, <2>1 DEF IInv, OwnName
<1>6. Registry'
  BY <1>1, RegistryKept DEF IInv
<1>7. Entries'
  BY <1>1, <1>4, EntriesKept DEF IInv, ListedNow
<1> QED BY <1>2, <1>3, <1>5, <1>6, <1>7 DEF IInv

\* A handler that is served has one entry, which is the one that goes.
LEMMA OneEntry ==
    ASSUME IInv, NEW c \in ListedNow
    PROVE  \E p \in Place : /\ p < client_count /\ list[p] = Entry(c)
                            /\ PlacesOf(c) = {p} /\ PlaceOf(c) = p
<1>1. PICK p \in Place : p < client_count /\ list[p] = Entry(c)
  BY DEF IInv, Entries, ServedEntry
<1>2. p \in Int
  BY NumberFacts DEF Place
<1>3. PlacesOf(c) = {p}
  <2>1. p \in PlacesOf(c)
    BY <1>1 DEF PlacesOf, Entry
  <2>2. ASSUME NEW q \in PlacesOf(c) PROVE q = p
    BY <1>1, <2>2 DEF PlacesOf, Entry, IInv, Entries, EntryOnce
  <2> QED BY <2>1, <2>2
<1>4. PlaceOf(c) = p
  BY <1>2, <1>3 DEF PlaceOf
<1> QED BY <1>1, <1>3, <1>4

\* The entry of a client that has left goes, and those behind it move up.
LEMMA UnlistStep ==
    ASSUME IInv, NEW c \in Conn, Unlist(c)
    PROVE  IInv'
<1> USE PcFacts, NumberFacts
<1> DEFINE n == client_count
<1>0. c \in ListedNow /\ n \in Nat
  BY DEF Unlist, In, ListedNow, IInv, TypeOK
<1>1. PICK p \in Place : /\ p < n /\ list[p] = Entry(c)
                         /\ PlacesOf(c) = {p} /\ PlaceOf(c) = p
  BY <1>0, OneEntry
<1>2. p \in Int /\ n \in Int /\ 0 <= p /\ p < n /\ n <= MaxClients
  BY <1>0, <1>1 DEF Place, IInv, TypeOK
<1>3. /\ \A d \in Conn : d # c => handler'[d] = handler[d]
      /\ handler'[c].fd = handler[c].fd /\ handler'[c].name = handler[c].name
      /\ handler[c].pc = "unlist" /\ handler'[c].pc = "deregister"
      /\ UNCHANGED <<users, gone>>
  BY DEF IInv, TypeOK, Unlist, Goto, In
<1>4. /\ client_count' = n - 1
      /\ list' = Compacted(p)
      /\ behind' = behind \cup {d \in Conn : /\ handler[d].pc \in Listed /\ d # c
                                             /\ \E r \in PlacesOf(d) : r > p}
  BY <1>1 DEF Unlist
<1> DEFINE old(q) == IF q < p THEN q ELSE q + 1
<1>5. \A q \in Place : q < n - 1 => /\ old(q) \in Place /\ old(q) < n /\ old(q) # p
                                    /\ list'[q] = list[old(q)]
  BY <1>2, <1>4 DEF Place, Compacted
<1>6. \A r \in Place : r < n /\ r # p =>
          \E q \in Place : q < n - 1 /\ old(q) = r
  <2> SUFFICES ASSUME NEW r \in Place, r < n, r # p
               PROVE  \E q \in Place : q < n - 1 /\ old(q) = r
    OBVIOUS
  <2>1. CASE r < p
    <3>1. r < n - 1 /\ old(r) = r
      BY <1>2, <2>1 DEF Place
    <3> QED BY <3>1
  <2>2. CASE r > p
    <3>1. r - 1 \in Place /\ r - 1 < n - 1 /\ old(r - 1) = r
      BY <1>2, <2>2 DEF Place
    <3> QED BY <3>1
  <2> QED BY <1>2, <2>1, <2>2 DEF Place
<1>7. \A q, r \in Place : old(q) = old(r) => q = r
  BY <1>2 DEF Place
<1>8. TypeOK'
  <2>1. [handler[c] EXCEPT !.pc = "deregister"] \in Handler
    <3>1. handler[c] \in Handler /\ "deregister" \in Live
      BY DEF IInv, TypeOK, Handler
    <3> QED BY <3>1 DEF Handler
  <2>2. handler' = [handler EXCEPT ![c] = [handler[c] EXCEPT !.pc = "deregister"]]
    BY DEF IInv, TypeOK, Unlist, Goto
  <2>3. list' \in [Place -> [user : User \cup {Nobody}, sock : FD \cup {NoFD}]]
    <3>1. \A q \in Place : q \in p .. n - 2 => q + 1 \in Place
      BY <1>2 DEF Place
    <3> QED BY <1>4, <3>1 DEF IInv, TypeOK, Compacted
  <2>4. client_count' \in 0 .. MaxClients
    BY <1>0, <1>2, <1>4
  <2>5. behind' \subseteq Conn
    BY <1>4 DEF IInv, TypeOK
  <2> QED BY <1>3, <2>1, <2>2, <2>3, <2>4, <2>5, HandlerTyped DEF IInv, TypeOK
<1>9. Descriptors'
  BY <1>3 DEF IInv, Descriptors
<1>10. OwnName'
  BY <1>3, <1>4 DEF IInv, OwnName
<1>11. Registry'
  BY <1>3, <1>4, RegistryKept DEF IInv
<1>12. ListedNow' = ListedNow \ {c}
  BY <1>3 DEF ListedNow
<1>13. \A d \in ListedNow' : /\ d \in ListedNow /\ d # c /\ d \in Conn
                             /\ Entry(d)' = Entry(d) /\ handler'[d] = handler[d]
  BY <1>3, <1>12 DEF Entry, ListedNow
<1>14. \A d \in ListedNow' : \A r \in Place : list[r] = Entry(d) => r # p
  <2> SUFFICES ASSUME NEW d \in ListedNow', list[p] = Entry(d) PROVE FALSE
    OBVIOUS
  <2>1. handler[d].fd = handler[c].fd
    BY <1>1 DEF Entry
  <2>2. handler[d].pc \in Live /\ handler[c].pc \in Live
    BY <1>0, <1>13 DEF ListedNow
  <2> QED BY <1>13, <2>1, <2>2 DEF IInv, Descriptors
<1>15. EntryServed'
  <2> SUFFICES ASSUME NEW q \in Place, q < n - 1
               PROVE  \E d \in ListedNow' : list'[q] = Entry(d)'
    BY <1>4 DEF EntryServed
  <2>1. old(q) \in Place /\ old(q) < n /\ old(q) # p /\ list'[q] = list[old(q)]
    BY <1>5
  <2>2. PICK d \in ListedNow : list[old(q)] = Entry(d)
    BY <2>1 DEF IInv, Entries, EntryServed
  <2>3. d # c
    BY <1>1, <2>1, <2>2 DEF IInv, Entries, EntryOnce
  <2> QED BY <1>12, <1>13, <2>1, <2>2, <2>3
<1>16. EntryOnce'
  <2> SUFFICES ASSUME NEW q \in Place, NEW r \in Place, q < n - 1, r < n - 1,
                      list'[q].sock = list'[r].sock
               PROVE  q = r
    BY <1>4 DEF EntryOnce
  <2>1. old(q) = old(r)
    BY <1>5 DEF IInv, Entries, EntryOnce
  <2> QED BY <1>7, <2>1
<1>17. ServedEntry'
  <2> SUFFICES ASSUME NEW d \in ListedNow'
               PROVE  \E q \in Place : q < n - 1 /\ list'[q] = Entry(d)'
    BY <1>4 DEF ServedEntry
  <2>1. PICK r \in Place : r < n /\ list[r] = Entry(d)
    BY <1>13 DEF IInv, Entries, ServedEntry
  <2>2. PICK q \in Place : q < n - 1 /\ old(q) = r
    BY <1>6, <1>14, <2>1
  <2> QED BY <1>5, <1>13, <2>1, <2>2
<1>18. Counted'
  BY <1>0, <1>4, <1>12, FS_RemoveElement DEF IInv, Entries, Counted
<1>19. InPlace'
  <2> SUFFICES ASSUME NEW d \in ListedNow', d \notin behind'
               PROVE  /\ handler'[d].idx < n - 1
                      /\ list'[handler'[d].idx] = Entry(d)'
    BY <1>4 DEF InPlace
  <2> DEFINE i == handler[d].idx
  <2>1. i \in Place /\ i < n /\ list[i] = Entry(d)
    BY <1>4, <1>13 DEF IInv, TypeOK, Entries, InPlace
  <2>2. i \in PlacesOf(d)
    BY <2>1 DEF PlacesOf, Entry
  <2>3. ~(i > p)
    BY <1>4, <1>13, <2>2 DEF ListedNow
  <2>4. i \in Int /\ i < p
    BY <1>2, <1>14, <2>1, <2>3 DEF Place
  <2>5. i < n - 1 /\ old(i) = i
    BY <1>2, <2>4
  <2> QED BY <1>5, <1>13, <2>1, <2>5
<1>20. Entries'
  BY <1>15, <1>16, <1>17, <1>18, <1>19 DEF Entries
<1> QED BY <1>8, <1>9, <1>10, <1>11, <1>20 DEF IInv

\* deregister_active_session: of the handler's own session, and of no other.
LEMMA DeregisterStep ==
    ASSUME IInv, NEW c \in Conn, Deregister(c)
    PROVE  IInv'
<1> USE PcFacts, NumberFacts
<1> DEFINE u == handler[c].name
<1>1. /\ \A d \in Conn : d # c => handler'[d] = handler[d]
      /\ handler'[c].fd = handler[c].fd
      /\ handler[c].pc = "deregister" /\ handler'[c].pc = "close"
      /\ UNCHANGED <<list, client_count, gone, behind>>
  BY DEF IInv, TypeOK, Deregister, Goto, In
<1>2. /\ \A v \in User : v # u \/ ~Ends(v, handler[c].fd) => users'[v] = users[v]
      /\ u \in User /\ Ends(u, handler[c].fd) =>
             users'[u] = [users[u] EXCEPT !.active = FALSE, !.sock = NoFD]
      /\ \A v \in User : users'[v].known = users[v].known
                         /\ (users'[v].active => users'[v] = users[v])
  <2> DEFINE r == [users[u] EXCEPT !.active = FALSE, !.sock = NoFD]
  <2>1. users' = IF u \in User /\ Ends(u, handler[c].fd) THEN [users EXCEPT ![u] = r] ELSE users
    BY DEF IInv, TypeOK, Deregister
  <2>2. r.known = users[u].known /\ (u \in User => r.active = FALSE)
    BY DEF IInv, TypeOK
  <2> HIDE DEF r
  <2>3. u \in User => \A v \in User : [users EXCEPT ![u] = r][v] = IF v = u THEN r ELSE users[v]
    BY DEF IInv, TypeOK
  <2>4. ASSUME NEW v \in User
        PROVE  /\ v # u \/ ~Ends(v, handler[c].fd) => users'[v] = users[v]
               /\ users'[v].known = users[v].known
               /\ users'[v].active => users'[v] = users[v]
    BY <2>1, <2>2, <2>3
  <2>5. u \in User /\ Ends(u, handler[c].fd) => users'[u] = r
    BY <2>1, <2>3
  <2> QED BY <2>4, <2>5 DEF r
<1>3. TypeOK'
  <2>1. [handler[c] EXCEPT !.pc = "close"] \in Handler
    BY HandlerOf, HandlerRecords DEF IInv
  <2>2. handler' = [handler EXCEPT ![c] = [handler[c] EXCEPT !.pc = "close"]]
    BY DEF IInv, TypeOK, Deregister, Goto
  <2>3. users' \in [User -> [known : BOOLEAN, active : BOOLEAN, sock : FD \cup {NoFD}]]
    <3>1. u \in User => [users[u] EXCEPT !.active = FALSE, !.sock = NoFD]
                            \in [known : BOOLEAN, active : BOOLEAN, sock : FD \cup {NoFD}]
      <4>1. u \in User => users[u] \in [known : BOOLEAN, active : BOOLEAN,
                                        sock : FD \cup {NoFD}]
        BY DEF IInv, TypeOK
      <4>2. NoFD \in FD \cup {NoFD}
        OBVIOUS
      <4> QED BY <4>1, <4>2
    <3>2. users' = IF u \in User /\ Ends(u, handler[c].fd)
                   THEN [users EXCEPT ![u] = [users[u] EXCEPT !.active = FALSE, !.sock = NoFD]]
                   ELSE users
      BY DEF IInv, TypeOK, Deregister
    <3> QED BY <3>1, <3>2 DEF IInv, TypeOK
  <2> QED BY <1>1, <2>1, <2>2, <2>3, HandlerTyped DEF IInv, TypeOK
<1>4. Descriptors' /\ OwnName'
  BY <1>1 DEF IInv, Descriptors, OwnName
<1>5. c \notin ListedNow /\ ListedNow' = ListedNow
  BY <1>1 DEF ListedNow
<1>6. Entries'
  BY <1>1, <1>5, EntriesKept DEF IInv, ListedNow
<1>7. ActiveKnown'
  BY <1>2 DEF IInv, Registry, ActiveKnown
<1>8. \A d \in Conn : handler'[d].pc \in Holding => d # c /\ users'[d.user] = users[d.user]
  <2> SUFFICES ASSUME NEW d \in Conn, handler'[d].pc \in Holding
               PROVE  d # c /\ users'[d.user] = users[d.user]
    OBVIOUS
  <2>1. d # c /\ handler[d].pc \in Holding
    BY <1>1
  <2>2. handler[d].fd # handler[c].fd
    BY <1>1, <2>1 DEF IInv, Descriptors
  <2>3. users[d.user].sock = handler[d].fd
    BY <2>1 DEF IInv, Registry, OneSession
  <2>4. ~Ends(d.user, handler[c].fd)
    BY <2>2, <2>3 DEF Ends
  <2> QED BY <1>2, <2>1, <2>4, ConnFacts
<1>9. OneSession'
  BY <1>1, <1>8 DEF IInv, Registry, OneSession
<1>10. Held'
  <2> SUFFICES ASSUME NEW v \in User, users'[v].active
               PROVE  \E d \in Conn : d.user = v /\ (handler'[d].pc \in Holding \/ d \in behind)
    BY <1>1 DEF Held
  <2>1. users[v].active /\ users'[v] = users[v]
    BY <1>2
  <2>2. PICK d \in Conn : d.user = v /\ (handler[d].pc \in Holding \/ d \in behind)
    BY <2>1 DEF IInv, Registry, Held
  <2>3. CASE d # c \/ d \in behind
    BY <1>1, <2>2, <2>3
  <2>4. CASE d = c /\ d \notin behind
    <3>1. u = v /\ users[v].sock = handler[c].fd /\ users[v].known
      BY <1>1, <2>1, <2>2, <2>4 DEF IInv, OwnName, Registry, OneSession, ActiveKnown
    <3>2. ~users'[v].active
      BY <1>2, <3>1 DEF Ends, IInv, TypeOK
    <3> QED BY <3>2
  <2> QED BY <2>3, <2>4
<1>11. Registry'
  BY <1>7, <1>9, <1>10 DEF Registry
<1> QED BY <1>3, <1>4, <1>6, <1>11 DEF IInv

-----------------------------------------------------------------------------
LEMMA InitIInv == Init => IInv
<1> SUFFICES ASSUME Init PROVE IInv
  OBVIOUS
<1> USE PcFacts, NumberFacts
<1>1. \A c \in Conn : handler[c] = [pc |-> "none", fd |-> NoFD, idx |-> 0, name |-> Nobody]
  BY DEF Init
<1>2. TypeOK
  <2>1. 0 \in Place /\ 0 \in 0 .. MaxClients
    BY DEF Place
  <2>2. [pc |-> "none", fd |-> NoFD, idx |-> 0, name |-> Nobody] \in Handler
    BY <2>1 DEF Handler
  <2>3. handler \in [Conn -> Handler]
    BY <2>2 DEF Init
  <2> QED BY <2>1, <2>3 DEF Init, TypeOK, Handler
<1>3. Descriptors /\ OwnName
  BY <1>1 DEF Descriptors, OwnName
<1>4. Registry
  BY <1>1 DEF Init, Registry, ActiveKnown, OneSession, Held
<1>5. ListedNow = {}
  BY <1>1 DEF ListedNow
<1>6. \A p \in Place : ~(p < client_count)
  BY DEF Place, Init
<1>7. Entries
  BY <1>5, <1>6, FS_EmptySet
     DEF Entries, EntryServed, EntryOnce, ServedEntry, Counted, InPlace, Init
<1> QED BY <1>2, <1>3, <1>4, <1>7 DEF IInv

LEMMA StutterIInv ==
    ASSUME IInv, UNCHANGED vars
    PROVE  IInv'
<1>1. ListedNow' = ListedNow /\ (\A c \in Conn : Entry(c)' = Entry(c))
  BY DEF vars, ListedNow, Entry
<1>2. TypeOK' /\ Descriptors' /\ OwnName'
  BY DEF vars, IInv, TypeOK, Descriptors, OwnName
<1>3. Registry' /\ Entries'
  BY <1>1, RegistryKept, EntriesKept DEF vars, IInv
<1> QED BY <1>2, <1>3 DEF IInv

LEMMA NextIInv == IInv /\ [Next]_vars => IInv'
<1> SUFFICES ASSUME IInv, [Next]_vars PROVE IInv'
  OBVIOUS
<1>1. ASSUME NEW c \in Conn, Connect(c) \/ Hangup(c) \/ HandlerStep(c) PROVE IInv'
  BY <1>1, ConnectStep, QuietStep, RegisterStep, JoinStep, JoinFullStep, TakeNameStep,
     UnlistStep, DeregisterStep DEF HandlerStep
<1> QED BY <1>1, StutterIInv DEF Next

LEMMA Inductive == Spec => []IInv
BY InitIInv, NextIInv, PTL DEF Spec

-----------------------------------------------------------------------------
\* The variables keep their types: no handler is outside its steps, no index is
\* outside client_list, and client_count never exceeds MAX_CLIENTS.
THEOREM TypeCorrect == Spec => []TypeOK
<1>1. IInv => TypeOK
  BY DEF IInv
<1> QED BY <1>1, Inductive, PTL

\* register_user_persistent and deregister_active_session: a user has one session at
\* most, over the socket that the registry names, whatever names handlers take from
\* client_list without its mutex.
THEOREM SingleSession == Spec => []OneSession
<1>1. IInv => OneSession
  BY DEF IInv, Registry
<1> QED BY <1>1, Inductive, PTL

\* handle_client_connection: client_list up to client_count holds the clients that are
\* served, each once, however joins and departures interleave.
THEOREM ListExact == Spec => []ListIsServed
<1>1. IInv => ListIsServed
  <2> SUFFICES ASSUME IInv PROVE ListIsServed
    OBVIOUS
  <2>1. Cardinality({c \in Conn : handler[c].pc \in Listed}) = client_count
    BY DEF IInv, Entries, Counted, ListedNow
  <2>2. ASSUME NEW c \in Conn, handler[c].pc \in Listed
        PROVE  \E p \in Place : /\ p < client_count
                                /\ list[p] = [user |-> c.user, sock |-> handler[c].fd]
    BY <2>2 DEF IInv, Entries, ServedEntry, ListedNow, Entry
  <2> QED BY <2>1, <2>2 DEF ListIsServed
<1> QED BY <1>1, Inductive, PTL

\* deregister_active_session: when the handlers of a user have ended the session has,
\* unless an entry of theirs had moved and they deregistered another name.
THEOREM SessionsEnd == Spec => []SessionEndsWithHandler
<1>1. IInv => SessionEndsWithHandler
  <2> SUFFICES ASSUME IInv, NEW u \in User, users[u].active
               PROVE  \E n \in 1 .. Visits[u] :
                          LET c == [user |-> u, visit |-> n] IN
                          handler[c].pc \in Holding \/ c \in behind
    BY DEF SessionEndsWithHandler
  <2>1. PICK c \in Conn : c.user = u /\ (handler[c].pc \in Holding \/ c \in behind)
    BY DEF IInv, Registry, Held
  <2>2. c.visit \in 1 .. Visits[u] /\ c = [user |-> u, visit |-> c.visit]
    BY <2>1, ConnFacts
  <2> QED BY <2>1, <2>2
<1> QED BY <1>1, Inductive, PTL

=============================================================================
