--------------------------- MODULE ClientSessions ---------------------------
(***************************************************************************)
(* The client sessions of the name server (src/nm.c): the users it has     *)
(* registered, the list of connected clients, and a handler thread for     *)
(* each connection.                                                        *)
(*                                                                         *)
(* registered_users and client_list have a mutex each; a section under one *)
(* of them is one step.  The handler takes the name it deregisters from    *)
(* client_list, with no mutex, by the index it had when it joined: that is *)
(* a step of its own.  client_list is an array, and its places past        *)
(* client_count keep what was in them.                                     *)
(***************************************************************************)
EXTENDS Integers, FiniteSets

CONSTANTS
    User,
    Visits,          \* bound: how often each user connects
    MaxClients,      \* MAX_CLIENTS, the capacity of client_list
    MaxUsers,        \* capacity of registered_users
    MaxFD,           \* bound: the descriptors are 1 .. MaxFD
    Nobody           \* the name in a place of client_list that was never used

ASSUME SessionsAssumption ==
    /\ IsFiniteSet(User)
    /\ Nobody \notin User
    /\ Visits \in [User -> Nat]
    /\ {MaxClients, MaxUsers, MaxFD} \subseteq Nat \ {0}

VARIABLES
    users,           \* registered_users, by name
    list,            \* client_list
    client_count,
    handler,         \* the handler of each connection
    gone,            \* handlers whose client has closed its end
    behind           \* history: handlers with an entry that was moved from its index

vars == <<users, list, client_count, handler, gone, behind>>

-----------------------------------------------------------------------------
Conn == UNION {{[user |-> u, visit |-> n] : n \in 1 .. Visits[u]} : u \in User}
FD   == 1 .. MaxFD
NoFD == -1
Place == 0 .. MaxClients - 1

\* A handler has the user's session from registration to deregistration, and an
\* entry of client_list while it is served.
Holding == {"join", "served", "unlist", "deregister"}
Listed  == {"served", "unlist"}
Live    == {"first"} \cup Holding \cup {"close"}

Used  == {handler[c].fd : c \in {d \in Conn : handler[d].pc \in Live}}
Known == {u \in User : users[u].known}
In(c, pc) == handler[c].pc = pc
Goto(c, pc) == handler' = [handler EXCEPT ![c].pc = pc]

Init ==
    /\ users        = [u \in User |-> [known |-> FALSE, active |-> FALSE, sock |-> NoFD]]
    /\ list         = [p \in Place |-> [user |-> Nobody, sock |-> NoFD]]
    /\ client_count = 0
    /\ handler      = [c \in Conn |-> [pc |-> "none", fd |-> NoFD, idx |-> 0, name |-> Nobody]]
    /\ gone         = {}
    /\ behind       = {}

-----------------------------------------------------------------------------
\* A client connects, as soon as its user likes, and client_listener accepts it:
\* the lowest free descriptor, and a handler.
Connect(c) ==
    /\ In(c, "none")
    /\ \E f \in FD \ Used :
         /\ \A g \in 1 .. f - 1 : g \in Used
         /\ handler' = [handler EXCEPT ![c].pc = "first", ![c].fd = f]
    /\ UNCHANGED <<users, list, client_count, gone, behind>>

\* The client exits, or its connection is lost.
Hangup(c) ==
    /\ handler[c].pc \in Live /\ c \notin gone
    /\ gone' = gone \cup {c}
    /\ UNCHANGED <<users, list, client_count, handler, behind>>

\* handle_client_connection: the connection ends before the first message.
NoFirst(c) ==
    /\ In(c, "first") /\ c \in gone
    /\ Goto(c, "close")
    /\ UNCHANGED <<users, list, client_count, gone, behind>>

\* register_user_persistent: refused if the user has a session, or there is no room.
Refused(u) == IF users[u].known THEN users[u].active ELSE Cardinality(Known) >= MaxUsers

\* Mutant of RegisterUser: the socket is noted before the login is refused.
RegisterNotesSocket(c) ==
    /\ In(c, "first")
    /\ LET u == c.user IN
         \/ /\ Refused(u)
            /\ Goto(c, "close")
            /\ users' = [users EXCEPT ![u].sock = handler[c].fd]
         \/ /\ ~Refused(u)
            /\ users' = [users EXCEPT ![u] = [known |-> TRUE, active |-> TRUE,
                                              sock |-> handler[c].fd]]
            /\ Goto(c, "join")
    /\ UNCHANGED <<list, client_count, gone, behind>>

RegisterUser(c) ==
    /\ In(c, "first")
    /\ LET u == c.user IN
         \/ /\ Refused(u)
            /\ Goto(c, "close")
            /\ UNCHANGED users
         \/ /\ ~Refused(u)
            /\ users' = [users EXCEPT ![u] = [known |-> TRUE, active |-> TRUE,
                                              sock |-> handler[c].fd]]
            /\ Goto(c, "join")
    /\ UNCHANGED <<list, client_count, gone, behind>>

\* Mutant of HasRoom: one entry too many.
HasRoomForOneMore == client_count <= MaxClients

HasRoom == client_count < MaxClients

\* Mutant of Join: the session stays when there is no entry left.
JoinKeepsSession(c) ==
    /\ In(c, "join")
    /\ \/ /\ HasRoom
          /\ list' = [list EXCEPT ![client_count] = [user |-> c.user, sock |-> handler[c].fd]]
          /\ handler' = [handler EXCEPT ![c].pc = "served", ![c].idx = client_count]
          /\ client_count' = client_count + 1
       \/ /\ ~HasRoom
          /\ Goto(c, "close")
          /\ UNCHANGED <<list, client_count>>
    /\ UNCHANGED <<users, gone, behind>>

\* handle_client_connection: an entry at the end of client_list, or none is left.
Join(c) ==
    /\ In(c, "join")
    /\ \/ /\ HasRoom
          /\ list' = [list EXCEPT ![client_count] = [user |-> c.user, sock |-> handler[c].fd]]
          /\ handler' = [handler EXCEPT ![c].pc = "served", ![c].idx = client_count]
          /\ client_count' = client_count + 1
       \/ /\ ~HasRoom
          /\ handler' = [handler EXCEPT ![c].pc = "deregister", ![c].name = c.user]
          /\ UNCHANGED <<list, client_count>>
    /\ UNCHANGED <<users, gone, behind>>

\* handle_client_connection, after its loop: the name at its index, without a mutex.
TakeName(c) ==
    /\ In(c, "served") /\ c \in gone
    /\ handler' = [handler EXCEPT ![c].pc = "unlist", ![c].name = list[handler[c].idx].user]
    /\ UNCHANGED <<users, list, client_count, gone, behind>>

\* The first entry with the handler's socket goes, and those behind it move up.
PlacesOf(c) == {p \in Place : p < client_count /\ list[p].sock = handler[c].fd}

\* Mutant of PlaceOf: the entry at the handler's index goes.
PlaceByIndex(c) == handler[c].idx

PlaceOf(c) == CHOOSE p \in PlacesOf(c) : \A q \in PlacesOf(c) : p <= q

Compacted(p) == [q \in Place |-> IF q \in p .. client_count - 2 THEN list[q + 1] ELSE list[q]]

Unlist(c) ==
    /\ In(c, "unlist")
    /\ IF PlacesOf(c) # {}
       THEN /\ list' = Compacted(PlaceOf(c))
            /\ client_count' = client_count - 1
            /\ behind' = behind \cup {d \in Conn : /\ handler[d].pc \in Listed /\ d # c
                                                   /\ \E p \in PlacesOf(d) : p > PlaceOf(c)}
       ELSE UNCHANGED <<list, client_count, behind>>
    /\ Goto(c, "deregister")
    /\ UNCHANGED <<users, gone>>

\* deregister_active_session: only a session over this handler's socket.
\* Mutant of Ends: by the name alone.
EndsByName(u, f) == users[u].known

Ends(u, f) == users[u].known /\ users[u].sock = f

Deregister(c) ==
    /\ In(c, "deregister")
    /\ LET u == handler[c].name IN
         users' = IF u \in User /\ Ends(u, handler[c].fd)
                  THEN [users EXCEPT ![u].active = FALSE, ![u].sock = NoFD]
                  ELSE users
    /\ Goto(c, "close")
    /\ UNCHANGED <<list, client_count, gone, behind>>

Close(c) ==
    /\ In(c, "close")
    /\ handler' = [handler EXCEPT ![c] = [pc |-> "done", fd |-> NoFD, idx |-> 0, name |-> Nobody]]
    /\ gone' = gone \ {c}
    /\ UNCHANGED <<users, list, client_count, behind>>

-----------------------------------------------------------------------------
HandlerStep(c) == \/ NoFirst(c) \/ RegisterUser(c) \/ Join(c) \/ TakeName(c)
                  \/ Unlist(c) \/ Deregister(c) \/ Close(c)

Next == \E c \in Conn : Connect(c) \/ Hangup(c) \/ HandlerStep(c)

Spec == Init /\ [][Next]_vars

\* Handlers are threads, which are scheduled; nothing is assumed of clients.
FairSpec == Spec /\ \A c \in Conn : WF_vars(HandlerStep(c))

-----------------------------------------------------------------------------
TypeOK ==
    /\ users \in [User -> [known : BOOLEAN, active : BOOLEAN, sock : FD \cup {NoFD}]]
    /\ list \in [Place -> [user : User \cup {Nobody}, sock : FD \cup {NoFD}]]
    /\ client_count \in 0 .. MaxClients
    /\ handler \in [Conn -> [pc : Live \cup {"none", "done"}, fd : FD \cup {NoFD},
                             idx : Place, name : User \cup {Nobody}]]
    /\ gone \subseteq Conn
    /\ behind \subseteq Conn

\* A user is logged in over one connection at most, and the registry names the
\* socket of that one, also when handlers deregister names that are not theirs.
OneSession ==
    \A c, d \in Conn :
        handler[c].pc \in Holding /\ handler[d].pc \in Holding /\ c.user = d.user
            => c = d /\ users[c.user].active /\ users[c.user].sock = handler[c].fd

\* client_list, up to client_count, has each client that is served once, and no
\* other: what LIST shows, whatever order clients leave in.
ListIsServed ==
    /\ Cardinality({c \in Conn : handler[c].pc \in Listed}) = client_count
    /\ \A c \in Conn : handler[c].pc \in Listed =>
           \E p \in Place : p < client_count /\ list[p] = [user |-> c.user, sock |-> handler[c].fd]

\* A user without a handler has no session left in the registry, unless the entry
\* of a handler of the user was moved by another client's leaving.
SessionEndsWithHandler ==
    \A u \in User : users[u].active =>
        \E n \in 1 .. Visits[u] : LET c == [user |-> u, visit |-> n] IN
            handler[c].pc \in Holding \/ c \in behind

\* The same without the exception: the active session is deregistered when its
\* handler ends, so that the user can reconnect.
SessionAlwaysEnds ==
    \A u \in User : users[u].active =>
        \E n \in 1 .. Visits[u] : handler[[user |-> u, visit |-> n]].pc \in Holding

\* A user whose clients have all hung up, as handlers get round to noticing, has no
\* session in the end and can log in again, unless one of its entries had moved.
HungUp(u) == \A c \in Conn : c.user = u /\ handler[c].pc \in Live => c \in gone

CanComeBack ==
    \A u \in User : <>[]HungUp(u) =>
        <>[](users[u].active => \E c \in behind : c.user = u)

=============================================================================
