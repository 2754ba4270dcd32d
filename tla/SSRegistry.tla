----------------------------- MODULE SSRegistry -----------------------------
(***************************************************************************)
(* How the name server (src/nm.c) knows its storage servers: registration, *)
(* heartbeats, the timeout, and the descriptors of their connections.      *)
(*                                                                         *)
(* A storage server (src/ss.c) opens two connections, one for commands and *)
(* one for heartbeats, and the name server runs a thread for each.  These  *)
(* threads, the registration of a restarted server and the monitor all     *)
(* close descriptors, by number.  A number that is closed is given to the  *)
(* next connection, so a second close of it closes that connection; a      *)
(* thread blocked in recv keeps the connection it was called on, and takes *)
(* up whatever has the number when it calls recv again.                    *)
(*                                                                         *)
(* A section under ss_mutex is one step, together with the call of recv    *)
(* that follows it.  A process opens both its connections in one step.     *)
(***************************************************************************)
EXTENDS Integers, Sequences, FiniteSets

CONSTANTS
    Server,          \* the ids of the storage servers
    Starts,          \* bound: how often each server is started
    MaxSS,           \* capacity of ss_list
    Others,          \* how many servers of other ids may have registered before
    Grace,           \* ticks without a heartbeat until the timeout (60 s)
    MaxFD,           \* bound: the descriptors are 1 .. MaxFD
    MaxWire,         \* bound: heartbeats under way on a connection
    NoConn           \* no connection has the descriptor

ASSUME RegistryAssumption ==
    /\ IsFiniteSet(Server)
    /\ Starts \in [Server -> Nat]
    /\ Others \subseteq 0 .. MaxSS
    /\ {MaxSS, Grace, MaxFD, MaxWire} \subseteq Nat \ {0}
    /\ NoConn \notin [server : Server, start : Nat, kind : {"cmd", "hb"}]

VARIABLES
    proc,            \* the process of each server
    wire,            \* messages of each connection that are not received yet
    backlog,         \* connections of each listener that are not accepted yet
    ss_count,        \* entries of ss_list
    entry,           \* ss_list, by id
    fds,             \* the connection of each descriptor
    thread,          \* the thread of each connection
    quiet,           \* history: ticks since the name server last heard of a server
    displaced        \* history: connections closed by a thread other than their own

vars == <<proc, wire, backlog, ss_count, entry, fds, thread, quiet, displaced>>

-----------------------------------------------------------------------------
Kind == {"cmd", "hb"}
FD   == 1 .. MaxFD
NoFD == -1

ConnOf(i, n, k) == [server |-> i, start |-> n, kind |-> k]
Conn == UNION {{ConnOf(i, n, k) : n \in 1 .. Starts[i], k \in Kind} : i \in Server}
Current(i, k)   == ConnOf(i, proc[i].start, k)

\* The server's end of a connection: open until its process is gone.
Open(c) == proc[c.server].start = c.start /\ proc[c.server].state # "down"

\* The name server's end: a thread blocked in recv keeps it open after a close.
Kept(c) == \/ \E n \in 1 .. Len(backlog[c.kind]) : backlog[c.kind][n] = c
           \/ \E f \in FD : fds[f] = c
           \/ \E d \in Conn : thread[d].on = c

\* recv on thread c returns a message, or fails: no such descriptor, or the end.
HasMsg(c) == thread[c].on # NoConn /\ wire[thread[c].on] # <<>>
Fails(c)  == thread[c].on # NoConn =>
                wire[thread[c].on] = <<>> /\ ~Open(thread[c].on)
Msg(c)    == Head(wire[thread[c].on])
Taken(c)  == [wire EXCEPT ![thread[c].on] = Tail(@)]

\* close, by number: nothing happens if the number is free.
Closed(F, f) == IF f = NoFD THEN F ELSE [F EXCEPT ![f] = NoConn]

Live(c) == thread[c].pc \notin {"none", "done"}
Known   == {i \in Server : entry[i].known}

Init ==
    /\ proc      = [i \in Server |-> [start |-> 0, state |-> "down"]]
    /\ wire      = [c \in Conn |-> <<>>]
    /\ backlog   = [k \in Kind |-> <<>>]
    /\ ss_count  \in Others
    /\ entry     = [i \in Server |-> [known |-> FALSE, sock |-> NoFD, hb |-> NoFD,
                                      active |-> FALSE, age |-> Grace]]
    /\ fds       = [f \in FD |-> NoConn]
    /\ thread    = [c \in Conn |-> [pc |-> "none", fd |-> NoFD, on |-> NoConn]]
    /\ quiet     = [i \in Server |-> 0]
    /\ displaced = {}

-----------------------------------------------------------------------------
(* The storage server. *)

Nm == <<ss_count, entry, fds, thread, quiet, displaced>>

\* main, connect_to_nm.
Start(i) ==
    /\ proc[i].state = "down" /\ proc[i].start < Starts[i]
    /\ proc' = [proc EXCEPT ![i] = [start |-> @.start + 1, state |-> "connected"]]
    /\ backlog' = [k \in Kind |-> Append(backlog[k], ConnOf(i, proc[i].start + 1, k))]
    /\ UNCHANGED <<wire, Nm>>

\* scan_and_register_files.
Register(i) ==
    /\ proc[i].state = "connected"
    /\ proc' = [proc EXCEPT ![i].state = "registered"]
    /\ wire' = [wire EXCEPT ![Current(i, "cmd")] = Append(@, "REG_SS")]
    /\ UNCHANGED <<backlog, Nm>>

\* heartbeat_thread, up to its loop.
StartBeats(i) ==
    /\ proc[i].state = "registered"
    /\ proc' = [proc EXCEPT ![i].state = "beating"]
    /\ wire' = [wire EXCEPT ![Current(i, "hb")] = @ \o <<"HB_INIT", "HEARTBEAT">>]
    /\ UNCHANGED <<backlog, Nm>>

\* One round of heartbeat_thread.  A server that finds either connection closed
\* stops running, which shows here as a server that sends no more.
Beat(i) ==
    LET c == Current(i, "hb") IN
        /\ proc[i].state = "beating" /\ Kept(c)
        /\ Len(wire[c]) < MaxWire
        /\ wire' = [wire EXCEPT ![c] = Append(@, "HEARTBEAT")]
        /\ UNCHANGED <<proc, backlog, Nm>>

\* The process ends.  One that only stopped running keeps its connections:
\* main still waits for client_listener.
Crash(i) ==
    /\ proc[i].state # "down"
    /\ proc' = [proc EXCEPT ![i].state = "down"]
    /\ UNCHANGED <<wire, backlog, Nm>>

-----------------------------------------------------------------------------
(* The name server. *)

Env == <<proc, backlog, ss_count>>

Blocked(c, F) == [thread EXCEPT ![c].pc = "serve", ![c].on = F[thread[c].fd]]
Leaves(c)     == [thread EXCEPT ![c].pc = "close", ![c].on = NoConn]

\* Connections other than c that a step takes from their descriptor.
Displaces(c, F) == displaced \cup ({fds[f] : f \in {g \in FD : F[g] # fds[g]}} \ {c, NoConn})

\* ss_listener, ss_hb_listener: the lowest free descriptor, and a thread.
Accept(k) ==
    /\ backlog[k] # <<>>
    /\ LET c == Head(backlog[k]) IN
       \E f \in FD :
         /\ fds[f] = NoConn /\ \A g \in 1 .. f - 1 : fds[g] # NoConn
         /\ fds'    = [fds EXCEPT ![f] = c]
         /\ thread' = [thread EXCEPT ![c] = [pc |-> "first", fd |-> f, on |-> c]]
    /\ backlog' = [backlog EXCEPT ![k] = Tail(@)]
    /\ UNCHANGED <<proc, wire, ss_count, entry, quiet, displaced>>

\* Mutant of NoFirst: the thread returns without closing its socket.
NoFirstKeeps(c) ==
    /\ thread[c].pc = "first" /\ Fails(c)
    /\ thread' = [thread EXCEPT ![c].pc = "done", ![c].on = NoConn]
    /\ UNCHANGED <<Env, wire, entry, fds, quiet, displaced>>

\* The first message does not come.
NoFirst(c) ==
    /\ thread[c].pc = "first" /\ Fails(c)
    /\ thread' = Leaves(c)
    /\ UNCHANGED <<Env, wire, entry, fds, quiet, displaced>>

\* Mutant of Room: one entry too many.
RoomForOneMore == ss_count <= MaxSS

Room == ss_count < MaxSS

\* handle_ss_connection: the server registers, and the old sockets of its id are closed.
Registration(c) ==
    LET i == c.server
        F == IF entry[i].known THEN Closed(Closed(fds, entry[i].sock), entry[i].hb)
                               ELSE fds
    IN  /\ entry' = [entry EXCEPT ![i] = [known |-> TRUE, sock |-> thread[c].fd, hb |-> NoFD,
                                          active |-> TRUE, age |-> 0]]
        /\ fds'    = F
        /\ thread' = [thread EXCEPT ![c].pc = "poll", ![c].on = NoConn]
        /\ displaced' = Displaces(NoConn, F)
        /\ quiet'  = [quiet EXCEPT ![i] = 0]

RecvRegistration(c) ==
    /\ c.kind = "cmd" /\ thread[c].pc = "first" /\ HasMsg(c)
    /\ wire' = Taken(c)
    /\ \/ /\ entry[c.server].known
          /\ Registration(c)
          /\ UNCHANGED ss_count
       \/ /\ ~entry[c.server].known /\ Room
          /\ Registration(c)
          /\ ss_count' = ss_count + 1
       \/ /\ ~entry[c.server].known /\ ~Room
          /\ thread' = Leaves(c)
          /\ UNCHANGED <<ss_count, entry, fds, quiet, displaced>>
    /\ UNCHANGED <<proc, backlog>>

\* Mutant of SeesInactive: it looks at the heartbeat socket instead of active.
SeesNoHeartbeat(c) ==
    /\ thread[c].pc = "poll" /\ entry[c.server].hb = NoFD
    /\ thread' = Leaves(c)
    /\ UNCHANGED <<Env, wire, entry, fds, quiet, displaced>>

\* handle_ss_connection, its loop: the thread ends when the id is inactive.
SeesInactive(c) ==
    /\ thread[c].pc = "poll" /\ ~entry[c.server].active
    /\ thread' = Leaves(c)
    /\ UNCHANGED <<Env, wire, entry, fds, quiet, displaced>>

\* handle_ss_heartbeat, its first message.
RecvInit(c) ==
    /\ c.kind = "hb" /\ thread[c].pc = "first" /\ HasMsg(c)
    /\ wire' = Taken(c)
    /\ IF entry[c.server].known
       THEN /\ entry' = [entry EXCEPT ![c.server].hb = thread[c].fd, ![c.server].age = 0]
            /\ quiet' = [quiet EXCEPT ![c.server] = 0]
       ELSE UNCHANGED <<entry, quiet>>
    /\ thread' = Blocked(c, fds)
    /\ UNCHANGED <<Env, fds, displaced>>

\* handle_ss_heartbeat, one round: it knows the id, not whose message it is.
RecvBeat(c) ==
    /\ thread[c].pc = "serve" /\ HasMsg(c)
    /\ wire' = Taken(c)
    /\ IF Msg(c) = "HEARTBEAT" /\ entry[c.server].known
       THEN /\ entry' = [entry EXCEPT ![c.server].age = 0]
            /\ quiet' = [quiet EXCEPT ![c.server] = 0]
       ELSE UNCHANGED <<entry, quiet>>
    /\ thread' = Blocked(c, fds)
    /\ UNCHANGED <<Env, fds, displaced>>

\* handle_ss_heartbeat, after its loop: whatever has registered under the id since.
Marked(E, i) == [E EXCEPT ![i].hb = NoFD, ![i].active = FALSE]

LosesBeats(c) ==
    /\ thread[c].pc = "serve" /\ Fails(c)
    /\ entry'  = IF entry[c.server].known THEN Marked(entry, c.server) ELSE entry
    /\ thread' = Leaves(c)
    /\ UNCHANGED <<Env, wire, fds, quiet, displaced>>

\* A thread closes the number it was started with, and ends.
Close(c) ==
    /\ thread[c].pc = "close"
    /\ fds'    = Closed(fds, thread[c].fd)
    /\ thread' = [thread EXCEPT ![c].pc = "done", ![c].fd = NoFD]
    /\ displaced' = Displaces(c, fds') \ {c}
    /\ UNCHANGED <<Env, wire, entry, quiet>>

\* heartbeat_monitor, one round that finds a server silent.
\* Mutants of Silent: the timeout comes a tick early; it is only for servers whose
\* heartbeats have begun.
SilentEarly   == {i \in Known : entry[i].active /\ entry[i].age >= Grace - 1}
SilentBeating == {i \in Known : entry[i].active /\ entry[i].age >= Grace
                                /\ entry[i].hb # NoFD}

Silent == {i \in Known : entry[i].active /\ entry[i].age >= Grace}

HeartbeatMonitor ==
    /\ Silent # {}
    /\ entry' = [i \in Server |-> IF i \in Silent THEN Marked(entry, i)[i] ELSE entry[i]]
    /\ fds'   = [f \in FD |-> IF \E i \in Silent : entry[i].hb = f THEN NoConn ELSE fds[f]]
    /\ displaced' = Displaces(NoConn, fds')
    /\ UNCHANGED <<Env, wire, thread, quiet>>

\* Time passes.
Later(n) == IF n < Grace THEN n + 1 ELSE n
Tick ==
    /\ \E i \in Known : entry[i].age < Grace
    /\ entry' = [i \in Server |-> IF i \in Known THEN [entry[i] EXCEPT !.age = Later(@)]
                                                 ELSE entry[i]]
    /\ quiet' = [i \in Server |-> IF i \in Known THEN Later(quiet[i]) ELSE quiet[i]]
    /\ UNCHANGED <<Env, wire, fds, thread, displaced>>

-----------------------------------------------------------------------------
ServerStep(i) == Start(i) \/ Register(i) \/ StartBeats(i) \/ Beat(i) \/ Crash(i)
ThreadStep(c) == \/ NoFirst(c) \/ RecvRegistration(c) \/ SeesInactive(c) \/ RecvInit(c)
                 \/ RecvBeat(c) \/ LosesBeats(c) \/ Close(c)

Next == \/ \E i \in Server : ServerStep(i)
        \/ \E k \in Kind : Accept(k)
        \/ \E c \in Conn : ThreadStep(c)
        \/ HeartbeatMonitor
        \/ Tick

Spec == Init /\ [][Next]_vars

\* The threads of the name server are scheduled and its clock runs; nothing is
\* assumed of a storage server.
Fairness == /\ \A k \in Kind : WF_vars(Accept(k))
            /\ \A c \in Conn : WF_vars(ThreadStep(c))
            /\ WF_vars(HeartbeatMonitor)
            /\ WF_vars(Tick)

FairSpec == Spec /\ Fairness

-----------------------------------------------------------------------------
TypeOK ==
    /\ proc \in [Server -> [start : Nat, state : {"down", "connected", "registered", "beating"}]]
    /\ wire \in [Conn -> Seq({"REG_SS", "HB_INIT", "HEARTBEAT"})]
    /\ backlog \in [Kind -> Seq(Conn)]
    /\ ss_count \in 0 .. MaxSS
    /\ entry \in [Server -> [known : BOOLEAN, sock : FD \cup {NoFD}, hb : FD \cup {NoFD},
                              active : BOOLEAN, age : 0 .. Grace]]
    /\ fds \in [FD -> Conn \cup {NoConn}]
    /\ thread \in [Conn -> [pc : {"none", "first", "poll", "serve", "close", "done"},
                             fd : FD \cup {NoFD}, on : Conn \cup {NoConn}]]
    /\ quiet \in [Server -> 0 .. Grace]
    /\ displaced \subseteq Conn

\* The commands for an active server go out on a connection of its own, which a
\* thread still watches, unless another thread has closed that connection
\* (handle_ss_connection registers a server and closes what an older start left).
ActiveHasSocket ==
    \A i \in Server : entry[i].active =>
        \E n \in 1 .. Starts[i] :
            LET c == ConnOf(i, n, "cmd") IN
                /\ thread[c].pc = "poll"
                /\ thread[c].fd = entry[i].sock
                /\ fds[entry[i].sock] = c \/ c \in displaced

\* A server is marked inactive (by handle_ss_heartbeat or heartbeat_monitor) only
\* when it has been silent for the whole grace period, or a heartbeat connection
\* of one of its starts has ended or lost its descriptor to another thread.
Ended(c) == wire[c] = <<>> /\ ~Open(c)
LostBeats(c) == thread[c].pc = "serve" /\ (Ended(c) \/ c \in displaced)

DeactivatedForCause ==
    [][\A i \in Server : entry[i].active /\ ~entry'[i].active =>
           \/ quiet[i] >= Grace
           \/ \E n \in 1 .. Starts[i] : LostBeats(ConnOf(i, n, "hb"))]_vars

\* The same, for the start that has registered last: a thread left over from an
\* earlier start does not undo a registration.
DeactivatedForOwnCause ==
    [][\A i \in Server : entry[i].active /\ ~entry'[i].active =>
           \/ quiet[i] >= Grace
           \/ \E n \in 1 .. Starts[i] :
                 /\ thread[ConnOf(i, n, "cmd")].pc = "poll"
                 /\ thread[ConnOf(i, n, "cmd")].fd = entry[i].sock
                 /\ LostBeats(ConnOf(i, n, "hb"))]_vars

\* A server that registers over a connection can be sent commands over it: closing
\* the sockets of its earlier start leaves the new one open.
RegistrationKeepsSocket ==
    [][\A c \in Conn : thread[c].pc = "first" /\ thread'[c].pc = "poll" =>
           fds'[entry'[c.server].sock] = c]_vars

\* The socket kept for a server, active or not, is never a connection of another:
\* handle_create, handle_delete, handle_info and handle_exec do not ask for active.
CommandsReachServer ==
    \A i \in Known : fds[entry[i].sock] = NoConn \/ fds[entry[i].sock].server = i

\* A server whose process has ended for good is marked inactive in the end, so that
\* commands that ask for an active server get ERR_SS_UNAVAILABLE.
GoneIsForgotten ==
    \A i \in Server : <>[](proc[i].state = "down") => <>[](~entry[i].active)

\* When all processes have ended, every thread of the name server ends too and
\* every descriptor is released, whatever closed what before.
NothingLeft ==
    <>[](\A i \in Server : proc[i].state = "down")
        => <>[]((\A f \in FD : fds[f] = NoConn) /\ \A c \in Conn : ~Live(c))

=============================================================================
