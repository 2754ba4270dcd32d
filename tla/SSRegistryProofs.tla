-------------------------- MODULE SSRegistryProofs --------------------------
(***************************************************************************)
(* Proofs about SSRegistry, for any servers, numbers of starts, capacities *)
(* and grace period.                                                       *)
(***************************************************************************)
EXTENDS SSRegistry, TLAPS

\* A connection has been opened when its server was started so often.
Opened(c) == c.start <= proc[c.server].start

\* Connections are accepted once: those that wait have no thread, each waits at one
\* place, and only connections that were opened wait or have a thread.
Waiting ==
    /\ \A k \in Kind : \A n \in DOMAIN backlog[k] :
          LET c == backlog[k][n] IN c.kind = k /\ thread[c].pc = "none" /\ Opened(c)
    /\ \A k \in Kind : \A m, n \in DOMAIN backlog[k] : backlog[k][m] = backlog[k][n] => m = n
    /\ \A c \in Conn : thread[c].pc # "none" => Opened(c)

\* A thread that has not ended has its descriptor, unless another has closed it.
OwnsFD(c) == thread[c].fd \in FD /\ (fds[thread[c].fd] = c \/ c \in displaced)
Sockets   == \A c \in Conn : Live(c) => OwnsFD(c)

\* The command threads poll; the heartbeat threads receive from their connection,
\* unless its descriptor was closed and taken again.
Watching ==
    \A c \in Conn : /\ thread[c].pc = "poll" => c.kind = "cmd"
                    /\ thread[c].pc = "serve" => c.kind = "hb" /\ (thread[c].on = c \/ c \in displaced)

\* The age of an entry is the time since the name server heard of the server.
Ages == \A i \in Server : /\ entry[i].known => entry[i].age = quiet[i]
                          /\ entry[i].active => entry[i].known

\* A command thread polls for every active server, over the socket in its entry.
Polled == \A i \in Server : entry[i].active =>
              \E c \in Conn : /\ c.server = i /\ thread[c].pc = "poll"
                              /\ thread[c].fd = entry[i].sock

IInv == TypeOK /\ Waiting /\ Sockets /\ Watching /\ Ages /\ Polled

\* The types of the records.
Proc   == [start : Nat, state : {"down", "connected", "registered", "beating"}]
Entry  == [known : BOOLEAN, sock : FD \cup {NoFD}, hb : FD \cup {NoFD}, active : BOOLEAN,
           age : 0 .. Grace]
Thread == [pc : {"none", "first", "poll", "serve", "close", "done"}, fd : FD \cup {NoFD},
           on : Conn \cup {NoConn}]
Word   == {"REG_SS", "HB_INIT", "HEARTBEAT"}

-----------------------------------------------------------------------------
LEMMA ConnFacts ==
    /\ \A c \in Conn : /\ c.server \in Server /\ c.start \in 1 .. Starts[c.server]
                       /\ c.kind \in Kind /\ c.start \in Nat
                       /\ c = ConnOf(c.server, c.start, c.kind)
    /\ \A i \in Server : \A n \in 1 .. Starts[i] : \A k \in Kind : ConnOf(i, n, k) \in Conn
    /\ NoConn \notin Conn
<1>1. \A i \in Server : Starts[i] \in Nat
  BY RegistryAssumption
<1>2. \A c \in Conn : \E i \in Server : \E n \in 1 .. Starts[i] : \E k \in Kind :
          c = ConnOf(i, n, k)
  BY DEF Conn
<1>3. \A c \in Conn : /\ c.server \in Server /\ c.start \in 1 .. Starts[c.server]
                      /\ c.kind \in Kind /\ c.start \in Nat
                      /\ c = ConnOf(c.server, c.start, c.kind)
  BY <1>1, <1>2 DEF ConnOf
<1>4. \A i \in Server : \A n \in 1 .. Starts[i] : \A k \in Kind : ConnOf(i, n, k) \in Conn
  BY DEF Conn
<1>5. NoConn \notin Conn
  <2>1. Conn \subseteq [server : Server, start : Nat, kind : {"cmd", "hb"}]
    BY <1>1, <1>2 DEF ConnOf, Kind
  <2> QED BY <2>1, RegistryAssumption
<1> QED BY <1>3, <1>4, <1>5

LEMMA NumberFacts == MaxSS \in Nat \ {0} /\ Grace \in Nat \ {0} /\ NoFD \notin FD
BY RegistryAssumption DEF NoFD, FD

\* What closing descriptors takes from other connections is displaced.
LEMMA StillOwned ==
    ASSUME TypeOK, NEW x \in Conn \cup {NoConn},
           \A e \in Conn : e # x /\ e \in Displaces(x, fds') => e \in displaced',
           NEW d \in Conn, d # x, OwnsFD(d), thread'[d].fd = thread[d].fd
    PROVE  OwnsFD(d)'
<1> DEFINE f == thread[d].fd
<1>1. f \in FD /\ (fds[f] = d \/ d \in displaced)
  BY DEF OwnsFD
<1>2. CASE fds'[f] = d
  BY <1>1, <1>2 DEF OwnsFD
<1>3. CASE d \in displaced
  BY <1>1, <1>3 DEF OwnsFD, Displaces
<1>4. CASE fds[f] = d /\ fds'[f] # d
  <2>1. d \in {fds[g] : g \in {h \in FD : fds'[h] # fds[h]}}
    BY <1>1, <1>4
  <2>2. d # NoConn
    BY ConnFacts
  <2> QED BY <1>1, <2>1, <2>2 DEF OwnsFD, Displaces
<1> QED BY <1>1, <1>2, <1>3, <1>4

\* A step of the thread of a connection that was accepted.
LEMMA WaitingKept ==
    ASSUME Waiting, TypeOK, UNCHANGED <<proc, backlog>>,
           \A d \in Conn : thread'[d].pc = "none" <=> thread[d].pc = "none"
    PROVE  Waiting'
<1>1. \A k \in Kind : \A n \in DOMAIN backlog[k] : backlog[k][n] \in Conn
  BY DEF TypeOK
<1>2. \A c : Opened(c)' <=> Opened(c)
  BY DEF Opened
<1> QED BY <1>1, <1>2 DEF Waiting

LEMMA ThreadTyped ==
    ASSUME TypeOK, NEW c \in Conn, NEW r \in Thread, thread' = [thread EXCEPT ![c] = r]
    PROVE  thread' \in [Conn -> Thread]
BY DEF TypeOK, Thread

LEMMA ThreadOf == ASSUME TypeOK, NEW c \in Conn PROVE thread[c] \in Thread
BY DEF TypeOK, Thread

LEMMA EntryTyped ==
    ASSUME TypeOK, NEW i \in Server, NEW r \in Entry, entry' = [entry EXCEPT ![i] = r]
    PROVE  entry' \in [Server -> Entry]
BY DEF TypeOK, Entry

\* recv takes the first message of a connection.
LEMMA TakenTyped ==
    ASSUME TypeOK, NEW c \in Conn, HasMsg(c)
    PROVE  Taken(c) \in [Conn -> Seq(Word)]
<1>1. thread[c].on \in Conn
  BY DEF TypeOK, HasMsg
<1>2. wire[thread[c].on] \in Seq(Word) /\ wire[thread[c].on] # <<>>
  BY <1>1 DEF TypeOK, HasMsg, Word
<1>3. Tail(wire[thread[c].on]) \in Seq(Word)
  BY <1>2
<1> QED BY <1>1, <1>3 DEF Taken, TypeOK, Word

-----------------------------------------------------------------------------
\* The steps of a storage server leave the name server's state alone.
LEMMA ServerStepIInv ==
    ASSUME IInv, NEW i \in Server, ServerStep(i)
    PROVE  IInv'
<1> USE ConnFacts
<1>1. UNCHANGED Nm
  BY DEF ServerStep, Start, Register, StartBeats, Beat, Crash
<1>2. Sockets' /\ Watching' /\ Ages' /\ Polled'
  BY <1>1 DEF Nm, IInv, Sockets, OwnsFD, Live, Watching, Ages, Polled
<1>3. proc[i] \in Proc /\ proc \in [Server -> Proc]
  BY DEF IInv, TypeOK, Proc
<1>31. Start(i) => proc[i].start + 1 \in 1 .. Starts[i]
  <2>1. Starts[i] \in Nat /\ proc[i].start \in Nat
    BY <1>3, RegistryAssumption DEF Proc
  <2> QED BY <2>1 DEF Start
<1>4. proc' \in [Server -> Proc] /\ wire' \in [Conn -> Seq(Word)] /\ backlog' \in [Kind -> Seq(Conn)]
  <2>1. CASE Start(i)
    <3>1. ConnOf(i, proc[i].start + 1, "cmd") \in Conn /\ ConnOf(i, proc[i].start + 1, "hb") \in Conn
      BY <1>31, <2>1 DEF Kind
    <3>2. \A k \in Kind : Append(backlog[k], ConnOf(i, proc[i].start + 1, k)) \in Seq(Conn)
      BY <3>1 DEF IInv, TypeOK, Kind
    <3>3. [start |-> proc[i].start + 1, state |-> "connected"] \in Proc
      BY <1>3 DEF Proc
    <3> QED BY <1>3, <2>1, <3>2, <3>3 DEF Start, IInv, TypeOK, Word
  <2>2. CASE Register(i)
    <3>1. \A c \in Conn : Append(wire[c], "REG_SS") \in Seq(Word)
      BY DEF IInv, TypeOK, Word
    <3>2. [proc[i] EXCEPT !.state = "registered"] \in Proc
      BY <1>3 DEF Proc
    <3>3. proc' = [proc EXCEPT ![i] = [proc[i] EXCEPT !.state = "registered"]]
      <4>1. proc' = [proc EXCEPT ![i].state = "registered"]
        BY <2>2 DEF Register
      <4> QED BY <1>3, <4>1
    <3>4. proc' \in [Server -> Proc]
      BY <1>3, <3>2, <3>3
    <3>5. wire' \in [Conn -> Seq(Word)] /\ backlog' \in [Kind -> Seq(Conn)]
      BY <2>2, <3>1 DEF Register, IInv, TypeOK, Word
    <3> QED BY <3>4, <3>5
  <2>3. CASE StartBeats(i)
    <3>1. \A c \in Conn : wire[c] \o <<"HB_INIT", "HEARTBEAT">> \in Seq(Word)
      BY DEF IInv, TypeOK, Word
    <3>2. [proc[i] EXCEPT !.state = "beating"] \in Proc
      BY <1>3 DEF Proc
    <3>3. proc' = [proc EXCEPT ![i] = [proc[i] EXCEPT !.state = "beating"]]
      <4>1. proc' = [proc EXCEPT ![i].state = "beating"]
        BY <2>3 DEF StartBeats
      <4> QED BY <1>3, <4>1
    <3>4. proc' \in [Server -> Proc]
      BY <1>3, <3>2, <3>3
    <3>5. wire' \in [Conn -> Seq(Word)] /\ backlog' \in [Kind -> Seq(Conn)]
      BY <2>3, <3>1 DEF StartBeats, IInv, TypeOK, Word
    <3> QED BY <3>4, <3>5
  <2>4. CASE Beat(i)
    <3>1. \A c \in Conn : Append(wire[c], "HEARTBEAT") \in Seq(Word)
      BY DEF IInv, TypeOK, Word
    <3> QED BY <1>3, <2>4, <3>1 DEF Beat, IInv, TypeOK, Word
  <2>5. CASE Crash(i)
    <3>1. [proc[i] EXCEPT !.state = "down"] \in Proc
      BY <1>3 DEF Proc
    <3>2. proc' = [proc EXCEPT ![i] = [proc[i] EXCEPT !.state = "down"]]
      BY <1>3, <2>5 DEF Crash
    <3> QED BY <1>3, <2>5, <3>1, <3>2 DEF Crash, IInv, TypeOK, Word
  <2> QED BY <2>1, <2>2, <2>3, <2>4, <2>5 DEF ServerStep
<1>5. TypeOK'
  BY <1>1, <1>4 DEF IInv, TypeOK, Nm, Proc, Word
<1>6. \A c \in Conn : Opened(c) => Opened(c)'
  <2>1. \A j \in Server : proc[j].start \in Nat /\ proc'[j].start \in Nat
                          /\ proc[j].start <= proc'[j].start
    <3> SUFFICES ASSUME NEW j \in Server
                 PROVE  /\ proc[j].start \in Nat /\ proc'[j].start \in Nat
                        /\ proc[j].start <= proc'[j].start
      OBVIOUS
    <3>1. proc[j].start \in Nat /\ proc'[j].start \in Nat
      BY <1>3, <1>4 DEF Proc
    <3>2. proc'[j].start = proc[j].start \/ proc'[j].start = proc[j].start + 1
      <4>1. \/ proc' = proc
            \/ \E x : proc' = [proc EXCEPT ![i].state = x]
            \/ proc' = [proc EXCEPT ![i] = [start |-> proc[i].start + 1, state |-> "connected"]]
        BY DEF ServerStep, Start, Register, StartBeats, Beat, Crash
      <4> QED BY <1>3, <4>1 DEF Proc
    <3> QED BY <3>1, <3>2
  <2>2. \A c \in Conn : c.start \in Nat
    OBVIOUS
  <2> QED BY <2>1, <2>2 DEF Opened
<1>7. Waiting'
  <2>1. CASE backlog' = backlog
    <3>1. \A k \in Kind : \A n \in DOMAIN backlog[k] : backlog[k][n] \in Conn
      BY DEF IInv, TypeOK
    <3> QED BY <1>1, <1>6, <2>1, <3>1 DEF IInv, Waiting, Nm
  <2>2. CASE Start(i)
    <3>1. PICK m \in 1 .. Starts[i] : m = proc[i].start + 1
      BY <1>31, <2>2
    <3> DEFINE new(k) == ConnOf(i, m, k)
    <3>2. /\ \A k \in Kind : backlog[k] \in Seq(Conn) /\ backlog'[k] = Append(backlog[k], new(k))
          /\ proc'[i].start = m /\ proc[i].start \in Nat
      BY <1>3, <2>2, <3>1 DEF Start, IInv, TypeOK, Proc
    <3>3. \A k \in Kind : /\ new(k) \in Conn /\ new(k).kind = k
                          /\ ~Opened(new(k)) /\ Opened(new(k))' /\ thread[new(k)].pc = "none"
      <4> SUFFICES ASSUME NEW k \in Kind
                   PROVE  /\ new(k) \in Conn /\ new(k).kind = k
                          /\ ~Opened(new(k)) /\ Opened(new(k))' /\ thread[new(k)].pc = "none"
        OBVIOUS
      <4>1. new(k) \in Conn /\ new(k).kind = k /\ new(k).server = i /\ new(k).start = m
        BY DEF ConnOf
      <4>2. ~Opened(new(k)) /\ Opened(new(k))'
        BY <3>1, <3>2, <4>1 DEF Opened
      <4> QED BY <4>1, <4>2 DEF IInv, Waiting
    <3>4. \A k \in Kind : \A n \in DOMAIN backlog[k] :
              /\ backlog[k][n] \in Conn /\ backlog[k][n].kind = k
              /\ thread[backlog[k][n]].pc = "none" /\ Opened(backlog[k][n])
      BY <3>2 DEF IInv, Waiting
    <3>5. \A k \in Kind :
              /\ DOMAIN backlog'[k] = DOMAIN backlog[k] \cup {Len(backlog[k]) + 1}
              /\ Len(backlog[k]) + 1 \notin DOMAIN backlog[k]
              /\ \A n \in DOMAIN backlog[k] : backlog'[k][n] = backlog[k][n]
              /\ backlog'[k][Len(backlog[k]) + 1] = new(k)
      <4> SUFFICES ASSUME NEW k \in Kind, NEW s, s = backlog[k], NEW b, b = new(k)
                   PROVE  /\ DOMAIN backlog'[k] = DOMAIN s \cup {Len(s) + 1}
                          /\ Len(s) + 1 \notin DOMAIN s
                          /\ \A n \in DOMAIN s : backlog'[k][n] = s[n]
                          /\ backlog'[k][Len(s) + 1] = b
        OBVIOUS
      <4>1. s \in Seq(Conn) /\ b \in Conn /\ backlog'[k] = Append(s, b)
        BY <3>2, <3>3
      <4> QED BY <4>1
    <3> HIDE DEF new
    <3>6. \A k \in Kind : \A n \in DOMAIN backlog'[k] : \E c \in Conn :
              backlog'[k][n] = c /\ c.kind = k /\ thread[c].pc = "none" /\ Opened(c)'
      <4> SUFFICES ASSUME NEW k \in Kind, NEW n \in DOMAIN backlog'[k]
                   PROVE  \E c \in Conn : /\ backlog'[k][n] = c /\ c.kind = k
                                          /\ thread[c].pc = "none" /\ Opened(c)'
        OBVIOUS
      <4>1. CASE n \in DOMAIN backlog[k]
        <5>1. backlog'[k][n] = backlog[k][n]
          BY <3>5, <4>1
        <5> QED BY <1>6, <3>4, <4>1, <5>1
      <4>2. CASE n = Len(backlog[k]) + 1
        BY <3>3, <3>5, <4>2
      <4> QED BY <3>5, <4>1, <4>2
    <3>7. \A k \in Kind : \A n, q \in DOMAIN backlog'[k] :
              backlog'[k][n] = backlog'[k][q] => n = q
      <4> SUFFICES ASSUME NEW k \in Kind, NEW n \in DOMAIN backlog'[k],
                          NEW q \in DOMAIN backlog'[k], backlog'[k][n] = backlog'[k][q]
                   PROVE  n = q
        OBVIOUS
      <4>1. \A r \in DOMAIN backlog[k] : backlog[k][r] # new(k)
        BY <3>3, <3>4
      <4>2. \A r, t \in DOMAIN backlog[k] : backlog[k][r] = backlog[k][t] => r = t
        BY DEF IInv, Waiting
      <4> QED BY <3>5, <4>1, <4>2
    <3>8. \A k \in Kind : \A n \in DOMAIN backlog'[k] :
              /\ backlog'[k][n].kind = k /\ thread[backlog'[k][n]].pc = "none"
              /\ backlog'[k][n].start <= proc'[backlog'[k][n].server].start
      BY <3>6 DEF Opened
    <3>9. thread' = thread
      BY <1>1 DEF Nm
    <3>10. \A c \in Conn : thread'[c].pc # "none" => Opened(c)'
      BY <1>6, <3>9 DEF IInv, Waiting
    <3> QED BY <3>7, <3>8, <3>9, <3>10 DEF Waiting, Opened
  <2> QED BY <2>1, <2>2 DEF ServerStep, Register, StartBeats, Beat, Crash
<1> QED BY <1>2, <1>5, <1>7 DEF IInv

\* ss_listener and ss_hb_listener: a connection waits once, so its thread is new.
LEMMA AcceptIInv ==
    ASSUME IInv, NEW k \in Kind, Accept(k)
    PROVE  IInv'
<1> USE ConnFacts, NumberFacts
<1> DEFINE q == backlog[k]
<1>1. PICK c \in Conn, f \in FD :
          /\ c = q[1] /\ fds[f] = NoConn
          /\ fds' = [fds EXCEPT ![f] = c]
          /\ thread' = [thread EXCEPT ![c] = [pc |-> "first", fd |-> f, on |-> c]]
  <2>1. q \in Seq(Conn) /\ q # <<>>
    BY DEF IInv, TypeOK, Accept
  <2>2. Head(q) = q[1] /\ q[1] \in Conn
    BY <2>1
  <2> QED BY <2>2 DEF Accept
<1>2. /\ q \in Seq(Conn) /\ q # <<>> /\ backlog' = [backlog EXCEPT ![k] = Tail(q)]
      /\ UNCHANGED <<proc, wire, ss_count, entry, quiet, displaced>>
  BY DEF IInv, TypeOK, Accept
<1>3. /\ thread[c].pc = "none" /\ c.kind = k /\ Opened(c)
      /\ \A m \in DOMAIN q : q[m] = c => m = 1
  <2>1. 1 \in DOMAIN q
    BY <1>2
  <2> QED BY <1>1, <2>1 DEF IInv, Waiting
<1>4. /\ \A d \in Conn : d # c => thread'[d] = thread[d]
      /\ thread'[c] = [pc |-> "first", fd |-> f, on |-> c]
      /\ \A g \in FD : g # f => fds'[g] = fds[g]
      /\ fds'[f] = c
  BY <1>1 DEF IInv, TypeOK
<1>5. TypeOK'
  <2>1. thread' \in [Conn -> Thread]
    BY <1>1, ThreadTyped DEF IInv, Thread
  <2>2. fds' \in [FD -> Conn \cup {NoConn}]
    BY <1>1 DEF IInv, TypeOK
  <2>3. backlog' \in [Kind -> Seq(Conn)]
    <3>1. Tail(q) \in Seq(Conn)
      BY <1>2
    <3> QED BY <1>2, <3>1 DEF IInv, TypeOK
  <2> QED BY <1>2, <2>1, <2>2, <2>3 DEF IInv, TypeOK, Thread
<1>6. Waiting'
  <2>1. /\ backlog'[k] = Tail(q) /\ \A j \in Kind : j # k => backlog'[j] = backlog[j]
        /\ \A j \in Kind : backlog[j] \in Seq(Conn)
    BY <1>2 DEF IInv, TypeOK
  <2>2. \A n \in DOMAIN Tail(q) : n + 1 \in DOMAIN q /\ Tail(q)[n] = q[n + 1] /\ n \in Nat
                                  /\ n + 1 # 1
    BY <1>2
  <2>3. \A j \in Kind : \A n \in DOMAIN backlog[j] :
            /\ backlog[j][n] \in Conn /\ backlog[j][n].kind = j
            /\ thread[backlog[j][n]].pc = "none" /\ Opened(backlog[j][n])
    BY <2>1 DEF IInv, Waiting
  <2>4. ASSUME NEW j \in Kind, NEW n \in DOMAIN backlog'[j]
        PROVE  \E d \in Conn : /\ backlog'[j][n] = d /\ d.kind = j /\ Opened(d)
                               /\ thread[d].pc = "none" /\ d # c
    <3>1. CASE j = k
      <4>1. n \in DOMAIN Tail(q) /\ backlog'[j][n] = Tail(q)[n]
        BY <2>1, <3>1
      <4>2. n + 1 \in DOMAIN q /\ backlog'[j][n] = q[n + 1] /\ n + 1 # 1
        BY <2>2, <4>1
      <4>3. q[n + 1] # c
        BY <1>3, <4>2
      <4> QED BY <2>3, <3>1, <4>2, <4>3
    <3>2. CASE j # k
      <4>1. n \in DOMAIN backlog[j] /\ backlog'[j][n] = backlog[j][n]
        BY <2>1, <3>2
      <4>2. backlog[j][n].kind # c.kind
        BY <1>3, <2>3, <3>2, <4>1
      <4> QED BY <2>3, <4>1, <4>2
    <3> QED BY <3>1, <3>2
  <2>5. \A d : Opened(d)' <=> Opened(d)
    BY <1>2 DEF Opened
  <2>6. \A j \in Kind : \A n \in DOMAIN backlog'[j] :
            /\ backlog'[j][n].kind = j /\ thread'[backlog'[j][n]].pc = "none"
            /\ backlog'[j][n].start <= proc'[backlog'[j][n].server].start
    BY <1>2, <1>4, <2>4 DEF Opened
  <2>7. ASSUME NEW j \in Kind, NEW m \in DOMAIN backlog'[j], NEW n \in DOMAIN backlog'[j],
               backlog'[j][m] = backlog'[j][n]
        PROVE  m = n
    <3>1. CASE j = k
      <4>1. m \in DOMAIN Tail(q) /\ n \in DOMAIN Tail(q) /\ Tail(q)[m] = Tail(q)[n]
        BY <2>1, <2>7, <3>1
      <4>2. /\ q[m + 1] = q[n + 1] /\ m + 1 \in DOMAIN q /\ n + 1 \in DOMAIN q
            /\ m \in Nat /\ n \in Nat
        BY <2>2, <4>1
      <4>3. m + 1 = n + 1
        BY <4>2 DEF IInv, Waiting
      <4> QED BY <4>2, <4>3
    <3>2. CASE j # k
      BY <2>1, <2>7, <3>2 DEF IInv, Waiting
    <3> QED BY <3>1, <3>2
  <2>8. \A d \in Conn : thread'[d].pc # "none" => Opened(d)'
    BY <1>3, <1>4, <2>5 DEF IInv, Waiting
  <2> QED BY <2>6, <2>7, <2>8 DEF Waiting, Opened
<1>7. Sockets'
  <2> SUFFICES ASSUME NEW d \in Conn, Live(d)' PROVE OwnsFD(d)'
    BY DEF Sockets
  <2>1. CASE d = c
    BY <1>4, <2>1 DEF OwnsFD
  <2>2. CASE d # c
    <3>1. OwnsFD(d)
      BY <1>4, <2>2 DEF Live, IInv, Sockets
    <3>2. fds[thread[d].fd] = d => thread[d].fd # f
      BY <1>1
    <3> QED BY <1>2, <1>4, <2>2, <3>1, <3>2 DEF OwnsFD
  <2> QED BY <2>1, <2>2
<1>8. Watching'
  <2> SUFFICES ASSUME NEW d \in Conn
               PROVE  /\ thread'[d].pc = "poll" => d.kind = "cmd"
                      /\ thread'[d].pc = "serve" =>
                            d.kind = "hb" /\ (thread'[d].on = d \/ d \in displaced)
    BY <1>2 DEF Watching
  <2>1. CASE d = c
    BY <1>4, <2>1
  <2>2. CASE d # c
    BY <1>4, <2>2 DEF IInv, Watching
  <2> QED BY <2>1, <2>2
<1>9. Ages' /\ Polled'
  BY <1>2, <1>3, <1>4 DEF IInv, Ages, Polled
<1> QED BY <1>5, <1>6, <1>7, <1>8, <1>9 DEF IInv

\* A step of a thread that leaves ss_list and the descriptors.
LEMMA ThreadOnly ==
    ASSUME IInv, NEW c \in Conn, NEW r \in Thread, thread' = [thread EXCEPT ![c] = r],
           UNCHANGED <<proc, backlog, ss_count, fds, displaced>>,
           Live(c), r.pc \notin {"none", "poll"}, r.fd = thread[c].fd,
           r.pc = "serve" => c.kind = "hb" /\ (r.on = c \/ c \in displaced),
           wire' \in [Conn -> Seq(Word)], TypeOK /\ entry' \in [Server -> Entry],
           quiet' \in [Server -> 0 .. Grace], Ages',
           \A i \in Server : entry'[i].active =>
               entry[i].active /\ entry'[i].sock = entry[i].sock,
           thread[c].pc = "poll" => ~entry'[c.server].active
    PROVE  IInv'
<1>1. /\ \A d \in Conn : d # c => thread'[d] = thread[d]
      /\ thread'[c] = r
  BY DEF TypeOK
<1>2. TypeOK'
  <2>1. thread' \in [Conn -> Thread]
    BY ThreadTyped
  <2> QED BY <2>1 DEF TypeOK, Thread, Entry, Word
<1>3. Waiting'
  BY <1>1, WaitingKept DEF IInv, Live
<1>4. Sockets'
  BY <1>1 DEF IInv, Sockets, OwnsFD, Live
<1>5. Watching'
  BY <1>1 DEF IInv, Watching
<1>6. Polled'
  <2> SUFFICES ASSUME NEW i \in Server, entry'[i].active
               PROVE  \E d \in Conn : /\ d.server = i /\ thread'[d].pc = "poll"
                                      /\ thread'[d].fd = entry'[i].sock
    BY DEF Polled
  <2>1. PICK d \in Conn : d.server = i /\ thread[d].pc = "poll" /\ thread[d].fd = entry[i].sock
    BY DEF IInv, Polled
  <2>2. d # c
    BY <2>1
  <2> QED BY <1>1, <2>1, <2>2
<1> QED BY <1>2, <1>3, <1>4, <1>5, <1>6 DEF IInv

\* The steps of the threads that only read, or note that a server was heard of or lost.
LEMMA LeavesStep ==
    ASSUME IInv, NEW c \in Conn, NoFirst(c) \/ SeesInactive(c) \/ LosesBeats(c)
    PROVE  IInv'
<1> USE ConnFacts, NumberFacts
<1> DEFINE r == [thread[c] EXCEPT !.pc = "close", !.on = NoConn]
<1>0. thread[c] \in Thread
  BY DEF IInv, TypeOK, Thread
<1>1. r \in Thread /\ r.pc = "close" /\ r.fd = thread[c].fd
  BY <1>0 DEF Thread
<1>2. thread' = [thread EXCEPT ![c] = r]
  <2>1. thread' = Leaves(c)
    BY DEF NoFirst, SeesInactive, LosesBeats
  <2> QED BY <2>1 DEF Leaves, IInv, TypeOK
<1>3. /\ UNCHANGED <<proc, backlog, ss_count, fds, displaced, wire, quiet>>
      /\ Live(c)
  BY DEF NoFirst, SeesInactive, LosesBeats, Env, Live
<1>4. /\ entry' = entry \/ entry' = Marked(entry, c.server)
      /\ thread[c].pc = "poll" => entry' = entry /\ ~entry[c.server].active
  BY DEF NoFirst, SeesInactive, LosesBeats
<1> HIDE DEF r
<1>5. entry \in [Server -> Entry] /\ entry[c.server] \in Entry
  BY DEF IInv, TypeOK, Entry
<1>6. /\ entry' \in [Server -> Entry]
      /\ \A i \in Server : /\ entry'[i].active => entry[i].active
                           /\ entry'[i].sock = entry[i].sock
                           /\ entry'[i].known = entry[i].known
                           /\ entry'[i].age = entry[i].age
  <2>1. CASE entry' = entry
    BY <1>5, <2>1
  <2>2. CASE entry' = Marked(entry, c.server)
    <3> DEFINE e == [entry[c.server] EXCEPT !.hb = NoFD, !.active = FALSE]
    <3>1. /\ e \in Entry /\ e.sock = entry[c.server].sock /\ e.known = entry[c.server].known
          /\ e.age = entry[c.server].age /\ e.active = FALSE
      BY <1>5 DEF Entry
    <3>2. entry' = [entry EXCEPT ![c.server] = e]
      BY <1>5, <2>2 DEF Marked
    <3> HIDE DEF e
    <3> QED BY <1>5, <3>1, <3>2
  <2> QED BY <1>4, <2>1, <2>2
<1>7. Ages'
  BY <1>3, <1>6 DEF IInv, Ages
<1>8. TypeOK /\ wire' \in [Conn -> Seq(Word)] /\ quiet' \in [Server -> 0 .. Grace]
  BY <1>3 DEF IInv, TypeOK, Word
<1> QED BY <1>1, <1>2, <1>3, <1>4, <1>6, <1>7, <1>8, ThreadOnly

\* handle_ss_heartbeat receives: the server of its id was heard of.
LEMMA HeardStep ==
    ASSUME IInv, NEW c \in Conn, RecvInit(c) \/ RecvBeat(c)
    PROVE  IInv'
<1> USE ConnFacts, NumberFacts
<1> DEFINE r == [thread[c] EXCEPT !.pc = "serve", !.on = fds[thread[c].fd]]
           i == c.server
<1>0. thread[c] \in Thread /\ Live(c)
  BY DEF IInv, TypeOK, Thread, RecvInit, RecvBeat, Live
<1>1. OwnsFD(c)
  BY <1>0 DEF IInv, Sockets
<1>2. r \in Thread /\ r.pc = "serve" /\ r.fd = thread[c].fd /\ (r.on = c \/ c \in displaced)
  <2>1. fds[thread[c].fd] \in Conn \cup {NoConn}
    BY <1>1 DEF OwnsFD, IInv, TypeOK
  <2> QED BY <1>0, <1>1, <2>1 DEF Thread, OwnsFD
<1>3. thread' = [thread EXCEPT ![c] = r]
  <2>1. thread' = Blocked(c, fds)
    BY DEF RecvInit, RecvBeat
  <2> QED BY <2>1 DEF Blocked, IInv, TypeOK
<1>4. /\ UNCHANGED <<proc, backlog, ss_count, fds, displaced>>
      /\ c.kind = "hb" /\ thread[c].pc # "poll" /\ HasMsg(c) /\ wire' = Taken(c)
  BY DEF RecvInit, RecvBeat, Env, IInv, Watching
<1> HIDE DEF r
<1>5. wire' \in [Conn -> Seq(Word)]
  BY <1>4, TakenTyped DEF IInv
<1>6. \/ UNCHANGED <<entry, quiet>>
      \/ /\ \E h \in FD : entry' = [entry EXCEPT ![i].hb = h, ![i].age = 0]
         /\ quiet' = [quiet EXCEPT ![i] = 0]
      \/ /\ entry' = [entry EXCEPT ![i].age = 0]
         /\ quiet' = [quiet EXCEPT ![i] = 0]
  BY <1>1 DEF RecvInit, RecvBeat, OwnsFD
<1>7. entry \in [Server -> Entry] /\ entry[i] \in Entry /\ 0 \in 0 .. Grace
      /\ quiet \in [Server -> 0 .. Grace]
  BY DEF IInv, TypeOK, Entry
<1>8. /\ entry' \in [Server -> Entry] /\ quiet' \in [Server -> 0 .. Grace]
      /\ \A j \in Server : /\ entry'[j].active = entry[j].active
                           /\ entry'[j].sock = entry[j].sock
                           /\ entry'[j].known = entry[j].known
      /\ \A j \in Server : \/ entry'[j].age = entry[j].age /\ quiet'[j] = quiet[j]
                           \/ entry'[j].age = 0 /\ quiet'[j] = 0
  <2>1. CASE UNCHANGED <<entry, quiet>>
    BY <1>7, <2>1
  <2>2. CASE (\E e \in Entry : /\ entry' = [entry EXCEPT ![i] = e] /\ e.age = 0
                               /\ e.active = entry[i].active /\ e.sock = entry[i].sock
                               /\ e.known = entry[i].known)
             /\ quiet' = [quiet EXCEPT ![i] = 0]
    BY <1>7, <2>2
  <2>3. ASSUME NEW h \in FD, entry' = [entry EXCEPT ![i].hb = h, ![i].age = 0]
        PROVE  \E e \in Entry : /\ entry' = [entry EXCEPT ![i] = e] /\ e.age = 0
                                /\ e.active = entry[i].active /\ e.sock = entry[i].sock
                                /\ e.known = entry[i].known
    <3> DEFINE e == [entry[i] EXCEPT !.hb = h, !.age = 0]
    <3>1. /\ e \in Entry /\ e.age = 0 /\ e.active = entry[i].active
          /\ e.sock = entry[i].sock /\ e.known = entry[i].known
      BY <1>7 DEF Entry
    <3>2. entry' = [entry EXCEPT ![i] = e]
      BY <1>7, <2>3
    <3> QED BY <3>1, <3>2
  <2>4. ASSUME entry' = [entry EXCEPT ![i].age = 0]
        PROVE  \E e \in Entry : /\ entry' = [entry EXCEPT ![i] = e] /\ e.age = 0
                                /\ e.active = entry[i].active /\ e.sock = entry[i].sock
                                /\ e.known = entry[i].known
    <3> DEFINE e == [entry[i] EXCEPT !.age = 0]
    <3>1. /\ e \in Entry /\ e.age = 0 /\ e.active = entry[i].active
          /\ e.sock = entry[i].sock /\ e.known = entry[i].known
      BY <1>7 DEF Entry
    <3>2. entry' = [entry EXCEPT ![i] = e]
      BY <1>7, <2>4
    <3> QED BY <3>1, <3>2
  <2> QED BY <1>6, <2>1, <2>2, <2>3, <2>4
<1>9. Ages'
  BY <1>8 DEF IInv, Ages
<1> QED BY <1>0, <1>2, <1>3, <1>4, <1>5, <1>8, <1>9, ThreadOnly DEF IInv

LEMMA ClosedTyped ==
    ASSUME NEW F \in [FD -> Conn \cup {NoConn}], NEW f \in FD \cup {NoFD}
    PROVE  Closed(F, f) \in [FD -> Conn \cup {NoConn}]
BY DEF Closed

LEMMA DisplacesTyped ==
    ASSUME TypeOK, NEW x
    PROVE  Displaces(x, fds') \subseteq Conn /\ displaced \subseteq Displaces(x, fds')
BY DEF TypeOK, Displaces

\* handle_ss_connection: a server registers, and its old sockets are closed.
LEMMA RegisterStep ==
    ASSUME IInv, NEW c \in Conn, RecvRegistration(c), Registration(c)
    PROVE  IInv'
<1> USE ConnFacts, NumberFacts
<1> DEFINE i == c.server
           F == IF entry[i].known THEN Closed(Closed(fds, entry[i].sock), entry[i].hb) ELSE fds
           r == [thread[c] EXCEPT !.pc = "poll", !.on = NoConn]
           e == [known |-> TRUE, sock |-> thread[c].fd, hb |-> NoFD, active |-> TRUE, age |-> 0]
<1>0. thread[c] \in Thread /\ Live(c) /\ c.kind = "cmd"
  BY DEF IInv, TypeOK, Thread, RecvRegistration, Live
<1>1. OwnsFD(c)
  BY <1>0 DEF IInv, Sockets
<1>2. /\ r \in Thread /\ r.pc = "poll" /\ r.fd = thread[c].fd
      /\ e \in Entry /\ e.sock = thread[c].fd /\ e.age = 0 /\ e.known
  <2>1. r \in Thread /\ r.pc = "poll" /\ r.fd = thread[c].fd
    BY <1>0 DEF Thread
  <2>2. thread[c].fd \in FD /\ 0 \in 0 .. Grace
    BY <1>1 DEF OwnsFD
  <2> QED BY <2>1, <2>2 DEF Entry
<1>3. /\ entry' = [entry EXCEPT ![i] = e]
      /\ fds' = F
      /\ displaced' = Displaces(NoConn, F)
      /\ quiet' = [quiet EXCEPT ![i] = 0]
      /\ UNCHANGED <<proc, backlog>>
      /\ wire' = Taken(c) /\ HasMsg(c)
  BY DEF Registration, RecvRegistration
<1>4. thread' = [thread EXCEPT ![c] = r]
  <2>1. thread' = [thread EXCEPT ![c].pc = "poll", ![c].on = NoConn]
    BY DEF Registration
  <2> QED BY <2>1 DEF IInv, TypeOK
<1>5. ss_count' \in 0 .. MaxSS
  <2>1. ss_count' = ss_count \/ (Room /\ ss_count' = ss_count + 1)
    BY DEF RecvRegistration
  <2> QED BY <2>1 DEF IInv, TypeOK, Room
<1>6. F \in [FD -> Conn \cup {NoConn}]
  <2>1. fds \in [FD -> Conn \cup {NoConn}] /\ entry[i].sock \in FD \cup {NoFD}
        /\ entry[i].hb \in FD \cup {NoFD}
    BY DEF IInv, TypeOK
  <2> QED BY <2>1, ClosedTyped
<1> HIDE DEF r, e, F
<1>7. TypeOK'
  <2>1. thread' \in [Conn -> Thread] /\ entry' \in [Server -> Entry]
    BY <1>2, <1>3, <1>4, ThreadTyped, EntryTyped DEF IInv
  <2>2. wire' \in [Conn -> Seq(Word)]
    BY <1>3, TakenTyped DEF IInv
  <2>3. displaced' \subseteq Conn
    BY <1>3, DisplacesTyped DEF IInv
  <2>4. quiet' \in [Server -> 0 .. Grace]
    BY <1>3 DEF IInv, TypeOK
  <2> QED BY <1>3, <1>5, <1>6, <2>1, <2>2, <2>3, <2>4 DEF IInv, TypeOK, Thread, Entry, Word
<1>8. /\ \A d \in Conn : d # c => thread'[d] = thread[d]
      /\ thread'[c] = r
      /\ \A j \in Server : j # i => entry'[j] = entry[j] /\ quiet'[j] = quiet[j]
      /\ entry'[i] = e /\ quiet'[i] = 0
      /\ displaced \subseteq displaced'
  BY <1>3, <1>4, DisplacesTyped DEF IInv, TypeOK
<1>9. Waiting'
  BY <1>0, <1>2, <1>3, <1>8, WaitingKept DEF IInv, Live
<1>10. Sockets'
  <2> SUFFICES ASSUME NEW d \in Conn, Live(d)' PROVE OwnsFD(d)'
    BY DEF Sockets
  <2>1. OwnsFD(d) /\ thread'[d].fd = thread[d].fd
    BY <1>1, <1>2, <1>8 DEF Live, IInv, Sockets
  <2> QED BY <1>3, <2>1, StillOwned DEF IInv
<1>11. Watching'
  BY <1>0, <1>2, <1>8 DEF IInv, Watching
<1>12. Ages'
  BY <1>2, <1>8 DEF IInv, Ages
<1>13. Polled'
  <2> SUFFICES ASSUME NEW j \in Server, entry'[j].active
               PROVE  \E d \in Conn : /\ d.server = j /\ thread'[d].pc = "poll"
                                      /\ thread'[d].fd = entry'[j].sock
    BY DEF Polled
  <2>1. CASE j = i
    BY <1>2, <1>8, <2>1
  <2>2. CASE j # i
    <3>1. PICK d \in Conn : d.server = j /\ thread[d].pc = "poll" /\ thread[d].fd = entry[j].sock
      BY <1>8, <2>2 DEF IInv, Polled
    <3>2. d # c
      BY <2>2, <3>1
    <3> QED BY <1>8, <2>2, <3>1, <3>2
  <2> QED BY <2>1, <2>2
<1> QED BY <1>7, <1>9, <1>10, <1>11, <1>12, <1>13 DEF IInv

\* There is no room for the server in ss_list.
LEMMA RefusedStep ==
    ASSUME IInv, NEW c \in Conn, RecvRegistration(c),
           thread' = Leaves(c), UNCHANGED <<ss_count, entry, fds, quiet, displaced>>
    PROVE  IInv'
<1> DEFINE r == [thread[c] EXCEPT !.pc = "close", !.on = NoConn]
<1>1. r \in Thread /\ r.pc = "close" /\ r.fd = thread[c].fd
  BY DEF IInv, TypeOK, Thread
<1>2. thread' = [thread EXCEPT ![c] = r]
  BY DEF Leaves, IInv, TypeOK
<1>3. /\ UNCHANGED <<proc, backlog>>
      /\ Live(c) /\ thread[c].pc # "poll" /\ HasMsg(c) /\ wire' = Taken(c)
  BY DEF RecvRegistration, Live
<1> HIDE DEF r
<1>4. wire' \in [Conn -> Seq(Word)]
  BY <1>3, TakenTyped DEF IInv
<1>5. TypeOK /\ entry' \in [Server -> Entry] /\ quiet' \in [Server -> 0 .. Grace]
  BY DEF IInv, TypeOK, Entry
<1>6. Ages'
  BY DEF IInv, Ages
<1> QED BY <1>1, <1>2, <1>3, <1>4, <1>5, <1>6, ThreadOnly

\* A thread closes its number and ends.
LEMMA CloseStep ==
    ASSUME IInv, NEW c \in Conn, Close(c)
    PROVE  IInv'
<1> USE ConnFacts, NumberFacts
<1> DEFINE r == [thread[c] EXCEPT !.pc = "done", !.fd = NoFD]
<1>0. thread[c] \in Thread
  BY ThreadOf DEF IInv
<1>1. r \in Thread /\ r.pc = "done"
  BY <1>0 DEF Thread
<1>2. thread' = [thread EXCEPT ![c] = r]
  BY DEF Close, IInv, TypeOK
<1>3. /\ UNCHANGED <<proc, backlog, ss_count, wire, entry, quiet>>
      /\ fds' = Closed(fds, thread[c].fd) /\ displaced' = Displaces(c, fds') \ {c}
      /\ thread[c].pc = "close"
  BY DEF Close, Env
<1> HIDE DEF r
<1>4. /\ \A d \in Conn : d # c => thread'[d] = thread[d]
      /\ thread'[c] = r
      /\ \A d \in Conn : d # c /\ d \in displaced => d \in displaced'
  BY <1>2, <1>3, DisplacesTyped DEF IInv, TypeOK
<1>5. TypeOK'
  <2>1. thread' \in [Conn -> Thread]
    BY <1>1, <1>2, ThreadTyped DEF IInv
  <2>2. fds' \in [FD -> Conn \cup {NoConn}]
    BY <1>3, ClosedTyped DEF IInv, TypeOK
  <2>3. displaced' \subseteq Conn
    BY <1>3, DisplacesTyped DEF IInv
  <2> QED BY <1>3, <2>1, <2>2, <2>3 DEF IInv, TypeOK, Thread
<1>6. Waiting'
  BY <1>1, <1>3, <1>4, WaitingKept DEF IInv
<1>7. Sockets'
  <2> SUFFICES ASSUME NEW d \in Conn, Live(d)' PROVE OwnsFD(d)'
    BY DEF Sockets
  <2>1. d # c /\ OwnsFD(d) /\ thread'[d].fd = thread[d].fd
    BY <1>1, <1>4 DEF Live, IInv, Sockets
  <2> QED BY <1>3, <2>1, StillOwned DEF IInv
<1>8. Watching'
  BY <1>1, <1>4 DEF IInv, Watching
<1>9. Ages'
  BY <1>3 DEF IInv, Ages
<1>10. Polled'
  BY <1>3, <1>4 DEF IInv, Polled
<1> QED BY <1>5, <1>6, <1>7, <1>8, <1>9, <1>10 DEF IInv

\* A round of heartbeat_monitor: it closes heartbeat sockets, by number.
LEMMA MonitorStep ==
    ASSUME IInv, HeartbeatMonitor
    PROVE  IInv'
<1> USE ConnFacts, NumberFacts
<1>1. /\ UNCHANGED <<proc, backlog, ss_count, wire, thread, quiet>>
      /\ displaced' = Displaces(NoConn, fds')
      /\ fds' = [f \in FD |-> IF \E i \in Silent : entry[i].hb = f THEN NoConn ELSE fds[f]]
  BY DEF HeartbeatMonitor, Env
<1>2. /\ entry' \in [Server -> Entry]
      /\ \A i \in Server : /\ entry'[i].active => entry[i].active
                           /\ entry'[i].sock = entry[i].sock
                           /\ entry'[i].known = entry[i].known
                           /\ entry'[i].age = entry[i].age
  <2>1. \A i \in Server : entry[i] \in Entry
    BY DEF IInv, TypeOK, Entry
  <2>2. \A i \in Server : Marked(entry, i)[i] = [entry[i] EXCEPT !.hb = NoFD, !.active = FALSE]
    BY DEF Marked, IInv, TypeOK
  <2>3. \A i \in Server : LET e == [entry[i] EXCEPT !.hb = NoFD, !.active = FALSE] IN
            /\ e \in Entry /\ e.sock = entry[i].sock /\ e.known = entry[i].known
            /\ e.age = entry[i].age /\ e.active = FALSE
    BY <2>1 DEF Entry
  <2>4. entry' = [i \in Server |-> IF i \in Silent THEN Marked(entry, i)[i] ELSE entry[i]]
    BY DEF HeartbeatMonitor
  <2> QED BY <2>1, <2>2, <2>3, <2>4
<1>3. TypeOK'
  <2>1. displaced' \subseteq Conn
    BY <1>1, DisplacesTyped DEF IInv
  <2>2. fds' \in [FD -> Conn \cup {NoConn}]
    BY <1>1 DEF IInv, TypeOK
  <2> QED BY <1>1, <1>2, <2>1, <2>2 DEF IInv, TypeOK, Entry
<1>4. Waiting'
  BY <1>1, WaitingKept DEF IInv
<1>5. Sockets'
  <2> SUFFICES ASSUME NEW d \in Conn, Live(d)' PROVE OwnsFD(d)'
    BY DEF Sockets
  <2>1. OwnsFD(d) /\ thread'[d].fd = thread[d].fd
    BY <1>1 DEF Live, IInv, Sockets
  <2> QED BY <1>1, <2>1, StillOwned DEF IInv
<1>6. Watching'
  BY <1>1, DisplacesTyped DEF IInv, Watching
<1>7. Ages' /\ Polled'
  BY <1>1, <1>2 DEF IInv, Ages, Polled
<1> QED BY <1>3, <1>4, <1>5, <1>6, <1>7 DEF IInv

\* Time passes for every entry alike.
LEMMA TickStep ==
    ASSUME IInv, Tick
    PROVE  IInv'
<1> USE ConnFacts, NumberFacts
<1>1. UNCHANGED <<proc, backlog, ss_count, wire, thread, fds, displaced>>
  BY DEF Tick, Env
<1>2. \A n \in 0 .. Grace : Later(n) \in 0 .. Grace
  BY DEF Later
<1>3. \A i \in Server : entry[i] \in Entry /\ quiet[i] \in 0 .. Grace
  BY DEF IInv, TypeOK, Entry
<1>4. \A i \in Server : LET e == [entry[i] EXCEPT !.age = Later(entry[i].age)] IN
          /\ e \in Entry /\ e.sock = entry[i].sock /\ e.known = entry[i].known
          /\ e.age = Later(entry[i].age) /\ e.active = entry[i].active
  BY <1>2, <1>3 DEF Entry
<1>5. /\ entry' \in [Server -> Entry]
      /\ \A i \in Server : /\ entry'[i].active = entry[i].active
                           /\ entry'[i].sock = entry[i].sock
                           /\ entry'[i].known = entry[i].known
                           /\ i \in Known => entry'[i].age = Later(entry[i].age)
  <2>1. entry' = [i \in Server |-> IF i \in Known
                                   THEN [entry[i] EXCEPT !.age = Later(entry[i].age)]
                                   ELSE entry[i]]
    BY DEF Tick
  <2> QED BY <1>3, <1>4, <2>1
<1>6. /\ quiet' \in [Server -> 0 .. Grace]
      /\ \A i \in Known : quiet'[i] = Later(quiet[i])
  BY <1>2, <1>3 DEF Tick, Known
<1>7. TypeOK'
  BY <1>1, <1>5, <1>6 DEF IInv, TypeOK, Entry
<1>8. Waiting'
  BY <1>1, WaitingKept DEF IInv
<1>9. Sockets' /\ Watching'
  BY <1>1 DEF IInv, Sockets, OwnsFD, Live, Watching
<1>10. Ages' /\ Polled'
  BY <1>1, <1>5, <1>6 DEF IInv, Ages, Polled, Known
<1> QED BY <1>7, <1>8, <1>9, <1>10 DEF IInv

-----------------------------------------------------------------------------
LEMMA InitIInv == Init => IInv
<1> SUFFICES ASSUME Init PROVE IInv
  OBVIOUS
<1> USE ConnFacts, NumberFacts
<1>1. TypeOK
  BY RegistryAssumption DEF Init, TypeOK
<1>2. Waiting
  <2>1. \A k \in Kind : DOMAIN backlog[k] = {}
    BY DEF Init
  <2> QED BY <2>1 DEF Init, Waiting
<1>3. Sockets /\ Watching /\ Ages /\ Polled
  BY DEF Init, Sockets, Live, Watching, Ages, Polled
<1> QED BY <1>1, <1>2, <1>3 DEF IInv

LEMMA StutterIInv ==
    ASSUME IInv, UNCHANGED vars
    PROVE  IInv'
<1>1. TypeOK' /\ Sockets' /\ Watching' /\ Ages' /\ Polled'
  BY DEF vars, IInv, TypeOK, Sockets, OwnsFD, Live, Watching, Ages, Polled
<1>2. Waiting'
  BY WaitingKept DEF vars, IInv
<1> QED BY <1>1, <1>2 DEF IInv

LEMMA NextIInv == IInv /\ [Next]_vars => IInv'
<1> SUFFICES ASSUME IInv, [Next]_vars PROVE IInv'
  OBVIOUS
<1>1. ASSUME NEW c \in Conn, RecvRegistration(c) PROVE IInv'
  BY <1>1, RegisterStep, RefusedStep DEF RecvRegistration
<1>2. ASSUME NEW c \in Conn, ThreadStep(c) PROVE IInv'
  BY <1>1, <1>2, LeavesStep, HeardStep, CloseStep DEF ThreadStep
<1> QED BY <1>2, ServerStepIInv, AcceptIInv, MonitorStep, TickStep, StutterIInv DEF Next

LEMMA Inductive == Spec => []IInv
BY InitIInv, NextIInv, PTL DEF Spec

-----------------------------------------------------------------------------
\* The variables keep their types: ss_count stays within ss_list, and every thread has
\* a descriptor and a connection.
THEOREM TypeCorrect == Spec => []TypeOK
<1>1. IInv => TypeOK
  BY DEF IInv
<1> QED BY <1>1, Inductive, PTL

\* handle_ss_connection: the socket in the entry of an active server is that of a
\* connection of the server that a thread still serves, unless another thread closed it.
THEOREM ActiveSocket == Spec => []ActiveHasSocket
<1>1. IInv => ActiveHasSocket
  <2> SUFFICES ASSUME IInv, NEW i \in Server, entry[i].active
               PROVE  \E n \in 1 .. Starts[i] :
                          LET c == ConnOf(i, n, "cmd") IN
                              /\ thread[c].pc = "poll"
                              /\ thread[c].fd = entry[i].sock
                              /\ fds[entry[i].sock] = c \/ c \in displaced
    BY DEF ActiveHasSocket
  <2>1. PICK c \in Conn : c.server = i /\ thread[c].pc = "poll" /\ thread[c].fd = entry[i].sock
    BY DEF IInv, Polled
  <2>2. c.start \in 1 .. Starts[i] /\ c = ConnOf(i, c.start, "cmd")
    BY <2>1, ConnFacts DEF IInv, Watching
  <2>3. OwnsFD(c)
    BY <2>1 DEF IInv, Sockets, Live
  <2> QED BY <2>1, <2>2, <2>3 DEF OwnsFD
<1> QED BY <1>1, Inductive, PTL

\* handle_ss_heartbeat and heartbeat_monitor: no server is marked inactive without one
\* of the two causes, whatever threads of earlier starts are left.
THEOREM DeactivationHasCause == Spec => DeactivatedForCause
<1> DEFINE Cause(i) == \/ quiet[i] >= Grace
                       \/ \E n \in 1 .. Starts[i] : LostBeats(ConnOf(i, n, "hb"))
           Caused   == \A i \in Server : entry[i].active /\ ~entry'[i].active => Cause(i)
<1>1. IInv /\ [Next]_vars => [Caused]_vars
  <2> SUFFICES ASSUME IInv, Next, NEW i \in Server, entry[i].active, ~entry'[i].active
               PROVE  Cause(i)
    BY DEF vars
  <2>1. CASE HeartbeatMonitor
    <3>1. i \in Silent
      BY <2>1 DEF HeartbeatMonitor
    <3> QED BY <3>1 DEF Silent, Known, IInv, Ages
  <2>2. CASE \E c \in Conn : LosesBeats(c)
    <3>1. PICK c \in Conn : LosesBeats(c)
      BY <2>2
    <3>2. c.server = i
      BY <3>1 DEF LosesBeats, Marked, IInv, TypeOK
    <3>3. c.kind = "hb" /\ (thread[c].on = c \/ c \in displaced) /\ thread[c].pc = "serve"
      BY <3>1 DEF LosesBeats, IInv, Watching
    <3>4. LostBeats(c)
      BY <3>1, <3>3, ConnFacts DEF LosesBeats, LostBeats, Fails, Ended
    <3>5. c.start \in 1 .. Starts[i] /\ c = ConnOf(i, c.start, "hb")
      BY <3>2, <3>3, ConnFacts
    <3> QED BY <3>4, <3>5
  <2>3. ASSUME UNCHANGED entry PROVE FALSE
    BY <2>3
  <2>4. ASSUME NEW c \in Conn, RecvRegistration(c) \/ RecvInit(c) \/ RecvBeat(c) PROVE FALSE
    <3>1. entry \in [Server -> Entry]
      BY DEF IInv, TypeOK, Entry
    <3>2. CASE RecvRegistration(c)
      BY <3>1, <3>2 DEF RecvRegistration, Registration
    <3>3. CASE RecvInit(c) \/ RecvBeat(c)
      BY <3>1, <3>3 DEF RecvInit, RecvBeat, Entry
    <3> QED BY <2>4, <3>2, <3>3
  <2>5. CASE Tick
    BY <2>5 DEF Tick, IInv, TypeOK
  <2>6. ASSUME NEW c \in Conn, NoFirst(c) \/ SeesInactive(c) \/ Close(c) PROVE FALSE
    BY <2>3, <2>6 DEF NoFirst, SeesInactive, Close
  <2>7. ASSUME NEW j \in Server, ServerStep(j) PROVE FALSE
    BY <2>3, <2>7 DEF ServerStep, Start, Register, StartBeats, Beat, Crash, Nm
  <2>8. ASSUME NEW k \in Kind, Accept(k) PROVE FALSE
    BY <2>3, <2>8 DEF Accept
  <2> QED BY <2>1, <2>2, <2>4, <2>5, <2>6, <2>7, <2>8 DEF Next, ThreadStep
<1> QED BY <1>1, Inductive, PTL DEF Spec, DeactivatedForCause

=============================================================================
