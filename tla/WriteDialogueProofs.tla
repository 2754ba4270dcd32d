------------------------- MODULE WriteDialogueProofs -------------------------
(***************************************************************************)
(* Proofs about WriteDialogue, for any numbers of lines, retries,          *)
(* connections and restarts.                                               *)
(***************************************************************************)
EXTENDS WriteDialogue, TLAPS

\* The requests that handle_write sends, and a connection with such requests.
Asked   == {Ask("LOCK"), Ask("UNLOCK"), Ask("CANCEL")} \cup {Write(n) : n \in Line}
Channel == [up : BOOLEAN, requests : Seq(Asked), replies : Seq(Reply)]
Local   == [line : 0 .. MaxLines, retry : 0 .. MaxRetries, count : 0 .. MaxLines,
            status : BOOLEAN, said : BOOLEAN, sigint : BOOLEAN, eintr : BOOLEAN]

Channels == conn \in [Conn -> Channel]

\* The connection in use is the last one that was opened.
Current ==
    /\ cur \in {0, opened} /\ granted <= opened
    /\ pc \in {"lock", "relock", "await", "bye", "cancel"} => cur # 0
    /\ pc \in {"start", "done"} => cur = 0
    /\ pc \in {"lock", "relock"} => granted # cur

\* The counters of handle_write.
Counters ==
    /\ me.count <= me.line
    /\ pc \in {"send", "await", "relock"} => me.count < me.line
    /\ pc = "await" => me.retry < MaxRetries
    /\ me.eintr => me.sigint

\* A request on connection k.
Pending(k, q) == \E n \in DOMAIN conn[k].requests : conn[k].requests[n] = q

\* UNLOCK is sent once, over a connection with nothing else under way; CANCEL is the
\* last request of a command.
UnlockOnce ==
    \A k \in Conn : Pending(k, Ask("UNLOCK")) =>
        /\ pc \in {"bye", "done"} /\ k = opened
        /\ conn[k].requests = <<Ask("UNLOCK")>>
        /\ file = <<>> /\ left = <<>> /\ answered = "none"
        /\ ~stray => session.words = since
CancelLast ==
    \A k \in Conn : Pending(k, Ask("CANCEL")) => pc \in {"cancel", "done"} /\ k = opened

\* handle_write has sent q and waits: q is under way, or its reply, or nothing is and
\* the connection has been lost.
Exchange(q) ==
    \/ conn[cur].requests = <<q>> /\ conn[cur].replies = <<>>
    \/ conn[cur].requests = <<>> /\ \E r \in Reply : conn[cur].replies = <<r>>
    \/ ~conn[cur].up /\ conn[cur].replies = <<>>
Reads(r) == conn[cur].replies = <<r>>

Locking ==
    pc \in {"lock", "relock"} =>
        /\ Exchange(Ask("LOCK"))
        /\ conn[cur].up /\ Reads("SUCCESS") =>
               /\ ~unseated => lock = Me /\ session.open
               /\ ~stray => session.words = <<>>
Writing ==
    pc = "await" =>
        /\ Exchange(Write(me.line))
        /\ conn[cur].up =>
               /\ granted = cur
               /\ ~stray => session.words = IF Reads("SUCCESS") THEN Append(since, me.line)
                                                                ELSE since
Unlocking ==
    pc = "bye" =>
        /\ Exchange(Ask("UNLOCK"))
        /\ Reads("SUCCESS") /\ ~stray => (file = since \/ dropped) /\ lock # Me
        /\ Reads("refused") /\ ~stray => file = <<>> /\ left = <<>>

\* Between exchanges nothing is under way, and the session has what was acknowledged.
Resting == pc \in {"send", "unlock"} \/ (pc = "typing" /\ ~me.sigint)
Quiet ==
    Resting /\ cur # 0 =>
        /\ conn[cur].replies = <<>>
        /\ conn[cur].up => /\ granted = cur /\ conn[cur].requests = <<>>
                           /\ ~stray => session.words = since
Silent ==
    pc = "typing" /\ cur # 0 /\ granted = cur /\ conn[cur].up => conn[cur].requests = <<>>

\* A session is open only under the lock, and a LOCK that failed late is a stray one.
Seats ==
    /\ session.open => lock = Me
    /\ ~session.open => session.words = <<>>
    /\ unseated => stray

\* What is left in the queue is the commit of this command.
Leftover == left # <<>> => file = <<>> /\ (~stray => left = since)

\* Nothing is committed before UNLOCK.
NotYet   == pc \notin {"bye", "done"} => file = <<>> /\ left = <<>>
Answered == answered # "none" => pc = "done"

Talk == Locking /\ Writing /\ Unlocking /\ Quiet /\ Silent
Kept == Seats /\ Leftover
IInv == /\ TypeOK /\ Channels /\ Current /\ Counters /\ UnlockOnce /\ CancelLast /\ Talk /\ Kept
        /\ NotYet /\ Answered /\ LockedWhileWriting /\ CommitIsSinceLock

-----------------------------------------------------------------------------
LEMMA NumberFacts ==
    /\ MaxLines \in Nat /\ MaxRestarts \in Nat
    /\ MaxRetries \in Nat \ {0} /\ MaxConns \in Nat \ {0}
    /\ Me # Rival /\ NoUser # Me /\ NoUser # Rival
BY DialogueAssumption

LEMMA RequestFacts ==
    /\ Asked \subseteq Request
    /\ \A t : Ask(t).type = t
    /\ \A n : Write(n).type = "WRITE" /\ Write(n).line = n
    /\ \A q \in Asked : /\ q.type = "LOCK" => q = Ask("LOCK")
                        /\ q.type = "UNLOCK" => q = Ask("UNLOCK")
                        /\ q.type = "CANCEL" => q = Ask("CANCEL")
                        /\ q.type = "WRITE" => q.line \in Line /\ q = Write(q.line)
<1>1. Asked \subseteq Request
  BY NumberFacts DEF Asked, Request, Ask, Write, Line
<1>2. /\ \A t : Ask(t).type = t
      /\ \A n : Write(n).type = "WRITE" /\ Write(n).line = n
  BY DEF Ask, Write
<1>3. \A q \in Asked : \/ q \in {Ask("LOCK"), Ask("UNLOCK"), Ask("CANCEL")}
                       \/ \E n \in Line : q = Write(n)
  BY DEF Asked
<1>4. ASSUME NEW q \in Asked
      PROVE  /\ q.type = "LOCK" => q = Ask("LOCK")
             /\ q.type = "UNLOCK" => q = Ask("UNLOCK")
             /\ q.type = "CANCEL" => q = Ask("CANCEL")
             /\ q.type = "WRITE" => q.line \in Line /\ q = Write(q.line)
  <2>1. CASE q \in {Ask("LOCK"), Ask("UNLOCK"), Ask("CANCEL")}
    BY <2>1 DEF Ask
  <2>2. CASE \E n \in Line : q = Write(n)
    BY <2>2 DEF Write
  <2> QED BY <1>3, <2>1, <2>2
<1> QED BY <1>1, <1>2, <1>4

LEMMA ChannelTyped ==
    ASSUME NEW C \in [Conn -> Channel]
    PROVE  C \in [Conn -> [up : BOOLEAN, requests : Seq(Request), replies : Seq(Reply)]]
<1>1. \A s \in Seq(Asked) : s \in Seq(Request)
  BY RequestFacts
<1>2. Channel \subseteq [up : BOOLEAN, requests : Seq(Request), replies : Seq(Reply)]
  BY <1>1 DEF Channel
<1> QED BY <1>2

LEMMA ChannelFacts ==
    ASSUME Channels, NEW k \in Conn
    PROVE  /\ conn[k] \in Channel /\ conn[k].up \in BOOLEAN
           /\ conn[k].requests \in Seq(Asked) /\ conn[k].replies \in Seq(Reply)
BY DEF Channels, Channel

LEMMA CurFacts ==
    ASSUME TypeOK
    PROVE  /\ cur \in Int /\ opened \in Int /\ granted \in Int
           /\ cur # 0 => cur \in Conn
           /\ opened < MaxConns => opened + 1 \in Conn
<1>1. cur \in 0 .. MaxConns /\ opened \in 0 .. MaxConns /\ granted \in 0 .. MaxConns
  BY DEF TypeOK
<1> QED BY <1>1, NumberFacts DEF Conn

\* What the network does to the connections, and to the requests under way.
LEMMA SendFacts ==
    ASSUME Channels, cur \in Conn, NEW q \in Asked, Send(q)
    PROVE  /\ Channels'
           /\ \A k \in Conn : k # cur => conn'[k] = conn[k]
           /\ conn'[cur].up = conn[cur].up /\ conn'[cur].replies = conn[cur].replies
           /\ conn'[cur].requests = IF conn[cur].up THEN Append(conn[cur].requests, q)
                                                    ELSE conn[cur].requests
           /\ \A k \in Conn : \A p : Pending(k, p)' => Pending(k, p) \/ (k = cur /\ p = q)
<1> DEFINE C == [conn[cur] EXCEPT !.requests = Append(conn[cur].requests, q)]
<1>1. conn[cur] \in Channel /\ conn[cur].requests \in Seq(Asked)
  BY ChannelFacts
<1>2. /\ C \in Channel /\ C.up = conn[cur].up /\ C.replies = conn[cur].replies
      /\ C.requests = Append(conn[cur].requests, q)
  <2>1. Append(conn[cur].requests, q) \in Seq(Asked)
    BY <1>1
  <2> QED BY <1>1, <2>1 DEF Channel
<1>3. conn' = IF conn[cur].up THEN [conn EXCEPT ![cur] = C] ELSE conn
  <2>1. conn[cur].up => conn' = [conn EXCEPT ![cur].requests = Append(conn[cur].requests, q)]
    BY DEF Send
  <2>2. ~conn[cur].up => conn' = conn
    BY DEF Send
  <2> QED BY <2>1, <2>2 DEF Channels
<1> HIDE DEF C
<1>4. /\ Channels'
      /\ \A k \in Conn : k # cur => conn'[k] = conn[k]
      /\ conn'[cur] = IF conn[cur].up THEN C ELSE conn[cur]
  BY <1>1, <1>2, <1>3 DEF Channels
<1>5. ASSUME NEW k \in Conn, NEW p, Pending(k, p)'
      PROVE  Pending(k, p) \/ (k = cur /\ p = q)
  <2>1. CASE conn'[k] = conn[k]
    BY <1>5, <2>1 DEF Pending
  <2>2. CASE k = cur /\ conn[cur].up
    <3>1. PICK n \in DOMAIN Append(conn[cur].requests, q) : Append(conn[cur].requests, q)[n] = p
      BY <1>2, <1>4, <1>5, <2>2 DEF Pending
    <3>2. \/ n \in DOMAIN conn[cur].requests /\ conn[cur].requests[n] = p
          \/ p = q
      BY <1>1, <3>1
    <3> QED BY <2>2, <3>2 DEF Pending
  <2> QED BY <1>4, <2>1, <2>2
<1> QED BY <1>2, <1>4, <1>5

LEMMA TookFacts ==
    ASSUME Channels, cur \in Conn, conn[cur].replies # <<>>, Took
    PROVE  /\ Channels'
           /\ \A k \in Conn : k # cur => conn'[k] = conn[k]
           /\ conn'[cur].up = conn[cur].up /\ conn'[cur].requests = conn[cur].requests
           /\ conn'[cur].replies = Tail(conn[cur].replies)
           /\ \A k \in Conn : \A p : Pending(k, p)' => Pending(k, p)
<1> DEFINE C == [conn[cur] EXCEPT !.replies = Tail(conn[cur].replies)]
<1>1. conn[cur] \in Channel /\ conn[cur].replies \in Seq(Reply)
  BY ChannelFacts
<1>2. /\ C \in Channel /\ C.up = conn[cur].up /\ C.requests = conn[cur].requests
      /\ C.replies = Tail(conn[cur].replies)
  <2>1. Tail(conn[cur].replies) \in Seq(Reply)
    BY <1>1
  <2> QED BY <1>1, <2>1 DEF Channel
<1>3. conn' = [conn EXCEPT ![cur] = C]
  BY DEF Took, Channels
<1> HIDE DEF C
<1>4. /\ Channels'
      /\ \A k \in Conn : k # cur => conn'[k] = conn[k]
      /\ conn'[cur] = C
  BY <1>1, <1>2, <1>3 DEF Channels
<1>5. \A k \in Conn : conn'[k].requests = conn[k].requests
  BY <1>2, <1>4
<1> QED BY <1>2, <1>4, <1>5 DEF Pending

LEMMA OpensFacts ==
    ASSUME TypeOK, Channels, Opens
    PROVE  /\ Channels' /\ opened + 1 \in Conn /\ opened' = opened + 1 /\ cur' = opened + 1
           /\ \A k \in Conn : k # opened + 1 => conn'[k] = conn[k]
           /\ conn'[opened + 1].up /\ conn'[opened + 1].requests = <<Ask("LOCK")>>
           /\ conn'[opened + 1].replies = <<>>
           /\ \A k \in Conn : \A p : Pending(k, p)' => Pending(k, p) \/ p = Ask("LOCK")
<1> DEFINE C == [up |-> TRUE, requests |-> <<Ask("LOCK")>>, replies |-> <<>>]
<1>1. opened + 1 \in Conn /\ opened' = opened + 1 /\ cur' = opened + 1
  BY CurFacts DEF Opens
<1>2. C \in Channel /\ C.up /\ C.requests = <<Ask("LOCK")>> /\ C.replies = <<>>
  BY DEF Channel, Asked
<1>3. conn' = [conn EXCEPT ![opened + 1] = C]
  BY DEF Opens
<1> HIDE DEF C
<1>4. /\ Channels'
      /\ \A k \in Conn : k # opened + 1 => conn'[k] = conn[k]
      /\ conn'[opened + 1] = C
  BY <1>1, <1>2, <1>3 DEF Channels
<1>5. ASSUME NEW k \in Conn, NEW p, Pending(k, p)'
      PROVE  Pending(k, p) \/ p = Ask("LOCK")
  <2>1. CASE k = opened + 1
    BY <1>2, <1>4, <1>5, <2>1 DEF Pending
  <2>2. CASE k # opened + 1
    BY <1>4, <1>5, <2>2 DEF Pending
  <2> QED BY <2>1, <2>2
<1> QED BY <1>1, <1>2, <1>4, <1>5

LEMMA AnswersFacts ==
    ASSUME Channels, NEW k \in Conn, conn[k].requests # <<>>, NEW r \in Reply, Answers(k, r)
    PROVE  /\ Channels'
           /\ \A j \in Conn : j # k => conn'[j] = conn[j]
           /\ conn'[k].up = conn[k].up /\ conn'[k].requests = Tail(conn[k].requests)
           /\ conn'[k].replies = IF conn[k].up THEN Append(conn[k].replies, r)
                                               ELSE conn[k].replies
           /\ \A j \in Conn : \A p : Pending(j, p)' => Pending(j, p)
<1> DEFINE R == IF conn[k].up THEN Append(conn[k].replies, r) ELSE conn[k].replies
           C == [conn[k] EXCEPT !.requests = Tail(conn[k].requests), !.replies = R]
<1>1. /\ conn[k] \in Channel /\ conn[k].replies \in Seq(Reply)
      /\ conn[k].requests \in Seq(Asked)
  BY ChannelFacts
<1>2. /\ C \in Channel /\ C.up = conn[k].up /\ C.requests = Tail(conn[k].requests)
      /\ C.replies = R
  <2>1. R \in Seq(Reply) /\ Tail(conn[k].requests) \in Seq(Asked)
    BY <1>1
  <2> QED BY <1>1, <2>1 DEF Channel
<1>3. conn' = [conn EXCEPT ![k] = C]
  BY DEF Answers, Channels
<1> HIDE DEF C
<1>4. /\ Channels'
      /\ \A j \in Conn : j # k => conn'[j] = conn[j]
      /\ conn'[k] = C
  BY <1>1, <1>2, <1>3 DEF Channels
<1>5. ASSUME NEW j \in Conn, NEW p, Pending(j, p)'
      PROVE  Pending(j, p)
  <2>1. CASE j = k
    <3>1. PICK n \in DOMAIN Tail(conn[k].requests) : Tail(conn[k].requests)[n] = p
      BY <1>2, <1>4, <1>5, <2>1 DEF Pending
    <3>2. n + 1 \in DOMAIN conn[k].requests /\ conn[k].requests[n + 1] = p
      BY <1>1, <3>1
    <3> QED BY <2>1, <3>2 DEF Pending
  <2>2. CASE j # k
    BY <1>4, <1>5, <2>2 DEF Pending
  <2> QED BY <2>1, <2>2
<1> QED BY <1>2, <1>4, <1>5

-----------------------------------------------------------------------------
Pc == {"start", "lock", "typing", "send", "await", "relock", "unlock", "bye", "cancel", "done"}

LEMMA MeFacts ==
    ASSUME TypeOK
    PROVE  /\ me \in Local /\ me.line \in 0 .. MaxLines /\ me.retry \in 0 .. MaxRetries
           /\ me.count \in 0 .. MaxLines /\ me.status \in BOOLEAN /\ me.said \in BOOLEAN
           /\ me.sigint \in BOOLEAN /\ me.eintr \in BOOLEAN
           /\ pc \in Pc
BY DEF TypeOK, Local, Pc

\* handle_write goes on with m for its locals, and has heard of any interrupt.
LEMMA GotoFacts ==
    ASSUME NEW l, NEW m \in Local, Goto(l, m)
    PROVE  /\ pc' = l /\ me' \in Local /\ ~me'.eintr
           /\ me'.line = m.line /\ me'.retry = m.retry /\ me'.count = m.count
           /\ me'.sigint = m.sigint /\ me'.said = m.said /\ me'.status = m.status
BY DEF Goto, Local

LEMMA ClientTyped ==
    ASSUME TypeOK, UNCHANGED Server, Channels', pc' \in Pc, me' \in Local,
           cur' \in 0 .. MaxConns, opened' \in 0 .. MaxConns, granted' \in 0 .. MaxConns,
           since' \in Seq(Line), answered' \in Reply \cup {"none"}
    PROVE  TypeOK'
<1>1. conn' \in [Conn -> [up : BOOLEAN, requests : Seq(Request), replies : Seq(Reply)]]
  BY ChannelTyped DEF Channels
<1> QED BY <1>1 DEF TypeOK, Server, Local, Pc

\* A step of handle_write before it sends UNLOCK or CANCEL.
LEMMA MiddleStep ==
    ASSUME IInv, UNCHANGED <<Server, answered>>, pc \notin {"bye", "cancel", "done"},
           Channels', pc' \in Pc \ {"bye", "cancel"}, me' \in Local,
           cur' \in 0 .. MaxConns, opened' \in 0 .. MaxConns, granted' \in 0 .. MaxConns,
           since' \in Seq(Line),
           \A k \in Conn : \A q : Pending(k, q)' =>
               Pending(k, q) \/ q \notin {Ask("UNLOCK"), Ask("CANCEL")},
           Current', Counters', Talk', LockedWhileWriting'
    PROVE  IInv'
<1>1. TypeOK'
  BY ClientTyped DEF IInv, TypeOK
<1>2. \A k \in Conn : ~Pending(k, Ask("UNLOCK"))' /\ ~Pending(k, Ask("CANCEL"))'
  BY DEF IInv, UnlockOnce, CancelLast
<1>3. UnlockOnce' /\ CancelLast'
  BY <1>2 DEF UnlockOnce, CancelLast, Ask
<1>4. file' = <<>> /\ left' = <<>> /\ answered' = "none"
  BY DEF IInv, NotYet, Answered, Server
<1>5. NotYet' /\ Answered' /\ CommitIsSinceLock'
  BY <1>4 DEF NotYet, Answered, CommitIsSinceLock
<1>6. Kept'
  BY <1>4 DEF IInv, Kept, Seats, Leftover, Server
<1> QED BY <1>1, <1>3, <1>5, <1>6 DEF IInv

LEMMA BeginStep ==
    ASSUME IInv, Begin
    PROVE  IInv'
<1> USE NumberFacts
<1>1. /\ pc = "start" /\ me \in Local /\ TypeOK /\ Channels
      /\ UNCHANGED <<Server, granted, since, answered>>
      /\ cur \in Int /\ opened \in Int /\ granted \in Int /\ granted <= opened
      /\ opened \in 0 .. MaxConns /\ granted \in 0 .. MaxConns /\ since \in Seq(Line)
  BY MeFacts, CurFacts DEF Begin, IInv, Current, TypeOK
<1>2. CASE Opens /\ Goto("lock", me)
  <2>1. /\ pc' = "lock" /\ me' \in Local /\ ~me'.eintr
        /\ me'.line = me.line /\ me'.count = me.count
    BY <1>1, <1>2, GotoFacts
  <2>2. /\ Channels' /\ opened' = opened + 1 /\ cur' = opened + 1 /\ opened + 1 \in Conn
        /\ conn'[cur'].requests = <<Ask("LOCK")>> /\ conn'[cur'].replies = <<>>
        /\ \A k \in Conn : \A p : Pending(k, p)' => Pending(k, p) \/ p = Ask("LOCK")
    BY <1>1, <1>2, OpensFacts
  <2>3. Current' /\ Counters'
    BY <1>1, <2>1, <2>2 DEF Current, Counters, IInv, Conn
  <2>4. Talk'
    BY <1>1, <2>1, <2>2 DEF Talk, Locking, Exchange, Writing, Unlocking, Quiet, Silent, Resting, Reads
  <2>5. LockedWhileWriting'
    BY <2>1 DEF LockedWhileWriting
  <2>6. \A k \in Conn : \A q : Pending(k, q)' =>
            Pending(k, q) \/ q \notin {Ask("UNLOCK"), Ask("CANCEL")}
    BY <2>2 DEF Ask
  <2> QED BY <1>1, <2>1, <2>2, <2>3, <2>4, <2>5, <2>6, MiddleStep DEF Conn, Pc
<1>3. CASE Ends(me) /\ UNCHANGED <<conn, opened>>
  <2>1. /\ pc' = "done" /\ me' \in Local /\ ~me'.eintr
        /\ me'.line = me.line /\ me'.count = me.count /\ cur' = 0 /\ UNCHANGED <<conn, opened>>
    BY <1>1, <1>3, GotoFacts DEF Ends
  <2>2. Current' /\ Counters' /\ Channels'
    BY <1>1, <2>1 DEF Current, Counters, IInv, Channels
  <2>3. Talk' /\ LockedWhileWriting'
    BY <2>1 DEF Talk, Locking, Writing, Unlocking, Quiet, Silent, Resting, LockedWhileWriting
  <2>4. \A k \in Conn : \A q : Pending(k, q)' => Pending(k, q)
    BY <2>1 DEF Pending
  <2> QED BY <1>1, <2>1, <2>2, <2>3, <2>4, MiddleStep DEF Pc
<1> QED BY <1>2, <1>3 DEF Begin

\* What recv returns.
LEMMA RecvFacts ==
    ASSUME Channels, cur \in Conn
    PROVE  /\ \A q : \A r \in Reply : Exchange(q) /\ Recv(r) =>
                  /\ Reads(r) /\ ~me.eintr /\ conn[cur].replies # <<>>
                  /\ Tail(conn[cur].replies) = <<>>
                  /\ conn[cur].up => conn[cur].requests = <<>>
           /\ \A q : Exchange(q) /\ RecvFails /\ ~me.eintr =>
                  ~conn[cur].up /\ conn[cur].replies = <<>>
           /\ Reads("SUCCESS") => ~Reads("refused")
<1>1. conn[cur].up \in BOOLEAN /\ conn[cur].replies \in Seq(Reply)
  BY ChannelFacts
<1>2. ASSUME NEW q, NEW r \in Reply, Exchange(q), Recv(r)
      PROVE  /\ Reads(r) /\ ~me.eintr /\ conn[cur].replies # <<>>
             /\ Tail(conn[cur].replies) = <<>>
             /\ conn[cur].up => conn[cur].requests = <<>>
  <2>1. conn[cur].requests = <<>> /\ \E t \in Reply : conn[cur].replies = <<t>>
    BY <1>2 DEF Exchange, Recv
  <2>2. PICK t \in Reply : conn[cur].replies = <<t>>
    BY <2>1
  <2> QED BY <1>2, <2>1, <2>2 DEF Recv, Reads
<1>3. ASSUME NEW q, Exchange(q), RecvFails, ~me.eintr
      PROVE  ~conn[cur].up /\ conn[cur].replies = <<>>
  BY <1>3 DEF RecvFails
<1>4. Reads("SUCCESS") => ~Reads("refused")
  BY DEF Reads
<1> QED BY <1>2, <1>3, <1>4

\* The reply to LOCK is read, or cannot be: the first LOCK, and the one of a retry.
LEMMA LockReplyStep ==
    ASSUME IInv, LockReply \/ Relocked
    PROVE  IInv'
<1> USE NumberFacts
<1>1. /\ pc \in {"lock", "relock"} /\ me \in Local /\ TypeOK /\ Channels
      /\ UNCHANGED <<Server, opened, answered>>
      /\ cur \in Conn /\ opened \in 0 .. MaxConns /\ granted \in 0 .. MaxConns
      /\ granted <= opened /\ since \in Seq(Line) /\ granted # cur /\ cur = opened /\ cur # 0
      /\ cur \in 0 .. MaxConns /\ opened \in Int /\ granted \in Int
  BY MeFacts, CurFacts DEF LockReply, Relocked, IInv, Current, TypeOK
<1>2. /\ pc' = IF pc = "lock" /\ cur' = 0 THEN "done" ELSE IF pc = "lock" THEN "typing" ELSE "send"
      /\ Goto(pc', me)
      /\ pc' \in {"typing", "send", "done"} /\ (pc' = "done" => cur' = 0)
  BY <1>1 DEF LockReply, Relocked, Ends, Goto
<1>3. /\ me' \in Local /\ ~me'.eintr
      /\ me'.line = me.line /\ me'.count = me.count /\ me'.sigint = me.sigint
      /\ me'.retry = me.retry
  BY <1>1, <1>2, GotoFacts
<1>4. Exchange(Ask("LOCK"))
  BY <1>1 DEF IInv, Talk, Locking
<1>5. Counters'
  BY <1>1, <1>2, <1>3 DEF IInv, Counters
<1>6. CASE Recv("SUCCESS") /\ Took /\ UNCHANGED cur /\ granted' = cur /\ since' = <<>>
  <2>1. /\ Reads("SUCCESS") /\ conn[cur].replies # <<>> /\ Tail(conn[cur].replies) = <<>>
        /\ conn[cur].up => conn[cur].requests = <<>>
    BY <1>1, <1>4, <1>6, RecvFacts DEF Reply
  <2>2. /\ Channels' /\ conn'[cur].up = conn[cur].up /\ conn'[cur].replies = <<>>
        /\ conn'[cur].requests = conn[cur].requests
        /\ \A k \in Conn : \A p : Pending(k, p)' => Pending(k, p)
    BY <1>1, <1>6, <2>1, TookFacts
  <2>3. conn[cur].up => /\ ~unseated => lock = Me /\ session.open
                        /\ ~stray => session.words = <<>>
    BY <1>1, <2>1 DEF IInv, Talk, Locking
  <2>4. pc' \in {"typing", "send"}
    BY <1>1, <1>2, <1>6
  <2>5. Current'
    BY <1>1, <1>6, <2>4 DEF Current
  <2>6. Locking' /\ Writing' /\ Unlocking'
    BY <2>4 DEF Locking, Writing, Unlocking
  <2>7. Quiet' /\ Silent'
    BY <1>1, <1>6, <2>1, <2>2, <2>3 DEF Quiet, Silent, Server
  <2>8. LockedWhileWriting'
    BY <1>1, <1>6, <2>2, <2>3 DEF LockedWhileWriting, Server
  <2>9. since' \in Seq(Line) /\ granted' \in 0 .. MaxConns /\ pc' \in Pc \ {"bye", "cancel"}
    BY <1>1, <1>6, <2>4 DEF Pc
  <2>10. Talk'
    BY <2>6, <2>7 DEF Talk
  <2> QED BY <1>1, <1>3, <1>5, <1>6, <2>2, <2>5, <2>8, <2>9, <2>10, MiddleStep
<1>7. CASE cur' = 0 /\ UNCHANGED <<granted, since>> /\ (UNCHANGED conn \/ (Recv("refused") /\ Took))
  <2>1. Channels' /\ \A k \in Conn : \A p : Pending(k, p)' => Pending(k, p)
    <3>1. CASE UNCHANGED conn
      BY <1>1, <3>1 DEF Channels, Pending
    <3>2. CASE Recv("refused") /\ Took
      BY <1>1, <1>4, <3>2, TookFacts, RecvFacts DEF Reply
    <3> QED BY <1>7, <3>1, <3>2
  <2>2. pc' \in {"done", "send"}
    BY <1>1, <1>2, <1>7
  <2>3. Current'
    BY <1>1, <1>7, <2>2 DEF Current
  <2>4. Talk' /\ LockedWhileWriting'
    BY <1>7, <2>2 DEF Talk, Locking, Writing, Unlocking, Quiet, Silent, LockedWhileWriting
  <2>5. pc' \in Pc \ {"bye", "cancel"} /\ cur' \in 0 .. MaxConns
    BY <1>7, <2>2 DEF Pc
  <2> QED BY <1>1, <1>3, <1>5, <1>7, <2>1, <2>3, <2>4, <2>5, MiddleStep
<1>8. CASE pc = "lock" /\ RecvFails /\ UNCHANGED <<conn, cur, granted, since>>
  <2>1. pc' = "typing"
    BY <1>1, <1>2, <1>8
  <2>2. ~me'.sigint => ~conn[cur].up /\ conn[cur].replies = <<>>
    BY <1>1, <1>3, <1>4, <1>8, RecvFacts DEF IInv, Counters
  <2>3. Channels' /\ \A k \in Conn : \A p : Pending(k, p)' => Pending(k, p)
    BY <1>1, <1>8 DEF Channels, Pending
  <2>4. Current' /\ LockedWhileWriting'
    BY <1>1, <1>8, <2>1 DEF Current, LockedWhileWriting
  <2>5. Talk'
    <3>1. Locking' /\ Writing' /\ Unlocking'
      BY <2>1 DEF Locking, Writing, Unlocking
    <3>2. Silent'
      BY <1>1, <1>8 DEF Silent
    <3>3. Quiet'
      BY <1>8, <2>1, <2>2 DEF Quiet, Resting
    <3> QED BY <3>1, <3>2, <3>3 DEF Talk
  <2> QED BY <1>1, <1>3, <1>5, <1>8, <2>1, <2>3, <2>4, <2>5, MiddleStep DEF Pc
<1> QED BY <1>6, <1>7, <1>8, <1>1 DEF LockReply, Relocked, Ends

\* The user types, and handle_write sends the line or gives it up.
LEMMA TypingStep ==
    ASSUME IInv, TypeLine \/ TypeEtirw \/ GiveUp
    PROVE  IInv'
<1> USE NumberFacts
<1>1. /\ pc \in {"typing", "send"} /\ me \in Local /\ TypeOK /\ Channels /\ Channels'
      /\ UNCHANGED <<conn, Server, cur, opened, granted, since, answered>>
      /\ cur \in 0 .. MaxConns /\ opened \in 0 .. MaxConns /\ granted \in 0 .. MaxConns
      /\ since \in Seq(Line) /\ Resting
  BY MeFacts DEF TypeLine, TypeEtirw, GiveUp, IInv, TypeOK, Channels, Resting
<1>2. /\ pc' \in {"send", "unlock"} /\ me' \in Local /\ ~me'.eintr /\ me'.sigint = me.sigint
      /\ me'.count = me.count /\ me.line <= me'.line /\ (pc' = "send" => me'.count < me'.line)
  <2>0. /\ me.line \in 0 .. MaxLines /\ me.count \in 0 .. MaxLines
        /\ me.count <= me.line /\ (pc = "send" => me.count < me.line)
    BY <1>1, MeFacts DEF IInv, Counters
  <2>1. CASE TypeLine
    <3> DEFINE m == [me EXCEPT !.line = me.line + 1, !.retry = 0]
    <3>1. m \in Local /\ m.line = me.line + 1 /\ m.count = me.count /\ m.sigint = me.sigint
      <4>1. me.line + 1 \in 0 .. MaxLines /\ 0 \in 0 .. MaxRetries
        BY <2>0, <2>1 DEF TypeLine
      <4> QED BY <1>1, <4>1 DEF Local
    <3>2. Goto("send", m)
      BY <2>1 DEF TypeLine
    <3> HIDE DEF m
    <3> QED BY <2>0, <3>1, <3>2, GotoFacts
  <2>2. CASE TypeEtirw
    BY <1>1, <2>0, <2>2, GotoFacts DEF TypeEtirw
  <2>3. CASE GiveUp
    <3> DEFINE m == [me EXCEPT !.status = FALSE]
    <3>1. m \in Local /\ m.line = me.line /\ m.count = me.count /\ m.sigint = me.sigint
      BY <1>1 DEF Local
    <3>2. Goto("unlock", m)
      BY <2>3 DEF GiveUp
    <3> HIDE DEF m
    <3> QED BY <2>0, <3>1, <3>2, GotoFacts
  <2> QED BY <2>1, <2>2, <2>3
<1>3. Current' /\ Counters'
  <2>1. Counters'
    <3>1. me.line \in Int /\ me.count \in Int /\ me.count <= me.line /\ me'.line \in Int
      BY <1>1, <1>2, MeFacts DEF IInv, Counters, Local
    <3>2. me'.count <= me'.line
      BY <1>2, <3>1
    <3> QED BY <1>2, <3>2 DEF Counters
  <2>2. Current'
    BY <1>1, <1>2 DEF IInv, Current
  <2> QED BY <2>1, <2>2
<1>4. Talk'
  <2>1. Locking' /\ Writing' /\ Unlocking' /\ Silent'
    BY <1>2 DEF Locking, Writing, Unlocking, Silent
  <2>2. Quiet'
    BY <1>1 DEF IInv, Talk, Quiet, Server
  <2> QED BY <2>1, <2>2 DEF Talk
<1>5. LockedWhileWriting'
  BY <1>1 DEF IInv, LockedWhileWriting, Server
<1>6. \A k \in Conn : \A p : Pending(k, p)' => Pending(k, p)
  BY <1>1 DEF Pending
<1> QED BY <1>1, <1>2, <1>3, <1>4, <1>5, <1>6, MiddleStep DEF Pc

\* A line is sent.
LEMMA SendStep ==
    ASSUME IInv, SendLine
    PROVE  IInv'
<1> USE NumberFacts
<1>1. /\ pc = "send" /\ Again /\ cur # 0 /\ cur \in Conn
      /\ me \in Local /\ TypeOK /\ Channels /\ Send(Write(me.line)) /\ Goto("await", me)
      /\ UNCHANGED <<Server, cur, opened, granted, since, answered>>
      /\ cur \in 0 .. MaxConns /\ opened \in 0 .. MaxConns /\ granted \in 0 .. MaxConns
      /\ since \in Seq(Line)
  BY MeFacts, CurFacts DEF SendLine, IInv, TypeOK
<1>2. /\ pc' = "await" /\ me' \in Local /\ ~me'.eintr /\ me'.sigint = me.sigint
      /\ me'.count = me.count /\ me'.line = me.line /\ me'.retry = me.retry
  BY <1>1, GotoFacts
<1>3. me.line \in Line /\ Write(me.line) \in Asked
  <2>1. me.line \in Line
    BY <1>1, MeFacts DEF IInv, Counters, Line
  <2> QED BY <2>1 DEF Asked
<1>4. /\ Channels'
      /\ conn'[cur].up = conn[cur].up /\ conn'[cur].replies = conn[cur].replies
      /\ conn'[cur].requests = IF conn[cur].up THEN Append(conn[cur].requests, Write(me.line))
                                               ELSE conn[cur].requests
      /\ \A k \in Conn : \A p : Pending(k, p)' => Pending(k, p) \/ p = Write(me.line)
  BY <1>1, <1>3, SendFacts
<1>5. /\ conn[cur].replies = <<>>
      /\ conn[cur].up => /\ granted = cur /\ conn[cur].requests = <<>>
                         /\ ~stray => session.words = since
  BY <1>1 DEF IInv, Talk, Quiet, Resting
<1>6. Current' /\ Counters'
  BY <1>1, <1>2 DEF IInv, Current, Counters, Again
<1>7. Writing'
  <2>1. conn[cur].up => conn'[cur].requests = <<Write(me.line)>>
    <3>1. Append(<<>>, Write(me.line)) = <<Write(me.line)>>
      OBVIOUS
    <3> QED BY <1>4, <1>5, <3>1
  <2>2. Exchange(Write(me.line))'
    BY <1>1, <1>2, <1>4, <1>5, <2>1, ChannelFacts DEF Exchange
  <2>3. ~Reads("SUCCESS")'
    BY <1>1, <1>4, <1>5 DEF Reads
  <2> QED BY <1>1, <1>2, <1>4, <1>5, <2>2, <2>3 DEF Writing, Server
<1>8. Locking' /\ Unlocking' /\ Quiet' /\ Silent'
  BY <1>2 DEF Locking, Unlocking, Quiet, Silent, Resting
<1>9. LockedWhileWriting'
  BY <1>1, <1>4 DEF IInv, LockedWhileWriting, Server
<1>10. \A k \in Conn : \A q : Pending(k, q)' =>
            Pending(k, q) \/ q \notin {Ask("UNLOCK"), Ask("CANCEL")}
  BY <1>4 DEF Ask, Write
<1>11. Talk'
  BY <1>7, <1>8 DEF Talk
<1> QED BY <1>1, <1>2, <1>4, <1>6, <1>9, <1>10, <1>11, MiddleStep DEF Pc

\* A connection has failed, and another is opened, or not.
LEMMA ReconnectStep ==
    ASSUME IInv, Reconnect
    PROVE  IInv'
<1> USE NumberFacts
<1> DEFINE m == [me EXCEPT !.retry = me.retry + 1]
<1>1. /\ pc \in {"send", "await"} /\ me.retry < MaxRetries
      /\ me \in Local /\ TypeOK /\ Channels
      /\ UNCHANGED <<Server, granted, since, answered>>
      /\ cur \in Int /\ opened \in Int /\ granted \in Int /\ granted <= opened
      /\ opened \in 0 .. MaxConns /\ granted \in 0 .. MaxConns /\ since \in Seq(Line)
      /\ me.count < me.line
  BY MeFacts, CurFacts DEF Reconnect, Again, IInv, Current, Counters, TypeOK
<1>2. m \in Local /\ m.line = me.line /\ m.count = me.count /\ m.sigint = me.sigint
  <2>1. me.retry + 1 \in 0 .. MaxRetries
    BY <1>1, MeFacts
  <2> QED BY <1>1, <2>1 DEF Local
<1>3. \/ Opens /\ Goto("relock", m)
      \/ cur' = 0 /\ Goto("send", m) /\ UNCHANGED <<conn, opened>>
  BY DEF Reconnect
<1> HIDE DEF m
<1>4. /\ pc' \in {"relock", "send"} /\ me' \in Local /\ ~me'.eintr
      /\ me'.line = me.line /\ me'.count = me.count
  BY <1>2, <1>3, GotoFacts
<1>5. Counters'
  BY <1>1, <1>4, MeFacts DEF Counters
<1>6. CASE Opens /\ Goto("relock", m)
  <2>1. pc' = "relock"
    BY <1>6 DEF Goto
  <2>2. /\ Channels' /\ opened' = opened + 1 /\ cur' = opened + 1 /\ opened + 1 \in Conn
        /\ conn'[cur'].requests = <<Ask("LOCK")>> /\ conn'[cur'].replies = <<>>
        /\ \A k \in Conn : \A p : Pending(k, p)' => Pending(k, p) \/ p = Ask("LOCK")
    BY <1>1, <1>6, OpensFacts
  <2>3. Current'
    BY <1>1, <2>1, <2>2 DEF Current, Conn
  <2>4. Talk'
    BY <1>1, <2>1, <2>2 DEF Talk, Locking, Exchange, Writing, Unlocking, Quiet, Silent, Resting, Reads
  <2>5. LockedWhileWriting'
    BY <2>1 DEF LockedWhileWriting
  <2>6. \A k \in Conn : \A q : Pending(k, q)' =>
            Pending(k, q) \/ q \notin {Ask("UNLOCK"), Ask("CANCEL")}
    BY <2>2 DEF Ask
  <2> QED BY <1>1, <1>4, <1>5, <2>1, <2>2, <2>3, <2>4, <2>5, <2>6, MiddleStep DEF Conn, Pc
<1>7. CASE cur' = 0 /\ Goto("send", m) /\ UNCHANGED <<conn, opened>>
  <2>1. pc' = "send"
    BY <1>7 DEF Goto
  <2>2. Current' /\ Channels'
    BY <1>1, <1>7, <2>1 DEF Current, Channels
  <2>3. Talk' /\ LockedWhileWriting'
    BY <1>7, <2>1 DEF Talk, Locking, Writing, Unlocking, Quiet, Silent, LockedWhileWriting
  <2>4. \A k \in Conn : \A q : Pending(k, q)' => Pending(k, q)
    BY <1>7 DEF Pending
  <2> QED BY <1>1, <1>4, <1>5, <1>7, <2>1, <2>2, <2>3, <2>4, MiddleStep DEF Pc
<1> QED BY <1>3, <1>6, <1>7

\* The reply to a line is read.
LEMMA LineReplyStep ==
    ASSUME IInv, LineReply
    PROVE  IInv'
<1> USE NumberFacts
<1>1. /\ pc = "await" /\ me \in Local /\ TypeOK /\ Channels /\ Took
      /\ UNCHANGED <<Server, cur, opened, granted, answered>>
      /\ cur \in Conn /\ cur \in 0 .. MaxConns /\ opened \in 0 .. MaxConns
      /\ granted \in 0 .. MaxConns /\ since \in Seq(Line)
      /\ me.line \in 0 .. MaxLines /\ me.count \in 0 .. MaxLines /\ me.count < me.line
  BY MeFacts, CurFacts DEF LineReply, IInv, Current, Counters, TypeOK
<1>2. PICK r \in Reply : /\ Recv(r)
                         /\ r = "SUCCESS" => /\ Goto("typing", [me EXCEPT !.count = me.count + 1])
                                             /\ since' = Append(since, me.line)
                         /\ r = "refused" => /\ since' = since
                                             /\ Goto(IF me.retry = 0 THEN "unlock" ELSE "typing",
                                                     [me EXCEPT !.status = FALSE])
  BY DEF LineReply, Reply
<1>3. /\ pc' \in {"typing", "unlock"} /\ me' \in Local /\ ~me'.eintr
      /\ me'.line = me.line /\ me'.count <= me.line
  <2>1. CASE r = "SUCCESS"
    <3> DEFINE m == [me EXCEPT !.count = me.count + 1]
    <3>1. m \in Local /\ m.line = me.line /\ m.count = me.count + 1
      <4>1. me.count + 1 \in 0 .. MaxLines
        BY <1>1
      <4> QED BY <1>1, <4>1 DEF Local
    <3>2. Goto("typing", m)
      BY <1>2, <2>1
    <3> HIDE DEF m
    <3> QED BY <1>1, <3>1, <3>2, GotoFacts
  <2>2. CASE r = "refused"
    <3> DEFINE m == [me EXCEPT !.status = FALSE]
    <3>1. m \in Local /\ m.line = me.line /\ m.count = me.count
      BY <1>1 DEF Local
    <3>2. Goto("unlock", m) \/ Goto("typing", m)
      BY <1>2, <2>2
    <3> HIDE DEF m
    <3> QED BY <1>1, <3>1, <3>2, GotoFacts
  <2> QED BY <2>1, <2>2 DEF Reply
<1>4. Exchange(Write(me.line))
  BY <1>1 DEF IInv, Talk, Writing
<1>5. /\ Reads(r) /\ conn[cur].replies # <<>> /\ Tail(conn[cur].replies) = <<>>
      /\ conn[cur].up => conn[cur].requests = <<>>
      /\ Reads("SUCCESS") <=> r = "SUCCESS"
  BY <1>1, <1>2, <1>4, RecvFacts DEF Reply, Reads
<1>6. /\ Channels' /\ conn'[cur].up = conn[cur].up /\ conn'[cur].replies = <<>>
      /\ conn'[cur].requests = conn[cur].requests
      /\ \A k \in Conn : \A p : Pending(k, p)' => Pending(k, p)
  BY <1>1, <1>5, TookFacts
<1>7. since' \in Seq(Line)
  <2>1. me.line \in Line
    BY <1>1 DEF Line
  <2>2. Append(since, me.line) \in Seq(Line)
    BY <1>1, <2>1
  <2> QED BY <1>1, <1>2, <2>2 DEF Reply
<1>8. conn[cur].up => granted = cur /\ (~stray => session.words = since')
  BY <1>1, <1>2, <1>5 DEF IInv, Talk, Writing, Reply
<1>9. Current' /\ Counters'
  BY <1>1, <1>3 DEF IInv, Current, Counters
<1>10. Talk'
  BY <1>1, <1>3, <1>5, <1>6, <1>8 DEF Talk, Locking, Writing, Unlocking, Quiet, Silent, Server
<1>11. LockedWhileWriting'
  BY <1>1, <1>3, <1>6 DEF IInv, LockedWhileWriting, Server
<1> QED BY <1>1, <1>3, <1>6, <1>7, <1>9, <1>10, <1>11, MiddleStep DEF Pc

\* There is no connection to send UNLOCK or CANCEL over.
LEMMA EndStep ==
    ASSUME IInv, PendingUnlock \/ Unlock, cur = 0
    PROVE  IInv'
<1> USE NumberFacts
<1>1. /\ pc \in {"typing", "unlock"} /\ me \in Local /\ TypeOK /\ Channels /\ Channels'
      /\ UNCHANGED <<Server, conn, opened, granted, since, answered>> /\ cur' = 0
      /\ opened \in 0 .. MaxConns /\ granted \in 0 .. MaxConns /\ since \in Seq(Line)
  BY MeFacts DEF PendingUnlock, Unlock, Ends, IInv, TypeOK, Channels
<1>2. Final \in Local /\ Final.line = me.line /\ Final.count = me.count
  BY <1>1 DEF Final, Local
<1>3. pc' = "done" /\ me' \in Local /\ ~me'.eintr /\ me'.line = me.line /\ me'.count = me.count
  <2>1. Goto("done", me) \/ Goto("done", Final)
    BY DEF PendingUnlock, Unlock, Ends
  <2> QED BY <1>1, <1>2, <2>1, GotoFacts
<1>4. Current' /\ Counters'
  BY <1>1, <1>3 DEF IInv, Current, Counters
<1>5. Talk' /\ LockedWhileWriting'
  BY <1>3 DEF Talk, Locking, Writing, Unlocking, Quiet, Silent, Resting, LockedWhileWriting
<1>6. \A k \in Conn : \A q : Pending(k, q)' => Pending(k, q)
  BY <1>1 DEF Pending
<1> QED BY <1>1, <1>3, <1>4, <1>5, <1>6, MiddleStep DEF Pc

\* UNLOCK is sent; what it will commit is what was acknowledged.
LEMMA UnlockStep ==
    ASSUME IInv, Unlock, cur # 0
    PROVE  IInv'
<1> USE NumberFacts
<1>1. /\ pc = "unlock" /\ me \in Local /\ TypeOK /\ Channels /\ Send(Ask("UNLOCK"))
      /\ UNCHANGED <<Server, cur, opened, granted, since, answered>>
      /\ cur \in Conn /\ cur = opened /\ Goto("bye", me)
      /\ cur \in 0 .. MaxConns /\ opened \in 0 .. MaxConns /\ granted \in 0 .. MaxConns
      /\ since \in Seq(Line) /\ answered \in Reply \cup {"none"}
  BY MeFacts, CurFacts DEF Unlock, Ends, IInv, Current, TypeOK
<1>2. /\ pc' = "bye" /\ me' \in Local /\ ~me'.eintr /\ me'.line = me.line
      /\ me'.count = me.count
  BY <1>1, GotoFacts
<1>3. /\ Channels'
      /\ conn'[cur].up = conn[cur].up /\ conn'[cur].replies = conn[cur].replies
      /\ conn'[cur].requests = IF conn[cur].up THEN Append(conn[cur].requests, Ask("UNLOCK"))
                                               ELSE conn[cur].requests
      /\ \A k \in Conn : k # cur => conn'[k] = conn[k]
      /\ \A k \in Conn : \A p : Pending(k, p)' => Pending(k, p) \/ (k = cur /\ p = Ask("UNLOCK"))
  BY <1>1, SendFacts DEF Asked
<1>4. /\ conn[cur].replies = <<>>
      /\ conn[cur].up => /\ granted = cur /\ conn[cur].requests = <<>>
                         /\ ~stray => session.words = since
  BY <1>1 DEF IInv, Talk, Quiet, Resting
<1>5. conn[cur].up => conn'[cur].requests = <<Ask("UNLOCK")>>
  <2>1. Append(<<>>, Ask("UNLOCK")) = <<Ask("UNLOCK")>>
    OBVIOUS
  <2> QED BY <1>3, <1>4, <2>1
<1>6. /\ file = <<>> /\ left = <<>> /\ answered = "none"
      /\ \A k \in Conn : ~Pending(k, Ask("UNLOCK")) /\ ~Pending(k, Ask("CANCEL"))
  BY <1>1 DEF IInv, NotYet, Answered, UnlockOnce, CancelLast
<1>7. TypeOK'
  BY <1>1, <1>2, <1>3, ClientTyped DEF Pc
<1>8. Current' /\ Counters'
  BY <1>1, <1>2 DEF IInv, Current, Counters
<1>9. UnlockOnce'
  <2> SUFFICES ASSUME NEW k \in Conn, Pending(k, Ask("UNLOCK"))'
               PROVE  /\ pc' \in {"bye", "done"} /\ k = opened'
                      /\ conn'[k].requests = <<Ask("UNLOCK")>>
                      /\ file' = <<>> /\ left' = <<>> /\ answered' = "none"
                      /\ ~stray' => session'.words = since'
    BY DEF UnlockOnce, Ask
  <2>1. k = cur
    BY <1>3, <1>6
  <2>2. conn[cur].up
    <3>1. ~conn[cur].up => conn'[cur].requests = conn[cur].requests
      BY <1>3
    <3> QED BY <1>6, <2>1, <3>1 DEF Pending
  <2> QED BY <1>1, <1>2, <1>4, <1>5, <1>6, <2>1, <2>2 DEF Server
<1>10. CancelLast'
  <2>1. Ask("CANCEL") # Ask("UNLOCK")
    BY DEF Ask
  <2>2. \A k \in Conn : ~Pending(k, Ask("CANCEL"))'
    BY <1>3, <1>6, <2>1
  <2> QED BY <2>2 DEF CancelLast, Ask
<1>11. Talk'
  <2>1. Exchange(Ask("UNLOCK"))'
    <3>1. CASE conn[cur].up
      BY <1>1, <1>3, <1>4, <1>5, <3>1 DEF Exchange, Ask
    <3>2. CASE ~conn[cur].up
      BY <1>1, <1>3, <1>4, <3>2 DEF Exchange
    <3> QED BY <3>1, <3>2
  <2>2. ~Reads("SUCCESS")' /\ ~Reads("refused")'
    BY <1>1, <1>3, <1>4 DEF Reads
  <2>3. Unlocking'
    BY <2>1, <2>2 DEF Unlocking, Ask
  <2>4. Locking' /\ Writing' /\ Quiet' /\ Silent'
    BY <1>2 DEF Locking, Writing, Quiet, Silent, Resting
  <2> QED BY <2>3, <2>4 DEF Talk
<1>12. NotYet' /\ Answered' /\ LockedWhileWriting' /\ CommitIsSinceLock' /\ Kept'
  BY <1>1, <1>2, <1>6 DEF NotYet, Answered, LockedWhileWriting, CommitIsSinceLock, Server,
                          IInv, Kept, Seats, Leftover
<1> QED BY <1>3, <1>7, <1>8, <1>9, <1>10, <1>11, <1>12 DEF IInv

\* CANCEL is sent, over whatever is under way.
LEMMA CancelStep ==
    ASSUME IInv, PendingUnlock, cur # 0
    PROVE  IInv'
<1> USE NumberFacts
<1>1. /\ pc = "typing" /\ me \in Local /\ TypeOK /\ Channels /\ Send(Ask("CANCEL"))
      /\ UNCHANGED <<Server, cur, opened, granted, since, answered>>
      /\ cur \in Conn /\ cur = opened /\ Goto("cancel", me)
      /\ cur \in 0 .. MaxConns /\ opened \in 0 .. MaxConns /\ granted \in 0 .. MaxConns
      /\ since \in Seq(Line) /\ answered \in Reply \cup {"none"}
  BY MeFacts, CurFacts DEF PendingUnlock, Ends, IInv, Current, TypeOK
<1>2. /\ pc' = "cancel" /\ me' \in Local /\ ~me'.eintr /\ me'.line = me.line
      /\ me'.count = me.count
  BY <1>1, GotoFacts
<1>3. /\ Channels'
      /\ \A k \in Conn : \A p : Pending(k, p)' => Pending(k, p) \/ (k = cur /\ p = Ask("CANCEL"))
  BY <1>1, SendFacts DEF Asked
<1>4. /\ file = <<>> /\ left = <<>> /\ answered = "none"
      /\ \A k \in Conn : ~Pending(k, Ask("UNLOCK"))
  BY <1>1 DEF IInv, NotYet, Answered, UnlockOnce
<1>5. TypeOK'
  BY <1>1, <1>2, <1>3, ClientTyped DEF Pc
<1>6. Current' /\ Counters'
  BY <1>1, <1>2 DEF IInv, Current, Counters
<1>7. UnlockOnce'
  <2>1. Ask("CANCEL") # Ask("UNLOCK")
    BY DEF Ask
  <2>2. \A k \in Conn : ~Pending(k, Ask("UNLOCK"))'
    BY <1>3, <1>4, <2>1
  <2> QED BY <2>2 DEF UnlockOnce, Ask
<1>8. CancelLast'
  BY <1>1, <1>2, <1>3 DEF IInv, CancelLast, Ask
<1>9. Talk'
  BY <1>2 DEF Talk, Locking, Writing, Unlocking, Quiet, Silent, Resting
<1>10. NotYet' /\ Answered' /\ LockedWhileWriting' /\ CommitIsSinceLock' /\ Kept'
  BY <1>1, <1>2, <1>4 DEF NotYet, Answered, LockedWhileWriting, CommitIsSinceLock, Server,
                          IInv, Kept, Seats, Leftover
<1> QED BY <1>3, <1>5, <1>6, <1>7, <1>8, <1>9, <1>10 DEF IInv

\* The last reply is read, or cannot be.
LEMMA ByeStep ==
    ASSUME IInv, UnlockReply \/ CancelReply
    PROVE  IInv'
<1> USE NumberFacts
<1>1. /\ pc \in {"bye", "cancel"} /\ me \in Local /\ TypeOK /\ Channels
      /\ UNCHANGED <<Server, opened, granted, since>> /\ cur' = 0
      /\ cur \in Conn /\ opened \in 0 .. MaxConns /\ granted \in 0 .. MaxConns
      /\ since \in Seq(Line) /\ answered = "none"
  BY MeFacts, CurFacts DEF UnlockReply, CancelReply, Ends, IInv, Current, Answered, TypeOK
<1>2. Final \in Local /\ Final.line = me.line /\ Final.count = me.count
  BY <1>1 DEF Final, Local
<1>3. pc' = "done" /\ me' \in Local /\ ~me'.eintr /\ me'.line = me.line /\ me'.count = me.count
  <2>1. Goto("done", me) \/ Goto("done", Final)
    BY DEF UnlockReply, CancelReply, Ends
  <2> QED BY <1>1, <1>2, <2>1, GotoFacts
<1>4. /\ Channels'
      /\ \A k \in Conn : conn'[k].requests = conn[k].requests
      /\ \A k \in Conn : \A p : Pending(k, p)' => Pending(k, p)
  <2>1. CASE UNCHANGED conn
    BY <1>1, <2>1 DEF Channels, Pending
  <2>2. CASE conn[cur].replies # <<>> /\ Took
    BY <1>1, <2>2, TookFacts
  <2> QED BY <2>1, <2>2 DEF UnlockReply, CancelReply, Recv
<1>5. answered' = "none" \/ (pc = "bye" /\ answered' \in Reply /\ Recv(answered'))
  BY <1>1 DEF UnlockReply, CancelReply
<1>6. /\ answered' \in Reply \cup {"none"}
      /\ answered' # "none" => conn[cur].requests = <<>> /\ cur = opened
      /\ answered' = "SUCCESS" /\ ~stray => (file = since \/ dropped) /\ lock # Me
      /\ answered' = "refused" /\ ~stray => file = <<>> /\ left = <<>>
  <2>1. CASE answered' = "none"
    BY <2>1
  <2>2. CASE pc = "bye" /\ answered' \in Reply /\ Recv(answered')
    <3>1. Exchange(Ask("UNLOCK"))
      BY <2>2 DEF IInv, Talk, Unlocking
    <3>2. Reads(answered')
      BY <1>1, <2>2, <3>1, RecvFacts
    <3>3. conn[cur].requests = <<>>
      BY <2>2, <3>1 DEF Exchange, Recv
    <3>4. cur = opened
      BY <1>1 DEF IInv, Current, Conn
    <3>5. /\ Reads("SUCCESS") /\ ~stray => (file = since \/ dropped) /\ lock # Me
          /\ Reads("refused") /\ ~stray => file = <<>> /\ left = <<>>
      BY <2>2 DEF IInv, Talk, Unlocking
    <3> QED BY <2>2, <3>2, <3>3, <3>4, <3>5
  <2> QED BY <1>5, <2>1, <2>2
<1>7. TypeOK'
  BY <1>1, <1>3, <1>4, <1>6, ClientTyped DEF Pc
<1>8. Current' /\ Counters'
  BY <1>1, <1>3 DEF IInv, Current, Counters
<1>9. UnlockOnce' /\ CancelLast'
  <2>1. CancelLast'
    BY <1>1, <1>3, <1>4 DEF IInv, CancelLast, Ask
  <2>2. ASSUME NEW k \in Conn, Pending(k, Ask("UNLOCK"))'
        PROVE  answered' = "none"
    <3>1. Pending(k, Ask("UNLOCK")) /\ k = opened /\ conn[k].requests # <<>>
      BY <1>4, <2>2 DEF IInv, UnlockOnce, Pending
    <3> QED BY <1>6, <3>1
  <2>3. UnlockOnce'
    BY <1>1, <1>3, <1>4, <2>2 DEF IInv, UnlockOnce, Server, Ask
  <2> QED BY <2>1, <2>3
<1>10. Talk'
  BY <1>3 DEF Talk, Locking, Writing, Unlocking, Quiet, Silent, Resting
<1>11. NotYet' /\ Answered' /\ LockedWhileWriting'
  BY <1>3 DEF NotYet, Answered, LockedWhileWriting
<1>12. CommitIsSinceLock' /\ Kept'
  BY <1>1, <1>6 DEF IInv, CommitIsSinceLock, Server, Kept, Seats, Leftover
<1> QED BY <1>4, <1>7, <1>8, <1>9, <1>10, <1>11, <1>12 DEF IInv

\* An interrupt.
LEMMA SigintStep ==
    ASSUME IInv, Sigint
    PROVE  IInv'
<1> DEFINE e == pc \in {"lock", "await", "relock", "bye", "cancel"}
           m == [me EXCEPT !.sigint = TRUE, !.eintr = e]
<1>1. /\ me \in Local /\ TypeOK /\ Channels /\ Channels' /\ me' = m
      /\ UNCHANGED <<pc, cur, opened, granted, since, answered, conn, Server>>
  BY MeFacts DEF Sigint, IInv, Channels
<1>2. /\ m \in Local /\ m.sigint /\ m.line = me.line /\ m.count = me.count
      /\ m.retry = me.retry
  <2>1. e \in BOOLEAN
    OBVIOUS
  <2> HIDE DEF e
  <2> QED BY <1>1, <2>1 DEF Local
<1> HIDE DEF m
<1>3. TypeOK'
  BY <1>1, <1>2, ClientTyped DEF TypeOK, Pc
<1>4. Current' /\ Counters'
  BY <1>1, <1>2 DEF IInv, Current, Counters
<1>5. UnlockOnce' /\ CancelLast'
  BY <1>1 DEF IInv, UnlockOnce, CancelLast, Pending, Server, Ask
<1>6. Locking' /\ Writing' /\ Unlocking'
  BY <1>1, <1>2 DEF IInv, Talk, Locking, Writing, Unlocking, Exchange, Reads, Server, Ask, Write
<1>7. Quiet' /\ Silent'
  BY <1>1, <1>2 DEF IInv, Talk, Quiet, Silent, Resting, Server
<1>8. NotYet' /\ Answered' /\ LockedWhileWriting' /\ CommitIsSinceLock' /\ Kept'
  BY <1>1 DEF IInv, NotYet, Answered, LockedWhileWriting, CommitIsSinceLock, Server,
              Kept, Seats, Leftover
<1> QED BY <1>1, <1>3, <1>4, <1>5, <1>6, <1>7, <1>8 DEF IInv, Talk

-----------------------------------------------------------------------------
\* Connections are lost: what is under way arrives, or not, and the server is as it
\* was, or has forgotten its locks and sessions.
LEMMA LostStep ==
    ASSUME IInv, UNCHANGED <<Client, file, Lost>>, Channels', TypeOK',
           \A k \in Conn : \/ conn'[k] = conn[k]
                           \/ /\ ~conn'[k].up
                              /\ conn'[k].requests \in {conn[k].requests, <<>>}
                              /\ conn'[k].replies \in {conn[k].replies, <<>>},
           cur # 0 => ~conn'[cur].up,
           \/ UNCHANGED <<lock, session, left>>
           \/ /\ lock' = NoUser /\ session' = NoSession /\ left' = <<>>
              /\ \A k \in Conn : conn'[k].requests = <<>>
    PROVE  IInv'
<1> USE NumberFacts
<1>1. /\ UNCHANGED <<pc, me, cur, opened, granted, since, answered>> /\ (cur # 0 => cur \in Conn)
      /\ UNCHANGED <<file, stray, unseated, dropped>> /\ left' \in {left, <<>>}
  BY CurFacts DEF Client, IInv, Lost
<1>2. \A k \in Conn : \A p : Pending(k, p)' => Pending(k, p) /\ conn'[k].requests = conn[k].requests
                                               /\ UNCHANGED <<session, left>>
  <2> SUFFICES ASSUME NEW k \in Conn, NEW p, Pending(k, p)'
               PROVE  /\ Pending(k, p) /\ conn'[k].requests = conn[k].requests
                      /\ UNCHANGED <<session, left>>
    OBVIOUS
  <2>1. conn'[k].requests # <<>>
    BY DEF Pending
  <2> QED BY <2>1 DEF Pending
<1>3. cur # 0 => \A q : Exchange(q) => \/ /\ conn'[cur].requests = <<q>>
                                          /\ conn'[cur].replies = <<>>
                                       \/ /\ conn'[cur].requests = <<>>
                                          /\ \E r \in Reply : conn'[cur].replies = <<r>>
                                       \/ ~conn'[cur].up /\ conn'[cur].replies = <<>>
  <2> SUFFICES ASSUME cur # 0, NEW q, Exchange(q)
               PROVE  \/ /\ conn'[cur].requests = <<q>>
                         /\ conn'[cur].replies = <<>>
                      \/ /\ conn'[cur].requests = <<>>
                         /\ \E r \in Reply : conn'[cur].replies = <<r>>
                      \/ ~conn'[cur].up /\ conn'[cur].replies = <<>>
    OBVIOUS
  <2>1. CASE conn'[cur] = conn[cur]
    BY <2>1 DEF Exchange
  <2>2. CASE conn'[cur].replies = <<>>
    BY <2>2
  <2>3. CASE /\ conn'[cur].requests \in {conn[cur].requests, <<>>}
             /\ conn'[cur].replies = conn[cur].replies /\ conn[cur].replies # <<>>
    BY <2>3 DEF Exchange
  <2> QED BY <1>1, <2>1, <2>2, <2>3
<1>4. Current' /\ Counters' /\ NotYet' /\ Answered'
  BY <1>1 DEF IInv, Current, Counters, NotYet, Answered
<1>12. Kept'
  BY <1>1 DEF IInv, Kept, Seats, Leftover, NoSession
<1>5. UnlockOnce' /\ CancelLast'
  BY <1>1, <1>2 DEF IInv, UnlockOnce, CancelLast, Ask
<1>6. Locking'
  BY <1>1, <1>3 DEF IInv, Current, Talk, Locking, Exchange, Ask
<1>7. Writing'
  BY <1>1, <1>3 DEF IInv, Current, Talk, Writing, Exchange, Write
<1>8. Unlocking'
  <2> SUFFICES ASSUME pc = "bye"
               PROVE  /\ Exchange(Ask("UNLOCK"))'
                      /\ Reads("SUCCESS")' /\ ~stray => (file = since \/ dropped) /\ lock' # Me
                      /\ Reads("refused")' /\ ~stray => file = <<>> /\ left' = <<>>
    BY <1>1 DEF Unlocking, Ask
  <2>1. cur # 0
    BY DEF IInv, Current
  <2>2. Exchange(Ask("UNLOCK"))'
    BY <1>1, <1>3, <2>1 DEF IInv, Talk, Unlocking, Exchange, Ask
  <2>3. (Reads("SUCCESS")' => Reads("SUCCESS")) /\ (Reads("refused")' => Reads("refused"))
    <3>1. conn'[cur].replies = conn[cur].replies \/ conn'[cur].replies = <<>>
      BY <1>1, <2>1
    <3> QED BY <1>1, <3>1 DEF Reads
  <2>4. lock' \in {lock, NoUser}
    OBVIOUS
  <2> QED BY <1>1, <2>2, <2>3, <2>4 DEF IInv, Talk, Unlocking
<1>9. Quiet' /\ Silent'
  BY <1>1 DEF IInv, Talk, Quiet, Silent, Resting
<1>10. LockedWhileWriting'
  BY <1>1 DEF LockedWhileWriting
<1>11. CommitIsSinceLock'
  <2>1. lock' \in {lock, NoUser}
    OBVIOUS
  <2> QED BY <1>1, <2>1 DEF IInv, CommitIsSinceLock
<1> QED BY <1>12, <1>4, <1>5, <1>6, <1>7, <1>8, <1>9, <1>10, <1>11 DEF IInv, Talk

LEMMA LoseStep ==
    ASSUME IInv, Lose
    PROVE  IInv'
<1>1. cur # 0 /\ cur \in Conn /\ Channels /\ TypeOK
  BY CurFacts DEF Lose, IInv
<1>2. PICK q \in {conn[cur].requests, <<>>}, r \in {conn[cur].replies, <<>>} :
          conn' = [conn EXCEPT ![cur] = [up |-> FALSE, requests |-> q, replies |-> r]]
  BY DEF Lose
<1> DEFINE C == [up |-> FALSE, requests |-> q, replies |-> r]
<1>3. C \in Channel /\ C.up = FALSE /\ C.requests = q /\ C.replies = r
  <2>1. <<>> \in Seq(Asked) /\ <<>> \in Seq(Reply)
    OBVIOUS
  <2>2. conn[cur].requests \in Seq(Asked) /\ conn[cur].replies \in Seq(Reply)
    BY <1>1, ChannelFacts
  <2>3. q \in Seq(Asked) /\ r \in Seq(Reply)
    BY <2>1, <2>2
  <2> QED BY <2>3 DEF Channel
<1> HIDE DEF C
<1>4. conn' = [conn EXCEPT ![cur] = C]
  BY <1>2 DEF C
<1>5. Channels' /\ conn'[cur] = C /\ \A k \in Conn : k # cur => conn'[k] = conn[k]
  BY <1>1, <1>3, <1>4 DEF Channels
<1>6. UNCHANGED <<Client, Server>>
  BY DEF Lose
<1>7. TypeOK'
  BY <1>1, <1>5, <1>6, MeFacts, ClientTyped DEF TypeOK, Client
<1> QED BY <1>1, <1>3, <1>5, <1>6, <1>7, LostStep DEF Server, Lost

LEMMA RestartStep ==
    ASSUME IInv, Restart
    PROVE  IInv'
<1>1. Channels /\ TypeOK /\ (cur # 0 => cur \in Conn)
  BY CurFacts DEF IInv
<1>2. \A k \in Conn : /\ ~conn'[k].up /\ conn'[k].requests = <<>>
                      /\ conn'[k].replies \in {conn[k].replies, <<>>}
  BY DEF Restart
<1>3. Channels'
  <2>1. PICK keep \in BOOLEAN :
            conn' = [k \in Conn |-> [up |-> FALSE, requests |-> <<>>,
                                     replies |-> IF keep THEN conn[k].replies ELSE <<>>]]
    BY DEF Restart
  <2>2. \A k \in Conn : [up |-> FALSE, requests |-> <<>>,
                         replies |-> IF keep THEN conn[k].replies ELSE <<>>] \in Channel
    BY <1>1, ChannelFacts DEF Channel
  <2> QED BY <2>1, <2>2 DEF Channels
<1>4. /\ UNCHANGED <<Client, file, Lost>> /\ lock' = NoUser /\ session' = NoSession
      /\ left' = <<>>
      /\ restarts' = restarts + 1 /\ restarts < MaxRestarts
  BY DEF Restart
<1>5. TypeOK'
  <2>1. conn' \in [Conn -> [up : BOOLEAN, requests : Seq(Request), replies : Seq(Reply)]]
    BY <1>3, ChannelTyped DEF Channels
  <2>2. restarts' \in 0 .. MaxRestarts
    BY <1>1, <1>4, NumberFacts DEF TypeOK
  <2>3. session' \in [open : BOOLEAN, words : Seq(Line)]
    BY <1>4 DEF NoSession
  <2>4. left' \in Seq(Line)
    BY <1>4
  <2> QED BY <1>1, <1>4, <2>1, <2>2, <2>3, <2>4 DEF TypeOK, Client, Lost
<1> QED BY <1>1, <1>2, <1>3, <1>4, <1>5, LostStep

LEMMA RivalStep ==
    ASSUME IInv, RivalLocks \/ RivalUnlocks
    PROVE  IInv'
<1> USE NumberFacts
<1>1. /\ UNCHANGED <<pc, me, cur, opened, granted, since, answered>>
      /\ UNCHANGED <<conn, session, file, left, restarts, stray, unseated, dropped>>
      /\ lock # Me /\ lock' # Me /\ lock' \in {NoUser, Rival}
  BY DEF RivalLocks, RivalUnlocks, Client, Free, Lost
<1>2. TypeOK' /\ Channels' /\ Current' /\ Counters' /\ NotYet' /\ Answered'
  BY <1>1 DEF IInv, TypeOK, Channels, Current, Counters, NotYet, Answered
<1>3. UnlockOnce' /\ CancelLast'
  BY <1>1 DEF IInv, UnlockOnce, CancelLast, Pending, Ask
<1>4. Talk'
  BY <1>1 DEF IInv, Talk, Locking, Writing, Unlocking, Quiet, Silent, Resting, Exchange, Reads,
              Ask, Write
<1>5. LockedWhileWriting' /\ CommitIsSinceLock' /\ Kept'
  BY <1>1 DEF IInv, LockedWhileWriting, CommitIsSinceLock, Kept, Seats, Leftover
<1> QED BY <1>2, <1>3, <1>4, <1>5 DEF IInv

\* The queue is run by somebody else, when UNLOCK has left its commit there.
LEMMA OthersStep ==
    ASSUME IInv, OthersProcess
    PROVE  IInv'
<1>1. /\ UNCHANGED <<pc, me, cur, opened, granted, since, answered>>
      /\ UNCHANGED <<conn, lock, session, restarts, stray, unseated, dropped>>
      /\ left # <<>> /\ left' = <<>>
  BY DEF OthersProcess, Client, Lost
<1>2. /\ file = <<>> /\ (~stray => left = since)
      /\ pc \in {"bye", "done"}
      /\ \A k \in Conn : ~Pending(k, Ask("UNLOCK"))
  <2>1. file = <<>> /\ (~stray => left = since)
    BY <1>1 DEF IInv, Kept, Leftover
  <2>2. pc \in {"bye", "done"}
    BY <1>1 DEF IInv, NotYet
  <2>3. \A k \in Conn : ~Pending(k, Ask("UNLOCK"))
    BY <1>1 DEF IInv, UnlockOnce
  <2> QED BY <2>1, <2>2, <2>3
<1>3. file' \in Seq(Line) /\ file' \in {<<>>, left}
  <2>1. left \in Seq(Line)
    BY DEF IInv, TypeOK
  <2>2. file' \in {<<>>, <<>> \o left}
    BY <1>2 DEF OthersProcess
  <2>3. <<>> \o left = left /\ <<>> \in Seq(Line)
    BY <2>1
  <2>4. file' \in {<<>>, left}
    BY <2>2, <2>3
  <2>5. file' = <<>> \/ file' = left
    BY <2>4
  <2> QED BY <2>1, <2>3, <2>4, <2>5
<1>4. TypeOK' /\ Channels' /\ Current' /\ Counters' /\ NotYet' /\ Answered'
  <2>1. left' \in Seq(Line)
    BY <1>1
  <2> QED BY <1>1, <1>2, <1>3, <2>1 DEF IInv, TypeOK, Channels, Current, Counters, NotYet, Answered
<1>5. UnlockOnce' /\ CancelLast'
  BY <1>1, <1>2 DEF IInv, UnlockOnce, CancelLast, Pending, Ask
<1>6. Unlocking' /\ Kept' /\ CommitIsSinceLock'
  BY <1>1, <1>2, <1>3 DEF IInv, Talk, Unlocking, Kept, Seats, Leftover, CommitIsSinceLock, Exchange,
                         Reads, Ask
<1>7. Locking' /\ Writing' /\ Quiet' /\ Silent' /\ LockedWhileWriting'
  BY <1>1, <1>2 DEF Locking, Writing, Quiet, Silent, Resting, LockedWhileWriting
<1> QED BY <1>4, <1>5, <1>6, <1>7 DEF IInv, Talk

-----------------------------------------------------------------------------
(* The server: its thread serves the first request that has arrived on a connection. *)

LEMMA ServeFacts ==
    ASSUME IInv, NEW k \in Conn, Serve(k)
    PROVE  /\ Head(conn[k].requests) \in Asked
           /\ conn[k].requests # <<>> /\ Pending(k, Head(conn[k].requests))
           /\ \E r \in Reply : Answers(k, r)
           /\ UNCHANGED <<pc, me, cur, opened, granted, since, answered, restarts>>
<1>1. conn[k].requests \in Seq(Asked) /\ conn[k].requests # <<>>
  BY ChannelFacts DEF IInv, Serve
<1>2. Head(conn[k].requests) \in Asked /\ Pending(k, Head(conn[k].requests))
  <2>1. 1 \in DOMAIN conn[k].requests /\ Head(conn[k].requests) = conn[k].requests[1]
    BY <1>1
  <2> QED BY <1>1, <2>1 DEF Pending
<1>3. \E r \in Reply : Answers(k, r)
  <2>1. "SUCCESS" \in Reply /\ "refused" \in Reply
    BY DEF Reply
  <2>2. Answers(k, "SUCCESS") \/ Answers(k, "refused")
    BY DEF Serve, ServeLock, ServeWrite, ServeUnlock, ServeCancel, Released, Refuses
  <2> QED BY <2>1, <2>2
<1> QED BY <1>1, <1>2, <1>3 DEF Serve, Client

\* A request served turns an exchange that waits for it into one that has the reply.
LEMMA ExchangeServed ==
    ASSUME IInv, NEW k \in Conn, NEW r \in Reply, NEW q, conn[k].requests # <<>>,
           Answers(k, r), UNCHANGED cur, cur \in Conn, Exchange(q)
    PROVE  /\ Exchange(q)'
           /\ k = cur => /\ \/ Head(conn[k].requests) = q
                            \/ ~conn[cur].up /\ conn'[cur].replies = <<>>
                         /\ conn[cur].up => conn'[cur].replies = <<r>>
                         /\ ~conn[cur].up => conn'[cur].replies = <<>>
           /\ k # cur => conn'[cur] = conn[cur]
<1>1. /\ Channels
      /\ \A j \in Conn : j # k => conn'[j] = conn[j]
      /\ conn'[k].up = conn[k].up /\ conn'[k].requests = Tail(conn[k].requests)
      /\ conn'[k].replies = IF conn[k].up THEN Append(conn[k].replies, r)
                                          ELSE conn[k].replies
  BY AnswersFacts DEF IInv
<1>2. CASE k # cur
  BY <1>1, <1>2 DEF Exchange
<1>3. CASE k = cur
  <2>1. CASE conn[cur].requests = <<q>> /\ conn[cur].replies = <<>>
    <3>1. Tail(<<q>>) = <<>> /\ Head(<<q>>) = q /\ Append(<<>>, r) = <<r>>
      OBVIOUS
    <3> QED BY <1>1, <1>3, <2>1, <3>1 DEF Exchange
  <2>2. CASE ~conn[cur].up /\ conn[cur].replies = <<>>
    BY <1>1, <1>3, <2>2 DEF Exchange
  <2> QED BY <1>3, <2>1, <2>2 DEF Exchange
<1> QED BY <1>2, <1>3

\* LOCK and WRITE, of this client and of no other: a rival's are RivalLocks.
LEMMA ServeEarly ==
    ASSUME IInv, NEW k \in Conn, Serve(k), Head(conn[k].requests).type \in {"LOCK", "WRITE"}
    PROVE  IInv'
<1> USE NumberFacts
<1> DEFINE q == Head(conn[k].requests)
<1>1. /\ q \in Asked /\ conn[k].requests # <<>> /\ Pending(k, q)
      /\ UNCHANGED <<pc, me, cur, opened, granted, since, answered, restarts, file, left, dropped>>
      /\ cur # 0 => cur \in Conn
      /\ TypeOK /\ Channels /\ k # 0
  <2>1. UNCHANGED <<file, left, dropped>>
    <3>1. ServeLock(k) \/ ServeWrite(k, Head(conn[k].requests).line)
      BY DEF Serve
    <3> QED BY <3>1 DEF ServeLock, ServeWrite
  <2>2. /\ q \in Asked /\ conn[k].requests # <<>> /\ Pending(k, q)
        /\ UNCHANGED <<pc, me, cur, opened, granted, since, answered, restarts>>
    BY ServeFacts
  <2>3. TypeOK /\ Channels /\ k # 0 /\ (cur # 0 => cur \in Conn)
    BY CurFacts DEF IInv, Conn
  <2> QED BY <2>1, <2>2, <2>3
<1>2. q = Ask("LOCK") \/ (q.line \in Line /\ q = Write(q.line))
  <2>1. q.type \in {"LOCK", "WRITE"}
    OBVIOUS
  <2> HIDE DEF q
  <2>2. /\ q.type = "LOCK" => q = Ask("LOCK")
        /\ q.type = "WRITE" => q.line \in Line /\ q = Write(q.line)
    BY <1>1, RequestFacts
  <2> QED BY <2>1, <2>2
<1>3. q # Ask("UNLOCK") /\ q # Ask("CANCEL")
  BY DEF Ask
<1>4. PICK r \in Reply :
          /\ Answers(k, r)
          /\ \/ /\ r = "SUCCESS" /\ q = Ask("LOCK") /\ lock' = Me /\ session' = Fresh
                /\ unseated' = FALSE
             \/ /\ r = "SUCCESS" /\ q.line \in Line /\ q = Write(q.line)
                /\ UNCHANGED <<lock, unseated>> /\ session.open
                /\ session' = [session EXCEPT !.words = Append(session.words, q.line)]
             \/ r = "refused" /\ UNCHANGED <<lock, session, unseated>>
             \/ /\ r = "refused" /\ q = Ask("LOCK") /\ lock' = NoUser /\ session' = NoSession
                /\ unseated' = (k # cur)
  <2>1. "SUCCESS" \in Reply /\ "refused" \in Reply
    BY DEF Reply
  <2>2. CASE q = Ask("LOCK")
    <3>1. ServeLock(k)
      BY <2>2 DEF Serve, Ask
    <3> QED BY <2>1, <2>2, <3>1 DEF ServeLock, Refuses
  <2>3. CASE q.line \in Line /\ q = Write(q.line)
    <3>1. ServeWrite(k, q.line)
      <4>1. q.type = "WRITE"
        BY <2>3, RequestFacts
      <4> QED BY <4>1 DEF Serve
    <3> QED BY <2>1, <2>3, <3>1 DEF ServeWrite, Refuses
  <2> QED BY <1>2, <2>2, <2>3
<1>5. /\ Channels'
      /\ \A j \in Conn : j # k => conn'[j] = conn[j]
      /\ conn'[k].up = conn[k].up /\ conn'[k].requests = Tail(conn[k].requests)
      /\ conn'[k].replies = IF conn[k].up THEN Append(conn[k].replies, r)
                                          ELSE conn[k].replies
      /\ \A j \in Conn : \A p : Pending(j, p)' => Pending(j, p)
  BY <1>1, <1>4, AnswersFacts
<1>6. stray' = (stray \/ k # cur)
  BY DEF Serve
<1>7. /\ session \in [open : BOOLEAN, words : Seq(Line)]
      /\ session' \in [open : BOOLEAN, words : Seq(Line)] /\ lock' \in {Me, Rival, NoUser}
      /\ unseated' \in BOOLEAN
      /\ ~unseated' => \/ lock' = Me /\ session'.open
                       \/ /\ ~unseated
                          /\ lock = Me /\ session.open => lock' = Me /\ session'.open
                       \/ k = cur /\ q = Ask("LOCK") /\ r = "refused"
      /\ r = "SUCCESS" /\ q = Ask("LOCK") => lock' = Me /\ session'.open /\ session'.words = <<>>
      /\ r = "SUCCESS" /\ q # Ask("LOCK") => session'.words = Append(session.words, q.line)
      /\ r # "SUCCESS" /\ q # Ask("LOCK") => session'.words = session.words
      /\ session'.open => lock' = Me
      /\ ~session'.open => session'.words = <<>>
      /\ unseated' => unseated \/ k # cur
  <2>1. /\ session \in [open : BOOLEAN, words : Seq(Line)] /\ lock \in {Me, Rival, NoUser}
        /\ unseated \in BOOLEAN
    BY <1>1 DEF TypeOK
  <2>2. CASE /\ r = "SUCCESS" /\ q = Ask("LOCK") /\ lock' = Me /\ session' = Fresh
             /\ unseated' = FALSE
    <3>1. Fresh \in [open : BOOLEAN, words : Seq(Line)] /\ Fresh.open = TRUE /\ Fresh.words = <<>>
      BY DEF Fresh
    <3> HIDE DEF q
    <3> QED BY <2>1, <2>2, <3>1
  <2>0. (session.open => lock = Me) /\ (~session.open => session.words = <<>>)
    BY DEF IInv, Kept, Seats
  <2>3. CASE /\ r = "SUCCESS" /\ q.line \in Line /\ q = Write(q.line) /\ UNCHANGED <<lock, unseated>>
             /\ session.open
             /\ session' = [session EXCEPT !.words = Append(session.words, q.line)]
    <3>1. Append(session.words, q.line) \in Seq(Line)
      BY <2>1, <2>3
    <3>2. q # Ask("LOCK")
      BY <2>3 DEF Write, Ask
    <3> QED BY <2>0, <2>1, <2>3, <3>1, <3>2
  <2>4. CASE r = "refused" /\ UNCHANGED <<lock, session, unseated>>
    BY <2>0, <2>1, <2>4
  <2>5. CASE /\ r = "refused" /\ q = Ask("LOCK") /\ lock' = NoUser /\ session' = NoSession
             /\ unseated' = (k # cur)
    BY <2>1, <2>5 DEF NoSession
  <2> QED BY <1>4, <2>2, <2>3, <2>4, <2>5
<1> HIDE DEF q
<1>8. TypeOK'
  <2>1. stray' \in BOOLEAN
    BY <1>6
  <2> QED BY <1>1, <1>5, <1>7, <2>1, ChannelTyped DEF TypeOK, Channels
<1>9. Current' /\ Counters' /\ NotYet' /\ Answered'
  BY <1>1 DEF IInv, Current, Counters, NotYet, Answered
<1>20. Kept'
  BY <1>1, <1>6, <1>7 DEF IInv, Kept, Seats, Leftover
<1>10. CancelLast'
  BY <1>1, <1>5 DEF IInv, CancelLast, Ask
<1>11. UnlockOnce'
  <2> SUFFICES ASSUME NEW j \in Conn, Pending(j, Ask("UNLOCK"))'
               PROVE  /\ pc' \in {"bye", "done"} /\ j = opened'
                      /\ conn'[j].requests = <<Ask("UNLOCK")>>
                      /\ file' = <<>> /\ left' = <<>> /\ answered' = "none"
                      /\ ~stray' => session'.words = since'
    BY DEF UnlockOnce, Ask
  <2>1. /\ pc \in {"bye", "done"} /\ j = opened
        /\ conn[j].requests = <<Ask("UNLOCK")>>
        /\ file = <<>> /\ left = <<>> /\ answered = "none"
    BY <1>5 DEF IInv, UnlockOnce
  <2>2. j # k
    <3>1. Head(<<Ask("UNLOCK")>>) = Ask("UNLOCK")
      OBVIOUS
    <3> QED BY <1>3, <2>1, <3>1 DEF q
  <2>3. k # cur
    BY <1>1, <2>1, <2>2 DEF IInv, Current
  <2> QED BY <1>1, <1>5, <1>6, <2>1, <2>2, <2>3
<1>12. ASSUME cur # 0, NEW p, Exchange(p)
       PROVE  /\ Exchange(p)'
              /\ k = cur => /\ q = p \/ (~conn[cur].up /\ conn'[cur].replies = <<>>)
                            /\ conn[cur].up => conn'[cur].replies = <<r>>
              /\ k # cur => conn'[cur] = conn[cur]
  BY <1>1, <1>4, <1>12, ExchangeServed DEF q
<1>13. \A a, b \in Reply : <<a>> = <<b>> => a = b
  OBVIOUS
<1>14. Locking'
  <2> SUFFICES ASSUME pc \in {"lock", "relock"}
               PROVE  /\ Exchange(Ask("LOCK"))'
                      /\ conn'[cur].up /\ Reads("SUCCESS")' =>
                             /\ ~unseated' => lock' = Me /\ session'.open
                             /\ ~stray' => session'.words = <<>>
    BY <1>1 DEF Locking, Ask
  <2>1. /\ cur # 0 /\ Exchange(Ask("LOCK"))
        /\ conn[cur].up /\ Reads("SUCCESS") =>
               /\ ~unseated => lock = Me /\ session.open
               /\ ~stray => session.words = <<>>
    BY DEF IInv, Current, Talk, Locking
  <2>2. CASE k = cur
    <3>1. conn'[cur].up /\ Reads("SUCCESS")' => r = "SUCCESS" /\ q = Ask("LOCK")
      BY <1>1, <1>5, <1>12, <2>1, <2>2 DEF Reads
    <3> QED BY <1>7, <1>12, <2>1, <3>1
  <2>3. CASE k # cur
    <3>1. conn'[cur].up /\ Reads("SUCCESS")' => conn[cur].up /\ Reads("SUCCESS")
      BY <1>1, <1>12, <2>1, <2>3 DEF Reads
    <3> QED BY <1>6, <1>7, <1>12, <2>1, <2>3, <3>1
  <2> QED BY <2>2, <2>3
<1>15. Writing'
  <2> SUFFICES ASSUME pc = "await"
               PROVE  /\ Exchange(Write(me.line))'
                      /\ conn'[cur].up =>
                           /\ granted = cur
                           /\ ~stray' => session'.words =
                                  IF Reads("SUCCESS")' THEN Append(since, me.line) ELSE since
    BY <1>1 DEF Writing, Write
  <2>1. /\ cur # 0 /\ Exchange(Write(me.line))
        /\ conn[cur].up =>
             /\ granted = cur
             /\ ~stray => session.words = IF Reads("SUCCESS") THEN Append(since, me.line)
                                                              ELSE since
    BY DEF IInv, Current, Talk, Writing
  <2>2. CASE k = cur /\ conn[cur].up
    <3>1. q = Write(me.line) /\ q # Ask("LOCK") /\ q.line = me.line /\ conn'[cur].replies = <<r>>
      <4>1. q = Write(me.line) /\ conn'[cur].replies = <<r>>
        BY <1>12, <2>1, <2>2
      <4> QED BY <4>1 DEF Write, Ask
    <3>2. ~Reads("SUCCESS")
      <4>1. <<>> # <<"SUCCESS">>
        OBVIOUS
      <4> QED BY <1>1, <2>1, <2>2, <4>1 DEF Exchange, Reads
    <3>3. Reads("SUCCESS")' <=> r = "SUCCESS"
      BY <1>1, <3>1 DEF Reads
    <3>4. ~stray' => session.words = since
      BY <1>6, <2>1, <2>2, <3>2
    <3>5. granted = cur /\ (r # "SUCCESS" \/ session'.words = Append(session.words, me.line))
                       /\ (r = "SUCCESS" \/ session'.words = session.words)
      BY <1>7, <2>1, <2>2, <3>1
    <3>6. Exchange(Write(me.line))'
      BY <1>1, <1>12, <2>1 DEF Exchange, Write
    <3>7. ~stray' => ~stray /\ session.words = since
      BY <1>6, <2>2, <3>4
    <3>8. CASE r = "SUCCESS"
      BY <1>1, <3>3, <3>5, <3>6, <3>7, <3>8
    <3>9. CASE r # "SUCCESS"
      BY <1>1, <3>3, <3>5, <3>6, <3>7, <3>9
    <3> QED BY <3>8, <3>9
  <2>3. CASE k = cur /\ ~conn[cur].up
    BY <1>1, <1>5, <1>12, <2>1, <2>3
  <2>4. CASE k # cur
    <3>1. conn'[cur].up = conn[cur].up /\ stray' /\ granted' = granted
      BY <1>1, <1>6, <1>12, <2>1, <2>4
    <3> QED BY <1>1, <1>12, <2>1, <3>1
  <2> QED BY <2>2, <2>3, <2>4
<1>16. Unlocking'
  <2> SUFFICES ASSUME pc = "bye"
               PROVE  /\ Exchange(Ask("UNLOCK"))'
                      /\ Reads("SUCCESS")' /\ ~stray' =>
                             (file' = since \/ dropped') /\ lock' # Me
                      /\ Reads("refused")' /\ ~stray' => file' = <<>> /\ left' = <<>>
    BY <1>1 DEF Unlocking, Ask
  <2>1. cur # 0 /\ Exchange(Ask("UNLOCK"))
    BY DEF IInv, Current, Talk, Unlocking
  <2>2. k = cur => ~Reads("SUCCESS")' /\ ~Reads("refused")'
    <3>1. <<>> # <<"SUCCESS">> /\ <<>> # <<"refused">>
      OBVIOUS
    <3> QED BY <1>1, <1>3, <1>12, <2>1, <3>1 DEF Reads
  <2> QED BY <1>6, <1>12, <2>1, <2>2
<1>21. Silent'
  BY <1>1, <1>5 DEF IInv, Talk, Silent
<1>17. Quiet'
  <2> SUFFICES ASSUME Resting, cur # 0
               PROVE  /\ conn'[cur].replies = <<>>
                      /\ conn'[cur].up => /\ granted = cur /\ conn'[cur].requests = <<>>
                                          /\ ~stray' => session'.words = since
    BY <1>1 DEF Quiet, Resting
  <2>1. /\ conn[cur].replies = <<>>
        /\ conn[cur].up => granted = cur /\ conn[cur].requests = <<>>
    BY DEF IInv, Talk, Quiet
  <2>2. CASE k = cur
    BY <1>1, <1>5, <2>1, <2>2
  <2>3. CASE k # cur
    BY <1>1, <1>5, <1>6, <2>1, <2>3
  <2> QED BY <2>2, <2>3
<1>18. LockedWhileWriting'
  <2> SUFFICES ASSUME ~unseated', cur # 0, granted = cur, conn'[cur].up,
                      pc \in {"typing", "send", "await", "unlock"}
               PROVE  lock' = Me /\ session'.open
    BY <1>1 DEF LockedWhileWriting
  <2>1. conn[cur].up
    BY <1>1, <1>5
  <2>2. ~(k = cur /\ q = Ask("LOCK"))
    <3>1. CASE pc \in {"typing", "send", "unlock"}
      <4>1. conn[cur].requests = <<>>
        BY <2>1, <3>1 DEF IInv, Talk, Quiet, Silent, Resting
      <4> QED BY <1>1, <4>1
    <3>2. CASE pc = "await"
      <4>1. Exchange(Write(me.line))
        BY <3>2 DEF IInv, Talk, Writing
      <4>2. k = cur => q = Write(me.line) \/ ~conn[cur].up
        BY <1>12, <4>1
      <4> QED BY <2>1, <4>2 DEF Write, Ask
    <3> QED BY <3>1, <3>2
  <2>3. ~unseated => lock = Me /\ session.open
    BY <2>1 DEF IInv, LockedWhileWriting
  <2> QED BY <1>7, <2>2, <2>3
<1>19. CommitIsSinceLock'
  <2>1. answered # "none" => stray'
    BY <1>1, <1>6, NumberFacts DEF IInv, Answered, Current, Conn
  <2> QED BY <1>1, <1>6, <2>1 DEF IInv, CommitIsSinceLock
<1> QED BY <1>5, <1>8, <1>9, <1>10, <1>11, <1>14, <1>15, <1>16, <1>17, <1>18, <1>19, <1>20, <1>21
        DEF IInv, Talk

\* UNLOCK and CANCEL: what UNLOCK commits was acknowledged, and both free the sentence.
LEMMA ServeLate ==
    ASSUME IInv, NEW k \in Conn, Serve(k), Head(conn[k].requests).type \in {"UNLOCK", "CANCEL"}
    PROVE  IInv'
<1> USE NumberFacts
<1> DEFINE q == Head(conn[k].requests)
<1>1. /\ q \in Asked /\ conn[k].requests # <<>> /\ Pending(k, q)
      /\ UNCHANGED <<pc, me, cur, opened, granted, since, answered, restarts, stray, unseated>>
      /\ cur # 0 => cur \in Conn
      /\ TypeOK /\ Channels
  <2>1. stray' = stray
    BY DEF Serve, IInv, TypeOK
  <2>2. UNCHANGED unseated
    BY DEF Serve, ServeUnlock, ServeCancel
  <2> QED BY <2>1, <2>2, ServeFacts, CurFacts DEF IInv
<1>2. q = Ask("UNLOCK") \/ q = Ask("CANCEL")
  BY <1>1, RequestFacts
<1>3. Ask("UNLOCK") # Ask("CANCEL")
  BY DEF Ask
<1>0. /\ session.words \in Seq(Line) /\ (session.open => lock = Me)
      /\ (~session.open => session.words = <<>>) /\ lock \in {Me, Rival, NoUser}
      /\ file \in Seq(Line) /\ left \in Seq(Line) /\ dropped \in BOOLEAN
  BY <1>1 DEF TypeOK, IInv, Kept, Seats
<1>4. PICK r \in Reply :
          /\ Answers(k, r) /\ lock' \in {lock, NoUser} /\ session' = NoSession
          /\ r = "SUCCESS" => lock' # Me
          /\ q = Ask("CANCEL") => UNCHANGED <<file, left, dropped>>
          /\ q = Ask("UNLOCK") =>
                \/ /\ file' = file \o left \o session.words /\ left' = <<>> /\ UNCHANGED dropped
                   /\ r = "refused" => session.words = <<>>
                \/ /\ r = "SUCCESS" /\ dropped' = TRUE /\ UNCHANGED file
                   /\ left' \in {left, left \o session.words}
                \/ r = "refused" /\ UNCHANGED <<file, left, dropped>>
  <2>1. "SUCCESS" \in Reply /\ "refused" \in Reply
    BY DEF Reply
  <2>2. CASE q = Ask("CANCEL")
    <3>1. ServeCancel(k)
      BY <2>2 DEF Serve, Ask
    <3> QED BY <1>3, <2>1, <2>2, <3>1 DEF ServeCancel, Released, Refuses
  <2>3. CASE q = Ask("UNLOCK")
    <3>1. ServeUnlock(k)
      BY <2>3 DEF Serve, Ask
    <3>2. CASE /\ file' = file \o left \o session.words /\ left' = <<>> /\ Released(k)
               /\ UNCHANGED dropped
      BY <1>0, <1>3, <2>1, <2>3, <3>1, <3>2 DEF ServeUnlock, Released, Refuses
    <3>3. CASE /\ session.open /\ left' \in {left, left \o session.words} /\ Released(k)
               /\ dropped' = TRUE /\ UNCHANGED file
      BY <1>0, <1>3, <2>1, <2>3, <3>1, <3>3 DEF ServeUnlock, Released
    <3>4. CASE /\ session.open /\ lock' = (IF lock = Me THEN NoUser ELSE lock) /\ Refuses(k)
               /\ UNCHANGED <<file, left, dropped>>
      BY <1>0, <1>3, <2>1, <2>3, <3>1, <3>4 DEF ServeUnlock, Refuses
    <3> QED BY <3>1, <3>2, <3>3, <3>4 DEF ServeUnlock
  <2> QED BY <1>2, <2>2, <2>3
<1>6. /\ Channels'
      /\ \A j \in Conn : j # k => conn'[j] = conn[j]
      /\ conn'[k].up = conn[k].up /\ conn'[k].requests = Tail(conn[k].requests)
      /\ \A j \in Conn : \A p : Pending(j, p)' => Pending(j, p)
  BY <1>1, <1>4, AnswersFacts
<1> HIDE DEF q
<1>7. k = opened /\ pc \in {"bye", "cancel", "done"}
  BY <1>1, <1>2 DEF IInv, UnlockOnce, CancelLast
<1>8. ASSUME q = Ask("UNLOCK")
      PROVE  /\ UnlockOnce' /\ Unlocking' /\ NotYet' /\ CommitIsSinceLock' /\ Leftover'
             /\ file' \in Seq(Line) /\ left' \in Seq(Line) /\ dropped' \in BOOLEAN
  <2>1. /\ pc \in {"bye", "done"} /\ conn[k].requests = <<Ask("UNLOCK")>>
        /\ file = <<>> /\ left = <<>> /\ answered = "none"
        /\ ~stray => session.words = since
    BY <1>1, <1>8 DEF IInv, UnlockOnce
  <2>2. \/ /\ file' = session.words /\ left' = <<>> /\ UNCHANGED dropped
           /\ r = "refused" => session.words = <<>>
        \/ /\ r = "SUCCESS" /\ dropped' = TRUE /\ file' = <<>>
           /\ left' \in {<<>>, session.words}
        \/ r = "refused" /\ file' = <<>> /\ left' = <<>> /\ UNCHANGED dropped
    <3>1. <<>> \o <<>> \o session.words = session.words /\ <<>> \o session.words = session.words
      BY <1>0
    <3> QED BY <1>4, <1>8, <2>1, <3>1
  <2>7. file' \in Seq(Line) /\ left' \in Seq(Line) /\ dropped' \in BOOLEAN
    BY <1>0, <2>1, <2>2
  <2>3. conn'[k].requests = <<>>
    <3>1. Tail(<<Ask("UNLOCK")>>) = <<>>
      OBVIOUS
    <3> QED BY <1>6, <2>1, <3>1
  <2>4. UnlockOnce'
    <3> SUFFICES ASSUME NEW j \in Conn, Pending(j, Ask("UNLOCK"))'
                 PROVE  FALSE
      BY DEF UnlockOnce, Ask
    <3>1. j = k
      BY <1>6, <1>7 DEF IInv, UnlockOnce
    <3> QED BY <2>3, <3>1 DEF Pending
  <2>5. Unlocking'
    <3> SUFFICES ASSUME pc = "bye"
                 PROVE  /\ Exchange(Ask("UNLOCK"))'
                        /\ Reads("SUCCESS")' /\ ~stray' =>
                               (file' = since \/ dropped') /\ lock' # Me
                        /\ Reads("refused")' /\ ~stray' => file' = <<>> /\ left' = <<>>
      BY <1>1 DEF Unlocking, Ask
    <3>1. cur = k /\ cur # 0 /\ Exchange(Ask("UNLOCK"))
      BY <1>7 DEF IInv, Current, Talk, Unlocking
    <3>2. /\ Exchange(Ask("UNLOCK"))'
          /\ conn[cur].up => conn'[cur].replies = <<r>>
          /\ ~conn[cur].up => conn'[cur].replies = <<>>
      BY <1>1, <1>4, <3>1, ExchangeServed
    <3>3. (Reads("SUCCESS")' => r = "SUCCESS") /\ (Reads("refused")' => r = "refused")
      <4>1. <<>> # <<"SUCCESS">> /\ <<>> # <<"refused">> /\ \A a, b \in Reply : <<a>> = <<b>> => a = b
        OBVIOUS
      <4> QED BY <1>1, <3>2, <4>1 DEF Reads, Reply
    <3> QED BY <1>1, <1>4, <2>1, <2>2, <3>2, <3>3
  <2>6. NotYet' /\ CommitIsSinceLock' /\ Leftover'
    BY <1>1, <1>4, <2>1, <2>2 DEF IInv, NotYet, CommitIsSinceLock, Leftover
  <2> QED BY <2>4, <2>5, <2>6, <2>7
<1>9. ASSUME q = Ask("CANCEL")
      PROVE  /\ UnlockOnce' /\ Unlocking' /\ NotYet' /\ CommitIsSinceLock' /\ Leftover'
             /\ file' \in Seq(Line) /\ left' \in Seq(Line) /\ dropped' \in BOOLEAN
  <2>1. pc \in {"cancel", "done"} /\ UNCHANGED <<file, left, dropped>>
    BY <1>1, <1>4, <1>9 DEF IInv, CancelLast
  <2>2. UnlockOnce'
    <3> SUFFICES ASSUME NEW j \in Conn, Pending(j, Ask("UNLOCK"))'
                 PROVE  FALSE
      BY DEF UnlockOnce, Ask
    <3>1. j = k /\ conn[k].requests = <<Ask("UNLOCK")>>
      BY <1>6, <1>7 DEF IInv, UnlockOnce
    <3>2. Head(<<Ask("UNLOCK")>>) = Ask("UNLOCK")
      OBVIOUS
    <3> QED BY <1>3, <1>9, <3>1, <3>2 DEF q
  <2>3. Unlocking'
    BY <1>1, <2>1 DEF Unlocking
  <2>4. NotYet' /\ CommitIsSinceLock' /\ Leftover'
    BY <1>1, <1>4, <2>1 DEF IInv, NotYet, CommitIsSinceLock, Kept, Leftover
  <2>5. file' \in Seq(Line) /\ left' \in Seq(Line) /\ dropped' \in BOOLEAN
    BY <1>0, <2>1
  <2> QED BY <2>2, <2>3, <2>4, <2>5
<1>10. /\ UnlockOnce' /\ Unlocking' /\ NotYet' /\ CommitIsSinceLock' /\ Leftover'
       /\ file' \in Seq(Line) /\ left' \in Seq(Line) /\ dropped' \in BOOLEAN
  BY <1>2, <1>8, <1>9
<1>15. Kept'
  BY <1>1, <1>4, <1>10 DEF IInv, Kept, Seats, NoSession
<1>11. TypeOK'
  <2>1. session' \in [open : BOOLEAN, words : Seq(Line)]
    BY <1>4 DEF NoSession
  <2>2. lock' \in {Me, Rival, NoUser}
    BY <1>1, <1>4 DEF TypeOK
  <2> QED BY <1>1, <1>6, <1>10, <2>1, <2>2, ChannelTyped DEF TypeOK, Channels
<1>12. Current' /\ Counters' /\ Answered'
  BY <1>1 DEF IInv, Current, Counters, Answered
<1>13. CancelLast'
  BY <1>1, <1>6 DEF IInv, CancelLast, Ask
<1>14. Locking' /\ Writing' /\ Quiet' /\ Silent' /\ LockedWhileWriting'
  BY <1>1, <1>7 DEF Locking, Writing, Quiet, Silent, Resting, LockedWhileWriting
<1> QED BY <1>6, <1>10, <1>11, <1>12, <1>13, <1>14, <1>15 DEF IInv, Talk

-----------------------------------------------------------------------------
LEMMA InitIInv == Init => IInv
<1> SUFFICES ASSUME Init PROVE IInv
  OBVIOUS
<1> USE NumberFacts
<1>1. /\ pc = "start" /\ cur = 0 /\ opened = 0 /\ granted = 0 /\ restarts = 0
      /\ file = <<>> /\ left = <<>> /\ since = <<>> /\ answered = "none"
      /\ stray = FALSE /\ unseated = FALSE /\ dropped = FALSE
      /\ session = NoSession /\ lock \in {NoUser, Rival}
      /\ me = [line |-> 0, retry |-> 0, count |-> 0, status |-> TRUE, said |-> FALSE,
               sigint |-> FALSE, eintr |-> FALSE]
      /\ conn = [k \in Conn |-> [up |-> FALSE, requests |-> <<>>, replies |-> <<>>]]
  BY DEF Init
<1>2. Channels
  <2>1. [up |-> FALSE, requests |-> <<>>, replies |-> <<>>] \in Channel
    BY DEF Channel
  <2> QED BY <1>1, <2>1 DEF Channels
<1>3. \A k \in Conn : \A q : ~Pending(k, q)
  BY <1>1 DEF Pending
<1>4. TypeOK
  <2>1. session \in [open : BOOLEAN, words : Seq(Line)]
    BY <1>1 DEF NoSession
  <2>2. conn \in [Conn -> [up : BOOLEAN, requests : Seq(Request), replies : Seq(Reply)]]
    BY <1>2, ChannelTyped DEF Channels
  <2>3. me \in [line : 0 .. MaxLines, retry : 0 .. MaxRetries, count : 0 .. MaxLines,
                status : BOOLEAN, said : BOOLEAN, sigint : BOOLEAN, eintr : BOOLEAN]
    <3>1. 0 \in 0 .. MaxLines /\ 0 \in 0 .. MaxRetries
      OBVIOUS
    <3> QED BY <1>1, <3>1
  <2>4. 0 \in 0 .. MaxConns /\ 0 \in 0 .. MaxRestarts /\ <<>> \in Seq(Line)
    OBVIOUS
  <2>5. {cur, opened, granted} \subseteq 0 .. MaxConns /\ restarts \in 0 .. MaxRestarts
    BY <1>1, <2>4
  <2> QED BY <1>1, <2>1, <2>2, <2>3, <2>4, <2>5 DEF TypeOK
<1>5. Current /\ Counters /\ NotYet /\ Answered
  BY <1>1 DEF Current, Counters, NotYet, Answered
<1>6. UnlockOnce /\ CancelLast
  BY <1>3 DEF UnlockOnce, CancelLast
<1>7. Talk /\ Kept /\ LockedWhileWriting /\ CommitIsSinceLock
  BY <1>1 DEF Talk, Locking, Writing, Unlocking, Quiet, Silent, Resting, LockedWhileWriting,
              CommitIsSinceLock, Kept, Seats, Leftover, NoSession
<1> QED BY <1>2, <1>4, <1>5, <1>6, <1>7 DEF IInv

LEMMA StutterIInv == IInv /\ UNCHANGED vars => IInv'
<1> SUFFICES ASSUME IInv, UNCHANGED vars PROVE IInv'
  OBVIOUS
<1>1. TypeOK' /\ Channels' /\ Current' /\ Counters' /\ NotYet' /\ Answered'
  BY DEF IInv, vars, TypeOK, Channels, Current, Counters, NotYet, Answered
<1>2. UnlockOnce' /\ CancelLast'
  BY DEF IInv, vars, UnlockOnce, CancelLast, Pending, Ask
<1>3. Talk'
  BY DEF IInv, vars, Talk, Locking, Writing, Unlocking, Quiet, Silent, Resting, Exchange, Reads,
         Ask, Write
<1>4. LockedWhileWriting' /\ CommitIsSinceLock' /\ Kept'
  BY DEF IInv, vars, LockedWhileWriting, CommitIsSinceLock, Kept, Seats, Leftover
<1> QED BY <1>1, <1>2, <1>3, <1>4 DEF IInv

LEMMA NextIInv ==
    ASSUME IInv, Next
    PROVE  IInv'
<1>1. CASE Acts
  <2>1. CASE PendingUnlock \/ Unlock
    BY <2>1, EndStep, UnlockStep, CancelStep
  <2>2. CASE Begin \/ LockReply \/ SendLine \/ Reconnect \/ Relocked
    BY <2>2, BeginStep, LockReplyStep, SendStep, ReconnectStep
  <2>3. CASE LineReply \/ GiveUp \/ UnlockReply \/ CancelReply
    BY <2>3, LineReplyStep, TypingStep, ByeStep
  <2> QED BY <1>1, <2>1, <2>2, <2>3 DEF Acts
<1>2. CASE TypeLine \/ TypeEtirw \/ Sigint
  BY <1>2, TypingStep, SigintStep
<1>3. CASE Lose \/ Restart \/ RivalLocks \/ RivalUnlocks \/ OthersProcess
  BY <1>3, LoseStep, RestartStep, RivalStep, OthersStep
<1>4. CASE \E k \in Conn : Serve(k)
  <2>1. PICK k \in Conn : Serve(k)
    BY <1>4
  <2>2. Head(conn[k].requests).type \in {"LOCK", "WRITE", "UNLOCK", "CANCEL"}
    BY <2>1 DEF Serve
  <2> QED BY <2>1, <2>2, ServeEarly, ServeLate
<1> QED BY <1>1, <1>2, <1>3, <1>4 DEF Next

LEMMA Inductive == Spec => []IInv
<1>1. IInv /\ [Next]_vars => IInv'
  BY NextIInv, StutterIInv
<1> QED BY InitIInv, <1>1, PTL DEF Spec

-----------------------------------------------------------------------------
\* The locals of handle_write, the connections and the server keep their types; the
\* line that is repeated has been typed, and is repeated at most MaxRetries times.
THEOREM TypeCorrect == Spec => []TypeOK
<1>1. IInv => TypeOK
  BY DEF IInv
<1> QED BY <1>1, Inductive, PTL

\* While the connection holds over which lock_sentence_ss granted the sentence last,
\* the client that goes on typing and sending has the lock and the session, whatever
\* the rival, the server's restarts and the requests left on older connections do,
\* unless one of those is a LOCK that fails once it has the lock.
THEOREM KeepsLock == Spec => []LockedWhileWriting
<1>1. IInv => LockedWhileWriting
  BY DEF IInv
<1> QED BY <1>1, Inductive, PTL

\* However many lines, reconnections, restarts and failures: what commit_write_session_ss
\* puts into the file is what was acknowledged since the last grant, each line once, or
\* nothing; nothing, also later, after an UNLOCK that was refused; and all of it after
\* one that was answered SUCCESS, unless the server has dropped or left it without a
\* word.  Excepted are the commands of which a LOCK or WRITE was served that
\* handle_write had given up.
THEOREM CommitsAcknowledged == Spec => []CommitIsSinceLock
<1>1. IInv => CommitIsSinceLock
  BY DEF IInv
<1> QED BY <1>1, Inductive, PTL

=============================================================================
