---------------------------- MODULE WriteDialogue ----------------------------
(***************************************************************************)
(* One WRITE command of the client (handle_write of src/client.c) and the  *)
(* storage server it talks to, over connections that break: the client     *)
(* locks a sentence, sends the lines its user types, and unlocks.  When a  *)
(* connection is lost it opens another, locks again and repeats the line.  *)
(*                                                                         *)
(* The server (handle_client_request of src/ss.c) serves a request in one  *)
(* step: what happens inside is the subject of SentenceLocks and           *)
(* WriteSessions.  Here a LOCK may fail once it has the lock, and an UNLOCK*)
(* may be refused, or answered SUCCESS although it has committed nothing.  *)
(* A request that has arrived is served even if the client has given its   *)
(* connection up, and the server may be restarted, which forgets locks,    *)
(* sessions and queues and keeps the file.                                 *)
(*                                                                         *)
(* Abstracted: a word is the number of the line it was typed on; a session *)
(* and the file are the words the command has added to them, in the order  *)
(* they came.  Other users are one rival, who locks the sentence when he   *)
(* can.                                                                    *)
(***************************************************************************)
EXTENDS Integers, Sequences

CONSTANTS
    Me, Rival, NoUser,
    MaxLines,        \* bound: lines the user types
    MaxRetries,      \* 5: reconnections for a line
    MaxConns,        \* bound: connections the client opens
    MaxRestarts      \* bound: restarts of the server

ASSUME DialogueAssumption ==
    /\ Me # Rival /\ NoUser \notin {Me, Rival}
    /\ {MaxLines, MaxRestarts} \subseteq Nat
    /\ {MaxRetries, MaxConns} \subseteq Nat \ {0}

VARIABLES
    pc,              \* where handle_write is
    me,              \* its locals
    cur,             \* current_ss_sock: the connection in use, or 0
    conn,            \* the connections: requests not served, replies not read
    lock, session,   \* the server: the sentence's lock, this user's session
    file,            \* the words committed
    left,            \* the words of a commit that was left in the file's queue
    opened,          \* connections opened so far
    restarts,
    granted,         \* history: the connection over which the lock was granted last
    since,           \* history: words acknowledged since then
    answered,        \* history: the answer to UNLOCK, or "none"
    stray,           \* history: a LOCK or WRITE was served after its connection was given up
    unseated,        \* history: the last LOCK to get the lock was such a one, and failed
    dropped          \* history: UNLOCK was answered SUCCESS, and had committed nothing

vars == <<pc, me, cur, conn, lock, session, file, left, opened, restarts,
          granted, since, answered, stray, unseated, dropped>>

-----------------------------------------------------------------------------
Line == 1 .. MaxLines
Conn == 1 .. MaxConns
Request == [type : {"LOCK", "WRITE", "UNLOCK", "CANCEL"}, line : 0 .. MaxLines]
Reply   == {"SUCCESS", "refused"}

Client  == <<pc, me, cur, opened, granted, since, answered>>
Lost    == <<stray, unseated, dropped>>
Server  == <<lock, session, file, left, restarts, stray, unseated, dropped>>

Ask(t)   == [type |-> t, line |-> 0]
Write(n) == [type |-> "WRITE", line |-> n]

NoSession == [open |-> FALSE, words |-> <<>>]

\* sigint_received; eintr: the signal came while recv was blocked.  status, write_count
\* and retry_count are those of the code.
Init ==
    /\ pc = "start"
    /\ me = [line |-> 0, retry |-> 0, count |-> 0, status |-> TRUE, said |-> FALSE,
             sigint |-> FALSE, eintr |-> FALSE]
    /\ cur = 0 /\ opened = 0 /\ restarts = 0
    /\ conn = [k \in Conn |-> [up |-> FALSE, requests |-> <<>>, replies |-> <<>>]]
    /\ lock \in {NoUser, Rival} /\ session = NoSession /\ file = <<>> /\ left = <<>>
    /\ granted = 0 /\ since = <<>> /\ answered = "none"
    /\ stray = FALSE /\ unseated = FALSE /\ dropped = FALSE

-----------------------------------------------------------------------------
(* The network. *)

\* connect, and LOCK as its first request.
Opens ==
    /\ opened < MaxConns
    /\ opened' = opened + 1 /\ cur' = opened + 1
    /\ conn' = [conn EXCEPT ![opened + 1] =
                  [up |-> TRUE, requests |-> <<Ask("LOCK")>>, replies |-> <<>>]]

\* A message sent over a connection that is lost does not arrive.
Send(r) == conn' = IF conn[cur].up THEN [conn EXCEPT ![cur].requests = Append(@, r)] ELSE conn

\* recv fails: the signal interrupts it, or the connection has ended.
RecvFails == me.eintr \/ (~conn[cur].up /\ conn[cur].replies = <<>>)
Recv(r)   == ~me.eintr /\ conn[cur].replies # <<>> /\ Head(conn[cur].replies) = r
Took      == conn' = [conn EXCEPT ![cur].replies = Tail(@)]

\* The connection in use is lost: requests and replies under way arrive, or not.
Lose ==
    /\ cur # 0 /\ conn[cur].up
    /\ \E q \in {conn[cur].requests, <<>>}, r \in {conn[cur].replies, <<>>} :
         conn' = [conn EXCEPT ![cur] = [up |-> FALSE, requests |-> q, replies |-> r]]
    /\ UNCHANGED <<Client, Server>>

-----------------------------------------------------------------------------
(* handle_write *)

Goto(l, m) == pc' = l /\ me' = [m EXCEPT !.eintr = FALSE]
Ends(m)    == cur' = 0 /\ Goto("done", m)

\* The name server gives the server's address, and the server is reached; or not.
Begin ==
    /\ pc = "start"
    /\ \/ Opens /\ Goto("lock", me)
       \/ Ends(me) /\ UNCHANGED <<conn, opened>>
    /\ UNCHANGED <<Server, granted, since, answered>>

\* The reply to the first LOCK; recv is not tested, and when it fails the status is
\* still that of the name server's reply, which was SUCCESS.
LockReply ==
    /\ pc = "lock"
    /\ \/ /\ Recv("SUCCESS") /\ Took /\ Goto("typing", me)
          /\ granted' = cur /\ since' = <<>> /\ UNCHANGED cur
       \/ Recv("refused") /\ Took /\ Ends(me) /\ UNCHANGED <<granted, since>>
       \/ RecvFails /\ Goto("typing", me) /\ UNCHANGED <<conn, cur, granted, since>>
    /\ UNCHANGED <<Server, opened, answered>>

\* The user types a line, or ETIRW; with a signal pending the line is dropped and
\* perform_pending_unlock cancels the session.
TypeLine ==
    /\ pc = "typing" /\ ~me.sigint /\ me.line < MaxLines
    /\ Goto("send", [me EXCEPT !.line = @ + 1, !.retry = 0])
    /\ UNCHANGED <<conn, Server, cur, opened, granted, since, answered>>

TypeEtirw ==
    /\ pc = "typing" /\ ~me.sigint
    /\ Goto("unlock", me)
    /\ UNCHANGED <<conn, Server, cur, opened, granted, since, answered>>

PendingUnlock ==
    /\ pc = "typing" /\ me.sigint
    /\ \/ cur # 0 /\ Send(Ask("CANCEL")) /\ Goto("cancel", me) /\ UNCHANGED cur
       \/ cur = 0 /\ Ends(me) /\ UNCHANGED conn
    /\ UNCHANGED <<Server, opened, granted, since, answered>>

\* Mutant of Again: one attempt too many.
AgainOnce == me.retry <= MaxRetries

\* The loop that sends a line, as long as retry_count is below 5.
Again == me.retry < MaxRetries

SendLine ==
    /\ pc = "send" /\ Again /\ cur # 0
    /\ Send(Write(me.line))
    /\ Goto("await", me)
    /\ UNCHANGED <<Server, cur, opened, granted, since, answered>>

\* send or recv has failed: the connection is closed, and the name server is asked
\* again where the file is; each part of that may fail.
Reconnect ==
    /\ \/ pc = "send" /\ Again /\ cur = 0
       \/ pc = "await" /\ RecvFails
    /\ \/ Opens /\ Goto("relock", [me EXCEPT !.retry = @ + 1])
       \/ cur' = 0 /\ Goto("send", [me EXCEPT !.retry = @ + 1]) /\ UNCHANGED <<conn, opened>>
    /\ UNCHANGED <<Server, granted, since, answered>>

\* The reply to the LOCK over the new connection, which is closed again on failure.
Relocked ==
    /\ pc = "relock"
    /\ \/ /\ Recv("SUCCESS") /\ Took /\ UNCHANGED cur
          /\ granted' = cur /\ since' = <<>>
       \/ Recv("refused") /\ Took /\ cur' = 0 /\ UNCHANGED <<granted, since>>
       \/ RecvFails /\ cur' = 0 /\ UNCHANGED <<conn, granted, since>>
    /\ Goto("send", me)
    /\ UNCHANGED <<Server, opened, answered>>

\* The reply to a line.  A refused line ends the command, unless there were retries.
LineReply ==
    /\ pc = "await"
    /\ \/ /\ Recv("SUCCESS")
          /\ Goto("typing", [me EXCEPT !.count = @ + 1])
          /\ since' = Append(since, me.line)
       \/ /\ Recv("refused")
          /\ Goto(IF me.retry = 0 THEN "unlock" ELSE "typing", [me EXCEPT !.status = FALSE])
          /\ UNCHANGED since
    /\ Took
    /\ UNCHANGED <<Server, cur, opened, granted, answered>>

GiveUp ==
    /\ pc = "send" /\ ~Again
    /\ Goto("unlock", [me EXCEPT !.status = FALSE])
    /\ UNCHANGED <<conn, Server, cur, opened, granted, since, answered>>

\* UNLOCK if there is a connection, and "All writes completed successfully!" if any
\* was and none failed, whatever became of UNLOCK.
Final == [me EXCEPT !.said = me.count > 0 /\ me.status]

Unlock ==
    /\ pc = "unlock"
    /\ \/ cur # 0 /\ Send(Ask("UNLOCK")) /\ Goto("bye", me) /\ UNCHANGED cur
       \/ cur = 0 /\ Ends(Final) /\ UNCHANGED conn
    /\ UNCHANGED <<Server, opened, granted, since, answered>>

UnlockReply ==
    /\ pc = "bye"
    /\ \/ \E r \in Reply : Recv(r) /\ Took /\ answered' = r
       \/ RecvFails /\ UNCHANGED <<conn, answered>>
    /\ Ends(Final)
    /\ UNCHANGED <<Server, opened, granted, since>>

\* The reply to CANCEL, or to the LOCK whose reply the signal kept from being read.
CancelReply ==
    /\ pc = "cancel"
    /\ \/ \E r \in Reply : Recv(r) /\ Took
       \/ RecvFails /\ UNCHANGED conn
    /\ Ends(me)
    /\ UNCHANGED <<Server, opened, granted, since, answered>>

\* sigint_handler, which restarts no system call.
Sigint ==
    /\ pc \notin {"start", "done"} /\ ~me.sigint
    /\ me' = [me EXCEPT !.sigint = TRUE,
                        !.eintr = pc \in {"lock", "await", "relock", "bye", "cancel"}]
    /\ UNCHANGED <<pc, cur, opened, granted, since, answered, conn, Server>>

-----------------------------------------------------------------------------
(* handle_client_request *)

Answers(k, r) ==
    conn' = [conn EXCEPT ![k].requests = Tail(@),
                         ![k].replies = IF conn[k].up THEN Append(@, r) ELSE @]

\* Mutant of Refuses: without a reply.
RefusesSilently(k) == conn' = [conn EXCEPT ![k].requests = Tail(@)]

Refuses(k) == Answers(k, "refused")

\* Mutant of Free: whoever holds the sentence.
FreeForAll(u) == TRUE

\* lock_sentence_ss grants the sentence again to the user who holds it.
Free(u) == lock \in {NoUser, u}

\* Mutant of Fresh: a session that is open already is left as it is.
FreshOrOld == IF session.open THEN session ELSE [open |-> TRUE, words |-> <<>>]

\* start_write_session_ss copies the main file, over the words of a session that is
\* open already.
Fresh == [open |-> TRUE, words |-> <<>>]

\* The sentence is locked by somebody else, or is not there; or the session cannot be
\* opened or its copy not made: then the session goes, and the lock, also those that an
\* earlier LOCK got.
ServeLock(k) ==
    /\ \/ /\ Free(Me) /\ lock' = Me /\ session' = Fresh /\ Answers(k, "SUCCESS")
          /\ unseated' = FALSE
       \/ Refuses(k) /\ UNCHANGED <<lock, session, unseated>>
       \/ /\ Free(Me) /\ lock' = NoUser /\ session' = NoSession /\ Refuses(k)
          /\ unseated' = (k # cur)
    /\ UNCHANGED <<file, left, dropped>>

\* write_file_ss: refused without a session, or at a place that is not there.
ServeWrite(k, w) ==
    /\ \/ /\ session.open /\ Answers(k, "SUCCESS")
          /\ session' = [session EXCEPT !.words = Append(@, w)]
       \/ Refuses(k) /\ UNCHANGED session
    /\ UNCHANGED <<lock, file, left, unseated, dropped>>

\* unlock_sentence_ss
Released(k) == IF lock = Me THEN lock' = NoUser /\ Answers(k, "SUCCESS")
                            ELSE UNCHANGED lock /\ Refuses(k)

\* commit_write_session_ss, which is content without a session.  The queue is merged,
\* with what was left in it; or the commit is dropped, because its place is not in the
\* main file, or left, because the file cannot be written; or it cannot be queued, which
\* is the only failure it tells of.
ServeUnlock(k) ==
    /\ \/ file' = file \o left \o session.words /\ left' = <<>> /\ Released(k)
          /\ UNCHANGED dropped
       \/ /\ session.open /\ left' \in {left, left \o session.words} /\ Released(k)
          /\ dropped' = TRUE /\ UNCHANGED file
       \/ /\ session.open /\ lock' = (IF lock = Me THEN NoUser ELSE lock) /\ Refuses(k)
          /\ UNCHANGED <<file, left, dropped>>
    /\ session' = NoSession
    /\ UNCHANGED unseated

ServeCancel(k) ==
    /\ session' = NoSession /\ Released(k)
    /\ UNCHANGED <<file, left, unseated, dropped>>

Serve(k) ==
    /\ conn[k].requests # <<>>
    /\ LET r == Head(conn[k].requests) IN
         /\ \/ r.type = "LOCK" /\ ServeLock(k)
            \/ r.type = "WRITE" /\ ServeWrite(k, r.line)
            \/ r.type = "UNLOCK" /\ ServeUnlock(k)
            \/ r.type = "CANCEL" /\ ServeCancel(k)
         /\ stray' = (stray \/ (k # cur /\ r.type \in {"LOCK", "WRITE"}))
    /\ UNCHANGED <<Client, restarts>>

\* Another user locks the sentence and gives it up.
RivalLocks ==
    /\ lock # Rival /\ Free(Rival) /\ lock' = Rival
    /\ UNCHANGED <<Client, conn, session, file, left, restarts, Lost>>

RivalUnlocks ==
    /\ lock = Rival /\ lock' = NoUser
    /\ UNCHANGED <<Client, conn, session, file, left, restarts, Lost>>

\* Another user's UNLOCK runs the queue: what was left in it is merged, or dropped.
OthersProcess ==
    /\ left # <<>> /\ left' = <<>>
    /\ file' \in {file, file \o left}
    /\ UNCHANGED <<Client, conn, lock, session, restarts, Lost>>

\* The process ends and is started again: its memory and its connections are gone.
Restart ==
    /\ restarts < MaxRestarts /\ restarts' = restarts + 1
    /\ lock' = NoUser /\ session' = NoSession /\ left' = <<>>
    /\ \E keep \in BOOLEAN :
         conn' = [k \in Conn |-> [up |-> FALSE, requests |-> <<>>,
                                  replies |-> IF keep THEN conn[k].replies ELSE <<>>]]
    /\ UNCHANGED <<Client, file, Lost>>

-----------------------------------------------------------------------------
\* The steps of handle_write that do not wait for the user.
Acts == \/ Begin \/ LockReply \/ PendingUnlock \/ SendLine \/ Reconnect \/ Relocked
        \/ LineReply \/ GiveUp \/ Unlock \/ UnlockReply \/ CancelReply

Next == \/ Acts \/ TypeLine \/ TypeEtirw \/ Sigint \/ Lose
        \/ \E k \in Conn : Serve(k)
        \/ RivalLocks \/ RivalUnlocks \/ OthersProcess \/ Restart

Spec == Init /\ [][Next]_vars

\* The client runs and the server's threads are scheduled; nothing is assumed of
\* users, and nothing of the network.
FairSpec == Spec /\ WF_vars(Acts) /\ \A k \in Conn : WF_vars(Serve(k))

-----------------------------------------------------------------------------
TypeOK ==
    /\ pc \in {"start", "lock", "typing", "send", "await", "relock", "unlock", "bye",
               "cancel", "done"}
    /\ me \in [line : 0 .. MaxLines, retry : 0 .. MaxRetries, count : 0 .. MaxLines,
               status : BOOLEAN, said : BOOLEAN, sigint : BOOLEAN, eintr : BOOLEAN]
    /\ {cur, opened, granted} \subseteq 0 .. MaxConns
    /\ conn \in [Conn -> [up : BOOLEAN, requests : Seq(Request), replies : Seq(Reply)]]
    /\ lock \in {Me, Rival, NoUser}
    /\ session \in [open : BOOLEAN, words : Seq(Line)]
    /\ file \in Seq(Line) /\ left \in Seq(Line) /\ since \in Seq(Line)
    /\ restarts \in 0 .. MaxRestarts
    /\ answered \in Reply \cup {"none"}
    /\ stray \in BOOLEAN /\ unseated \in BOOLEAN /\ dropped \in BOOLEAN

\* As long as the connection holds over which the lock was granted, the user has
\* the sentence and his words of that time: a retried LOCK, a rival and requests
\* that come late over other connections take neither from him, but for one: a LOCK
\* that comes late and fails (lock_sentence_ss, start_write_session_ss, handle_write).
LockedWhileWriting ==
    ~unseated /\ cur # 0 /\ granted = cur /\ conn[cur].up
              /\ pc \in {"typing", "send", "await", "unlock"}
        => lock = Me /\ session.open

\* What a command commits are the words acknowledged since the lock was granted
\* last, each of them once however often its line was repeated, or nothing; if UNLOCK
\* was answered SUCCESS, they are committed, unless the server has dropped or left them
\* without a word, and the sentence is free; if UNLOCK was refused, nothing is
\* committed, nor will be.  The exception are requests served after the client has
\* given up on them (commit_write_session_ss, process_commit_queue, handle_write).
CommitIsSinceLock ==
    ~stray => /\ file \in {<<>>, since}
              /\ answered = "SUCCESS" => (file = since \/ dropped) /\ lock # Me
              /\ answered = "refused" => file = <<>> /\ left = <<>>

\* Every line is acknowledged, refused or given up, and the command ends once its
\* user has ended it: handle_write does not retry for ever.
EveryLineAnswered == pc # "typing" ~> pc \in {"typing", "done"}

\* "All writes completed successfully! (n write(s))": the n words are in the file.
AllMeansAll == me.said => Len(file) = me.count

\* A line that is repeated is not written twice.
NoWordTwice ==
    \A m, n \in DOMAIN session.words : session.words[m] = session.words[n] => m = n

\* When the command has ended and all its requests are served, the sentence is not
\* locked any more.
LockGivenBack ==
    pc = "done" /\ (\A k \in Conn : conn[k].requests = <<>>) => lock # Me
=============================================================================
