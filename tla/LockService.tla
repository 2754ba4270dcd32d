---------------------------- MODULE LockService ----------------------------
(***************************************************************************)
(* What the sentence locks of a storage server promise to its users, free  *)
(* of connections, memory and mutexes.  A sentence has at most one owner;  *)
(* a user may be told that he has a sentence only while he owns it; and a  *)
(* sentence changes hands only after its owner has given it up.            *)
(*                                                                         *)
(* SentenceLocks implements this specification (refinement mapping there). *)
(***************************************************************************)

CONSTANTS User,      \* usernames
          NoUser,    \* the empty locked_by
          Sentence   \* the sentence indices of one file

VARIABLES owner,     \* owner[i]: the user recorded for sentence i, or NoUser
          granted    \* pairs <<u, i>>: u was told SUCCESS for sentence i

vars == <<owner, granted>>

Init == /\ owner = [i \in Sentence |-> NoUser]
        /\ granted = {}

\* Sentence i is recorded for u: it was free, or u had it already.
Acquire(u, i) == /\ owner[i] \in {NoUser, u}
                 /\ owner' = [owner EXCEPT ![i] = u]
                 /\ UNCHANGED granted

\* u is told about a sentence that is recorded for him.
Tell(u, i) == /\ owner[i] = u
              /\ granted' = granted \cup {<<u, i>>}
              /\ UNCHANGED owner

\* u gives up what he was told about the sentences of S.
GiveUp(u, S) == /\ granted' = granted \ ({u} \X S)
                /\ UNCHANGED owner

\* The record is cleared, never behind the back of a user who relies on it.
Free(u, i) == /\ owner[i] = u
              /\ <<u, i>> \notin granted
              /\ owner' = [owner EXCEPT ![i] = NoUser]
              /\ UNCHANGED granted

Next == \E u \in User :
          \/ \E i \in Sentence : Acquire(u, i) \/ Tell(u, i) \/ Free(u, i)
          \/ \E S \in SUBSET Sentence : GiveUp(u, S)

Spec == Init /\ [][Next]_vars
=============================================================================
