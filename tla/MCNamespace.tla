---------------------------- MODULE MCNamespace ----------------------------
(***************************************************************************)
(* Instances of Namespace for TLC: two users and one file, which two       *)
(* servers may hold, in the root or in the folder "/drafts/old".           *)
(***************************************************************************)
EXTENDS Namespace

CONSTANTS alice, bob, report, root, drafts, old

TwoDeep == [d \in {root, old} |-> IF d = old THEN {drafts, old} ELSE {}]
=============================================================================
