-------------------------- MODULE MCSentenceLocks --------------------------
(***************************************************************************)
(* Instances of SentenceLocks for TLC: alice can lose her connection a and *)
(* go on with a2, bob has the single connection b.                         *)
(***************************************************************************)
EXTENDS SentenceLocks, TLC

CONSTANTS alice, bob, a, a2, b

MCUserOf == (a :> alice) @@ (a2 :> alice) @@ (b :> bob)
InPlace  == {FALSE}
MayMove  == {FALSE, TRUE}
=============================================================================
