----------------------------- MODULE MCLRUCache -----------------------------
(***************************************************************************)
(* Instances of LRUCache for TLC: two keys collide at the last slot, so    *)
(* that probing goes round the end of the table, and spill to the slot of  *)
(* the third; a fourth fills the table.                                    *)
(***************************************************************************)
EXTENDS LRUCache, TLC

CONSTANTS report, letter, plan, memo

MCHash == (report :> Capacity - 1) @@ (letter :> Capacity - 1) @@ (plan :> 0) @@ (memo :> 1)
=============================================================================
