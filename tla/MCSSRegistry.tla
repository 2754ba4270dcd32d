---------------------------- MODULE MCSSRegistry ----------------------------
(***************************************************************************)
(* Instances of SSRegistry for TLC: one server that is started twice,      *)
(* alone or with a second server that is started once.                     *)
(***************************************************************************)
EXTENDS SSRegistry, TLC

CONSTANTS s1, s2

MCTwice   == s1 :> 2
MCRestart == s1 :> 2 @@ s2 :> 1

=============================================================================
