-------------------------- MODULE MCClientSessions --------------------------
(***************************************************************************)
(* Instances of ClientSessions for TLC: three users, one of whom connects  *)
(* twice, with room for two of them at a time.                             *)
(***************************************************************************)
EXTENDS ClientSessions, TLC

CONSTANTS alice, bob, carol

MCVisits == alice :> 1 @@ bob :> 2 @@ carol :> 1

=============================================================================
