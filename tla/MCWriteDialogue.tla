--------------------------- MODULE MCWriteDialogue ---------------------------
(***************************************************************************)
(* Instances of WriteDialogue for TLC: the configurations give all         *)
(* constants.                                                              *)
(***************************************************************************)
EXTENDS WriteDialogue, TLC

=============================================================================
