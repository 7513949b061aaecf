------------------------ MODULE MCAttemptTransaction ------------------------
(***************************************************************************)
(* Instances of AttemptTransaction for TLC.                                *)
(***************************************************************************)
EXTENDS AttemptTransaction
=============================================================================
