------------------------ MODULE MCRestartPublication -------------------------
(***************************************************************************)
(* Instances of RestartPublication for TLC.                                *)
(***************************************************************************)
EXTENDS RestartPublication
=============================================================================
