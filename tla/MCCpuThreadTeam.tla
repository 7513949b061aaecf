--------------------------- MODULE MCCpuThreadTeam ---------------------------
(***************************************************************************)
(* Instances of CpuThreadTeam for TLC.                                     *)
(***************************************************************************)
EXTENDS CpuThreadTeam
=============================================================================
