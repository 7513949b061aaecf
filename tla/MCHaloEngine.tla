---------------------------- MODULE MCHaloEngine ----------------------------
(***************************************************************************)
(* Instances of HaloEngine for TLC.                                        *)
(***************************************************************************)
EXTENDS HaloEngine

\* Two blocks along a periodic axis, periodic in another axis too.
TwoPeriodicBlocks == [r \in Ranks |-> Ranks]

\* The second round may find the engines poisoned by the first.
FiveRounds == <<"reenter", "exchange", "epoch", "reserve", "exchange">>
TwoRounds  == <<"exchange", "epoch">>
=============================================================================
