--------------------------- MODULE MCProductDriver ---------------------------
(***************************************************************************)
(* Instances of ProductDriver for TLC.                                     *)
(***************************************************************************)
EXTENDS ProductDriver

\* advance holds one PreparedTimeFinish.
OneEach == [r \in Ranks |-> 1]

\* Any accepted state a restart file may hold.
AllRestarts == (0 .. MaxTime) \X (0 .. MaxStep - 1)

\* The earliest state, and one step before the last that can be counted.
TwoRestarts == {<<0, 0>>, <<1, MaxStep - 1>>}
=============================================================================
