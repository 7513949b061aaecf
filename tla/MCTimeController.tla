-------------------------- MODULE MCTimeController --------------------------
(***************************************************************************)
(* Instances of TimeController for TLC.                                    *)
(***************************************************************************)
EXTENDS TimeController

\* One caller keeps a certificate beside the one it is to be given next.
OneKeepsTwo == [r \in Ranks |-> IF r = 0 THEN 2 ELSE 1]

\* One step before the last one that can be counted.
LateRestart == {<<1, MaxStep - 1>>}
=============================================================================
