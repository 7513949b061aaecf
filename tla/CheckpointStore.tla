--------------------------- MODULE CheckpointStore ---------------------------
(***************************************************************************)
(* What the restart directory promises to a run that starts from it: there *)
(* is always one whole checkpoint to load (or none was ever published),    *)
(* and a crash falls back to a whole checkpoint that was published and not *)
(* yet replaced for good.                                                  *)
(***************************************************************************)
EXTENDS Naturals

CONSTANT Checkpoints   \* in the order in which they are written

VARIABLES
  held,      \* the checkpoint that load returns, 0 for none
  fallback   \* the checkpoints that load may return after a crash

Init ==
  /\ held = 0
  /\ fallback = {0}

Publish(c) ==
  /\ held < c /\ \A f \in fallback : f < c
  /\ held' = c
  /\ \E old \in SUBSET fallback : fallback' = old \cup {c}

Harden ==
  /\ held' = held
  /\ \E old \in SUBSET fallback : fallback' = old \cup {held}

Crash ==
  /\ held' \in fallback
  /\ fallback' = {held'}

Next == (\E c \in Checkpoints : Publish(c)) \/ Harden \/ Crash

Spec == Init /\ [][Next]_<<held, fallback>>
=============================================================================
