----------------------------- MODULE TimeLevels -----------------------------
(***************************************************************************)
(* What a rank's state storage promises to everything that reads committed *)
(* data (kernels, output, restart): two committed time levels, each a      *)
(* revision per field.  They change only together, when a step is          *)
(* accepted: the newer level becomes the older one and is replaced by a    *)
(* level in which every field has a strictly newer revision.  Nothing an   *)
(* attempt does before its acceptance is visible.                          *)
(***************************************************************************)
EXTENDS Integers

CONSTANTS Ranks, Fields

VARIABLES
  newest,   \* StateRole::accepted_n: revision of each field, per rank
  older     \* StateRole::accepted_n_minus_one

Levels == [Fields -> Nat]

Init ==
  /\ newest \in [Ranks -> Levels]
  /\ older \in [Ranks -> Levels]

Accept(r, level) ==
  /\ \A f \in Fields : level[f] > newest[r][f]
  /\ older' = [older EXCEPT ![r] = newest[r]]
  /\ newest' = [newest EXCEPT ![r] = level]

\* The accepted level is the one found in the next state.
Next == \E r \in Ranks : newest'[r] \in Levels /\ Accept(r, newest'[r])

Spec == Init /\ [][Next]_<<newest, older>>
=============================================================================
