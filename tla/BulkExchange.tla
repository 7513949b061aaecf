---------------------------- MODULE BulkExchange ----------------------------
(***************************************************************************)
(* What a halo engine promises to its callers: bulk-synchronous rounds.    *)
(* No rank leaves a round before every rank has entered it, all ranks      *)
(* leave it with one outcome, and a rank holds a ghost certificate exactly *)
(* when the last exchange it left was published.  A reservation replaces   *)
(* the engine, and its certificate, only if it succeeds.                   *)
(***************************************************************************)
EXTENDS Integers, Sequences

CONSTANTS Ranks, Plan, Failures

VARIABLES
  inside,    \* is the rank in a round?
  outcomes,  \* the outcomes of the rounds the rank has left
  certified  \* does the rank hold a certificate for its ghosts?

Init ==
  /\ inside = [r \in Ranks |-> FALSE]
  /\ outcomes = [r \in Ranks |-> <<>>]
  /\ certified = [r \in Ranks |-> FALSE]

Entered(r) == Len(outcomes[r]) + (IF inside[r] THEN 1 ELSE 0)

Enter(r) ==
  /\ ~inside[r]
  /\ Len(outcomes[r]) < Len(Plan)
  /\ inside' = [inside EXCEPT ![r] = TRUE]
  /\ certified' = [certified EXCEPT ![r] =
       @ /\ Plan[Len(outcomes[r]) + 1] = "reserve"]
  /\ UNCHANGED outcomes

Leave(r) ==
  LET round   == Len(outcomes[r]) + 1
      success == IF Plan[round] = "reserve" THEN "reserved" ELSE "published"
  IN  /\ inside[r]
      /\ \A q \in Ranks : Entered(q) >= round
      /\ \E outcome \in Failures \cup {success} :
           /\ \A q \in Ranks :
                Len(outcomes[q]) >= round => outcomes[q][round] = outcome
           /\ outcomes' = [outcomes EXCEPT ![r] = Append(@, outcome)]
           /\ certified' = [certified EXCEPT ![r] =
                IF outcome \in Failures THEN @ ELSE success = "published"]
      /\ inside' = [inside EXCEPT ![r] = FALSE]

Next == \E r \in Ranks : Enter(r) \/ Leave(r)

Spec == Init /\ [][Next]_<<inside, outcomes, certified>>
=============================================================================
