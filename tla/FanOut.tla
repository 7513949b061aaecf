------------------------------- MODULE FanOut -------------------------------
(***************************************************************************)
(* What a thread team promises to its callers: one job at a time, which    *)
(* every worker begins and ends exactly once between the start of the job  *)
(* and its return, and every job that starts returns.  The job's context   *)
(* lives on the caller's stack, so no worker may touch it outside.         *)
(***************************************************************************)
CONSTANTS Workers, Callers, NoJob

VARIABLES
  job,    \* the caller whose job is running, or NoJob
  stage   \* what each worker still has to do for it

Init ==
  /\ job = NoJob
  /\ stage = [w \in Workers |-> "done"]

Start(c) ==
  /\ job = NoJob
  /\ job' = c
  /\ stage' = [w \in Workers |-> "todo"]

Begin(w) ==
  /\ stage[w] = "todo"
  /\ stage' = [stage EXCEPT ![w] = "running"]
  /\ UNCHANGED job

End(w) ==
  /\ stage[w] = "running"
  /\ stage' = [stage EXCEPT ![w] = "done"]
  /\ UNCHANGED job

Finish ==
  /\ job # NoJob
  /\ \A w \in Workers : stage[w] = "done"
  /\ job' = NoJob
  /\ UNCHANGED stage

Next ==
  \/ \E c \in Callers : Start(c)
  \/ \E w \in Workers : Begin(w) \/ End(w)
  \/ Finish

Spec == Init /\ [][Next]_<<job, stage>>

\* A job that has started is worked on and returns.
FairSpec ==
  /\ Spec
  /\ \A w \in Workers : WF_<<job, stage>>(Begin(w) \/ End(w))
  /\ WF_<<job, stage>>(Finish)
=============================================================================
