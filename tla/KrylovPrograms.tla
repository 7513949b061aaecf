-------------------------- MODULE KrylovPrograms ----------------------------
(***************************************************************************)
(* The Krylov solvers as programs of collective calls: one record of       *)
(* labelled instructions for each C++ function.  A label that names a      *)
(* termination ends the solve with it.  "operator", "preconditioner" and   *)
(* "audit" are the callbacks of the solve.                                 *)
(*                                                                         *)
(* A global value of 1 stands for the first outcome of the test that the   *)
(* code makes on it: a norm that is zero or within the tolerance, a scalar *)
(* that has broken down, an audit that accepts.                            *)
(***************************************************************************)
EXTENDS CollectiveProgram, TLC

\* consensus_contract compares what the ranks mean to solve.
Contract(ok, fail) == Collective("contract", "reduction", 0, 1, ok, fail)

\* A check of the rank's own, after which it leaves the function or goes on to
\* the next call: there is no agreement in between.  An option names each place
\* that has such a check, and a program without the option is one in which the
\* check fails on no rank.
LoneCheck == [
  alone        |-> Work("alone_status"),
  alone_status |-> Test("ok", "fail")]

PrepareSolve == [
  prepare          |-> Work("prepare_contract"),
  prepare_contract |-> Contract("prepare_batch", "fail"),
  prepare_batch    |-> Work("prepare_agree"),
  prepare_agree    |-> Consensus("ok", "fail")]

GlobalDot == [
  dot        |-> Work("dot_sum"),
  dot_sum    |-> CheckedSum(1, 4, "dot_finite", "fail"),
  dot_finite |-> Branch(<<"ok", "ok", "ok", "fail">>)]

\* The squares are summed only if the scale is not zero.
GlobalNorm == [
  norm         |-> Work("norm_scale"),
  norm_scale   |-> CheckedMax(1, 2, "norm_zero", "fail"),
  norm_zero    |-> Branch(<<"ok", "norm_squares">>),
  norm_squares |-> CheckedSum(1, 4, "norm_finite", "fail"),
  norm_finite  |-> Branch(<<"ok", "ok", "ok", "fail">>)]

\* Mutant of ApplyOperator: every failure ends the solve at once.
ApplyOperatorAtOnce == [
  apply        |-> Call("operator", "apply_status", "apply_status"),
  apply_status |-> FromOperator("fail", "apply_own"),
  apply_own    |-> Test("ok", "fail")]

\* A failure on which the operator has agreed ends the solve at once; any
\* other is carried to the next reduction.
ApplyOperator == [
  apply        |-> Call("operator", "apply_status", "apply_status"),
  apply_status |-> FromOperator("fail", "pass")]

ComputeTrueResidual == [residual |-> Call("apply", "norm", "fail")]

\* What the callback returns is agreed by itself, or still to be agreed.
ApplyPreconditioner == [
  precondition       |-> Call("preconditioner", "precondition_scope",
                              "precondition_scope"),
  precondition_scope |-> Given("collective", "precondition_trust",
                               "precondition_agree"),
  precondition_trust |-> Test("ok", "fail"),
  precondition_agree |-> Consensus("ok", "fail")]

\* Mutant of CollectiveAccount: each rank decides for itself.
AccountLocally == [
  account       |-> Set("failed", FALSE, "account_fits"),
  account_fits  |-> Work("account_agree"),
  account_agree |-> Test("ok", "fail")]

\* The account has a status of its own.
CollectiveAccount == [
  account       |-> Set("failed", FALSE, "account_fits"),
  account_fits  |-> Work("account_agree"),
  account_agree |-> Consensus("ok", "fail")]

\* Mutant of FinishFailure: the rank is read after the account.
FinishFailureLate == [
  failure         |-> Iterated("failure_call", "failure_end"),
  failure_call    |-> Call("account", "failure_end", "failure_lost"),
  failure_lost    |-> Set("termination", "invalid_plan", "failure_end"),
  failure_end     |-> KeepRank("fail")]

\* The failing rank is kept while the iterations are accounted.
FinishFailure == [
  failure         |-> KeepRank("failure_account"),
  failure_account |-> Iterated("failure_call", "fail"),
  failure_call    |-> Call("account", "failure_end", "failure_lost"),
  failure_lost    |-> Set("termination", "invalid_plan", "failure_end"),
  failure_end     |-> KeepRank("fail")]

\* Without resources there is nothing to account.
InvalidResult == [
  invalid     |-> Set("termination", "invalid_plan", "invalid_end"),
  invalid_end |-> KeepRank("fail")]

FinishSuccess == [
  success      |-> Call("account", "success_copy", "invalid"),
  success_copy |-> Set("solution", "new", "success_end"),
  success_end  |-> Set("termination", "converged", "ok")]

ZeroRhs == [
  zero     |-> Set("solution", "new", "zero_end"),
  zero_end |-> Set("termination", "zero_rhs", "ok")]

\* The terminations of finish_failure.
FailAs(termination) == Set("termination", termination, "failure")
Terminations == [
  non_finite                |-> FailAs("non_finite"),
  operator_failure          |-> FailAs("operator_failure"),
  preconditioner_failure    |-> FailAs("preconditioner_failure"),
  convergence_audit_failure |-> FailAs("convergence_audit_failure"),
  breakdown                 |-> FailAs("breakdown"),
  maximum_iterations        |-> FailAs("maximum_iterations"),
  invalid_plan              |-> FailAs("invalid_plan")]

StartPcg ==
  [pcg                |-> Call("prepare", "pcg_norm", "invalid"),
   pcg_norm           |-> Call("norm", "pcg_scale", "non_finite"),
   pcg_scale          |-> Branch(<<"pcg_zero", "pcg_guess">>),
   pcg_zero           |-> Consensus("pcg_zero_audited", "invalid"),
   pcg_zero_audited   |-> Given("audit", "pcg_zero_residual", "pcg_zero_account"),
   pcg_zero_residual  |-> Consensus("pcg_zero_audit", "convergence_audit_failure"),
   pcg_zero_audit     |-> Call("audit", "pcg_zero_accepted",
                               "convergence_audit_failure"),
   pcg_zero_accepted  |-> Branch(<<"pcg_zero_account", "convergence_audit_failure">>),
   pcg_zero_account   |-> Call("account", "zero", "invalid"),
   pcg_guess          |-> Work("pcg_guess_agree"),
   pcg_guess_agree    |-> Consensus("pcg_residual", "invalid_plan"),
   pcg_residual       |-> Call("residual", "pcg_first", "operator_failure"),
   pcg_first          |-> Branch(<<"pcg_first_audit", "pcg_precondition">>),
   pcg_first_audit    |-> Call("audit", "pcg_first_accepted",
                               "convergence_audit_failure"),
   pcg_first_accepted |-> Branch(<<"success", "pcg_precondition">>)]

IteratePcg ==
  [pcg_precondition   |-> Call("preconditioner", "pcg_rho", "pcg_rho"),
   pcg_rho            |-> Call("dot", "pcg_positive", "preconditioner_failure"),
   pcg_positive       |-> Branch(<<"breakdown", "pcg_direction">>),
   pcg_direction      |-> Work("pcg_direction_agree"),
   pcg_direction_agree |-> Consensus("pcg_loop", "non_finite"),
   pcg_loop           |-> Call("apply", "pcg_curvature", "operator_failure"),
   pcg_curvature      |-> Call("dot", "pcg_alpha", "operator_failure"),
   pcg_alpha          |-> Branch(<<"breakdown", "pcg_update">>),
   pcg_update         |-> Iterate("pcg_recursive"),
   pcg_recursive      |-> Call("norm", "pcg_limit", "non_finite"),
   pcg_limit          |-> Limit("pcg_verify", "pcg_interval"),
   pcg_interval       |-> Branch(<<"pcg_verify", "pcg_precondition">>),
   pcg_verify         |-> Call("residual", "pcg_verified", "operator_failure"),
   pcg_verified       |-> Branch(<<"pcg_audit", "pcg_last">>),
   pcg_audit          |-> Call("audit", "pcg_accepted",
                               "convergence_audit_failure"),
   pcg_accepted       |-> Branch(<<"success", "pcg_last">>),
   pcg_last           |-> Limit("maximum_iterations", "pcg_precondition")]

StartBicgstab ==
  [bicgstab          |-> Call("prepare", "bicg_norm", "invalid"),
   bicg_norm         |-> Call("norm", "bicg_scale", "non_finite"),
   bicg_scale        |-> Branch(<<"bicg_zero", "bicg_guess">>),
   bicg_zero         |-> Consensus("bicg_zero_account", "bicg_zero_failed"),
   bicg_zero_failed  |-> Call("account", "invalid", "invalid"),
   bicg_zero_account |-> Call("account", "bicg_zero_audited", "invalid"),
   bicg_zero_audited |-> Given("audit", "bicg_zero_residual", "zero"),
   bicg_zero_residual |-> Consensus("bicg_zero_audit", "convergence_audit_failure"),
   bicg_zero_audit   |-> Call("audit", "bicg_zero_accepted",
                              "convergence_audit_failure"),
   bicg_zero_accepted |-> Branch(<<"zero", "convergence_audit_failure">>),
   bicg_guess        |-> Work("bicg_guess_agree"),
   bicg_guess_agree  |-> Consensus("bicg_residual", "invalid_plan"),
   bicg_residual     |-> Call("residual", "bicg_first", "operator_failure"),
   bicg_first        |-> Branch(<<"bicg_first_audit", "bicg_shadow">>),
   bicg_first_audit  |-> Call("audit", "bicg_first_accepted",
                              "convergence_audit_failure"),
   bicg_first_accepted |-> Branch(<<"success", "bicg_shadow">>),
   bicg_shadow       |-> Work("bicg_shadow_agree"),
   bicg_shadow_agree |-> Consensus("bicg_loop", "non_finite")]

\* The reduction of r_hat.r, computed now or with the last update of r, and
\* the step along the search direction.
SearchBicgstab ==
  [bicg_loop         |-> Call("dot", "bicg_rho", "non_finite"),
   bicg_rho          |-> Branch(<<"breakdown", "bicg_direction">>),
   bicg_direction    |-> Work("bicg_direction_agree"),
   bicg_direction_agree |-> Consensus("bicg_hat", "non_finite"),
   bicg_hat          |-> Call("precondition", "bicg_v", "preconditioner_failure"),
   bicg_v            |-> Call("apply", "bicg_denominator", "operator_failure"),
   bicg_denominator  |-> Call("dot", "bicg_alpha", "operator_failure"),
   bicg_alpha        |-> Branch(<<"breakdown", "bicg_s">>)]

\* The stabilising step, and the verification of the residual.
StabiliseBicgstab ==
  [bicg_s            |-> Given("recurrence", "bicg_form", "bicg_s_norm"),
   bicg_s_norm       |-> Call("norm", "bicg_early", "non_finite"),
   bicg_early        |-> Branch(<<"bicg_early_step", "bicg_s_hat">>),
   bicg_early_step   |-> Iterate("bicg_verify"),
   bicg_s_hat        |-> Call("precondition", "bicg_t", "preconditioner_failure"),
   bicg_t            |-> Call("apply", "bicg_dots", "operator_failure"),
   bicg_dots         |-> Work("bicg_pair"),
   bicg_pair         |-> CheckedSum(2, 2, "bicg_omega", "operator_failure"),
   bicg_omega        |-> Branch(<<"breakdown", "bicg_update">>),
   bicg_update       |-> Iterate("bicg_recursive"),
   bicg_recursive    |-> Call("norm", "bicg_done", "non_finite"),
   bicg_done         |-> Given("recurrence", "bicg_stop", "bicg_limit"),
   bicg_limit        |-> Limit("bicg_verify", "bicg_interval"),
   bicg_interval     |-> Branch(<<"bicg_verify", "bicg_loop">>),
   bicg_verify       |-> Call("residual", "bicg_verified", "operator_failure"),
   bicg_verified     |-> Branch(<<"bicg_audit", "bicg_last">>),
   bicg_audit        |-> Call("audit", "bicg_accepted",
                              "convergence_audit_failure"),
   bicg_accepted     |-> Branch(<<"success", "bicg_last">>),
   bicg_last         |-> Limit("maximum_iterations", "bicg_shadow")]

\* control.bounded_recurrence: s has no norm, so a failure of its formation is
\* pending when the second preconditioner is due.
BoundedRecurrence == [
  bicg_form    |-> Work("bicg_pending"),
  bicg_pending |-> Given("collective", "bicg_agree", "bicg_ready"),
  bicg_agree   |-> Consensus("bicg_s_hat", "preconditioner_failure"),
  bicg_ready   |-> Test("bicg_s_hat", "bicg_skip"),
  bicg_skip    |-> Consensus("bicg_t", "preconditioner_failure"),
  bicg_stop    |-> Branch(<<"bicg_observe", "bicg_stop_last">>),
  bicg_observe |-> Call("residual", "success", "operator_failure"),
  bicg_stop_last |-> Limit("bicg_capped", "bicg_loop"),
  bicg_capped  |-> Call("residual", "bicg_publish", "operator_failure"),
  bicg_publish |-> Call("success", "bicg_bound", "fail"),
  bicg_bound   |-> Set("termination", "maximum_iterations", "ok")]

-----------------------------------------------------------------------------
\* The options of a session of FGMRES exclude one another: "capture" records
\* the corrections of each cycle, "projection" uses those of an earlier solve
\* once, "guard" only protects the solve from a bad initial guess.
StartFgmres ==
  [fgmres           |-> Call("prepare", "fg_norm", "invalid"),
   fg_norm          |-> Call("norm", "fg_scale", "non_finite"),
   fg_scale         |-> Branch(<<"fg_zero", "fg_guess">>),
   fg_zero          |-> Consensus("fg_zero_residual", "invalid_plan"),
   fg_zero_residual |-> Consensus("fg_zero_audit", "convergence_audit_failure"),
   fg_zero_audit    |-> Call("audit", "fg_zero_accepted",
                             "convergence_audit_failure"),
   fg_zero_accepted |-> Branch(<<"fg_zero_skip", "convergence_audit_failure">>),
   fg_zero_skip     |-> Given("projection", "fg_zero_consume", "fg_zero_account"),
   fg_zero_consume  |-> Drop("projection", "fg_zero_agree"),
   fg_zero_agree    |-> Consensus("fg_zero_account", "invalid_plan"),
   fg_zero_account  |-> Call("account", "zero", "invalid_plan"),
   fg_guess         |-> Work("fg_guess_agree"),
   fg_guess_agree   |-> Consensus("fg_residual", "invalid_plan"),
   fg_residual      |-> Call("residual", "fg_first", "operator_failure"),
   fg_first         |-> Given("capture", "fg_guarded", "fg_first_guard"),
   fg_first_guard   |-> Given("guard", "fg_guarded", "fg_unguarded"),
   fg_unguarded     |-> Branch(<<"fg_converged", "fg_start">>),
   fg_guarded       |-> Branch(<<"fg_converged", "fg_start", "fg_reset">>),
   \* The zero guess; its status is agreed later, if it has not converged.
   fg_reset         |-> Work("fg_reset_small"),
   fg_reset_small   |-> Given("small", "fg_reset_agree", "fg_start"),
   fg_reset_agree   |-> Consensus("fg_converged", "invalid_plan"),
   fg_converged     |-> Given("projection", "fg_consume", "fg_audit"),
   fg_consume       |-> Drop("projection", "fg_consume_agree"),
   fg_consume_agree |-> Consensus("fg_audit", "invalid_plan"),
   fg_audit         |-> Call("audit", "fg_accepted", "convergence_audit_failure"),
   fg_accepted      |-> Branch(<<"success", "fg_start">>),
   fg_start         |-> Given("projection", "fg_project", "fg_guard")]

\* What the session asks for before the first cycle and before each.
SessionFgmres ==
  [fg_project       |-> Call("project", "fg_projected", "operator_failure"),
   fg_projected     |-> Branch(<<"fg_projected_audit", "fg_guard">>),
   fg_projected_audit |-> Call("audit", "fg_projected_accepted",
                               "convergence_audit_failure"),
   fg_projected_accepted |-> Branch(<<"success", "fg_guard">>),
   fg_guard         |-> Given("guard", "fg_guard_agree", "fg_cycle"),
   fg_guard_agree   |-> Consensus("fg_cycle", "invalid_plan"),
   fg_cycle         |-> Given("capture", "fg_capture", "fg_seed"),
   fg_capture       |-> Work("fg_capture_agree"),
   fg_capture_agree |-> Consensus("fg_seed", "invalid_plan")]

\* A new column of the basis.
ExpandFgmres ==
  [fg_seed          |-> Take("first column", "fg_seed_scale"),
   fg_seed_scale    |-> Work("fg_seed_agree"),
   fg_seed_agree    |-> Consensus("fg_column", "non_finite"),
   fg_column        |-> Call("precondition", "fg_operator",
                             "preconditioner_failure"),
   fg_operator      |-> Call("apply", "fg_shift", "operator_failure"),
   fg_shift         |-> Work("fg_multidot"),
   \* The squared norm that the recurrence gives for the new column is unsafe,
   \* or zero, or tells whether the cycle ends and the residual is verified.
   fg_multidot      |-> CheckedSum(2, 6, "fg_recurrence", "operator_failure"),
   fg_recurrence    |-> Branch(<<"fg_unsafe", "fg_explicit", "breakdown",
                                 "fg_end", "fg_verify", "fg_continue">>)]

\* An unsafe column is discarded, or corrected and measured if it is the first.
CorrectFgmres ==
  [fg_unsafe        |-> Given("first column", "fg_explicit", "fg_discard"),
   fg_discard       |-> Iterate("fg_solution"),
   fg_explicit      |-> Work("fg_correct"),
   fg_correct       |-> CheckedSum(1, 1, "fg_measure", "invalid_plan"),
   fg_measure       |-> Call("norm", "fg_measured", "invalid_plan"),
   fg_measured      |-> Branch(<<"fg_end", "fg_verify", "fg_continue">>),
   fg_end           |-> Iterate("fg_solution"),
   fg_continue      |-> Iterate("fg_continue_last"),
   fg_continue_last |-> Limit("fg_solution", "fg_next"),
   fg_next          |-> Drop("first column", "fg_next_basis"),
   fg_next_basis    |-> Work("fg_next_agree"),
   fg_next_agree    |-> Consensus("fg_column", "non_finite")]

\* The solution within a cycle, tried when the recurrence says it is good.
VerifyFgmres ==
  [fg_verify        |-> Iterate("fg_verify_last"),
   fg_verify_last   |-> Limit("fg_solution", "fg_trial"),
   fg_trial         |-> Work("fg_trial_agree"),
   fg_trial_agree   |-> Consensus("fg_interior", "non_finite"),
   fg_interior      |-> Call("residual", "fg_interior_small",
                             "operator_failure"),
   fg_interior_small |-> Branch(<<"fg_interior_audit", "fg_column">>),
   fg_interior_audit |-> Call("audit", "fg_interior_accepted",
                              "convergence_audit_failure"),
   fg_interior_accepted |-> Branch(<<"fg_interior_publish", "fg_column">>),
   fg_interior_publish  |-> Call("publish", "success", "invalid_plan")]

\* The residual measures the solution that was formed, whatever its status.
RestartFgmres ==
  [fg_solution      |-> Call("residual", "fg_publish", "operator_failure"),
   fg_publish       |-> Call("publish", "fg_small", "invalid_plan"),
   fg_small         |-> Branch(<<"fg_last_audit", "fg_restart">>),
   fg_last_audit    |-> Call("audit", "fg_last_accepted",
                             "convergence_audit_failure"),
   fg_last_accepted |-> Branch(<<"success", "fg_restart">>),
   fg_restart       |-> Limit("maximum_iterations", "fg_progress"),
   fg_progress      |-> Branch(<<"fg_cycle", "fg_cycle", "breakdown">>)]

\* apply_recycle_projection of two directions: their images are made
\* orthonormal, and the correction is admitted if it lowers the residual.  A
\* projection is used once, and the rank that failed in it is kept.
Project == [
  project            |-> Call("project_image", "project_other", "project_finish"),
  project_other      |-> Call("project_image", "project_rank", "project_finish"),
  project_image      |-> Call("apply", "norm", "fail"),
  project_rank       |-> Branch(<<"project_none", "project_first">>),
  project_first      |-> Work("project_first_agree"),
  project_first_agree |-> Consensus("project_dots", "project_finish"),
  project_dots       |-> Work("project_gram"),
  project_gram       |-> CheckedSum(1, 1, "project_again", "project_finish"),
  project_again      |-> Work("project_gram_again"),
  project_gram_again |-> CheckedSum(1, 1, "project_second", "project_finish"),
  project_second     |-> Call("norm", "project_keeps", "project_finish"),
  project_keeps      |-> Branch(<<"project_alpha", "project_unit">>),
  project_unit       |-> Work("project_unit_agree"),
  project_unit_agree |-> Consensus("project_alpha", "project_finish"),
  project_alpha      |-> Work("project_alpha_sum"),
  project_alpha_sum  |-> CheckedSum(2, 1, "project_candidate", "project_finish"),
  project_candidate  |-> Work("project_candidate_agree"),
  project_candidate_agree |-> Consensus("project_true", "project_finish"),
  project_true       |-> Call("project_image", "project_admits",
                              "project_finish"),
  project_admits     |-> Branch(<<"project_admit", "project_admit",
                                  "project_finish">>),
  project_admit      |-> Work("project_admit_agree"),
  project_admit_agree |-> Consensus("project_finish", "project_finish"),
  project_none       |-> Set("value", 3, "project_finish"),
  project_finish     |-> Drop("projection", "project_keep"),
  project_keep       |-> KeepRank("project_consumed"),
  project_consumed   |-> Consensus("ok", "fail")]

\* publish_recycle_cycle: is the correction of this cycle zero?
PublishCycle == [
  publish            |-> Given("capture", "publish_difference", "ok"),
  publish_difference |-> Work("publish_nonzero"),
  publish_nonzero    |-> CheckedMax(1, 1, "ok", "fail")]
=============================================================================
