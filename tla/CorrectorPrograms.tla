-------------------------- MODULE CorrectorPrograms --------------------------
(***************************************************************************)
(* The two corrections of an attempt outside the candidate scope: each     *)
(* refreshes the coupler, assembles and solves the system of pressure and  *)
(* energy, and corrects the state at once.  "corrected" is the epoch from  *)
(* there to the copy of state and fluxes, which no rank may do alone.      *)
(***************************************************************************)
EXTENDS PredictorPrograms

\* refresh_impl: after the agreement on the revalidated boundary each rank closes
\* the coupler by itself, and constrains it at the immersed boundary.
RefreshCoupler == [
  coupler              |-> Work("coupler_exchange"),
  coupler_exchange     |-> Exchange("coupler_tokens", "fail"),
  coupler_tokens       |-> Work("coupler_tokens_agree"),
  coupler_tokens_agree |-> RawConsensus("coupler_close", "fail"),
  coupler_close        |-> Given("coupler closure", "coupler_alone",
                                 "coupler_outlet"),
  coupler_alone        |-> Call("alone", "coupler_outlet", "fail"),
  coupler_outlet       |-> Given("outlet", "coupler_backflow",
                                 "coupler_immersed"),
  coupler_backflow     |-> Work("coupler_backflow_agree"),
  coupler_backflow_agree |-> RawConsensus("coupler_immersed", "fail"),
  coupler_immersed     |-> Given("coupler constraint", "alone", "ok")]

\* assemble_pressure_energy_residual
AssembleResidual == [
  residual_flux        |-> Work("residual_flux_agree"),
  residual_flux_agree  |-> Consensus("residual_energy", "residual_agree"),
  residual_energy      |-> Call("energy", "residual_freeze", "residual_agree"),
  residual_freeze      |-> Work("residual_agree"),
  residual_agree       |-> Consensus("ok", "fail")]

\* execute_attempt: the multigrid plan is compiled for the first correction
\* of the first attempt ("uncompiled").
CompilePressure == [
  multigrid          |-> Given("uncompiled", "multigrid_spec", "ok"),
  multigrid_spec     |-> Given("multigrid spec", "multigrid_alone",
                               "multigrid_compile"),
  multigrid_alone    |-> Call("alone", "multigrid_compile", "fail"),
  multigrid_compile  |-> Call("mg_compile", "multigrid_compiled", "fail"),
  multigrid_compiled |-> Drop("uncompiled", "ok")]

\* form_pressure_energy_blocks, after the mask of the solid cells
FormBlocks == [
  blocks       |-> Given("solid mask", "blocks_mask", "blocks_form"),
  blocks_mask  |-> Call("alone", "blocks_form", "fail"),
  blocks_form  |-> Work("blocks_agree"),
  blocks_agree |-> Consensus("ok", "fail")]

\* preflight_pressure_energy_candidate, after the revision of its workspaces
Preflight == [
  preflight       |-> Given("exact workspaces", "preflight_revise",
                            "preflight_check"),
  preflight_revise |-> Call("alone", "preflight_check", "fail"),
  preflight_check |-> Work("preflight_agree"),
  preflight_agree |-> Consensus("ok", "fail")]

\* correct_exact_coupled_state_impl: the candidate, the correction of the
\* pressure and its ghosts.
CorrectPressure == [
  corrected          |-> Work("corrected_valid"),
  corrected_valid    |-> CheckedMax(1, 1, "corrected_exchange", "fail"),
  corrected_exchange |-> Exchange("corrected_ghosts", "fail"),
  corrected_ghosts   |-> Work("corrected_ghosts_agree"),
  corrected_ghosts_agree |-> Consensus("corrected_immersed", "fail"),
  corrected_immersed |-> Given("immersed", "corrected_donors_valid",
                               "corrected_gradient"),
  corrected_donors_valid |-> Work("corrected_donors_agree"),
  corrected_donors_agree |-> Consensus("corrected_donors",
                                       "corrected_donated"),
  corrected_donors   |-> Donors("corrected_donated", "corrected_donated"),
  corrected_donated  |-> Consensus("corrected_gradient", "fail")]

\* correct_exact_coupled_state_impl: velocity and fluxes are formed, and the
\* equation of state is replayed on them; then nothing can fail.
CorrectExact == [
  corrected_gradient  |-> Work("corrected_gradient_agree"),
  corrected_gradient_agree |-> Consensus("corrected_form", "fail"),
  corrected_form      |-> Work("corrected_finite"),
  corrected_finite    |-> CheckedMax(1, 1, "corrected_staged", "fail"),
  corrected_staged    |-> Given("immersed", "corrected_constrain",
                                "corrected_replay"),
  corrected_constrain |-> Work("corrected_constrained"),
  corrected_constrained |-> CheckedMax(1, 1, "corrected_replay", "fail"),
  corrected_replay    |-> Work("corrected_replayed"),
  corrected_replayed  |-> CheckedMax(1, 1, "corrected_commit", "fail"),
  corrected_commit    |-> Close("corrected", TRUE, "ok")]

-----------------------------------------------------------------------------
\* execute_attempt: the system of one correction, of a "closed" domain only:
\* all ranks refuse an absolute pressure at the boundary.  Each rank assembles
\* the system by itself.
CorrectorSystem == [
  system        |-> Given("energy workspaces", "system_revise",
                          "system_residual"),
  system_revise |-> Call("alone", "system_residual", "fail"),
  system_residual |-> Call("residual_flux", "system_assemble", "fail"),
  system_assemble |-> Given("pressure system", "system_alone", "system_scope"),
  system_alone  |-> Call("alone", "system_scope", "fail"),
  system_scope  |-> Given("closed", "system_mg", "system_refuse"),
  system_refuse |-> Set("failed", TRUE, "system_refused"),
  system_refused |-> Consensus("fail", "fail"),
  system_mg     |-> Call("multigrid", "system_blocks", "fail"),
  system_blocks |-> Call("blocks", "system_solve", "fail"),
  system_solve  |-> Call("coupled", "ok", "fail")]

\* execute_attempt: the exact state of one correction, with its gauge.
CorrectorState == [
  exact_state  |-> Given("exact state", "exact_workspace", "exact_gauge"),
  exact_workspace |-> Call("alone", "exact_gauge", "fail"),
  exact_gauge  |-> Call("gauge", "exact_correct", "fail"),
  exact_correct |-> Call("corrected", "exact_reference", "fail"),
  exact_reference |-> Work("pass")]

\* execute_attempt: the first correction.  If its system has been solved
\* ("active"), the second is entered even if the first has failed.
CorrectorOne == [
  first           |-> Open("corrected", "first_refresh"),
  first_refresh   |-> Call("refresh", "first_coupler", "first_agree"),
  first_coupler   |-> Call("coupler", "first_system", "first_agree"),
  first_system    |-> Call("system", "first_active", "first_agree"),
  first_active    |-> Take("active", "first_candidate"),
  first_candidate |-> Call("preflight", "first_state", "first_agree"),
  first_state     |-> Call("exact_state", "first_agree", "first_agree"),
  first_agree     |-> Consensus("second", "second")]

\* execute_attempt: the second correction.  "simple" predicts the velocity
\* again in between.
CorrectorTwo == [
  second          |-> Open("corrected", "second_entered"),
  second_entered  |-> Given("active", "second_refresh", "second_agree"),
  second_refresh  |-> Call("refresh", "second_simple", "second_coupler"),
  second_simple   |-> Given("simple", "second_publish", "second_coupler"),
  second_publish  |-> Call("momentum_exchange", "second_momentum",
                           "second_coupler"),
  second_momentum |-> Call("momentum", "second_again", "second_coupler"),
  second_again    |-> Call("refresh", "second_coupler", "second_coupler"),
  second_coupler  |-> Call("coupler", "second_system", "second_agree"),
  second_system   |-> Call("system", "second_candidate", "second_agree"),
  second_candidate |-> Call("preflight", "second_state", "second_agree"),
  second_state    |-> Call("exact_state", "second_agree", "second_agree"),
  second_agree    |-> Consensus("end", "second_end"),
  second_end      |-> Close("corrected", FALSE, "end")]
=============================================================================
