-------------------------- MODULE CandidatePrograms --------------------------
(***************************************************************************)
(* How the ranks look for a step along a direction of pressure and energy  *)
(* that makes the time step's equations better, and commit it: they        *)
(* evaluate the state they have, then extrapolated and halved steps until  *)
(* one is selected.  Every evaluation is the epoch "sample"; the fields of *)
(* the selected one are copied into the trial state in the epoch           *)
(* "committed".                                                            *)
(*                                                                         *)
(* No agreement follows the search: that all ranks know of its failure is  *)
(* for the calls in it to see to.                                          *)
(***************************************************************************)
EXTENDS AcceptPrograms

\* collective_candidate_provenance_batch: the ranks gather fingerprints of what
\* they have computed, and all fold them in the same way.
Provenance(next) == Raw("provenance", next)

\* make_frozen_momentum_stage_authority
StageAuthority == [
  authority       |-> Work("authority_agree"),
  authority_agree |-> RawConsensus("authority_issue", "fail"),
  authority_issue |-> RawConsensus("ok", "fail")]

\* form_frozen_momentum_scaled_pressure
FormScaledPressure == [
  scaled           |-> Work("scaled_agree"),
  scaled_agree     |-> RawConsensus("scaled_direction", "fail"),
  scaled_direction |-> Provenance("scaled_issue"),
  scaled_issue     |-> RawConsensus("ok", "fail")]

\* stage_frozen_momentum_velocity: what the gradient of the correction needs.
\* "open": a face has a given pressure.
StageVelocityGhosts == [
  velocity       |-> Work("velocity_agree"),
  velocity_agree |-> RawConsensus("velocity_open", "fail"),
  velocity_open  |-> Given("open", "velocity_ghosts", "velocity_immersed"),
  velocity_ghosts |-> Work("velocity_ghosts_agree"),
  velocity_ghosts_agree |-> RawConsensus("velocity_immersed", "fail"),
  velocity_immersed |-> Given("immersed", "velocity_preflight",
                              "velocity_finite"),
  velocity_preflight |-> Work("velocity_preflight_agree"),
  velocity_preflight_agree |-> RawConsensus("velocity_donors", "fail"),
  velocity_donors |-> Donors("velocity_donated", "velocity_donated"),
  velocity_donated |-> RawConsensus("velocity_finite", "fail")]

\* stage_frozen_momentum_velocity
StageVelocity == [
  velocity_finite |-> Work("velocity_finite_agree"),
  velocity_finite_agree |-> RawConsensus("velocity_gradient", "fail"),
  velocity_gradient |-> Work("velocity_gradient_agree"),
  velocity_gradient_agree |-> RawConsensus("velocity_issue", "fail"),
  velocity_issue  |-> RawConsensus("ok", "fail")]

\* stage_frozen_momentum_flux: the fluxes through the faces between cells, and
\* then through the open ones.
StageFlux == [
  flux       |-> Work("flux_agree"),
  flux_agree |-> RawConsensus("flux_faces", "fail"),
  flux_faces |-> Work("flux_faces_agree"),
  flux_faces_agree |-> RawConsensus("flux_scope", "fail"),
  flux_scope |-> Given("open", "flux_open", "flux_issue"),
  flux_open  |-> Work("flux_open_agree"),
  flux_open_agree |-> RawConsensus("flux_inner", "fail"),
  flux_inner |-> Provenance("flux_outlet"),
  flux_outlet |-> Provenance("flux_interface"),
  flux_interface |-> Provenance("flux_issue"),
  flux_issue |-> RawConsensus("ok", "fail")]

-----------------------------------------------------------------------------
\* finalize: the boundary conditions of a candidate with open faces, which are
\* checked in several agreements and copied only after the last.
FinalizeInput == [
  finalize         |-> Work("finalize_agree"),
  finalize_agree   |-> Consensus("finalize_closure", "fail"),
  finalize_closure |-> Work("finalize_closure_agree"),
  finalize_closure_agree |-> Consensus("finalize_halo", "fail"),
  finalize_halo    |-> Work("finalize_halo_agree"),
  finalize_halo_agree |-> Consensus("finalize_ghosts", "fail"),
  finalize_ghosts  |-> Work("finalize_ghosts_agree"),
  finalize_ghosts_agree |-> Consensus("finalize_state", "fail"),
  finalize_state   |-> Work("finalize_state_agree"),
  finalize_state_agree |-> Consensus("finalize_outlet", "fail")]

\* finalize: "balanced": an outlet takes what the inlets bring.
FinalizeBoundary == [
  finalize_outlet  |-> Given("balanced", "finalize_storage", "finalize_flux"),
  finalize_storage |-> Work("finalize_storage_agree"),
  finalize_storage_agree |-> Consensus("finalize_flux", "fail"),
  finalize_flux    |-> Call("physical", "finalize_hashes", "fail"),
  finalize_hashes  |-> Raw("hashes", "finalize_gathered"),
  finalize_gathered |-> Consensus("finalize_issue", "fail"),
  finalize_issue   |-> Work("finalize_issue_agree"),
  finalize_issue_agree |-> Consensus("ok", "fail")]

\* prepare_physical_boundary_flux: the capacities of the inlets.
PhysicalCapacity == [
  physical          |-> Work("physical_capacity"),
  physical_capacity |-> CheckedSum(6, 1, "physical_target", "fail"),
  physical_target   |-> CheckedMax(8, 1, "physical_patches", "fail"),
  physical_patches  |-> Given("patches", "physical_patch", "physical_inlets"),
  physical_patch    |-> CheckedSum(2, 2, "physical_patched", "fail"),
  physical_patched  |-> Branch(<<"physical_inlets", "fail">>)]

\* prepare_physical_boundary_flux: the fluxes that meet them.
PhysicalFlux == [
  physical_inlets   |-> Work("physical_achieved"),
  physical_achieved |-> CheckedSum(6, 1, "physical_check", "fail"),
  physical_check    |-> Work("physical_agree"),
  physical_agree    |-> Consensus("physical_outlet", "fail"),
  physical_outlet   |-> Given("balanced", "physical_divergence", "ok"),
  physical_divergence |-> Work("physical_balance"),
  physical_balance  |-> CheckedSum(2, 2, "physical_scale", "fail"),
  physical_scale    |-> Branch(<<"physical_scaled", "fail">>),
  physical_scaled   |-> Work("physical_scaled_agree"),
  physical_scaled_agree |-> Consensus("ok", "fail")]

\* prepare_closed_gauge_correction
ClosedGauge == [
  gauge         |-> Contract("gauge_moment", "fail"),
  gauge_moment  |-> Work("gauge_sum"),
  gauge_sum     |-> CheckedSum(2, 2, "gauge_shift", "fail"),
  gauge_shift   |-> Branch(<<"gauge_shifted", "fail">>),
  gauge_shifted |-> Work("gauge_residual"),
  gauge_residual |-> CheckedSum(2, 2, "gauge_decide", "fail"),
  gauge_decide  |-> Branch(<<"ok", "fail">>)]

-----------------------------------------------------------------------------
\* certify_frozen_momentum_exact_candidate: composition and boundary are those
\* that the earlier stages have agreed on.
CertifyBoundary == [
  certify         |-> Work("certify_species"),
  certify_species |-> RawConsensus("certify_scope", "fail"),
  certify_scope   |-> Given("open", "certify_final", "certify_closed"),
  certify_closed  |-> RawConsensus("certify_state", "fail"),
  certify_final   |-> Work("certify_final_agree"),
  certify_final_agree |-> RawConsensus("certify_replay", "fail"),
  certify_replay  |-> Provenance("certify_replayed"),
  certify_replayed |-> RawConsensus("certify_state", "fail")]

\* certify_frozen_momentum_exact_candidate
CertifyExact == [
  certify_state    |-> Work("certify_valid"),
  certify_valid    |-> CheckedMax(1, 1, "certify_fingerprints", "fail"),
  certify_fingerprints |-> Provenance("certify_baseline"),
  certify_baseline |-> Work("certify_matching"),
  certify_matching |-> CheckedMax(1, 1, "certify_issue", "fail"),
  certify_issue    |-> Consensus("ok", "fail")]

\* certify_frozen_momentum_stationary: the state that the ranks have solves the
\* equations already.
CertifyStationary == [
  stationary         |-> Work("stationary_maximum"),
  stationary_maximum |-> CheckedMax(2, 2, "stationary_contract", "fail"),
  stationary_contract |-> Contract("stationary_decide", "fail"),
  stationary_decide  |-> Branch(<<"stationary_flux", "fail">>),
  stationary_flux    |-> Work("stationary_faces"),
  stationary_faces   |-> CheckedMax(1, 1, "stationary_replay", "fail"),
  stationary_replay  |-> Call("fingerprint", "stationary_issue", "fail"),
  stationary_issue   |-> Consensus("ok", "fail")]

\* What is certified is computed again from the fields, and compared.
ReplayFingerprints == [
  fingerprint      |-> Provenance("fingerprint_direction"),
  fingerprint_direction |-> Provenance("fingerprint_state"),
  fingerprint_state     |-> Provenance("fingerprint_flux"),
  fingerprint_flux      |-> Provenance("fingerprint_differs"),
  fingerprint_differs   |-> Work("fingerprint_certified"),
  fingerprint_certified     |-> CheckedMax(1, 1, "ok", "fail")]

\* commit_frozen_momentum_exact_state: after the last agreement fields and
\* fluxes are copied, which cannot fail.
CommitExactState == [
  commit_exact       |-> Work("commit_exact_valid"),
  commit_exact_valid |-> CheckedMax(1, 1, "fingerprint", "fail")]

-----------------------------------------------------------------------------
\* evaluate_pressure_energy_candidate: the scaled correction and the velocity
\* that belongs to it.  "zero": the step has length zero, and must give back
\* the state that the ranks have.
SampleVelocity == [
  evaluate      |-> Open("sample", "sample_input"),
  sample_input  |-> Work("sample_input_agree"),
  sample_input_agree |-> Consensus("sample_form", "sample_discard"),
  sample_form   |-> Call("scaled", "sample_correction", "sample_discard"),
  sample_correction |-> Exchange("sample_velocity", "sample_discard"),
  sample_velocity |-> Call("velocity", "sample_same", "sample_discard"),
  sample_same   |-> Given("zero", "sample_bits", "sample_eos"),
  sample_bits   |-> Work("sample_bits_agree"),
  sample_bits_agree |-> Consensus("sample_eos", "sample_discard")]

\* evaluate_pressure_energy_candidate: the equation of state, and the pressure
\* of a domain that has the same mass always ("closed").
SampleState == [
  sample_eos    |-> Work("sample_eos_agree"),
  sample_eos_agree |-> Consensus("sample_closed", "sample_discard"),
  sample_closed |-> Given("closed", "sample_gauge", "sample_exchange"),
  sample_gauge  |-> Call("gauge", "sample_exchange", "sample_discard"),
  sample_exchange |-> Exchange("sample_open", "sample_discard")]

\* evaluate_pressure_energy_candidate: the boundary of open faces.
SampleBoundary == [
  sample_open     |-> Given("open", "sample_finalizer", "sample_immersed"),
  sample_finalizer |-> Exchange("sample_resolve", "sample_discard"),
  sample_resolve  |-> Call("resolve", "sample_resolved", "sample_resolved"),
  sample_resolved |-> Test("sample_ghosts", "sample_ghosts_agree"),
  sample_ghosts   |-> Work("sample_ghosts_agree"),
  sample_ghosts_agree |-> Consensus("sample_immersed", "sample_discard"),
  sample_immersed |-> Given("immersed", "sample_donors", "sample_donated"),
  sample_donors   |-> Donors("sample_donated", "sample_donated"),
  sample_donated  |-> Consensus("sample_live", "sample_discard")]

\* evaluate_pressure_energy_candidate: a step of length zero has the gradient
\* and the viscosity of the state that the ranks have.
SampleMaterial == [
  sample_live     |-> Given("zero", "sample_thermal", "sample_gradient"),
  sample_gradient |-> Work("sample_gradient_agree"),
  sample_gradient_agree |-> Consensus("sample_turbulence", "sample_discard"),
  sample_turbulence |-> Work("sample_turbulence_agree"),
  sample_turbulence_agree |-> Consensus("sample_thermal", "sample_discard"),
  sample_thermal  |-> Work("sample_heat"),
  sample_heat     |-> Call("thermal", "sample_heated", "sample_heated"),
  sample_heated   |-> Consensus("sample_heating", "sample_discard"),
  sample_heating  |-> Given("immersed", "sample_traction", "sample_pulled"),
  sample_traction |-> Donors("sample_pulled", "sample_pulled"),
  sample_pulled   |-> Consensus("sample_inlet", "sample_discard"),
  sample_inlet    |-> Work("sample_inlet_agree"),
  sample_inlet_agree |-> Consensus("sample_view", "sample_discard")]

\* evaluate_pressure_energy_candidate: the fluxes, and what the ranks agree to
\* have evaluated.
SampleFlux == [
  sample_view     |-> Given("flux view", "sample_viewed", "sample_flux"),
  sample_viewed   |-> Call("alone", "sample_flux", "sample_discard"),
  sample_flux     |-> Call("flux", "sample_final", "sample_discard"),
  sample_final    |-> Given("open", "sample_final_view", "sample_certify"),
  sample_final_view |-> Given("final flux view", "sample_final_viewed",
                              "sample_finalize"),
  sample_final_viewed |-> Call("alone", "sample_finalize", "sample_discard"),
  sample_finalize |-> Call("finalize", "sample_certify", "sample_discard"),
  sample_certify  |-> Call("certify", "sample_energy", "sample_discard")]

\* evaluate_pressure_energy_candidate: how well the equations are met, by which
\* the candidate is selected.
SampleMetrics == [
  sample_energy   |-> Work("sample_energy_agree"),
  sample_energy_agree |-> Consensus("sample_baseline", "sample_discard"),
  sample_baseline |-> Work("sample_baseline_agree"),
  sample_baseline_agree |-> Consensus("sample_measure", "sample_discard"),
  sample_measure  |-> Work("sample_metrics"),
  sample_metrics  |-> CheckedMax(2, 3, "sample_replay", "sample_discard"),
  sample_replay   |-> Given("zero", "sample_pressure", "sample_keep"),
  sample_keep     |-> Close("sample", TRUE, "ok"),
  sample_discard  |-> Close("sample", FALSE, "fail")]

\* evaluate_pressure_energy_candidate: the step of length zero.  Its last value
\* says whether the state that the ranks have meets the equations already.
SampleReplay == [
  sample_pressure |-> Work("sample_pressure_agree"),
  sample_pressure_agree |-> Consensus("sample_lineage", "sample_discard"),
  sample_lineage  |-> Raw("lineage", "sample_lineage_agree"),
  sample_lineage_agree |-> Consensus("sample_mismatch", "sample_discard"),
  sample_mismatch |-> CheckedMax(1, 2, "sample_keep", "sample_discard")]

-----------------------------------------------------------------------------
\* run_pressure_energy_candidate_loop: the step of length zero comes first.
CandidateBaseline == [
  candidate           |-> Given("trial views", "candidate_revise",
                                "candidate_start"),
  candidate_revise    |-> Call("alone", "candidate_start", "end"),
  candidate_start     |-> Work("candidate_direction"),
  candidate_direction |-> CheckedMax(2, 1, "candidate_authority", "end"),
  candidate_authority |-> Call("authority", "baseline", "end"),
  baseline         |-> Take("zero", "baseline_run"),
  baseline_run     |-> Call("evaluate", "baseline_next", "end"),
  baseline_next    |-> Drop("zero", "baseline_bind"),
  baseline_bind    |-> Work("baseline_agree"),
  baseline_agree   |-> Consensus("baseline_terminal", "end"),
  baseline_terminal |-> Branch(<<"baseline_certify", "extrapolate">>),
  baseline_certify |-> Call("stationary", "candidate_chosen", "end")]

\* run_pressure_energy_candidate_loop: a step longer than the direction.  An
\* evaluation may fail because the state is not physical ("rejected"); other
\* failures end the search.
CandidateExtrapolation == [
  extrapolate        |-> Given("extrapolate", "extrapolate_run", "ladder"),
  extrapolate_run    |-> Call("evaluate", "extrapolate_match",
                              "extrapolate_failed"),
  extrapolate_failed |-> Given("rejected", "extrapolate_forget", "end"),
  extrapolate_forget |-> Set("failed", FALSE, "ladder"),
  extrapolate_match  |-> Work("extrapolate_agree"),
  extrapolate_agree  |-> Consensus("extrapolate_select", "end"),
  extrapolate_select |-> Branch(<<"candidate_chosen", "ladder",
                                  "candidate_refuse">>)]

\* run_pressure_energy_candidate_loop: the direction, half of it, and so on.
CandidateLadder == [
  ladder        |-> Set("iterations", 0, "ladder_run"),
  ladder_run    |-> Call("evaluate", "ladder_match", "ladder_failed"),
  ladder_failed |-> Given("rejected", "ladder_forget", "end"),
  ladder_forget |-> Set("failed", FALSE, "ladder_next"),
  ladder_match  |-> Work("ladder_agree"),
  ladder_agree  |-> Consensus("ladder_select", "end"),
  ladder_select |-> Branch(<<"candidate_chosen", "ladder_next",
                             "candidate_refuse">>),
  ladder_next   |-> Iterate("ladder_limit"),
  ladder_limit  |-> Limit("candidate_refuse", "ladder_run"),
  candidate_refuse |-> Set("failed", TRUE, "end")]

\* run_pressure_energy_candidate_loop: the last evaluation is the selected one,
\* and it has sent no more than was planned.
CandidateChosen == [
  candidate_chosen |-> Work("candidate_chosen_agree"),
  candidate_chosen_agree |-> Consensus("candidate_match", "end"),
  candidate_match  |-> Work("candidate_match_agree"),
  candidate_match_agree |-> Consensus("candidate_sealed", "candidate_sealed"),
  candidate_sealed |-> Work("candidate_sealed_agree"),
  candidate_sealed_agree |-> Consensus("candidate_publish", "end")]

\* execute_attempt: all that may fail is agreed on before the trial state is
\* overwritten.
CandidatePublication == [
  candidate_publish  |-> Open("committed", "candidate_view"),
  candidate_view     |-> Given("committed view", "candidate_viewed",
                               "candidate_valid"),
  candidate_viewed   |-> Call("alone", "candidate_valid", "candidate_discard"),
  candidate_valid    |-> Work("candidate_valid_agree"),
  candidate_valid_agree |-> Consensus("candidate_views", "candidate_discard"),
  candidate_views    |-> Work("candidate_views_agree"),
  candidate_views_agree |-> Consensus("candidate_refine", "candidate_discard"),
  candidate_refine   |-> Given("refinement", "refined_commit",
                               "candidate_commit"),
  candidate_commit   |-> Call("commit_exact", "candidate_done",
                              "candidate_discard"),
  candidate_done     |-> Close("committed", TRUE, "end"),
  candidate_discard  |-> Close("committed", FALSE, "end")]

\* commit_frozen_momentum_coupled_refinement_trial_state: the committed state
\* is the start of another search.
RefinementCommit == [
  refined_commit |-> Work("refined_commit_agree"),
  refined_commit_agree |-> Consensus("candidate_commit", "candidate_discard")]
=============================================================================
