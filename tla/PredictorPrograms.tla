-------------------------- MODULE PredictorPrograms --------------------------
(***************************************************************************)
(* The first half of an attempt at a time step: how the ranks predict      *)
(* energy, composition and density, and then the velocity, from the        *)
(* accepted state.  "predicted" is the epoch from the prediction to the    *)
(* agreement before the coupled solve of pressure and energy, which starts *)
(* from the predicted state of all ranks.                                  *)
(*                                                                         *)
(* An attempt goes on after a failure, and its steps are skipped one by    *)
(* one: that all ranks skip the same calls is for each step to see to.     *)
(***************************************************************************)
EXTENDS CandidatePrograms

\* A reduction over MPI itself whose result decides, on all ranks alike, what
\* is done next.  It is the last outcome if it is for a rank that has failed.
Unanimous(call, outcomes, next) ==
  Collective(call, "prepared", 0, outcomes, next, next)

\* collective_high_state, and collective_status before a route is taken.
RawDecision(outcomes, ok, fail) ==
  Collective("raw", "exchange", 0, outcomes, ok, fail)

-----------------------------------------------------------------------------
\* predict: a state of high order that is admissible on all ranks is what is
\* wanted.  If not, all ranks get one of low order too.
PredictHigh == [
  predict             |-> Work("predict_high"),
  predict_high        |-> RawDecision(3, "predict_admissible", "fail"),
  predict_admissible  |-> Branch(<<"ok", "predict_nonenthalpy", "fail">>),
  predict_nonenthalpy |-> Raw("nonenthalpy", "predict_flux"),
  predict_flux        |-> Raw("accepted flux", "predict_low"),
  predict_low         |-> Work("predict_low_agree"),
  predict_low_agree   |-> RawDecision(2, "predict_state", "fail"),
  predict_state       |-> Branch(<<"predict_implicit", "predict_explicit">>)]

\* predict: the low state is that of an implicit equation, or it is explicit,
\* or limited if the explicit one is not admissible on all ranks.
PredictRoute == [
  predict_implicit |-> Work("predict_implicit_route"),
  predict_implicit_route |-> Raw("route", "endpoint_agree"),
  predict_explicit |-> Work("predict_route"),
  predict_route    |-> Unanimous("route", 2, "predict_routed"),
  predict_routed   |-> Branch(<<"lowered", "limited">>)]

\* predict: the implicit state, scaled to what is admissible on all ranks.
PredictEndpoint == [
  endpoint_agree   |-> RawConsensus("endpoint_run", "fail"),
  endpoint_run     |-> Call("endpoint", "endpoint_certify",
                            "endpoint_certify"),
  endpoint_certify |-> Work("endpoint_alpha"),
  endpoint_alpha   |-> Raw("endpoint alpha", "endpoint_scale"),
  endpoint_scale   |-> Work("endpoint_scaled"),
  endpoint_scaled  |-> RawConsensus("lowered", "fail")]

\* ConservativeEnthalpyEndpoint::solve: the result of the solve itself is kept
\* for the diagnostics only.
EndpointSolve == [
  endpoint         |-> Work("endpoint_input"),
  endpoint_input   |-> Consensus("endpoint_matrix", "fail"),
  endpoint_matrix  |-> Work("endpoint_matrix_agree"),
  endpoint_matrix_agree |-> Consensus("endpoint_new", "fail"),
  endpoint_new     |-> NewSolve("endpoint_solve"),
  endpoint_solve   |-> Call("solver", "endpoint_solved", "endpoint_failed"),
  endpoint_solved  |-> NewSolve("ok"),
  endpoint_failed  |-> NewSolve("fail")]

\* EnthalpyEndpointOperator::apply; MomentumLinearOperator::apply does the same.
TransportOperator == [
  transport          |-> Set("failed", FALSE, "transport_clear"),
  transport_clear    |-> Forget("transport_views"),
  transport_views    |-> Given("transport views", "transport_alone",
                               "transport_begin"),
  transport_alone    |-> Call("alone", "transport_begin", "fail"),
  transport_begin    |-> Work("transport_exchange"),
  transport_exchange |-> Exchange("transport_product", "fail"),
  transport_product  |-> Work("pass")]

\* MomentumJacobiPreconditioner::apply; EnthalpyEndpointJacobi::apply does the
\* same.
TransportJacobi == [
  transport_jacobi |-> Set("failed", FALSE, "transport_scale"),
  transport_scale  |-> Work("pass")]

\* predict: sources and outgoing fluxes are limited.  A time step of second order
\* ("second") whose state without sources is not admissible is marked for
\* another prediction, of first order.
PredictLimited == [
  limited          |-> Work("limited_alpha"),
  limited_alpha    |-> Unanimous("source alpha", 2, "limited_valid"),
  limited_valid    |-> Branch(<<"limited_source", "limited_agree">>),
  limited_agree    |-> RawConsensus("fail", "limited_base"),
  limited_base     |-> Given("second", "limited_fallback", "fail"),
  limited_fallback |-> Take("fallback", "fail"),
  limited_source   |-> Work("limited_source_agree"),
  limited_source_agree |-> RawConsensus("limited_halo", "fail"),
  limited_halo     |-> Given("donor halo", "limited_alone", "limited_donors"),
  limited_alone    |-> Call("alone", "limited_donors", "fail"),
  limited_donors   |-> Work("limited_exchange"),
  limited_exchange |-> Exchange("limited_minimum", "fail"),
  limited_minimum  |-> Unanimous("minimum factor", 2, "limited_factor"),
  limited_factor   |-> Branch(<<"limited_flux", "fail">>),
  limited_flux     |-> Work("lowered")]

\* predict: the predicted state lies between the low and the high one, as near
\* to the high one as all ranks admit.
PredictBlend == [
  lowered         |-> RawConsensus("theta", "fail"),
  theta           |-> Unanimous("theta", 2, "theta_valid"),
  theta_valid     |-> Branch(<<"theta_reals", "theta_failure">>),
  theta_failure   |-> Raw("theta failure", "fail"),
  theta_reals     |-> Raw("theta reals", "theta_integers"),
  theta_integers  |-> Unanimous("theta integers", 2, "theta_metadata"),
  theta_metadata  |-> Branch(<<"theta_blend", "fail">>),
  theta_blend     |-> Work("theta_blended"),
  theta_blended   |-> RawConsensus("ok", "fail")]

-----------------------------------------------------------------------------
\* ClosedMassPlan::certify_density_fields: all ranks mean the same mass, and the
\* domain has it.
ClosedMass == [
  mass             |-> Work("mass_agree"),
  mass_agree       |-> RawConsensus("mass_minimum", "fail"),
  mass_minimum     |-> Raw("identity minimum", "mass_maximum"),
  mass_maximum     |-> Unanimous("identity maximum", 2, "mass_identity"),
  mass_identity    |-> Branch(<<"mass_local", "fail">>),
  mass_local       |-> Work("mass_local_agree"),
  mass_local_agree |-> RawConsensus("mass_sum", "fail"),
  mass_sum         |-> Unanimous("mass", 2, "mass_converged"),
  mass_converged   |-> Branch(<<"ok", "fail">>)]

\* ScalarMassRemap::prepare_passive_intervals
PassiveIntervals == [
  intervals         |-> Given("passive", "intervals_local", "ok"),
  intervals_local   |-> Work("intervals_maximum"),
  intervals_maximum |-> CheckedMax(2, 1, "ok", "fail")]

\* limit_momentum_predictor_correction: the Courant number of all ranks.  Where
\* it is exceeded is told to all, and the caller refuses it.
LimiterCourant == [
  limiter           |-> Work("limiter_agree"),
  limiter_agree     |-> RawConsensus("limiter_relations", "fail"),
  limiter_relations |-> Work("limiter_related"),
  limiter_related   |-> RawConsensus("limiter_cells", "fail"),
  limiter_cells     |-> Work("limiter_courant"),
  limiter_courant   |-> CheckedMax(3, 3, "limiter_exceeded", "fail"),
  limiter_exceeded  |-> Branch(<<"limiter_x", "limiter_where", "fail">>),
  limiter_where     |-> Raw("courant rank", "limiter_witness"),
  limiter_witness   |-> Raw("courant witness", "limiter_x")]

\* limit_momentum_predictor_correction: ratios of the three components of the
\* velocity, and then the factors of the faces.  What fails between two
\* exchanges is agreed on by the next, the revision of the ghosts excepted.
LimiterFaces == [
  limiter_x          |-> Work("limiter_x_ratios"),
  limiter_x_ratios   |-> Exchange("limiter_x_ghosts", "fail"),
  limiter_x_ghosts   |-> Call("limiter_ghosts", "limiter_y", "fail"),
  limiter_y          |-> Work("limiter_y_ratios"),
  limiter_y_ratios   |-> Exchange("limiter_y_ghosts", "fail"),
  limiter_y_ghosts   |-> Call("limiter_ghosts", "limiter_z", "fail"),
  limiter_z          |-> Work("limiter_z_ratios"),
  limiter_z_ratios   |-> Exchange("limiter_z_ghosts", "fail"),
  limiter_z_ghosts   |-> Call("limiter_ghosts", "limiter_alpha", "fail"),
  limiter_alpha      |-> Work("limiter_published"),
  limiter_published  |-> Exchange("limiter_alpha_ghosts", "fail"),
  limiter_alpha_ghosts |-> Call("limiter_ghosts", "limiter_correct", "fail"),
  limiter_ghosts     |-> Given("ratio ghosts", "alone", "ok"),
  limiter_correct    |-> Work("limiter_metrics"),
  limiter_metrics    |-> CheckedSum(4, 1, "limiter_minimum", "fail"),
  limiter_minimum    |-> CheckedMax(1, 2, "limiter_decide", "fail"),
  limiter_decide     |-> Branch(<<"ok", "fail">>)]

\* solve_momentum_predictor: nothing is overwritten before the last agreement;
\* then one solve for each component.
ImplicitMomentum == [
  implicit          |-> Work("implicit_agree"),
  implicit_agree    |-> RawConsensus("implicit_relations", "fail"),
  implicit_relations |-> Work("implicit_related"),
  implicit_related  |-> RawConsensus("implicit_rhs", "fail"),
  implicit_rhs      |-> Work("implicit_rhs_agree"),
  implicit_rhs_agree |-> RawConsensus("implicit_x", "fail"),
  implicit_x        |-> NewSolve("implicit_x_run"),
  implicit_x_run    |-> Call("solver", "implicit_y", "implicit_failed"),
  implicit_y        |-> NewSolve("implicit_y_run"),
  implicit_y_run    |-> Call("solver", "implicit_z", "implicit_failed"),
  implicit_z        |-> NewSolve("implicit_z_run"),
  implicit_z_run    |-> Call("solver", "implicit_solved", "implicit_failed"),
  implicit_solved   |-> NewSolve("ok"),
  implicit_failed   |-> NewSolve("fail")]

-----------------------------------------------------------------------------
\* execute_attempt: the attempt begins.  A time step that is solved without a
\* prediction of the velocity ("cold") refreshes the accepted state first.
AttemptBegin == [
  attempt           |-> Work("attempt_agree"),
  attempt_agree     |-> Consensus("attempt_kind", "attempt_kind"),
  attempt_kind      |-> Given("cold", "accepted_views", "source"),
  accepted_views    |-> Work("accepted"),
  accepted          |-> Consensus("accepted_exchange", "accepted_resolve"),
  accepted_exchange |-> Exchange("accepted_ghosts", "accepted_resolve"),
  accepted_ghosts   |-> Work("accepted_resolve"),
  accepted_resolve  |-> Call("resolve", "accepted_close", "accepted_close"),
  accepted_close    |-> Work("accepted_agree"),
  accepted_agree    |-> Consensus("source", "attempt_refuse"),
  attempt_refuse    |-> RawConsensus("end", "end")]

\* execute_attempt: ghosts of the accepted state, and what the prediction reads.
\* A rank that has failed to revise a trial field, or to view an accepted one,
\* does not enter the exchange.
AttemptSource == [
  source          |-> Given("trial revision", "source_trial", "source_ready"),
  source_trial    |-> Work("source_ready"),
  source_ready    |-> Test("source_exchange", "source_views"),
  source_exchange |-> Exchange("source_resolve", "source_views"),
  source_resolve  |-> Call("resolve", "source_views", "source_views"),
  source_views    |-> Work("source_cold"),
  source_cold     |-> Given("cold", "source_reaction", "prediction")]

\* execute_attempt: the source of the chemistry, from the accepted state.
AttemptReaction == [
  source_reaction |-> Given("reaction", "reaction", "prediction"),
  reaction        |-> Work("reaction_agree"),
  reaction_agree  |-> Consensus("prediction", "attempt_refuse")]

\* execute_attempt: predict takes the pending status; another prediction starts
\* from none.
AttemptPrediction == [
  prediction        |-> Open("predicted", "prediction_remap"),
  prediction_remap  |-> Given("remap", "prediction_agree", "prediction_run"),
  prediction_agree  |-> Consensus("prediction_intervals", "prediction_run"),
  prediction_intervals |-> Call("intervals", "prediction_run",
                                "prediction_run"),
  prediction_run    |-> Call("predict", "seed", "prediction_failed"),
  prediction_failed |-> Given("fallback", "fallback_order", "seed"),
  fallback_order    |-> Drop("second", "fallback_once"),
  fallback_once     |-> Drop("fallback", "fallback_forget"),
  fallback_forget   |-> Set("failed", FALSE, "fallback_open"),
  fallback_open     |-> Open("predicted", "fallback_run"),
  fallback_run      |-> Call("predict", "seed", "seed")]

\* execute_attempt: the composition of the target time, in the first sweep.
AttemptSeed == [
  seed        |-> Given("target", "seed_status", "capture"),
  seed_status |-> Test("seed_views", "capture"),
  seed_views  |-> Work("seed_agree"),
  seed_agree  |-> Consensus("seed_solve", "seed_done"),
  seed_solve  |-> Call("target", "seed_copy", "seed_done"),
  seed_copy   |-> Work("seed_done"),
  seed_done   |-> Consensus("capture", "capture")]

\* execute_attempt: what was predicted is kept for the remap of the scalars.
AttemptCapture == [
  capture         |-> Given("remap", "capture_basis", "enthalpy"),
  capture_basis   |-> Work("capture_agree"),
  capture_agree   |-> Consensus("enthalpy", "enthalpy")]

\* execute_attempt: ghosts of enthalpy and scalars.
AttemptEnthalpy == [
  enthalpy          |-> Test("enthalpy_exchange", "thermo_agree"),
  enthalpy_exchange |-> Exchange("enthalpy_ghosts", "thermo_agree"),
  enthalpy_ghosts   |-> Work("thermo")]

\* execute_attempt: the thermodynamic state and the reference pressure.
AttemptThermo == [
  thermo           |-> Work("thermo_agree"),
  thermo_agree     |-> Consensus("thermo_cold", "reference_agree"),
  thermo_cold      |-> Given("cold", "viscosity", "reference_agree"),
  viscosity        |-> Work("viscosity_agree"),
  viscosity_agree  |-> Consensus("reference_agree", "predicted_discard"),
  reference_agree  |-> Consensus("reference", "reference_resolve"),
  reference        |-> Given("closed", "reference_sum", "reference_open"),
  reference_open   |-> Work("reference_resolve"),
  reference_sum    |-> CheckedSum(2, 2, "reference_shift",
                                  "reference_resolve"),
  reference_shift  |-> Branch(<<"reference_mass", "reference_refuse">>),
  reference_refuse |-> Set("failed", TRUE, "reference_resolve"),
  reference_mass   |-> Call("mass", "reference_resolve", "reference_resolve"),
  reference_resolve |-> Call("resolve", "temporal", "temporal")]

\* publish_numerical_failure_context: the first cell in which a rank has failed,
\* the rank, and what it knows of it.
FailureContext == [
  context       |-> Raw("context cell", "context_owner"),
  context_owner |-> Raw("context owner", "context_data"),
  context_data  |-> Raw("context data", "inactive")]

\* execute_attempt: ghosts, gradient and viscosity of the velocity.  After an
\* exchange that has failed ("inactive") only the agreements are left.
AttemptVelocity == [
  temporal           |-> Work("temporal_exchange"),
  temporal_exchange  |-> Exchange("temporal_ghosts", "context"),
  temporal_ghosts    |-> Work("temporal_agree"),
  temporal_agree     |-> Consensus("temporal_immersed", "temporal_donated"),
  temporal_immersed  |-> Given("immersed", "temporal_donors",
                               "temporal_donated"),
  temporal_donors    |-> Donors("temporal_donated", "temporal_donated"),
  temporal_donated   |-> Consensus("temporal_gradient", "temporal_live"),
  temporal_gradient  |-> Work("temporal_live"),
  temporal_live      |-> Call("live", "temporal_publish", "temporal_publish"),
  temporal_publish   |-> Call("momentum_exchange", "momentum_flux",
                              "momentum_flux"),
  inactive           |-> Consensus("inactive_donated", "inactive_donated"),
  inactive_donated   |-> Consensus("inactive_publish", "inactive_publish"),
  inactive_publish   |-> Call("momentum_agree", "momentum_flux",
                              "momentum_flux")]

\* publish_momentum_state
PublishMomentumState == [
  momentum_exchange |-> Exchange("momentum_ghosts", "momentum_agree"),
  momentum_ghosts   |-> Work("momentum_agree"),
  momentum_agree    |-> Consensus("momentum_immersed", "momentum_donated"),
  momentum_immersed |-> Given("immersed", "momentum_donors",
                              "momentum_donated"),
  momentum_donors   |-> Donors("momentum_donated", "momentum_donated"),
  momentum_donated  |-> Consensus("ok", "fail")]

\* execute_attempt: the fluxes of the earlier momentum.
TemporalFlux == [
  momentum_flux    |-> Work("momentum_predict"),
  momentum_predict |-> Call("momentum", "correction", "correction")]

\* run_momentum_predictor
RunMomentum == [
  momentum          |-> Given("cold", "momentum_cold", "momentum_assemble"),
  momentum_cold     |-> Consensus("ok", "fail"),
  momentum_assemble |-> Work("momentum_assembled"),
  momentum_assembled |-> Consensus("momentum_limit", "momentum_limited"),
  momentum_limit    |-> Call("limiter", "momentum_accept",
                             "momentum_limited"),
  momentum_accept   |-> Work("momentum_limited"),
  momentum_limited  |-> Consensus("momentum_solve", "fail"),
  momentum_solve    |-> Call("implicit", "ok", "fail")]

\* execute_attempt: the predicted state goes into the correction.
AttemptCorrection == [
  correction        |-> Work("correction_agree"),
  correction_agree  |-> Consensus("predicted_keep", "predicted_discard"),
  predicted_keep    |-> Close("predicted", TRUE, "end"),
  predicted_discard |-> Close("predicted", FALSE, "end")]
=============================================================================
