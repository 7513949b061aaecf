---------------------------- MODULE AcceptPrograms ----------------------------
(***************************************************************************)
(* How the ranks decide whether an attempt at a time step stands: after    *)
(* the last pressure correction they audit the trial state, remap the      *)
(* scalars, evaluate the rates of the final state and publish its fluxes.  *)
(* "attempt" is the epoch of all this: it closes when the transaction is   *)
(* prepared to accept.                                                     *)
(*                                                                         *)
(* A rank that has failed goes on to the next agreement, in which all fail *)
(* with it; from there on only agreements are left.                        *)
(***************************************************************************)
EXTENDS StartPrograms

\* checked_max_locations: the ranks agree over MPI itself that what they bring
\* is finite, and find the largest values with their cells.
MaximumLocations == [
  locations         |-> Work("locations_agree"),
  locations_agree   |-> RawConsensus("locations_maximum", "fail"),
  locations_maximum |-> Collective("locations", "exchange", 0, 2,
                                   "locations_valid", "fail"),
  locations_valid   |-> Branch(<<"ok", "fail">>)]

\* refresh_live_effective_thermal_ghosts
LiveThermalGhosts == [
  live         |-> Work("live_thermal"),
  live_thermal |-> Call("thermal", "live_agree", "live_agree"),
  live_agree   |-> Consensus("ok", "fail")]

\* refresh_coupled_state: boundary values, ghosts and the closure of the inlet
\* faces.
RefreshState == [
  refresh          |-> Call("resolve", "refresh_exchange", "refresh_exchange"),
  refresh_exchange |-> Exchange("refresh_close", "refresh_agree"),
  refresh_close    |-> Work("refresh_agree"),
  refresh_agree    |-> Consensus("refresh_immersed", "fail"),
  refresh_immersed |-> Given("immersed", "refresh_donors", "refresh_donated"),
  refresh_donors   |-> Donors("refresh_donated", "refresh_donated"),
  refresh_donated  |-> Consensus("refresh_transport", "fail")]

\* refresh_coupled_state: gradient, turbulence and transport.
RefreshTransport == [
  refresh_transport |-> Call("live", "refresh_inlet", "refresh_inlet_agree"),
  refresh_inlet     |-> Work("refresh_inlet_agree"),
  refresh_inlet_agree |-> Consensus("refresh_heating", "fail"),
  refresh_heating   |-> Given("immersed", "refresh_traction", "refresh_done"),
  refresh_traction  |-> Donors("refresh_done", "refresh_done"),
  refresh_done      |-> Consensus("ok", "fail")]

\* assemble_pressure_energy_residual_from_flux
AssembleEnergy == [
  energy       |-> Work("energy_agree"),
  energy_agree |-> Consensus("ok", "fail")]

\* execute_attempt: the equation of energy with the state and the fluxes of the
\* last correction.  "candidate": the correction was the best of several, and
\* its pressure reference is in force already.
TerminalEnergy == [
  accept           |-> Open("attempt", "accept_scope"),
  accept_scope     |-> Given("candidate", "accept_refresh",
                             "accept_reference"),
  accept_reference |-> Work("accept_reference_agree"),
  accept_reference_agree |-> Consensus("accept_refresh", "accept_flux_agree"),
  accept_refresh   |-> Call("refresh", "accept_flux", "accept_flux_agree"),
  accept_flux      |-> Work("accept_flux_agree"),
  accept_flux_agree |-> Consensus("accept_energy", "accept_audit"),
  accept_energy    |-> Call("energy", "accept_residual", "accept_audit"),
  accept_residual  |-> Work("accept_residual_agree"),
  accept_residual_agree |-> Consensus("accept_closure", "accept_audit")]

\* execute_attempt: the boundary closure and the density of the equation of
\* state enter the audit, and so does what has failed before it.
TerminalAudit == [
  accept_closure    |-> Work("accept_audit"),
  accept_audit      |-> Call("audit_final", "accept_bind",
                             "accept_bind_agree"),
  accept_bind       |-> Work("accept_bind_agree"),
  accept_bind_agree |-> Consensus("remap_given", "rate_agree")]

\* audit_pending_final: the agreement on the communicator comes first, and a
\* failure that the rank brings is left for the residuals.
AuditCommunicator == [
  audit_final  |-> Defer("final_bind"),
  final_bind   |-> Work("final_bound"),
  final_bound  |-> RawConsensus("final_carry", "final_refuse"),
  final_carry  |-> Carry("final_cells"),
  final_refuse |-> Carry("fail")]

\* audit_pending_final: residuals and Courant numbers of the rank's cells.
AuditCells == [
  final_cells   |-> Work("final_maximum"),
  final_maximum |-> CheckedMax(7, 1, "final_winners", "fail"),
  final_winners |-> Call("locations", "final_sum", "fail")]

\* audit_pending_final: acceptance is decided on global values.  If continuity
\* is not met all ranks are told the cell that is worst.
AuditAcceptance == [
  final_sum       |-> CheckedSum(5, 3, "final_decide", "fail"),
  final_decide    |-> Branch(<<"ok", "final_witness", "fail">>),
  final_witness   |-> Raw("witness", "final_broadcast"),
  final_broadcast |-> Raw("broadcast", "fail")]

-----------------------------------------------------------------------------
\* execute_attempt: the scalars are remapped to the final fluxes.  Species that
\* have moved too far reject the attempt, for another coupling sweep.  "target":
\* they are solved for at the target time.
RemapScalars == [
  remap_given  |-> Given("remap", "remap_run", "rate_exchange"),
  remap_run    |-> Call("remap", "remap_target", "rate_agree"),
  remap_target |-> Given("target", "remap_species", "remap_closed"),
  remap_species |-> Call("species", "remap_closed", "rate_agree"),
  remap_closed |-> Branch(<<"remap_passive", "remap_reject">>),
  remap_passive |-> Given("passive revision", "remap_alone", "rate_exchange"),
  remap_alone  |-> Call("alone", "rate_exchange", "rate_agree"),
  remap_reject |-> Set("failed", TRUE, "rate_agree")]

\* ScalarMassRemap::solve: the third outcome of an iteration is that the scalars
\* have not converged, the second that they have but the species have moved.
ScalarMassRemap == [
  remap          |-> Work("remap_agree"),
  remap_agree    |-> Consensus("remap_first", "fail"),
  remap_first    |-> Set("iterations", 0, "remap_exchange"),
  remap_exchange |-> Exchange("remap_boundary", "remap_ghosts"),
  remap_boundary |-> Work("remap_ghosts"),
  remap_ghosts   |-> Consensus("remap_rows", "fail"),
  remap_rows     |-> Work("remap_maximum"),
  remap_maximum  |-> CheckedMax(4, 3, "remap_converged", "fail"),
  remap_converged |-> Branch(<<"ok", "ok", "remap_next">>),
  remap_next     |-> Iterate("remap_limit"),
  remap_limit    |-> Limit("fail", "remap_exchange")]

\* solve_coupling_species
CouplingSpecies == [
  species       |-> Work("species_agree"),
  species_agree |-> Consensus("species_solve", "fail"),
  species_solve |-> Call("target", "species_guess", "fail"),
  species_guess |-> Call("history", "ok", "fail")]

\* solve_target_species: the composition of all cells is checked before the
\* rows of each iteration.
TargetSpecies == [
  target             |-> Work("target_agree"),
  target_agree       |-> Consensus("target_first", "fail"),
  target_first       |-> Set("iterations", 0, "target_exchange"),
  target_exchange    |-> Exchange("target_boundary", "target_ghosts"),
  target_boundary    |-> Work("target_ghosts"),
  target_ghosts      |-> Consensus("target_composition", "fail"),
  target_composition |-> Work("target_composed"),
  target_composed    |-> Consensus("target_rows", "fail")]

\* solve_target_species: the rows of an iteration and its end.
TargetRows == [
  target_rows      |-> Work("target_maximum"),
  target_maximum   |-> CheckedMax(5, 3, "target_converged", "fail"),
  target_converged |-> Branch(<<"ok", "ok", "target_next">>),
  target_next      |-> Iterate("target_limit"),
  target_limit     |-> Limit("fail", "target_exchange")]

\* SpeciesCouplingHistory::update
CouplingHistory == [
  history     |-> Given("history", "history_sum", "ok"),
  history_sum |-> CheckedSum(21, 1, "ok", "fail")]

-----------------------------------------------------------------------------
\* execute_attempt: the velocity that the rates are evaluated from.
FinalVelocity == [
  rate_exchange |-> Exchange("rate_boundary", "rate_agree"),
  rate_boundary |-> Work("rate_agree"),
  rate_agree    |-> Consensus("rate_immersed", "rate_donated"),
  rate_immersed |-> Given("immersed", "rate_donors", "rate_donated"),
  rate_donors   |-> Donors("rate_donated", "rate_donated"),
  rate_donated  |-> Consensus("rate_live", "rate_skip")]

\* execute_attempt: ghosts of the transport.  Ranks that had agreed to evaluate
\* the rates exchange them even if one has failed since.
FinalTransport == [
  rate_live     |-> Call("live", "rate_ghosts", "rate_ghosts"),
  rate_skip     |-> Consensus("rate_resolved", "rate_resolved"),
  rate_ghosts   |-> Exchange("rate_material", "rate_resolved"),
  rate_material |-> Work("rate_resolved"),
  rate_resolved |-> Consensus("rate_scalars", "rate_scalars_agree")]

\* execute_attempt: ghosts of the scalars, the material of the inlets and the
\* donors of the immersed boundary.
FinalGhosts == [
  rate_scalars       |-> Work("rate_scalars_agree"),
  rate_scalars_agree |-> Consensus("rate_inlet", "rate_inlet_agree"),
  rate_inlet         |-> Work("rate_inlet_agree"),
  rate_inlet_agree   |-> Consensus("rate_heating", "rate_heated"),
  rate_heating       |-> Given("immersed", "rate_traction", "rate_heated"),
  rate_traction      |-> Donors("rate_heated", "rate_heated"),
  rate_heated        |-> Consensus("force_given", "final_inputs_agree")]

\* execute_attempt: the forces on the immersed boundary.
FinalForces == [
  force_given  |-> Given("forces", "force_donors", "final_inputs"),
  force_donors |-> Donors("force_agree", "force_agree"),
  force_agree  |-> Consensus("force_prepare", "final_inputs_agree"),
  force_prepare |-> Work("final_inputs")]

\* execute_attempt: the rates of the final state, and the revisions that its
\* fluxes depend on.
FinalRates == [
  final_inputs       |-> Work("final_inputs_agree"),
  final_inputs_agree |-> Consensus("final_rates", "final_rates_agree"),
  final_rates        |-> Work("final_rates_agree"),
  final_rates_agree  |-> Consensus("final_publish", "final_momentum_agree"),
  final_publish      |-> Call("publish_final", "final_momentum",
                              "final_momentum_agree")]

\* publish_pending_final: all that can go wrong is agreed on before any rank
\* publishes.
PublishPendingFinal == [
  publish_final     |-> Work("publish_final_agree"),
  publish_final_agree |-> Consensus("publish_preflight", "fail"),
  publish_preflight |-> Work("publish_ready"),
  publish_ready     |-> Consensus("publish_flux", "fail"),
  publish_flux      |-> Work("publish_done"),
  publish_done      |-> Consensus("ok", "fail")]

\* execute_attempt: the equation of momentum in the final state.
FinalMomentum == [
  final_momentum       |-> Work("final_momentum_agree"),
  final_momentum_agree |-> Consensus("final_equations", "final_prepare"),
  final_equations      |-> Call("equations", "final_views",
                                "final_prepare"),
  final_views          |-> Given("balance views", "final_alone",
                                 "final_balance"),
  final_alone          |-> Call("alone", "final_balance", "final_prepare"),
  final_balance        |-> Call("balance", "final_report", "final_prepare")]

\* collect_terminal_equations
TerminalEquations == [
  equations       |-> Work("equation_sums"),
  equation_sums   |-> CheckedSum(8, 1, "equation_energies", "fail"),
  equation_energies |-> CheckedSum(2, 1, "equation_maximum", "fail"),
  equation_maximum |-> CheckedMax(3, 1, "region_sums", "fail"),
  region_sums     |-> CheckedSum(8, 1, "region_maximum", "fail"),
  region_maximum  |-> CheckedMax(6, 1, "region_worst", "fail"),
  region_worst    |-> Call("locations", "ok", "fail")]

\* collect_boundary_balance: what flows through the boundary.
BoundaryBalance == [
  balance      |-> Work("balance_mass"),
  balance_mass |-> CheckedSum(8, 1, "balance_heat", "fail"),
  balance_heat |-> CheckedSum(7, 1, "balance_rates", "fail")]

\* collect_boundary_balance: the defects, which have to be finite.
BalanceDefects == [
  balance_rates   |-> CheckedSum(2, 2, "balance_defects", "fail"),
  balance_defects |-> Branch(<<"ok", "fail">>)]

\* execute_attempt: what the driver reports, and the end of the attempt.
FinishAttempt == [
  final_report  |-> Work("final_prepare"),
  final_prepare |-> RawConsensus("final_accept", "final_reject"),
  final_accept  |-> Close("attempt", TRUE, "end"),
  final_reject  |-> Close("attempt", FALSE, "end")]
=============================================================================
