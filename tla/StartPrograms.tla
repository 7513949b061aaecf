---------------------------- MODULE StartPrograms ----------------------------
(***************************************************************************)
(* How the ranks start a simulation: from a uniform state, whose velocity  *)
(* and fluxes are projected, or from a restart image.  "start" is the      *)
(* epoch of the driver's authority: its fields, fluxes, time and           *)
(* controller become the accepted ones when it closes.                     *)
(***************************************************************************)
EXTENDS ProjectionPrograms

\* The exchange of donor values, which agrees on what the ranks bring to it.
Donors(ok, fail) == Collective("donors", "exchange", 0, 1, ok, fail)

\* resolve_static_boundary_values: a rank that has failed takes part in the
\* sums of the inlets' capacities all the same, and its failure is pending when
\* it returns.  "inlet" and "patches": a face with a given mass flow, and one
\* that is divided into several inlets.
ResolveBoundaryValues == [
  resolve            |-> Work("resolve_inlet"),
  resolve_inlet      |-> Given("inlet", "resolve_capacity", "resolve_patches"),
  resolve_capacity   |-> Raw("capacity", "resolve_scale"),
  resolve_scale      |-> Work("resolve_patches"),
  resolve_patches    |-> Given("patches", "resolve_membership",
                               "resolve_complete"),
  resolve_membership |-> Work("resolve_patch"),
  resolve_patch      |-> Raw("patch capacities", "resolve_patch_scale"),
  resolve_patch_scale |-> Work("resolve_complete"),
  resolve_complete   |-> Raw("complete", "resolve_values")]

\* resolve_static_boundary_values: temperatures and scalars, and then vectors.
ResolveScalars == [resolve_values |-> Work("resolve_vectors")]
ResolveVectors == [resolve_vectors |-> Work("pass")]

\* exchange_effective_thermal_ghosts: what has failed before is agreed on by
\* the exchange.
ThermalGhosts == [
  thermal        |-> Exchange("thermal_ghosts", "fail"),
  thermal_ghosts |-> Work("pass")]

\* rebuild_cold_velocity_dependents: the boundary values.
ColdBoundary == [
  cold          |-> Work("cold_agree"),
  cold_agree    |-> Consensus("cold_resolve", "fail"),
  cold_resolve  |-> Call("resolve", "cold_resolved", "cold_resolved"),
  cold_resolved |-> Consensus("cold_accepted", "fail")]

\* The ghosts and the donors of each layer of the velocity.
ColdLayers == [
  cold_accepted |-> Call("layer", "cold_previous", "fail"),
  cold_previous |-> Call("layer", "cold_trial", "fail"),
  cold_trial    |-> Call("layer", "cold_material", "fail"),
  layer         |-> Work("layer_exchange"),
  layer_exchange |-> Exchange("layer_boundary", "layer_agree"),
  layer_boundary |-> Work("layer_agree"),
  layer_agree   |-> Consensus("layer_immersed", "fail"),
  layer_immersed |-> Given("immersed", "layer_donors", "ok"),
  layer_donors  |-> Donors("layer_donated", "layer_donated"),
  layer_donated |-> Consensus("ok", "fail")]

\* The gradient, the viscosities and the thermal transport.
ColdMaterial == [
  cold_material    |-> Work("cold_effective"),
  cold_effective   |-> Given("thermal", "cold_thermal", "cold_transported"),
  cold_thermal     |-> Call("thermal", "cold_transported", "cold_transported"),
  cold_transported |-> Consensus("cold_views", "fail"),
  cold_views       |-> Work("cold_views_agree"),
  cold_views_agree |-> Consensus("cold_begin", "fail"),
  cold_begin       |-> Work("cold_exchange"),
  cold_exchange    |-> Exchange("cold_ghosts", "cold_ghosts_agree"),
  cold_ghosts      |-> Work("cold_ghosts_agree"),
  cold_ghosts_agree |-> Consensus("cold_inlet", "fail"),
  cold_inlet       |-> Work("cold_inlet_agree"),
  cold_inlet_agree |-> Consensus("cold_scalars", "fail")]

\* The ghosts of all fields that the rates are evaluated from.
ColdGhosts == [
  cold_scalars        |-> Work("cold_scalars_agree"),
  cold_scalars_agree  |-> Consensus("cold_rate_begin", "fail"),
  cold_rate_begin     |-> Work("cold_rate_exchange"),
  cold_rate_exchange  |-> Exchange("cold_rate_ghosts", "cold_rate_agree"),
  cold_rate_ghosts    |-> Work("cold_rate_agree"),
  cold_rate_agree     |-> Consensus("cold_faces", "fail"),
  cold_faces          |-> Work("cold_faces_agree"),
  cold_faces_agree    |-> Consensus("cold_immersed", "fail"),
  cold_immersed       |-> Given("immersed", "cold_donors", "cold_histories"),
  cold_donors         |-> Donors("cold_donated", "cold_donated"),
  cold_donated        |-> Consensus("cold_histories", "fail")]

\* The rates are evaluated if the chemistry of all ranks is prepared, and are
\* copied into the histories if all have evaluated them.
ColdRates == [
  cold_histories   |-> Work("cold_prepared"),
  cold_prepared    |-> Consensus("cold_rates", "cold_rates_agree"),
  cold_rates       |-> Work("cold_rates_agree"),
  cold_rates_agree |-> Consensus("cold_copies", "fail"),
  cold_copies      |-> Work("cold_copies_agree"),
  cold_copies_agree |-> Consensus("ok", "fail")]

-----------------------------------------------------------------------------
\* initialize: the ranks have been given the same state, and it is physical.
StartInput == [
  start            |-> Open("start", "start_input"),
  start_input      |-> Work("start_input_agree"),
  start_input_agree |-> Consensus("start_contract", "start_discard"),
  start_contract   |-> Contract("start_thermo", "start_discard"),
  start_thermo     |-> Work("start_thermo_agree"),
  start_thermo_agree |-> Consensus("start_mass", "start_discard"),
  start_mass       |-> CheckedSum(1, 2, "start_positive", "start_discard"),
  start_positive   |-> Branch(<<"start_controller", "start_refuse">>),
  start_refuse     |-> Set("failed", TRUE, "start_discard"),
  start_discard    |-> Close("start", FALSE, "start_forget"),
  start_forget     |-> Close("fresh", FALSE, "end")]

\* initialize: a rank that has no views takes part in the agreement only.
StartFields == [
  start_controller |-> Work("start_controller_agree"),
  start_controller_agree |-> Consensus("start_common", "start_discard"),
  start_common     |-> Work("start_common_agree"),
  start_common_agree |-> Consensus("start_views", "start_discard"),
  start_views      |-> Work("start_views_agree"),
  start_views_agree |-> Consensus("start_resolve", "start_ghosts_agree")]

\* initialize: boundary values, ghosts and the closure of the inlet faces.
StartBoundary == [
  start_resolve    |-> Call("resolve", "start_resolved", "start_ghosts_agree"),
  start_resolved   |-> Test("start_ghosts", "start_ghosts_agree"),
  start_ghosts     |-> Work("start_ghosts_agree"),
  start_ghosts_agree |-> Consensus("start_workspace", "start_discard")]

\* close_fresh_physical_flux
FreshFlux == [
  fresh_flux       |-> Work("fresh_flux_agree"),
  fresh_flux_agree |-> Consensus("fresh_flux_close", "fail"),
  fresh_flux_close |-> Call("physical", "ok", "fail")]

\* initialize: the fluxes that belong to the uniform state.  Those of an open
\* boundary ("open start") are closed by the ranks that have assembled theirs.
StartFlux == [
  start_workspace  |-> Work("start_workspace_agree"),
  start_workspace_agree |-> Consensus("start_flux", "start_discard"),
  start_flux       |-> Work("start_kind"),
  start_kind       |-> Given("open start", "start_open", "start_flux_agree"),
  start_open       |-> Test("start_physical", "start_flux_agree"),
  start_physical   |-> Call("fresh_flux", "start_layers", "start_flux_agree"),
  start_layers     |-> Work("start_flux_agree"),
  start_flux_agree |-> Consensus("start_prepare", "start_discard")]

\* initialize: the projection, and the derived fields if there is an immersed
\* boundary or a reaction ("derived").
StartProjection == [
  start_prepare |-> Call("prepare_projection", "start_solve", "start_agree"),
  start_solve   |-> Call("solve_projection", "start_audit", "start_agree"),
  start_audit   |-> Call("audit_projection", "start_agree", "start_agree"),
  start_agree   |-> Consensus("start_commit", "start_discard"),
  start_commit  |-> Call("commit_projection", "start_replay",
                         "start_discard"),
  start_replay  |-> Given("open start", "start_workspace_view",
                          "start_derived"),
  start_workspace_view |-> Work("start_viewed"),
  start_viewed  |-> Test("start_sealed", "start_sealed_agree"),
  start_sealed  |-> Call("fresh_flux", "start_compare",
                         "start_sealed_agree"),
  start_compare |-> Work("start_sealed_agree"),
  start_sealed_agree |-> Consensus("start_derived", "start_discard"),
  start_derived |-> Given("derived", "start_rebuild", "start_done"),
  start_rebuild |-> Call("cold", "start_done", "start_discard"),
  start_done    |-> Given("layer publication", "start_publish", "start_keep"),
  start_publish |-> Call("alone", "start_keep", "start_discard"),
  start_keep    |-> Close("start", TRUE, "start_forget")]

-----------------------------------------------------------------------------
\* initialize_restart: all that can be wrong with the image is agreed on before
\* it is used.  With "parcels" in the image the ranks that have found nothing
\* wrong with the fields agree on them first.
RestartInput == [
  restart          |-> Open("start", "restart_image"),
  restart_image    |-> Work("restart_kind"),
  restart_kind     |-> Given("parcels", "restart_valid", "restart_image_agree"),
  restart_valid    |-> Test("restart_parcels", "restart_image_agree"),
  restart_parcels  |-> Work("restart_parcels_agree"),
  restart_parcels_agree |-> RawConsensus("restart_positions",
                                         "restart_image_agree"),
  restart_positions |-> Work("restart_image_agree"),
  restart_image_agree |-> Consensus("restart_contract", "start_discard"),
  restart_contract |-> Contract("restart_controller", "start_discard"),
  restart_controller |-> Work("restart_controller_agree"),
  restart_controller_agree |-> Consensus("restart_flux", "start_discard")]

\* initialize_restart: the fluxes, the thermodynamic state and the mass.
RestartState == [
  restart_flux       |-> Work("restart_flux_agree"),
  restart_flux_agree |-> Consensus("restart_staging", "start_discard"),
  restart_staging    |-> Work("restart_staging_agree"),
  restart_staging_agree |-> Consensus("restart_thermo", "start_discard"),
  restart_thermo     |-> Work("restart_thermo_agree"),
  restart_thermo_agree |-> Consensus("restart_mass", "start_discard"),
  restart_mass       |-> CheckedSum(1, 2, "restart_positive",
                                    "restart_mass_agree"),
  restart_positive   |-> Branch(<<"restart_mass_agree", "restart_refuse">>),
  restart_refuse     |-> Set("failed", TRUE, "restart_mass_agree"),
  restart_mass_agree |-> Consensus("restart_seed", "start_discard")]

\* initialize_restart: the layers are filled from the image, and what is not in
\* it is rebuilt.  The status of a view ("layer views") is overwritten by that of
\* the next.
RestartFields == [
  restart_seed     |-> Work("restart_seed_agree"),
  restart_seed_agree |-> Consensus("restart_common", "start_discard"),
  restart_common   |-> Work("restart_common_agree"),
  restart_common_agree |-> Consensus("restart_layers", "start_discard"),
  restart_layers   |-> Given("layer views", "restart_copy", "restart_views"),
  restart_copy     |-> Work("restart_overwrite"),
  restart_overwrite |-> Set("failed", FALSE, "restart_views"),
  restart_views    |-> Work("restart_layers_agree"),
  restart_layers_agree |-> Consensus("restart_rebuild", "start_discard"),
  restart_rebuild  |-> Call("cold", "restart_exact", "start_discard"),
  restart_exact    |-> Given("exact", "restart_rates", "start_done")]

\* initialize_restart: the rates and the ghosts of the previous layer, if the
\* image has the whole history ("exact").
RestartHistory == [
  restart_rates    |-> Work("restart_rates_agree"),
  restart_rates_agree |-> Consensus("restart_previous", "start_discard"),
  restart_previous |-> Work("restart_previous_agree"),
  restart_previous_agree |-> Consensus("restart_esf", "start_discard"),
  restart_esf      |-> Work("restart_esf_agree"),
  restart_esf_agree |-> Consensus("restart_begin", "start_discard"),
  restart_begin    |-> Work("restart_exchange"),
  restart_exchange |-> Exchange("restart_ghosts", "restart_ghosts_agree"),
  restart_ghosts   |-> Work("restart_ghosts_agree"),
  restart_ghosts_agree |-> Consensus("restart_authority", "start_discard"),
  restart_authority |-> Work("restart_authority_agree"),
  restart_authority_agree |-> Consensus("start_done", "start_discard")]
=============================================================================
