-------------------------- MODULE MultigridPrograms --------------------------
(***************************************************************************)
(* How the ranks build the matrices of a multigrid plan and renew them.    *)
(* The new hierarchy is staged, and becomes the plan's own when all ranks  *)
(* have it: an epoch that is published as a whole.  There is one coarse    *)
(* level, and two of its axes are coarsened.                               *)
(***************************************************************************)
EXTENDS SolveProtocols

\* A consensus over MPI itself, which names a rank to its caller only.
RawConsensus(ok, fail) == Collective("raw", "exchange", 0, 1, ok, fail)

\* A call of MPI that gives every rank the same data, and one that gives each
\* its own; whether they went well is for the caller to agree on.  No failure
\* is pending when the ranks gather.
Gather(outcomes, next) ==
  Collective("gather", "exchange", 0, outcomes, next, next)
Raw(call, next) == Collective(call, "prepared", 0, 1, next, next)

\* NativeCartesianMgPlan::compile: nothing is shared before the ranks have
\* agreed that they have what they need.
CompileMultigrid == [
  mg_compile       |-> Open("hierarchy", "mgc_spec"),
  mgc_spec         |-> Work("mgc_spec_agree"),
  mgc_spec_agree   |-> RawConsensus("mgc_services", "mg_discard"),
  mgc_services     |-> Consensus("mgc_halos", "mg_discard"),
  mgc_halos        |-> Work("mgc_halos_agree"),
  mgc_halos_agree  |-> Consensus("mgc_structure", "mg_discard"),
  mgc_structure    |-> Contract("mgc_counters", "mg_discard"),
  mgc_counters     |-> Work("mgc_counted"),
  mgc_counted      |-> Consensus("mgc_candidate", "mg_discard"),
  mgc_candidate    |-> Work("mgc_created"),
  mgc_created      |-> Consensus("mgc_tables", "mg_discard"),
  mgc_tables       |-> Work("mgc_tables_agree"),
  mgc_tables_agree |-> Consensus("mgc_communicator", "mg_discard"),
  mgc_communicator |-> Raw("dup", "mgc_duplicated"),
  mgc_duplicated   |-> Consensus("mgc_levels", "mg_discard"),
  mgc_levels       |-> Work("mgc_levels_agree"),
  mgc_levels_agree |-> Consensus("mgc_coarse", "mg_discard")]

\* "diagonal": the operator is so diagonally dominant that its diagonal alone
\* preconditions it.  "replicated": every rank has the whole coarsest operator.
CompileHierarchy == [
  mgc_coarse       |-> Call("mgi", "mgc_shortcut", "mgc_agree"),
  mgc_shortcut     |-> Call("mgs", "mgc_ordinary", "mgc_agree"),
  mgc_ordinary     |-> Given("diagonal", "mgc_agree", "mgc_coefficients"),
  mgc_coefficients |-> Call("mgk", "mgc_certify", "mgc_agree"),
  mgc_certify      |-> Work("mgc_agree"),
  mgc_agree        |-> Consensus("mgc_operator", "mg_discard"),
  mgc_operator     |-> Given("diagonal", "mgc_publish", "mgc_replicated"),
  mgc_replicated   |-> Given("replicated", "mgc_gather", "mgc_publish"),
  mgc_gather       |-> Call("mgo", "mgc_publish", "mg_discard"),
  mgc_publish      |-> Close("hierarchy", TRUE, "ok"),
  mg_discard       |-> Close("hierarchy", FALSE, "fail")]

\* Descriptors that do not cover the coarsest level are no failure.
InitializeReplicatedCoarse == [
  mgi              |-> Drop("replicated", "mgi_eligible"),
  mgi_eligible     |-> Given("replicable", "mgi_tables", "ok"),
  mgi_tables       |-> Work("mgi_tables_agree"),
  mgi_tables_agree |-> Consensus("mgi_external", "fail"),
  mgi_external     |-> Work("mgi_external_agree"),
  mgi_external_agree |-> Consensus("mgi_record", "fail"),
  mgi_record       |-> Work("mgi_record_agree"),
  mgi_record_agree |-> Consensus("mgi_gather", "fail"),
  mgi_gather       |-> Gather(2, "mgi_gathered"),
  mgi_gathered     |-> Consensus("mgi_owners", "fail"),
  mgi_owners       |-> Work("mgi_owners_agree"),
  mgi_owners_agree |-> Consensus("mgi_cover", "fail"),
  mgi_cover        |-> Branch(<<"mgi_operator", "ok">>),
  mgi_operator     |-> Work("mgi_operator_agree"),
  mgi_operator_agree |-> Consensus("mgi_storage", "fail"),
  mgi_storage      |-> Work("mgi_storage_agree"),
  mgi_storage_agree |-> Consensus("mgi_ready", "fail"),
  mgi_ready        |-> Take("replicated", "ok")]

\* prepare_diagonal_shortcut: the finest operator is certified first.
PrepareDiagonalShortcut == [
  mgs        |-> Given("shortcut", "mgs_finest", "mgs_deny"),
  mgs_finest |-> Work("mgs_agree"),
  mgs_agree  |-> Consensus("mgs_ratio", "fail"),
  mgs_deny   |-> Drop("diagonal", "ok")]

\* select_diagonal_shortcut: the decision is the same on all ranks.
SelectDiagonalShortcut == [
  mgs_ratio  |-> CheckedMax(1, 2, "mgs_select", "fail"),
  mgs_select |-> Branch(<<"mgs_admit", "mgs_deny">>),
  mgs_admit  |-> Take("diagonal", "ok")]

\* aggregate_tensor_channel: axis by axis a rank sends a plane to its lower
\* neighbour; what fails while it maps the planes waits for the next agreement.
AggregateTensorChannel == [
  mgt             |-> Drop("second axis", "mgt_values"),
  mgt_values      |-> Work("mgt_agree"),
  mgt_agree       |-> Consensus("mgt_axis", "fail"),
  mgt_axis        |-> Work("mgt_axis_agree"),
  mgt_axis_agree  |-> Consensus("mgt_plane", "fail"),
  mgt_plane       |-> Raw("sendrecv", "mgt_map"),
  mgt_map         |-> Work("mgt_more"),
  mgt_more        |-> Given("second axis", "mgt_shape", "mgt_again"),
  mgt_again       |-> Take("second axis", "mgt_axis"),
  mgt_shape       |-> Work("mgt_shape_agree"),
  mgt_shape_agree |-> Consensus("ok", "fail")]

\* The volumes, the diagonal and the faces in each direction.
BuildCoarseCoefficients == [
  mgk          |-> Call("mgt", "mgk_reaction", "fail"),
  mgk_reaction |-> Call("mgt", "mgk_x", "fail"),
  mgk_x        |-> Call("mgt", "mgk_y", "fail"),
  mgk_y        |-> Call("mgt", "mgk_z", "fail"),
  mgk_z        |-> Call("mgt", "mgk_diagonal", "fail"),
  mgk_diagonal |-> Work("mgk_agree"),
  mgk_agree    |-> Consensus("ok", "fail")]

\* Every rank checks all of the operator it has gathered.
BuildReplicatedOperator == [
  mgo          |-> Work("mgo_agree"),
  mgo_agree    |-> Consensus("mgo_record", "fail"),
  mgo_record   |-> Work("mgo_recorded"),
  mgo_recorded |-> Consensus("mgo_gather", "fail"),
  mgo_gather   |-> Gather(2, "mgo_gathered"),
  mgo_gathered |-> Consensus("mgo_finite", "fail"),
  mgo_finite   |-> Branch(<<"mgo_checked", "mgo_refuse">>),
  mgo_refuse   |-> Set("failed", TRUE, "mgo_checked"),
  mgo_checked  |-> Consensus("ok", "fail")]

\* update_coefficients: the contract makes the ranks agree on whether the
\* coefficients are those of the plan already.
RefreshMultigrid == [
  mgr           |-> Work("mgr_agree"),
  mgr_agree     |-> Consensus("mgr_lifecycle", "fail"),
  mgr_lifecycle |-> Collective("contract", "reduction", 0, 2,
                               "mgr_identity", "fail"),
  mgr_identity  |-> Work("mgr_change"),
  mgr_change    |-> CheckedMax(1, 1, "mgr_same", "fail"),
  mgr_same      |-> Branch(<<"ok", "mgr_stage">>),
  mgr_stage     |-> Open("hierarchy", "mgr_views"),
  mgr_views     |-> Work("mgr_views_agree"),
  mgr_views_agree |-> Consensus("mgr_counters", "mg_discard"),
  mgr_counters  |-> Work("mgr_counted"),
  mgr_counted   |-> Consensus("mgr_shortcut", "mg_discard")]

RefreshHierarchy == [
  mgr_shortcut     |-> Call("mgs", "mgr_external", "mg_discard"),
  mgr_external     |-> Given("diagonal", "mgr_coarsened", "mgr_gathers"),
  mgr_gathers      |-> Given("replicated", "mgr_bytes", "mgr_coefficients"),
  mgr_bytes        |-> Work("mgr_bytes_agree"),
  mgr_bytes_agree  |-> Consensus("mgr_coefficients", "mg_discard"),
  mgr_coefficients |-> Call("mgk", "mgr_coarsened", "mgr_coarsened"),
  mgr_coarsened    |-> Consensus("mgr_finest", "mg_discard"),
  mgr_finest       |-> Given("diagonal", "mgr_certified", "mgr_certify"),
  mgr_certify      |-> Work("mgr_certified"),
  mgr_certified    |-> Consensus("mgr_operator", "mg_discard"),
  mgr_operator     |-> Given("diagonal", "mgr_publish", "mgr_replicated"),
  mgr_replicated   |-> Given("replicated", "mgr_gather", "mgr_publish"),
  mgr_gather       |-> Call("mgo", "mgr_gathered", "mgr_gathered"),
  mgr_gathered     |-> Consensus("mgr_publish", "mg_discard"),
  mgr_publish      |-> Close("hierarchy", TRUE, "ok")]

\* refresh_pressure_linear_lifecycle with collective_fail_close.
RefreshLifecycle == [
  lifecycle             |-> Work("lifecycle_agree"),
  lifecycle_agree       |-> RawConsensus("lifecycle_matrix", "fail"),
  lifecycle_matrix      |-> Call("mgr", "lifecycle_certificate", "fail"),
  lifecycle_certificate |-> Work("lifecycle_certified"),
  lifecycle_certified   |-> RawConsensus("lifecycle_operator", "fail"),
  lifecycle_operator    |-> Work("lifecycle_bound"),
  lifecycle_bound       |-> RawConsensus("ok", "fail")]

\* prepare_pressure_energy_refinement_lifecycle
RefineLifecycle == [
  refine           |-> Work("refine_agree"),
  refine_agree     |-> RawConsensus("refine_refresh", "fail"),
  refine_refresh   |-> Call("lifecycle", "refine_certify", "fail"),
  refine_certify   |-> Work("refine_certified"),
  refine_certified |-> RawConsensus("ok", "fail")]
=============================================================================
