------------------------- MODULE ProjectionPrograms --------------------------
(***************************************************************************)
(* The projection of a fresh start, which makes the first velocity and the *)
(* first fluxes conservative: prepare, solve, audit and commit.  Each      *)
(* phase checks that the data of the phases before it are still the same   *)
(* on all ranks.  "fresh" is the epoch of the candidate, from prepare to   *)
(* commit.  Without an immersed boundary there is nothing to solve, but    *)
(* the phases are gone through all the same.                               *)
(***************************************************************************)
EXTENDS MultigridPrograms

\* The ranks gather their hashes of some data, which they all compare with what
\* they know of it: the same, or not.
ReplayBaseInput == [
  replay         |-> Gather(2, "replay_compare"),
  replay_compare |-> Branch(<<"replay_agree", "replay_differs">>),
  replay_differs |-> Set("failed", TRUE, "replay_agree"),
  replay_agree   |-> Consensus("ok", "fail")]

\* The operator agrees on its exchange and on its boundary, not on arithmetic.
ExactOperator == [
  exact           |-> Set("failed", FALSE, "exact_clear"),
  exact_clear     |-> Forget("exact_views"),
  exact_views     |-> Given("exact views", "exact_alone", "exact_begin"),
  exact_alone     |-> Call("alone", "exact_begin", "fail"),
  exact_begin     |-> Work("exact_exchange"),
  exact_exchange  |-> Exchange("exact_boundary", "fail"),
  exact_boundary  |-> Work("exact_agree"),
  exact_agree     |-> Collective("consensus", "exchange", 0, 1,
                                 "exact_product", "fail"),
  exact_product   |-> Work("pass")]

JacobiPreconditioner == [
  jacobi       |-> Set("failed", FALSE, "jacobi_scale"),
  jacobi_scale |-> Work("pass")]

\* prepare: the right-hand side, the mobility of the faces and the diagonal.
PrepareState == [
  prepare_projection |-> Open("fresh", "pp_views"),
  pp_views        |-> Work("pp_views_agree"),
  pp_views_agree  |-> Consensus("pp_input", "fail"),
  pp_input        |-> Gather(1, "pp_rhs"),
  pp_rhs          |-> Work("pp_rhs_agree"),
  pp_rhs_agree    |-> Consensus("pp_matrix", "fail"),
  pp_matrix       |-> Work("pp_matrix_agree"),
  pp_matrix_agree |-> Consensus("pp_components", "fail")]

\* prepare: the sums over the connected components of the fluid go to their
\* owners and come back; a component that is not balanced is a failure.
PrepareComponents == [
  pp_components    |-> Work("pp_routes_agree"),
  pp_routes_agree  |-> Consensus("pp_send", "fail"),
  pp_send          |-> Raw("alltoall", "pp_sent"),
  pp_sent          |-> Consensus("pp_owners", "fail"),
  pp_owners        |-> Work("pp_owners_agree"),
  pp_owners_agree  |-> Consensus("pp_answer", "fail"),
  pp_answer        |-> Raw("alltoall", "pp_answered"),
  pp_answered      |-> Consensus("pp_balance", "fail"),
  pp_balance       |-> Work("pp_defect"),
  pp_defect        |-> CheckedMax(1, 1, "pp_initial", "fail"),
  pp_initial       |-> CheckedMax(1, 1, "pp_numeric", "fail")]

\* prepare: "native" compiles a multigrid plan for the matrix.
PrepareHierarchy == [
  pp_numeric       |-> Gather(1, "pp_native"),
  pp_native        |-> Given("native", "pp_immersed", "ok"),
  pp_immersed      |-> Given("immersed", "pp_boundaries", "ok"),
  pp_boundaries    |-> Work("pp_boundaries_agree"),
  pp_boundaries_agree |-> Consensus("pp_compile", "fail"),
  pp_compile       |-> Call("mg_compile", "ok", "fail")]

\* The result of the solve lives on in the certificate alone.
SolveProjection == [
  solve_projection |-> Work("sp_agree"),
  sp_agree         |-> Consensus("sp_replay", "fail"),
  sp_replay        |-> Call("replay", "sp_immersed", "fail"),
  sp_immersed      |-> Given("immersed", "sp_new", "sp_chi"),
  sp_new           |-> NewSolve("sp_solve"),
  sp_solve         |-> Call("solver", "sp_solved", "sp_failed"),
  sp_solved        |-> NewSolve("sp_chi"),
  sp_failed        |-> NewSolve("fail"),
  sp_chi           |-> Gather(1, "sp_owned"),
  sp_owned         |-> Gather(1, "ok")]

\* ContinuityAudit::evaluate: the solver stops when the corrected fluxes are
\* conservative enough, on the largest defect of all ranks.
ContinuityAudit == [
  continuity        |-> Set("failed", FALSE, "continuity_begin"),
  continuity_begin  |-> Work("continuity_ghosts"),
  continuity_ghosts |-> Exchange("continuity_boundary", "fail"),
  continuity_boundary |-> Work("continuity_agree"),
  continuity_agree  |-> Consensus("continuity_flux", "fail"),
  continuity_flux   |-> Work("continuity_maximum"),
  continuity_maximum |-> CheckedMax(1, 2, "ok", "fail")]

\* audit: the solution is the one that was solved for, before and after the
\* exchange of its ghosts.
AuditSolution == [
  audit_projection |-> Work("ap_agree"),
  ap_agree         |-> Consensus("ap_input", "fail"),
  ap_input         |-> Call("replay", "ap_chi", "fail"),
  ap_chi           |-> Call("replay", "ap_begin", "fail"),
  ap_begin         |-> Work("ap_ghosts"),
  ap_ghosts        |-> Exchange("ap_boundary", "fail"),
  ap_boundary      |-> Work("ap_boundary_agree"),
  ap_boundary_agree |-> Consensus("ap_owned", "fail"),
  ap_owned         |-> Call("replay", "ap_candidate", "fail")]

\* audit: the candidate velocity and fluxes, and their defects.  A rank whose
\* fixed fluxes have changed rejects the candidate.
AuditCandidate == [
  ap_candidate     |-> Work("ap_candidate_agree"),
  ap_candidate_agree |-> Consensus("ap_defects", "fail"),
  ap_defects       |-> Work("ap_sum"),
  ap_sum           |-> CheckedSum(1, 1, "ap_maximum", "fail"),
  ap_maximum       |-> CheckedMax(1, 2, "ap_limit", "fail"),
  ap_limit         |-> Branch(<<"ap_fixed", "ap_reject">>),
  ap_fixed         |-> Work("ap_decide"),
  ap_reject        |-> Set("failed", TRUE, "ap_decide"),
  ap_decide        |-> Consensus("ap_state", "fail"),
  ap_state         |-> Gather(1, "ap_flux"),
  ap_flux          |-> Gather(1, "ok")]

\* commit: after the last agreement nothing fails, and the candidate becomes
\* the velocity and the fluxes of all ranks.
CommitProjection == [
  commit_projection |-> Work("cp_agree"),
  cp_agree         |-> Consensus("cp_input", "fail"),
  cp_input         |-> Call("replay", "cp_state", "fail"),
  cp_state         |-> Gather(1, "cp_flux"),
  cp_flux          |-> Call("replay", "cp_immersed", "fail"),
  cp_immersed      |-> Given("immersed", "cp_publish", "ok"),
  cp_publish       |-> Close("fresh", TRUE, "ok")]
=============================================================================
