--------------------------- MODULE SolveProtocols ---------------------------
(***************************************************************************)
(* The callbacks that the product gives to the Krylov solvers, and the     *)
(* protocols it solves with: the pressure operator, which exchanges ghosts *)
(* in every application; the multigrid preconditioner and the prepared     *)
(* Schur operator, whose exchanges carry no verdict and whose ghosts are   *)
(* published when their epoch closes; the audit of a solution; and the     *)
(* coupled solve of pressure and energy.                                   *)
(***************************************************************************)
EXTENDS KrylovPrograms

\* Mutant of Pressure: it is still there.
PressureKeepsScope == [
  pressure          |-> Set("failed", FALSE, "pressure_begin"),
  pressure_begin    |-> Work("pressure_exchange"),
  pressure_exchange |-> Exchange("pressure_stencil", "fail"),
  pressure_stencil  |-> Work("pass")]

\* The failing rank of an earlier application is forgotten.
Pressure == [
  pressure          |-> Set("failed", FALSE, "pressure_clear"),
  pressure_clear    |-> Forget("pressure_views"),
  pressure_views    |-> Given("pressure views", "pressure_alone",
                              "pressure_begin"),
  pressure_alone    |-> Call("alone", "pressure_begin", "fail"),
  pressure_begin    |-> Work("pressure_exchange"),
  pressure_exchange |-> Exchange("pressure_stencil", "fail"),
  pressure_stencil  |-> Work("pass")]

Diagonal == [
  diagonal       |-> Set("failed", FALSE, "diagonal_scale"),
  diagonal_scale |-> Work("pass")]

NoAudit == [no_audit |-> Set("value", 1, "ok")]

\* A rejection for good names the cell that limits the correction.
AuditPressure == [
  audit_pressure    |-> Set("failed", FALSE, "audit_plan"),
  audit_plan        |-> Given("audit plan", "audit_alone", "audit_depletion"),
  audit_alone       |-> Call("alone", "audit_depletion", "fail"),
  audit_depletion   |-> Work("audit_step"),
  audit_step        |-> CheckedMax(1, 1, "audit_continuity", "fail"),
  audit_continuity  |-> Work("audit_metrics"),
  audit_metrics     |-> CheckedMax(3, 3, "audit_decision", "fail"),
  audit_decision    |-> Branch(<<"ok", "ok", "audit_limiting">>),
  audit_limiting    |-> Work("audit_owner"),
  audit_owner       |-> CheckedMax(1, 1, "audit_cell", "fail"),
  audit_cell        |-> Work("audit_primary"),
  audit_primary     |-> CheckedSum(8, 1, "audit_secondary", "fail"),
  audit_secondary   |-> CheckedSum(4, 1, "fail", "fail")]

\* apply_prepared: once all ranks have entered the epoch a failure waits for
\* the last reduction.  The null space of the operator is projected out of
\* the residual and of the correction.  There is no cycle if the diagonal alone
\* is enough of a preconditioner.
Multigrid == [
  mg            |-> Set("failed", FALSE, "mg_enter"),
  mg_enter      |-> Open("mg", "mg_ticket"),
  mg_ticket     |-> Work("mg_agree"),
  mg_agree      |-> Consensus("mg_rhs", "mg_refuse"),
  mg_rhs        |-> Given("null space", "mg_rhs_project", "mg_depth"),
  mg_rhs_project |-> Call("mg_project", "mg_depth", "mg_refuse"),
  mg_depth      |-> Given("diagonal", "mg_correction", "mg_cycle"),
  mg_cycle      |-> PreparedExchange("mg_smooth"),
  mg_smooth     |-> Work("mg_correction"),
  mg_correction |-> Given("null space", "mg_defer", "mg_residual"),
  mg_defer      |-> Defer("mg_correction_project"),
  mg_correction_project |-> Call("mg_project", "mg_carry", "mg_refuse"),
  mg_carry      |-> Carry("mg_residual"),
  mg_residual   |-> PreparedExchange("mg_products"),
  mg_products   |-> Work("mg_sum"),
  mg_sum        |-> CheckedSum(3, 2, "mg_finite", "mg_refuse"),
  mg_finite     |-> Branch(<<"mg_publish", "mg_refuse">>),
  mg_publish    |-> Close("mg", TRUE, "ok"),
  mg_refuse     |-> Close("mg", FALSE, "fail")]

\* project_constant: the weighted mean is taken off, if the volume is positive.
MultigridProject == [
  mg_project    |-> CheckedSum(2, 2, "mg_volume", "fail"),
  mg_volume     |-> Branch(<<"ok", "fail">>)]

\* A prepared application exchanges pressure and enthalpy whatever happens.
Schur == [
  schur           |-> Set("failed", FALSE, "schur_views"),
  schur_views     |-> Work("schur_pressure"),
  schur_pressure  |-> PreparedExchange("schur_eliminate"),
  schur_eliminate |-> Work("schur_enthalpy"),
  schur_enthalpy  |-> PreparedExchange("schur_response"),
  schur_response  |-> Work("pass")]

\* PisoPressureSolveEpoch::solve_prepared
SolvePrepared == [
  piso       |-> Set("failed", FALSE, "piso_bound"),
  piso_bound |-> Given("piso binding", "piso_alone", "piso_select"),
  piso_alone |-> Call("alone", "piso_select", "fail"),
  piso_select |-> Work("piso_agree"),
  piso_agree |-> Consensus("piso_recycle", "fail"),
  piso_recycle |-> Given("recycled span", "piso_capture", "piso_solve"),
  piso_capture |-> Call("alone", "piso_solve", "fail"),
  piso_solve |-> NewSolve("piso_run"),
  piso_run   |-> Call("solver", "ok", "fail")]

\* Mutant of CoupledClose: each rank closes the epoch as it sees fit.
CoupledCloseUnagreed == [
  coupled_solved   |-> Test("coupled_publish", "coupled_discard"),
  coupled_publish  |-> Close("schur", TRUE, "coupled_closed"),
  coupled_discard  |-> Close("schur", FALSE, "coupled_closed"),
  coupled_closed   |-> Consensus("coupled_recover", "coupled_recovered")]

\* An explicit outcome of all ranks precedes the end of the epoch.
CoupledClose == [
  coupled_solved   |-> Consensus("coupled_publish", "coupled_discard"),
  coupled_publish  |-> Close("schur", TRUE, "coupled_closed"),
  coupled_discard  |-> Close("schur", FALSE, "coupled_closed"),
  coupled_closed   |-> Consensus("coupled_recover", "coupled_recovered")]

\* The status of a rank is agreed before every phase in which it exchanges.
\* The operator is prepared once, and refreshed before each "refinement".
CoupledSolve == [
  coupled          |-> Given("refinement", "coupled_refine", "coupled_bind"),
  coupled_refine   |-> Call("refine", "coupled_bind", "coupled_bound"),
  coupled_bind     |-> Work("coupled_bound"),
  coupled_bound    |-> Consensus("coupled_faces", "coupled_skip_bind"),
  coupled_faces    |-> Work("coupled_agree"),
  coupled_agree    |-> Consensus("coupled_rhs", "coupled_skip_rhs"),
  coupled_rhs      |-> Call("pressure", "coupled_history", "coupled_restored"),
  coupled_history  |-> Test("coupled_restore", "coupled_restored"),
  coupled_restore  |-> Work("coupled_restored"),
  coupled_restored |-> Consensus("coupled_prepare", "coupled_skip_solve"),
  coupled_prepare  |-> Work("coupled_open"),
  coupled_open     |-> Test("coupled_opened", "coupled_ready"),
  coupled_opened   |-> Open("schur", "coupled_ready"),
  coupled_ready    |-> Consensus("coupled_solve", "coupled_discard"),
  coupled_solve    |-> Call("piso", "coupled_remember", "coupled_solved"),
  coupled_remember |-> Work("coupled_solved"),
  coupled_recover  |-> Call("pressure", "coupled_recovered",
                            "coupled_recovered"),
  coupled_recovered |-> Consensus("ok", "fail"),
  coupled_skip_bind  |-> Consensus("coupled_skip_rhs", "coupled_skip_rhs"),
  coupled_skip_rhs   |-> Consensus("coupled_skip_solve", "coupled_skip_solve"),
  coupled_skip_solve |-> Consensus("coupled_closed", "coupled_closed")]

-----------------------------------------------------------------------------
\* The programs: one solve, two in a row, a sum of as many scalars as the rank's
\* number, which the engine has to refuse, and a plan that is compiled and then
\* refreshed.
Programs ==
  [solve     |-> NewSolve("solve_run"),
   solve_run |-> Call("solver", "end", "end"),
   again     |-> NewSolve("again_run"),
   again_run |-> Call("solver", "solve", "solve"),
   couple    |-> Call("coupled", "end", "end"),
   uneven    |-> Work("uneven_sum"),
   uneven_sum |-> [CheckedSum(0, 1, "end", "end")
                     EXCEPT !.count = [r \in Ranks |-> r]],
   matrices  |-> Call("mg_compile", "matrices_refine", "end"),
   matrices_refine |-> Call("refine", "end", "end"),
   end       |-> End]
=============================================================================
