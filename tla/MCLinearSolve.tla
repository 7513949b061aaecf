---------------------------- MODULE MCLinearSolve ----------------------------
(***************************************************************************)
(* Linear solves of three ranks: each algorithm with the callbacks and the *)
(* session that the product gives it; the starts of a simulation, the      *)
(* fresh one with the solve of its projection; and of an attempt at a time *)
(* step the prediction, the corrections, the search for a step of pressure *)
(* and energy, and the acceptance.                                         *)
(***************************************************************************)
EXTENDS CorrectorPrograms, LoneRank

\* A solver that has solved: for a program that is about other things.
Solved == [solved |-> Set("failed", FALSE, "ok")]

MCCode ==
  LoneCheck @@ PrepareSolve @@ GlobalDot @@ GlobalNorm @@ ApplyOperator
    @@ ComputeTrueResidual @@ ApplyPreconditioner @@ CollectiveAccount
    @@ FinishFailure @@ InvalidResult @@ FinishSuccess @@ ZeroRhs
    @@ Terminations @@ StartPcg @@ IteratePcg @@ StartBicgstab
    @@ SearchBicgstab @@ StabiliseBicgstab @@ BoundedRecurrence
    @@ StartFgmres @@ SessionFgmres @@ ExpandFgmres @@ CorrectFgmres
    @@ VerifyFgmres @@ RestartFgmres @@ Project @@ PublishCycle @@ Pressure @@ Diagonal
    @@ NoAudit @@ AuditPressure @@ Multigrid @@ MultigridProject
    @@ Schur @@ SolvePrepared
    @@ CoupledClose @@ CoupledSolve @@ Programs
    @@ CompileMultigrid @@ CompileHierarchy @@ InitializeReplicatedCoarse
    @@ PrepareDiagonalShortcut @@ SelectDiagonalShortcut
    @@ AggregateTensorChannel @@ BuildCoarseCoefficients
    @@ BuildReplicatedOperator @@ RefreshMultigrid @@ RefreshHierarchy
    @@ RefreshLifecycle @@ RefineLifecycle
    @@ ReplayBaseInput @@ ExactOperator @@ JacobiPreconditioner
    @@ PrepareState @@ PrepareComponents @@ PrepareHierarchy
    @@ SolveProjection @@ ContinuityAudit @@ AuditSolution @@ AuditCandidate
    @@ CommitProjection
    @@ ResolveBoundaryValues @@ ResolveScalars @@ ResolveVectors
    @@ ThermalGhosts @@ ColdBoundary @@ ColdLayers @@ ColdMaterial
    @@ ColdGhosts @@ ColdRates @@ StartInput @@ StartFields @@ StartBoundary
    @@ FreshFlux @@ StartFlux @@ StartProjection @@ RestartInput @@ RestartState
    @@ RestartFields @@ RestartHistory
    @@ MaximumLocations @@ LiveThermalGhosts @@ RefreshState
    @@ RefreshTransport @@ AssembleEnergy @@ TerminalEnergy @@ TerminalAudit
    @@ AuditCommunicator @@ AuditCells @@ AuditAcceptance @@ RemapScalars
    @@ ScalarMassRemap @@ CouplingSpecies @@ TargetSpecies @@ TargetRows
    @@ CouplingHistory @@ FinalVelocity @@ FinalTransport @@ FinalGhosts
    @@ FinalForces @@ FinalRates @@ PublishPendingFinal @@ FinalMomentum
    @@ TerminalEquations @@ BoundaryBalance @@ BalanceDefects @@ FinishAttempt
    @@ StageAuthority @@ FormScaledPressure @@ StageVelocityGhosts
    @@ StageVelocity @@ StageFlux @@ FinalizeInput @@ FinalizeBoundary
    @@ PhysicalCapacity @@ PhysicalFlux @@ ClosedGauge @@ CertifyBoundary
    @@ CertifyExact @@ CertifyStationary @@ ReplayFingerprints
    @@ CommitExactState @@ SampleVelocity @@ SampleState @@ SampleBoundary
    @@ SampleMaterial @@ SampleFlux @@ SampleMetrics @@ SampleReplay
    @@ CandidateBaseline @@ CandidateExtrapolation @@ CandidateLadder
    @@ CandidateChosen @@ CandidatePublication @@ RefinementCommit
    @@ PredictHigh @@ PredictRoute @@ PredictEndpoint @@ EndpointSolve
    @@ TransportOperator @@ TransportJacobi @@ PredictLimited @@ PredictBlend
    @@ ClosedMass @@ PassiveIntervals @@ LimiterCourant @@ LimiterFaces
    @@ ImplicitMomentum @@ AttemptBegin @@ AttemptSource @@ AttemptReaction
    @@ AttemptPrediction @@ AttemptSeed @@ AttemptCapture @@ AttemptEnthalpy
    @@ AttemptThermo @@ FailureContext @@ AttemptVelocity
    @@ PublishMomentumState @@ TemporalFlux @@ RunMomentum
    @@ AttemptCorrection @@ RefreshCoupler @@ AssembleResidual
    @@ CompilePressure @@ FormBlocks @@ Preflight @@ CorrectPressure
    @@ CorrectExact @@ CorrectorSystem @@ CorrectorState @@ CorrectorOne
    @@ CorrectorTwo @@ Solved

Solve(solver, operator, preconditioner, audit, options) ==
  [main |-> "solve", solver |-> solver, operator |-> operator,
   preconditioner |-> preconditioner, audit |-> audit, options |-> options]

Driver(main, options) ==
  [Solve("pcg", "exact", "jacobi", "no_audit", options) EXCEPT !.main = main]

Attempt(solver, options) ==
  [Solve(solver, "transport", "transport_jacobi", "no_audit", options)
     EXCEPT !.main = "attempt"]

\* The checks that a rank makes alone (LoneCheck): they fail on no rank of the
\* entries, which take none of these options.
LoneChecks ==
  {"pressure views", "exact views", "transport views", "audit plan",
   "piso binding", "recycled span", "ratio ghosts", "donor halo",
   "trial revision", "coupler closure", "coupler constraint",
   "energy workspaces", "pressure system", "multigrid spec", "solid mask",
   "exact workspaces", "exact state", "trial views", "flux view",
   "final flux view", "committed view", "passive revision", "balance views",
   "open start", "parcels", "layer views", "layer publication"}

MCEntries ==
  LET pcg == Solve("pcg", "pressure", "diagonal", "audit_pressure", {"audit"}) IN
  {[pcg EXCEPT !.main = "again"], [pcg EXCEPT !.main = "uneven"],
   Solve("bicgstab", "pressure", "mg", "audit_pressure",
         {"collective", "audit", "null space"}),
   Solve("bicgstab", "pressure", "diagonal", "no_audit", {"recurrence"}),
   Solve("bicgstab", "pressure", "mg", "no_audit",
         {"recurrence", "collective"}),
   Solve("fgmres", "pressure", "mg", "audit_pressure",
         {"collective", "audit", "projection"}),
   Solve("fgmres", "pressure", "diagonal", "no_audit", {"capture", "small"}),
   [Solve("fgmres", "schur", "mg", "no_audit",
          {"collective", "guard", "refinement", "replicated"})
      EXCEPT !.main = "couple"],
   Driver("matrices", {"shortcut", "replicable"}),
   Driver("start", {"inlet"}),
   Driver("start", {"immersed", "derived", "patches"}),
   [Solve("fgmres", "exact", "mg", "continuity",
          {"collective", "audit", "native", "immersed", "derived",
           "replicable"}) EXCEPT !.main = "start"],
   Driver("restart", {"exact", "thermal"}),
   Driver("accept", {"remap", "target", "history", "immersed", "forces"}),
   Driver("accept", {"candidate", "remap"}),
   Driver("candidate", {"open", "immersed", "inlet", "patches", "balanced"}),
   Driver("candidate", {"closed", "rejected", "extrapolate", "refinement"}),
   Attempt("fgmres", {"remap", "passive", "target", "closed", "immersed"}),
   Attempt("solved", {"cold", "reaction", "inlet"}),
   Attempt("solved", {"second", "patches"}),
   [Attempt("solved", {"closed", "immersed", "uncompiled"})
      EXCEPT !.main = "first"],
   [Attempt("solved", {"closed", "simple"}) EXCEPT !.main = "first"],
   [Attempt("solved", {"outlet"}) EXCEPT !.main = "first"]}

ASSUME NoLoneFailure == \A e \in MCEntries : e.options \cap LoneChecks = {}
=============================================================================
