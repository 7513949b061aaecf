---------------------------- MODULE MCLoneReturns ----------------------------
(***************************************************************************)
(* The checks that a rank makes alone (LoneCheck): one program for each    *)
(* place in the code, in which no other check is left to a rank alone.     *)
(***************************************************************************)
EXTENDS MCLinearSolve

\* The corrections of an attempt whose plan is compiled already.
First(options) ==
  [Attempt("solved", {"closed"} \cup options) EXCEPT !.main = "first"]

MCLoneEntries ==
  {Solve("pcg", "pressure", "jacobi", "no_audit", {"pressure views"}),
   Solve("pcg", "exact", "jacobi", "no_audit", {"exact views"}),
   Solve("fgmres", "transport", "transport_jacobi", "no_audit",
         {"transport views"}),
   Solve("pcg", "pressure", "diagonal", "audit_pressure",
         {"audit", "audit plan"}),
   [Solve("pcg", "pressure", "diagonal", "no_audit", {"piso binding"})
      EXCEPT !.main = "couple"],
   [Solve("pcg", "pressure", "diagonal", "no_audit", {"recycled span"})
      EXCEPT !.main = "couple"],
   Attempt("solved", {"ratio ghosts"}),
   Attempt("solved", {"donor halo"}),
   Attempt("solved", {"trial revision"}),
   First({"outlet", "coupler closure"}),
   First({"immersed", "coupler constraint"}),
   First({"uncompiled", "multigrid spec"}),
   First({"energy workspaces"}),
   First({"pressure system"}),
   First({"immersed", "solid mask"}),
   First({"exact workspaces"}),
   First({"exact state"}),
   Driver("candidate", {"trial views"}),
   Driver("candidate", {"flux view"}),
   Driver("candidate", {"open", "final flux view"}),
   Driver("candidate", {"committed view"}),
   Driver("accept", {"remap", "passive revision"}),
   Driver("accept", {"balance views"}),
   Driver("start", {"open start"}),
   Driver("restart", {"parcels"}),
   Driver("restart", {"layer views"}),
   Driver("start", {"layer publication"})}

\* The architecture's rule: local steps that may fail become a status on which
\* all ranks decide, and no rank returns alone in place of a failure of the
\* collective (docs/architecture/runtime.md:7).  It would hold of one of these
\* programs if the status of its check were agreed on.
LoneReturnAgreed == faulty = {} /\ Init => \E e \in Entries : InStep(e)
=============================================================================
