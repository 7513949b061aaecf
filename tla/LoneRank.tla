------------------------------ MODULE LoneRank ------------------------------
(***************************************************************************)
(* A rank alone, whatever its work and its calls come to.  Between two     *)
(* calls it is in one of the states of a phase: which of them depends on   *)
(* its own failures.  A program is in step if they make no difference to   *)
(* the call that ends the phase, nor to what the rank shows at the end.    *)
(*                                                                         *)
(* This is a condition on the program, and not on its executions by many   *)
(* ranks: it looks at one rank, and of the other ranks only at the number  *)
(* of scalars they bring to a call.                                        *)
(***************************************************************************)
EXTENDS CollectiveProgram, TLC

\* A lone rank tells two failing ranks from each other, and needs no more.
Names == {0, 1}

\* own: the rank has failed by itself.
Lone(e, f, own) == [frame |-> Settle(e, f), own |-> own]

Works(x) == x.frame.at.op = "work"
Calls(x) == x.frame.at.op = "collective"
Over(x) == x.frame.at = End
Stopped(P) == {x \in P : ~Works(x)}

Tries(e, x) ==
  {Lone(e, Worked(x.frame, fault), x.own \/ fault) : fault \in BOOLEAN}

\* A search: all that is found, and what is to be looked at next.
Begin(S) == [all |-> S, next |-> S]
Explored(s, found) == [all |-> s.all \cup found, next |-> found \ s.all]
Explore(After(_), start) ==
  LET Step(s) == Explored(s, After(s.next)) IN Repeat(Step, start)

\* The phase that begins in the states S.
Phase(e, S) ==
  LET After(next) == UNION {Tries(e, x) : x \in {y \in next : Works(y)}}
  IN  Explore(After, Begin(S)).all
FirstPhase(e) == Phase(e, {Lone(e, NewFrame(e), FALSE)})

\* All ranks bring as many scalars.
Even(i) == \A q, r \in Ranks : i.count[q] = i.count[r]

\* What the call that ends a phase may return: a failure if a rank may bring one.
Failed(n) == [rank |-> n, code |-> 1]
Results(P) ==
  {result \in [failure : {Failed(n) : n \in Names}, value : {1}] :
     \E x \in Stopped(P) : Calls(x) /\ (x.frame.failed \/ ~Even(x.frame.at))}
  \cup UNION {[failure : {NoFailure}, value : 1 .. x.frame.at.outcomes] :
                x \in {y \in Stopped(P) : Calls(y)}}

\* A call succeeds only if no rank has failed.
Returned(e, P, result) ==
  {Lone(e, Receive(x.frame, x.frame.at.channel, result.failure, result.value),
        x.own) :
     x \in {y \in Stopped(P) :
              Calls(y) /\ (result.failure = NoFailure => ~y.frame.failed)}}

\* The states in which the next phases begin.
Onward(e, P) == {Returned(e, P, result) : result \in Results(P)} \ {{}}

\* The phases of a program.
Phases(e) ==
  LET After(next) == {Phase(e, S) : S \in UNION {Onward(e, P) : P \in next}}
      Steps(s) == Explore(After, s)
  IN  Repeat(Steps, Begin({FirstPhase(e)})).all

-----------------------------------------------------------------------------
\* There are no other phases.
Complete(e, phases) ==
  /\ FirstPhase(e) \in phases /\ Lone(e, NewFrame(e), FALSE) \in FirstPhase(e)
  /\ \A P \in phases :
       /\ \A x \in P : Works(x) => Tries(e, x) \subseteq P
       /\ \A S \in Onward(e, P) : Phase(e, S) \in phases /\ S \subseteq Phase(e, S)

\* A phase ends in one call, or in one result.
Brings(x) == <<x.frame.at.call, x.frame.at.count, x.frame.named>>
OneStop(P) ==
  \A x, y \in Stopped(P) :
    /\ Over(x) <=> Over(y)
    /\ IF Over(x) THEN Outcome(x.frame) = Outcome(y.frame)
       ELSE Brings(x) = Brings(y)

\* A rank that publishes ghosts agrees with the others that it may.
PublishesAgreed(P) ==
  \A x, y \in P : x.frame.published \cap y.frame.spoiled = {}
ClosesEpochs(P) == \A x \in P : Over(x) => x.frame.open = {}

\* A solve reports the rank that the first failed call has named.
Reports(x) == Over(x) /\ x.frame.termination # "none"
ReportsNamed(P) == \A x \in P : Reports(x) => x.frame.lowest = x.frame.named

\* Until a call has named a rank, a failure is the rank's own.
OwnsFailure(P) ==
  \A x \in Stopped(P) : Calls(x) /\ x.frame.at.channel # "prepared" =>
    /\ x.frame.failed /\ x.frame.named = -1 => x.own = TRUE
    /\ Even(x.frame.at)

\* A solve whose result names a rank that has failed by itself: not the coupling
\* of a time step, nor a projection (FailureNamesRank).
Accountable(e, phases) ==
  /\ e.main # "couple" /\ "projection" \notin e.options
  /\ \E P \in phases : \E x \in P : Reports(x)

Agree(e, phases) ==
  /\ Complete(e, phases)
  /\ \A P \in phases : OneStop(P) /\ PublishesAgreed(P) /\ ClosesEpochs(P)
  /\ e.main # "couple" => \A P \in phases : ReportsNamed(P)
  /\ Accountable(e, phases) => \A P \in phases : OwnsFailure(P)
InStep(e) == Agree(e, Phases(e))

\* Every program is in step: each is the entry of an initial state.  Alone, a
\* rank that fails in a solve, a projection or a coupling reaches the same calls
\* as one that does not (the agreements before each return of solver_mg.cpp,
\* solver_piso.cpp and the stages).  A program that takes the option of a
\* LoneCheck is not in step (MCLoneReturns).
Lockstep == faulty = {} /\ Init => InStep(entry)
=============================================================================
