--------------------------- MODULE TimeController ---------------------------
(***************************************************************************)
(* TimeControllerState on every MPI rank: the accepted time history, the   *)
(* one active proposal, and the collective propose / prepare_finish calls  *)
(* that let all ranks accept, retry or give up a step together.            *)
(*                                                                         *)
(* Times and step sizes are integers (ticks).  The code compares states    *)
(* bit by bit, so equality of records is its identity check.  The scheme   *)
(* is variable_bdf2; the other schemes only make every step first order.   *)
(***************************************************************************)
EXTENDS Integers

CONSTANTS
  NumRanks,        \* size of the communicator
  InitialDt,       \* TimeControlSpec::initial_dt
  MinimumDt,       \* TimeControlSpec::minimum_dt
  MaximumDt,       \* TimeControlSpec::maximum_dt
  Growth,          \* TimeControlSpec::maximum_growth
  RetryDivisor,    \* 1 / TimeControlSpec::retry_factor
  MaximumRetries,  \* TimeControlSpec::maximum_retries
  RatioLimit,      \* maximum_bdf_ratio, and 1 / minimum_bdf_ratio
  MaxTime,         \* last time t for which t - dt + dt is a larger double
  MaxStep,         \* numeric_limits<uint64_t>::max() for accepted_step_
  MaxGeneration,   \* numeric_limits<uint64_t>::max() for next_generation_
  RestartPoints,   \* the accepted <<time, step>> restart files may hold
  CertificateBound \* bound on the certificates each rank's caller holds at once

ASSUME PlanAssumption ==
  /\ NumRanks \in Nat \ {0}
  /\ InitialDt \in Nat /\ MinimumDt \in Nat \ {0} /\ MaximumDt \in Nat
  /\ MinimumDt <= InitialDt /\ InitialDt <= MaximumDt
  /\ Growth \in Nat \ {0}
  /\ RetryDivisor \in Nat /\ 2 <= RetryDivisor
  /\ MaximumRetries \in Nat \ {0}
  /\ RatioLimit \in Nat \ {0}
  /\ MaxTime \in Nat /\ MaxStep \in Nat \ {0} /\ MaxGeneration \in Nat \ {0}
  /\ RestartPoints \subseteq (0 .. MaxTime) \X (0 .. MaxStep - 1)
  /\ CertificateBound \in [0 .. NumRanks - 1 -> Nat]

Ranks    == 0 .. NumRanks - 1
Origins  == {"fresh_start", "restart", "accepted", "retry"}

\* Outcomes of an attempt: numerical_failure and rejected_step are retryable,
\* mpi_failure is told apart from the other failures by prepare_finish.
Outcomes == {"ok", "retryable", "fatal", "mpi"}

Steps == [time : 0 .. MaxTime, dt : 0 .. MaximumDt, step : 0 .. MaxStep,
          attempt : 0 .. MaximumRetries, origin : Origins, order : 0 .. 2,
          gen : 0 .. MaxGeneration]
NoStep == [time |-> 0, dt |-> 0, step |-> 0, attempt |-> 0,
           origin |-> "fresh_start", order |-> 0, gen |-> 0]

Controllers == [time : 0 .. MaxTime, lastDt : 0 .. MaximumDt,
                step : 0 .. MaxStep, gen : 1 .. MaxGeneration,
                retries : 0 .. MaximumRetries, origin : Origins,
                forceBE : BOOLEAN, active : BOOLEAN, prop : Steps]

VARIABLES
  ctl,      \* TimeControllerState of each rank
  held,     \* the StepTime the rank's caller was last given
  cert,     \* PreparedTimeFinish values the rank's caller holds
  call,     \* the collective the rank is in, or "idle", or "leave"
  limit,    \* local_candidate dt contributed to propose, 0 if it failed
  outcome,  \* outcome contributed to prepare_finish (both reset when used)
  result    \* result of the last complete collective

timeVars == <<ctl, held, cert, call, limit, outcome, result>>

NoResult == [decision |-> "none", ready |-> FALSE, cand |-> NoStep]

\* A PreparedTimeFinish; slot is the caller's object that holds it.
CertificateSlots(r) == 1 .. CertificateBound[r]
Certificates == [slot : Nat, ready : BOOLEAN,
                 decision : {"accept", "retry", "fatal"}, cand : Steps,
                 identity : Controllers, prop : Steps]

-----------------------------------------------------------------------------
(***************************************************************************)
(* start, restart and restart_exact.                                       *)
(***************************************************************************)
Start == [time |-> 0, lastDt |-> 0, step |-> 0, gen |-> 1, retries |-> 0,
          origin |-> "fresh_start", forceBE |-> TRUE, active |-> FALSE,
          prop |-> NoStep]

\* A restart without history starts with backward Euler and generation 1; an
\* exact restart continues with the order and the generation it had.
Restarts ==
  {[time |-> p[1], lastDt |-> d, step |-> p[2], gen |-> g, retries |-> 0,
    origin |-> "restart", forceBE |-> be, active |-> FALSE,
    prop |-> NoStep] :
       p \in RestartPoints, d \in MinimumDt .. MaximumDt,
       g \in 1 .. MaxGeneration - 1, be \in BOOLEAN}

Restartable(c) ==
  /\ c.time + c.lastDt <= MaxTime
  /\ c.forceBE => c.gen = 1

Init ==
  /\ \E c \in {Start} \cup {d \in Restarts : Restartable(d)} :
       ctl = [r \in Ranks |-> c]
  /\ held = [r \in Ranks |-> NoStep]
  /\ cert = [r \in Ranks |-> {}]
  /\ call = [r \in Ranks |-> "idle"]
  /\ limit = [r \in Ranks |-> 0]
  /\ outcome = [r \in Ranks |-> "ok"]
  /\ result = NoResult

-----------------------------------------------------------------------------
(***************************************************************************)
(* propose.                                                                *)
(***************************************************************************)
\* coefficients: the order of the step that is taken.
Order(c, dt, backwardEuler) ==
  IF /\ ~backwardEuler /\ c.lastDt > 0
     /\ dt <= RatioLimit * c.lastDt /\ c.lastDt <= RatioLimit * dt
  THEN 2 ELSE 1

EnterPropose(r, lim) ==
  /\ call[r] = "idle"
  /\ call' = [call EXCEPT ![r] = "propose"]
  /\ limit' = [limit EXCEPT ![r] = lim]
  /\ UNCHANGED <<ctl, held, cert, outcome, result>>

\* Every rank has exactly the controller state that rank 0 broadcast.
Agreed == \A r \in Ranks : ctl[r] = ctl[0]

Lesser(a, b) == IF a <= b THEN a ELSE b

\* The smallest local candidate, capped by initial_dt or by growth.
ProposedDt ==
  LET c == ctl[0]
      global == CHOOSE d \in {limit[r] : r \in Ranks} :
                  \A r \in Ranks : d <= limit[r]
  IN Lesser(global,
            IF c.lastDt = 0 THEN InitialDt ELSE c.lastDt * Growth)

Proposable ==
  /\ Agreed
  /\ ~ctl[0].active
  /\ \A r \in Ranks : limit[r] > 0
  /\ ProposedDt >= MinimumDt

\* The StepTime that rank 0 publishes.
ProposedStep ==
  LET c == ctl[0]
  IN [time |-> c.time, dt |-> ProposedDt, step |-> c.step,
      attempt |-> c.retries, origin |-> c.origin,
      order |-> Order(c, ProposedDt, c.forceBE), gen |-> c.gen]

\* The last MPI call of propose completes for all ranks at once.  (An error
\* in an earlier call leaves the other ranks waiting and changes nothing.)
ProposeDone ==
  /\ \A r \in Ranks : call[r] = "propose"
  /\ call' = [r \in Ranks |-> "leave"]
  /\ result' = IF Proposable
               THEN [decision |-> "propose", ready |-> TRUE,
                     cand |-> ProposedStep]
               ELSE NoResult
  /\ limit' = [r \in Ranks |-> 0]
  /\ UNCHANGED <<ctl, held, cert, outcome>>

\* A rank returns from the collective; the last one forgets its result.
Return(r) ==
  /\ call[r] = "leave"
  /\ call' = [call EXCEPT ![r] = "idle"]
  /\ result' = IF \E q \in Ranks \ {r} : call[q] = "leave"
               THEN result ELSE NoResult

LeavePropose(r) ==
  /\ result.decision = "propose" /\ Return(r)
  /\ ctl' = [ctl EXCEPT ![r].active = TRUE, ![r].prop = result.cand]
  /\ held' = [held EXCEPT ![r] = result.cand]
  /\ UNCHANGED <<cert, limit, outcome>>

\* The call returns a failure: the one all ranks agreed on, or an MPI error
\* seen by this rank only while the others get their result.
LeaveFailed(r, mpiError) ==
  /\ mpiError \/ result.decision = "none"
  /\ Return(r)
  /\ UNCHANGED <<ctl, held, cert, limit, outcome>>

-----------------------------------------------------------------------------
(***************************************************************************)
(* prepare_finish.                                                         *)
(***************************************************************************)
\* matches_active
MatchesActive(r, step) == ctl[r].active /\ step = ctl[r].prop

\* A default-constructed or consumed PreparedTimeFinish.
Unused(r, k) == \A c \in cert[r] : c.slot # k

\* The caller finishes the StepTime it holds, which may be out of date.
EnterFinish(r, code) ==
  /\ call[r] = "idle" /\ \E k \in CertificateSlots(r) : Unused(r, k)
  /\ call' = [call EXCEPT ![r] = "finish"]
  /\ outcome' = [outcome EXCEPT ![r] = code]
  /\ UNCHANGED <<ctl, held, cert, limit, result>>

\* Mutant of Identified: a rank only looks at its own proposal.
IdentifiedLocally(r) == MatchesActive(r, held[r])

\* The rank has the controller and the StepTime that rank 0 broadcast.
Identified(r) ==
  /\ ctl[r] = ctl[0] /\ held[r] = held[0]
  /\ MatchesActive(r, held[r])

\* Rank 0's candidates for acceptance and for a retry.
AcceptedStep ==
  [held[0] EXCEPT !.time = ctl[0].time + held[0].dt,
                  !.step = ctl[0].step + 1, !.gen = ctl[0].gen + 1]
\* Mutant of Acceptable: the generation counter may wrap.
AcceptableUnbounded ==
  /\ ctl[0].step # MaxStep
  /\ ctl[0].time + held[0].dt <= MaxTime

Acceptable ==
  /\ ctl[0].step # MaxStep /\ ctl[0].gen # MaxGeneration
  /\ ctl[0].time + held[0].dt <= MaxTime

RetryStep ==
  [time |-> ctl[0].time, dt |-> held[0].dt \div RetryDivisor,
   step |-> ctl[0].step, attempt |-> ctl[0].retries + 1, origin |-> "retry",
   order |-> Order(ctl[0], held[0].dt \div RetryDivisor, TRUE),
   gen |-> ctl[0].gen + 1]

Retryable ==
  /\ ctl[0].retries < MaximumRetries /\ ctl[0].gen # MaxGeneration
  /\ held[0].dt \div RetryDivisor >= MinimumDt

\* collective_finish_decision: an identity failure before a fatal outcome
\* before a retryable one, then the lowest rank.  When the selected outcome
\* is mpi_failure the call returns it and issues no certificate.
Gravest == {r \in Ranks : outcome[r] \in {"fatal", "mpi"}}
Fatal(ready) == [decision |-> "fatal", ready |-> ready, cand |-> NoStep]

FinishDecision ==
  CASE \E r \in Ranks : ~Identified(r) -> Fatal(FALSE)
    [] (\A r \in Ranks : Identified(r)) /\ Gravest # {} ->
         IF \E r \in Gravest : /\ outcome[r] = "mpi"
                               /\ \A q \in Gravest : r <= q
         THEN NoResult ELSE Fatal(TRUE)
    [] (\A r \in Ranks : Identified(r) /\ outcome[r] = "ok") ->
         IF Acceptable
         THEN [decision |-> "accept", ready |-> TRUE, cand |-> AcceptedStep]
         ELSE Fatal(TRUE)
    [] OTHER ->
         IF Retryable
         THEN [decision |-> "retry", ready |-> TRUE, cand |-> RetryStep]
         ELSE Fatal(TRUE)

FinishDone ==
  /\ \A r \in Ranks : call[r] = "finish"
  /\ call' = [r \in Ranks |-> "leave"]
  /\ result' = FinishDecision
  /\ outcome' = [r \in Ranks |-> "ok"]
  /\ UNCHANGED <<ctl, held, cert, limit>>

\* The certificate a rank gets records its own controller and proposal.
Certified(r, k) ==
  [slot |-> k, ready |-> result.ready, decision |-> result.decision,
   cand |-> result.cand, identity |-> ctl[r], prop |-> held[r]]

LeaveFinish(r, k) ==
  /\ result.decision \in {"accept", "retry", "fatal"}
  /\ Unused(r, k)
  /\ Return(r)
  /\ cert' = [cert EXCEPT ![r] = @ \cup {Certified(r, k)}]
  /\ UNCHANGED <<ctl, held, limit, outcome>>

-----------------------------------------------------------------------------
(***************************************************************************)
(* The rank-local commits.  A certificate that does not match does nothing *)
(* and stays valid.                                                        *)
(***************************************************************************)
\* Mutant of Matches: the identity recorded in the certificate is ignored.
MatchesAny(r, c) == c \in cert[r] /\ c.ready

\* matches_prepared
Matches(r, c) ==
  /\ c \in cert[r] /\ c.ready
  /\ c.identity = ctl[r] /\ MatchesActive(r, c.prop)

Consume(r, c) == cert' = [cert EXCEPT ![r] = @ \ {c}]

CommitAccept(r, c) ==
  /\ call[r] = "idle" /\ Matches(r, c) /\ c.decision = "accept"
  /\ Consume(r, c)
  /\ ctl' = [ctl EXCEPT ![r] =
               [time |-> c.cand.time, lastDt |-> c.prop.dt,
                step |-> c.cand.step, gen |-> c.cand.gen, retries |-> 0,
                origin |-> "accepted", forceBE |-> FALSE, active |-> FALSE,
                prop |-> NoStep]]
  /\ UNCHANGED <<held, call, limit, outcome, result>>

CommitRetry(r, c) ==
  /\ call[r] = "idle" /\ Matches(r, c) /\ c.decision = "retry"
  /\ Consume(r, c)
  /\ ctl' = [ctl EXCEPT ![r] =
               [@ EXCEPT !.retries = c.cand.attempt, !.gen = c.cand.gen,
                         !.origin = "retry", !.forceBE = TRUE,
                         !.active = TRUE, !.prop = c.cand]]
  /\ held' = [held EXCEPT ![r] = c.cand]
  /\ UNCHANGED <<call, limit, outcome, result>>

\* Mutant of CommitFatal: backward Euler is not armed for the next proposal.
CommitFatalUnarmed(r, c) ==
  /\ call[r] = "idle" /\ Matches(r, c) /\ c.decision = "fatal"
  /\ Consume(r, c)
  /\ ctl' = [ctl EXCEPT ![r] =
               [@ EXCEPT !.gen = Lesser(c.prop.gen + 1, MaxGeneration),
                         !.retries = 0, !.origin = "retry",
                         !.active = FALSE, !.prop = NoStep]]
  /\ UNCHANGED <<held, call, limit, outcome, result>>

\* Mutant of CommitFatal: the generation of the failed proposal is not retired.
CommitFatalReused(r, c) ==
  /\ call[r] = "idle" /\ Matches(r, c) /\ c.decision = "fatal"
  /\ Consume(r, c)
  /\ ctl' = [ctl EXCEPT ![r] =
               [@ EXCEPT !.retries = 0, !.origin = "retry",
                         !.forceBE = TRUE, !.active = FALSE,
                         !.prop = NoStep]]
  /\ UNCHANGED <<held, call, limit, outcome, result>>

\* An exhausted generation counter stays where it is.
CommitFatal(r, c) ==
  /\ call[r] = "idle" /\ Matches(r, c) /\ c.decision = "fatal"
  /\ Consume(r, c)
  /\ ctl' = [ctl EXCEPT ![r] =
               [@ EXCEPT !.gen = Lesser(c.prop.gen + 1, MaxGeneration),
                         !.retries = 0, !.origin = "retry",
                         !.forceBE = TRUE, !.active = FALSE,
                         !.prop = NoStep]]
  /\ UNCHANGED <<held, call, limit, outcome, result>>

\* A PreparedTimeFinish goes out of scope.
DropCertificate(r, c) ==
  /\ call[r] = "idle" /\ c \in cert[r]
  /\ Consume(r, c)
  /\ UNCHANGED <<ctl, held, call, limit, outcome, result>>

-----------------------------------------------------------------------------
RankNext(r) ==
  \/ \E lim \in 0 .. MaximumDt : EnterPropose(r, lim)
  \/ LeavePropose(r)
  \/ \E mpiError \in BOOLEAN : LeaveFailed(r, mpiError)
  \/ \E code \in Outcomes : EnterFinish(r, code)
  \/ \E k \in CertificateSlots(r) : LeaveFinish(r, k)
  \/ \E c \in cert[r] : CommitAccept(r, c)
  \/ \E c \in cert[r] : CommitRetry(r, c)
  \/ \E c \in cert[r] : CommitFatal(r, c)
  \/ \E c \in cert[r] : DropCertificate(r, c)

Next == ProposeDone \/ FinishDone \/ \E r \in Ranks : RankNext(r)

Spec == Init /\ [][Next]_timeVars

-----------------------------------------------------------------------------
(***************************************************************************)
(* Properties.                                                             *)
(***************************************************************************)
\* The variables have their types; the counters stay within their width.
TypeOK ==
  /\ ctl \in [Ranks -> Controllers]
  /\ held \in [Ranks -> Steps]
  /\ cert \in [Ranks -> SUBSET Certificates]
  /\ call \in [Ranks -> {"idle", "propose", "finish", "leave"}]
  /\ limit \in [Ranks -> 0 .. MaximumDt]
  /\ outcome \in [Ranks -> Outcomes]
  /\ result \in [decision : {"none", "propose", "accept", "retry", "fatal"},
                 ready : BOOLEAN, cand : Steps]

\* The active proposal always continues the accepted history it is to be
\* applied to, within the plan's step and retry limits, however many retries,
\* fatal ends and stale certificates came before it.
ProposalCurrent ==
  \A r \in Ranks : ctl[r].active =>
    LET c == ctl[r] IN
    /\ c.prop.time = c.time /\ c.prop.step = c.step /\ c.prop.gen = c.gen
    /\ c.prop.attempt = c.retries /\ c.retries <= MaximumRetries
    /\ MinimumDt <= c.prop.dt /\ c.prop.dt <= MaximumDt

\* A second-order step is only ever proposed on top of a step that was just
\* accepted or restored exactly: a retry and the first proposal after a
\* failed step are backward Euler.
SecondOrderNeedsHistory ==
  \A r \in Ranks : ctl[r].active /\ ctl[r].prop.order = 2 =>
    /\ ctl[r].prop.origin \in {"accepted", "restart"}
    /\ ctl[r].prop.attempt = 0 /\ ctl[r].lastDt > 0

\* Two ranks that have accepted the same number of steps have accepted the
\* same time and step size, and no rank is more than one step ahead, even
\* when MPI calls failed on some of them and certificates were dropped.
AcceptedHistoriesAgree ==
  \A p, q \in Ranks :
    /\ ctl[p].step <= ctl[q].step + 1
    /\ ctl[p].step = ctl[q].step =>
         ctl[p].time = ctl[q].time /\ ctl[p].lastDt = ctl[q].lastDt

\* A proposal that ends, by acceptance, retry or failure, retires its
\* generation: only an exhausted counter is used again, and then for
\* proposals that can neither be accepted nor retried.
GenerationsRetired ==
  [][\A r \in Ranks : ctl[r].active /\ ctl'[r] # ctl[r] =>
       \/ ctl'[r].gen = ctl[r].gen + 1
       \/ /\ ctl[r].gen = MaxGeneration /\ ctl'[r].gen = MaxGeneration
          /\ ctl'[r].step = ctl[r].step /\ ~ctl'[r].active]_timeVars
=============================================================================
