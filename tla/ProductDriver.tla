--------------------------- MODULE ProductDriver ----------------------------
(***************************************************************************)
(* ProductDriver::advance on every rank: the loop that proposes a step,    *)
(* executes attempts of it, recouples, retries, and finishes the attempt   *)
(* transaction, the time controller and the driver's own side state        *)
(* together.  The time controller is that of TimeController; the attempt   *)
(* transaction is reduced to what advance uses of it (AttemptTransaction   *)
(* has the detail): whether an attempt is active, the decision prepared    *)
(* for it, and how many attempts were committed.                           *)
(***************************************************************************)
EXTENDS TimeController

CONSTANTS
  MaximumSweeps,  \* ScalarMassRemap::maximum_coupling_sweeps
  Statuses,       \* statuses an attempt may end with on a rank
  MpiErrors       \* whether an MPI call may fail on one rank only

\* "recouple" is rejected_step with the detail kRecouple.
AllStatuses == {"ok", "retryable", "recouple", "fatal", "mpi"}

ASSUME DriverAssumption ==
  /\ MaximumSweeps \in Nat \ {0}
  /\ Statuses \subseteq AllStatuses
  /\ MpiErrors \in BOOLEAN

VARIABLES
  reliable, \* no call of MPI fails in this execution
  cold,     \* cold_method: the scheme of the case is cn_be
  pc,       \* where the rank is in advance
  sweep,    \* scalar_sweep
  vote,     \* status the rank passed to the attempt's collective_prepare
  verdict,  \* status the attempt's collective_prepare selected
  txn,      \* attempt transaction: active, prepared decision, commits
  side      \* side state: commits, pending values, warm start

driverVars == <<cold, reliable, pc, sweep, vote, verdict, txn, side>>
vars == <<timeVars, driverVars>>

Places == {"idle", "propose", "attempt", "prepare", "prepared", "finish",
           "decide"}

\* level: commits of the layers; prepared: decision of prepared_attempt.
Transactions == [active : BOOLEAN, level : Nat,
                 prepared : {"none", "accept", "reject"}]

\* level: commits of the side state; pending: uncommitted values and force
\* cache; warm: pressure_correction_warm_start_valid; own: the pressure-
\* correction workspace still holds the correction of the accepted step.
Sides == [level : Nat, pending : BOOLEAN, warm : BOOLEAN, own : BOOLEAN]

DriverInit ==
  /\ Init
  /\ cold \in BOOLEAN
  /\ reliable \in BOOLEAN
  /\ pc = [r \in Ranks |-> "idle"]
  /\ sweep = [r \in Ranks |-> 0]
  /\ vote = [r \in Ranks |-> "ok"]
  /\ verdict = "ok"
  /\ txn = [r \in Ranks |->
              [active |-> FALSE, level |-> ctl[r].step, prepared |-> "none"]]
  /\ side = [r \in Ranks |-> [level |-> ctl[r].step, pending |-> FALSE,
                              warm |-> FALSE, own |-> FALSE]]

-----------------------------------------------------------------------------
(***************************************************************************)
(* The calls by which advance ends an attempt.                             *)
(***************************************************************************)
Goto(r, place) == pc' = [pc EXCEPT ![r] = place]

\* transaction.commit_accept
TransactionAccepted(r) ==
  txn' = [txn EXCEPT ![r] = [active |-> FALSE, level |-> @.level + 1,
                             prepared |-> "none"]]

\* transaction.commit_reject, and fail_prepare of collective_prepare
TransactionRejected(r) ==
  txn' = [txn EXCEPT ![r] = [@ EXCEPT !.active = FALSE,
                                      !.prepared = "none"]]

\* Mutant of SideCommitted: the pending values are not cleared.
SideCommittedPending(r) ==
  side' = [side EXCEPT ![r] = [level |-> @.level + 1, pending |-> TRUE,
                               warm |-> ~cold, own |-> TRUE]]

\* finalize_pending_force_cache; commit_pending_attempt_side_state
SideCommitted(r) ==
  side' = [side EXCEPT ![r] = [level |-> @.level + 1, pending |-> FALSE,
                               warm |-> ~cold, own |-> TRUE]]

\* Mutant of SideDiscarded: the warm start survives a rejected attempt.
SideDiscardedWarm(r) == side' = [side EXCEPT ![r].pending = FALSE]

\* finalize_pending_force_cache; discard_pending_attempt_side_state
SideDiscarded(r) ==
  side' = [side EXCEPT ![r].pending = FALSE, ![r].warm = FALSE]

-----------------------------------------------------------------------------
(***************************************************************************)
(* Proposing.                                                              *)
(***************************************************************************)
\* advance returns at once, with nothing changed, while a proposal is active.
AdvanceBegin(r, lim) ==
  /\ pc[r] = "idle" /\ ~ctl[r].active
  /\ EnterPropose(r, lim)
  /\ Goto(r, "propose")
  /\ UNCHANGED <<cold, reliable, sweep, vote, verdict, txn, side>>

DriverProposeDone == ProposeDone /\ UNCHANGED driverVars

AdvanceProposed(r) ==
  /\ pc[r] = "propose" /\ LeavePropose(r)
  /\ Goto(r, "attempt")
  /\ UNCHANGED <<cold, reliable, sweep, vote, verdict, txn, side>>

AdvanceNotProposed(r, mpiError) ==
  /\ pc[r] = "propose" /\ (mpiError => MpiErrors /\ ~reliable)
  /\ LeaveFailed(r, mpiError)
  /\ Goto(r, "idle")
  /\ UNCHANGED <<cold, reliable, sweep, vote, verdict, txn, side>>

-----------------------------------------------------------------------------
(***************************************************************************)
(* execute_attempt, up to its collective_prepare.                          *)
(***************************************************************************)
\* use_pressure_correction_warm_start
UsesWarmStart(r) ==
  side[r].warm /\ held[r].attempt = 0 /\ held[r].origin = "accepted"

\* Mutant of ExecuteAttempt: every attempt counts as the first sweep.
ExecuteAttemptUncounted(r, code, pending) ==
  /\ pc[r] = "attempt" /\ (code = "ok" => pending)
  /\ reliable => code # "mpi"
  /\ Goto(r, "prepare")
  /\ sweep' = [sweep EXCEPT ![r] = 1]
  /\ vote' = [vote EXCEPT ![r] = code]
  /\ txn' = [txn EXCEPT ![r].active = TRUE]
  /\ side' = [side EXCEPT ![r].pending = pending, ![r].own = FALSE]
  /\ UNCHANGED <<timeVars, cold, reliable, verdict>>

\* The attempt begins a transaction, overwrites the pressure-correction
\* workspace, and leaves pending side state, at least when it succeeds.
ExecuteAttempt(r, code, pending) ==
  /\ pc[r] = "attempt" /\ (code = "ok" => pending)
  /\ reliable => code # "mpi"
  /\ Goto(r, "prepare")
  /\ sweep' = [sweep EXCEPT ![r] = @ + 1]
  /\ vote' = [vote EXCEPT ![r] = code]
  /\ txn' = [txn EXCEPT ![r].active = TRUE]
  /\ side' = [side EXCEPT ![r].pending = pending, ![r].own = FALSE]
  /\ UNCHANGED <<timeVars, cold, reliable, verdict>>

\* The selection of collective_prepare: a failure that may not be retried
\* first, then the lowest failing rank.
Grave(code) == code \in {"fatal", "mpi"}
SelectedStatus ==
  IF \A r \in Ranks : vote[r] = "ok" THEN "ok"
  ELSE LET failed == {r \in Ranks : vote[r] # "ok"}
           grave == {r \in failed : Grave(vote[r])}
           among == IF grave = {} THEN failed ELSE grave
       IN vote[CHOOSE r \in among : \A q \in among : r <= q]

AttemptDone ==
  /\ \A r \in Ranks : pc[r] = "prepare"
  /\ pc' = [r \in Ranks |-> "prepared"]
  /\ verdict' = SelectedStatus
  /\ vote' = [r \in Ranks |-> "ok"]
  /\ txn' = [r \in Ranks |->
               [txn[r] EXCEPT !.prepared = IF SelectedStatus = "ok"
                                           THEN "accept" ELSE "reject"]]
  /\ UNCHANGED <<timeVars, cold, reliable, sweep, side>>

\* collective_prepare fails on this rank: no certificate, and advance
\* returns with the side state and the proposal as they are.  With the cold
\* method it does so if this was the second call, or the only one: a cold
\* attempt that succeeds has called it before (PrepareAgain).
AttemptLost(r) ==
  /\ MpiErrors /\ ~reliable /\ pc[r] = "prepared"
  /\ cold /\ txn[r].active => verdict # "ok"
  /\ TransactionRejected(r)
  /\ sweep' = [sweep EXCEPT ![r] = 0]
  /\ Goto(r, "idle")
  /\ UNCHANGED <<timeVars, cold, reliable, vote, verdict, side>>

\* With the cold method collective_prepare is called again when it left no
\* certificate.  The attempt is discarded by then, which the rank reports,
\* and waits for ranks that may be past this collective.
PrepareAgain(r) ==
  /\ MpiErrors /\ ~reliable /\ cold /\ txn[r].active /\ pc[r] = "prepared"
  /\ TransactionRejected(r)
  /\ vote' = [vote EXCEPT ![r] = "fatal"]
  /\ Goto(r, "prepare")
  /\ UNCHANGED <<timeVars, cold, reliable, sweep, verdict, side>>

-----------------------------------------------------------------------------
(***************************************************************************)
(* Finishing.                                                              *)
(***************************************************************************)
\* Mutant of Recoupling: no limit on the coupling sweeps.
RecouplingForever(r) == verdict = "recouple"

Recoupling(r) == verdict = "recouple" /\ sweep[r] < MaximumSweeps

\* Another coupling sweep of the same proposal.
Recouple(r) ==
  /\ pc[r] = "prepared" /\ Recoupling(r)
  /\ TransactionRejected(r)
  /\ SideDiscarded(r)
  /\ Goto(r, "attempt")
  /\ UNCHANGED <<timeVars, cold, reliable, sweep, vote, verdict>>

\* Mutant of FinishTime: coupling that did not converge passes for success.
FinishTimeUnconverged(r) ==
  /\ pc[r] = "prepared" /\ ~Recoupling(r)
  /\ EnterFinish(r, IF verdict = "recouple" THEN "ok" ELSE verdict)
  /\ Goto(r, "finish")
  /\ UNCHANGED <<cold, reliable, sweep, vote, verdict, txn, side>>

\* The attempt's status is the outcome time.prepare_finish reduces.
FinishTime(r) ==
  /\ pc[r] = "prepared" /\ ~Recoupling(r)
  /\ EnterFinish(r, IF verdict = "recouple" THEN "retryable" ELSE verdict)
  /\ Goto(r, "finish")
  /\ UNCHANGED <<cold, reliable, sweep, vote, verdict, txn, side>>

DriverFinishDone == FinishDone /\ UNCHANGED driverVars

\* Mutant of FinishFailed: the rank retires the proposal on its own.
FinishFailedRetired(r, mpiError) ==
  /\ pc[r] = "finish" /\ (mpiError => MpiErrors /\ ~reliable)
  /\ mpiError \/ result.decision = "none"
  /\ Return(r)
  /\ ctl' = [ctl EXCEPT ![r].active = FALSE, ![r].prop = NoStep]
  /\ TransactionRejected(r)
  /\ SideDiscarded(r)
  /\ sweep' = [sweep EXCEPT ![r] = 0]
  /\ Goto(r, "idle")
  /\ UNCHANGED <<held, cert, limit, outcome, cold, reliable, vote, verdict>>

\* prepare_finish fails: the attempt is rolled back, the proposal stays.
FinishFailed(r, mpiError) ==
  /\ pc[r] = "finish" /\ (mpiError => MpiErrors /\ ~reliable)
  /\ LeaveFailed(r, mpiError)
  /\ TransactionRejected(r)
  /\ SideDiscarded(r)
  /\ sweep' = [sweep EXCEPT ![r] = 0]
  /\ Goto(r, "idle")
  /\ UNCHANGED <<cold, reliable, vote, verdict>>

FinishPrepared(r) ==
  /\ pc[r] = "finish"
  /\ \E k \in CertificateSlots(r) : LeaveFinish(r, k)
  /\ Goto(r, "decide")
  /\ UNCHANGED <<cold, reliable, sweep, vote, verdict, txn, side>>

\* An accept of a rejected attempt, or a retry of an accepted one, ends in an
\* assertion; DecisionsConsistent says that it does not happen.
DecideAccept(r) ==
  /\ pc[r] = "decide" /\ txn[r].prepared = "accept"
  /\ \E c \in cert[r] : CommitAccept(r, c)
  /\ TransactionAccepted(r)
  /\ SideCommitted(r)
  /\ sweep' = [sweep EXCEPT ![r] = 0]
  /\ Goto(r, "idle")
  /\ UNCHANGED <<cold, reliable, vote, verdict>>

DecideRetry(r) ==
  /\ pc[r] = "decide" /\ txn[r].prepared = "reject"
  /\ \E c \in cert[r] : CommitRetry(r, c)
  /\ TransactionRejected(r)
  /\ SideDiscarded(r)
  /\ sweep' = [sweep EXCEPT ![r] = 0]
  /\ Goto(r, "attempt")
  /\ UNCHANGED <<cold, reliable, vote, verdict>>

\* Mutant of DecideFatal: the fatal proposal is not retired.
DecideFatalUnretired(r) ==
  /\ pc[r] = "decide"
  /\ \E c \in cert[r] : c.decision = "fatal" /\ DropCertificate(r, c)
  /\ TransactionRejected(r)
  /\ SideDiscarded(r)
  /\ sweep' = [sweep EXCEPT ![r] = 0]
  /\ Goto(r, "idle")
  /\ UNCHANGED <<cold, reliable, vote, verdict>>

\* commit_fatal does nothing with a certificate that is not commit_ready.
DecideFatal(r) ==
  /\ pc[r] = "decide"
  /\ \E c \in cert[r] : /\ c.decision = "fatal"
                        /\ \/ CommitFatal(r, c)
                           \/ ~Matches(r, c) /\ DropCertificate(r, c)
  /\ TransactionRejected(r)
  /\ SideDiscarded(r)
  /\ sweep' = [sweep EXCEPT ![r] = 0]
  /\ Goto(r, "idle")
  /\ UNCHANGED <<cold, reliable, vote, verdict>>

-----------------------------------------------------------------------------
\* Everything a rank does inside advance, and its next call of advance.
RankStep(r) ==
  \/ \E lim \in 0 .. MaximumDt : AdvanceBegin(r, lim)
  \/ AdvanceProposed(r)
  \/ \E e \in BOOLEAN : AdvanceNotProposed(r, e)
  \/ \E code \in Statuses, pending \in BOOLEAN :
       ExecuteAttempt(r, code, pending)
  \/ AttemptLost(r)
  \/ PrepareAgain(r)
  \/ Recouple(r)
  \/ FinishTime(r)
  \/ \E e \in BOOLEAN : FinishFailed(r, e)
  \/ FinishPrepared(r)
  \/ DecideAccept(r)
  \/ DecideRetry(r)
  \/ DecideFatal(r)

CollectiveStep == DriverProposeDone \/ AttemptDone \/ DriverFinishDone

DriverNext == CollectiveStep \/ \E r \in Ranks : RankStep(r)

DriverSpec == DriverInit /\ [][DriverNext]_vars

\* Some rank keeps running, or MPI completes a collective that all ranks have
\* entered.
FairDriverSpec == DriverSpec /\ WF_vars(DriverNext)

-----------------------------------------------------------------------------
(***************************************************************************)
(* Properties.                                                             *)
(***************************************************************************)
\* The variables have their types.
DriverTypeOK ==
  /\ cold \in BOOLEAN /\ reliable \in BOOLEAN
  /\ pc \in [Ranks -> Places]
  /\ sweep \in [Ranks -> 0 .. MaximumSweeps]
  /\ vote \in [Ranks -> AllStatuses]
  /\ verdict \in AllStatuses
  /\ txn \in [Ranks -> Transactions]
  /\ side \in [Ranks -> Sides]

\* What execute_attempt asserts on entry: whatever way the attempts before
\* it ended, no transaction is active and no side state is pending.
AttemptStartsClean ==
  \A r \in Ranks : pc[r] = "attempt" => ~txn[r].active /\ ~side[r].pending

\* What advance asserts of the two finishes: the time controller accepts
\* only an accepted attempt that is still active, and retries only a
\* rejected one.
DecisionsConsistent ==
  \A r \in Ranks : pc[r] = "decide" =>
    \A c \in cert[r] :
      /\ c.decision = "accept" => txn[r].prepared = "accept" /\ txn[r].active
      /\ c.decision = "retry" => txn[r].prepared = "reject"

\* The field layers, the side state and the clock of a rank are of the same
\* accepted step, and ranks that are between two steps agree on it, even
\* after MPI errors on single ranks: a rank that lost a decision the others
\* got is left with its proposal active.
CommittedTogether ==
  \A p, q \in Ranks :
    /\ txn[p].level = ctl[p].step /\ side[p].level = ctl[p].step
    /\ pc[p] = "idle" /\ pc[q] = "idle" /\ ~ctl[p].active /\ ~ctl[q].active
         => ctl[p] = ctl[q]

\* A solve is warm-started only from the correction the accepted step left
\* in the workspace, never from one a rejected attempt has overwritten.
WarmStartSound ==
  \A r \in Ranks : pc[r] = "attempt" /\ UsesWarmStart(r) => side[r].own

\* When advance has returned on every rank the proposal is retired, so that
\* a later advance starts afresh instead of remaining permanently active.
ProposalRetired ==
  (\A r \in Ranks : pc[r] = "idle") => \A r \in Ranks : ~ctl[r].active

\* It is, in every execution in which no call of MPI fails.
RetiredIfReliable == reliable => ProposalRetired

\* Every advance returns if no call of MPI fails: retries, shrinking steps and
\* coupling sweeps are bounded, and no rank waits for a collective that another
\* rank does not enter.
AdvanceReturns ==
  \A r \in Ranks : reliable /\ pc[r] # "idle" ~> pc[r] = "idle"
=============================================================================
