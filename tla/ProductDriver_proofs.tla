------------------------ MODULE ProductDriver_proofs -------------------------
(***************************************************************************)
(* Proofs about ProductDriver, for every number of ranks and every plan.   *)
(* The driver takes the steps of TimeController only, so what is proved    *)
(* there of the controllers holds here.  The invariant adds where a rank   *)
(* is in advance, what its attempt left behind, and what it was told by a  *)
(* collective that not all ranks have acted upon: ranks act at different   *)
(* times, and a rank may lose what the others were told, but the           *)
(* controllers they are on their way to are the same.                      *)
(***************************************************************************)
EXTENDS ProductDriver, TimeController_proofs


-----------------------------------------------------------------------------
(***************************************************************************)
(* The driver uses the time controller as TimeController lets it.          *)
(***************************************************************************)
\* The statuses that attempts report to each other.
StatusType == vote \in [Ranks -> AllStatuses] /\ verdict \in AllStatuses

\* The selected status is the status of some rank (collective_prepare).
LEMMA SelectedStatusType ==
  ASSUME vote \in [Ranks -> AllStatuses]
  PROVE  /\ SelectedStatus \in AllStatuses
         /\ SelectedStatus = "ok" <=> \A r \in Ranks : vote[r] = "ok"
         /\ SelectedStatus \in {"ok"} \cup {vote[r] : r \in Ranks}
<1>1. CASE \A r \in Ranks : vote[r] = "ok"
  BY <1>1 DEF SelectedStatus, AllStatuses
<1>2. CASE ~(\A r \in Ranks : vote[r] = "ok")
  <2> DEFINE failed == {r \in Ranks : vote[r] # "ok"}
             grave == {r \in failed : Grave(vote[r])}
             among == IF grave = {} THEN failed ELSE grave
             first == CHOOSE r \in among : \A q \in among : r <= q
  <2>1. among \in SUBSET Ranks /\ among # {} /\ \A r \in among : vote[r] # "ok"
    BY <1>2
  <2>2. Ranks \in SUBSET Nat
    BY PlanAssumption DEF Ranks
  <2>3. PICK x \in among : \A y \in among : x <= y
    BY <2>1, <2>2, LeastElement
  <2>4. first \in among
    BY <2>3
  <2>5. SelectedStatus = vote[first]
    BY <1>2 DEF SelectedStatus
  <2> HIDE DEF first, among
  <2> QED BY <1>2, <2>1, <2>4, <2>5
<1> QED BY <1>1, <1>2

LEMMA StatusTypeStep ==
  ASSUME StatusType, [DriverNext]_vars
  PROVE  StatusType'
<1>1. CASE UNCHANGED vars
  BY <1>1 DEF vars, driverVars, StatusType
<1>2. CASE CollectiveStep
  BY <1>2, SelectedStatusType
     DEF CollectiveStep, DriverProposeDone, DriverFinishDone, AttemptDone,
         driverVars, StatusType, AllStatuses
<1>3. ASSUME NEW r \in Ranks, RankStep(r)
      PROVE  StatusType'
  <2>1. CASE \E code \in Statuses, pending \in BOOLEAN :
               ExecuteAttempt(r, code, pending)
    BY <2>1, DriverAssumption DEF ExecuteAttempt, StatusType
  <2>2. CASE PrepareAgain(r)
    BY <2>2 DEF PrepareAgain, StatusType, AllStatuses
  <2> QED BY <1>3, <2>1, <2>2
          DEF RankStep, AdvanceBegin, AdvanceProposed, AdvanceNotProposed,
              AttemptLost, Recouple, FinishTime, FinishFailed, FinishPrepared,
              DecideAccept, DecideRetry, DecideFatal, StatusType
<1> QED BY <1>1, <1>2, <1>3 DEF DriverNext

\* Every step of the driver is one of the time controller, or leaves it alone.
LEMMA DriverStepIsTimeStep ==
  ASSUME StatusType, [DriverNext]_vars
  PROVE  [Next]_timeVars
<1>1. CASE UNCHANGED vars
  BY <1>1 DEF vars
<1>2. CASE CollectiveStep
  BY <1>2 DEF CollectiveStep, DriverProposeDone, DriverFinishDone, AttemptDone,
              Next
<1>3. ASSUME NEW r \in Ranks, RankStep(r)
      PROVE  [Next]_timeVars
  <2>1. RankNext(r) \/ UNCHANGED timeVars
    <3>1. CASE \E lim \in 0 .. MaximumDt : AdvanceBegin(r, lim)
      BY <3>1 DEF AdvanceBegin, RankNext
    <3>2. CASE AdvanceProposed(r)
      BY <3>2 DEF AdvanceProposed, RankNext
    <3>3. CASE \E e \in BOOLEAN : AdvanceNotProposed(r, e)
      BY <3>3 DEF AdvanceNotProposed, RankNext
    <3>4. CASE \E code \in Statuses, pending \in BOOLEAN :
                 ExecuteAttempt(r, code, pending)
      BY <3>4 DEF ExecuteAttempt
    <3>5. CASE AttemptLost(r) \/ PrepareAgain(r) \/ Recouple(r)
      BY <3>5 DEF AttemptLost, PrepareAgain, Recouple
    <3>6. CASE FinishTime(r)
      <4>1. (IF verdict = "recouple" THEN "retryable" ELSE verdict) \in Outcomes
        BY DEF StatusType, AllStatuses, Outcomes
      <4> QED BY <3>6, <4>1 DEF FinishTime, RankNext
    <3>7. CASE \E e \in BOOLEAN : FinishFailed(r, e)
      BY <3>7 DEF FinishFailed, RankNext
    <3>8. CASE FinishPrepared(r)
      BY <3>8 DEF FinishPrepared, RankNext
    <3>9. CASE DecideAccept(r)
      BY <3>9 DEF DecideAccept, RankNext
    <3>10. CASE DecideRetry(r)
      BY <3>10 DEF DecideRetry, RankNext
    <3>11. CASE DecideFatal(r)
      BY <3>11 DEF DecideFatal, RankNext
    <3> QED BY <1>3, <3>1, <3>2, <3>3, <3>4, <3>5, <3>6, <3>7, <3>8, <3>9,
               <3>10, <3>11 DEF RankStep
  <2> QED BY <2>1 DEF Next
<1> QED BY <1>1, <1>2, <1>3 DEF DriverNext

\* Composition: every behaviour of the driver is a behaviour of the time
\* controllers that it calls (advance uses propose, prepare_finish and the
\* commits in an order TimeControllerState allows), so the theorems about
\* TimeController hold in the driver.
THEOREM DriverRefinesController == DriverSpec => Spec
<1>1. DriverInit => Init /\ StatusType
  BY DEF DriverInit, StatusType, AllStatuses
<1>2. StatusType /\ [DriverNext]_vars => StatusType'
  BY StatusTypeStep
<1>3. StatusType /\ [DriverNext]_vars => [Next]_timeVars
  BY DriverStepIsTimeStep
<1> QED BY <1>1, <1>2, <1>3, PTL DEF DriverSpec, Spec

-----------------------------------------------------------------------------
(***************************************************************************)
(* The invariant.                                                          *)
(***************************************************************************)
\* Where the rank is in advance, and what that says of its controller, its
\* calls and its certificates.
Control(r) ==
  /\ pc[r] \in {"idle", "attempt", "prepare", "prepared", "decide"} =>
       call[r] = "idle"
  /\ pc[r] = "propose" => ~ctl[r].active /\ call[r] \in {"propose", "leave"}
  /\ pc[r] = "finish" => call[r] \in {"finish", "leave"}
  /\ pc[r] \in {"attempt", "prepare", "prepared", "finish", "decide"} =>
       ctl[r].active /\ held[r] = ctl[r].prop
  /\ call[r] = "leave" =>
       IF pc[r] = "propose" THEN result.decision \in {"none", "propose"}
                            ELSE result.decision # "propose"
  /\ pc[r] # "decide" => cert[r] = {}
  /\ pc[r] = "decide" =>
       \E c \in cert[r] : /\ cert[r] = {c}
                          /\ c.identity = ctl[r] /\ c.prop = held[r]

\* A rank that may still begin an attempt has nothing left of the last one.  A
\* rank that lost its attempt keeps pending values, but its proposal stays
\* active, and advance refuses to begin.
Clean(r) ==
  /\ pc[r] \in {"idle", "propose", "attempt"} => ~txn[r].active
  /\ \/ pc[r] \in {"propose", "attempt"}
     \/ pc[r] = "idle" /\ ~ctl[r].active
     => ~side[r].pending /\ (side[r].warm => side[r].own)
  /\ pc[r] \in {"idle", "propose"} => sweep[r] = 0
  /\ pc[r] = "attempt" => sweep[r] < MaximumSweeps

\* What the rank was told by the collective it has left, or is leaving, and
\* has not acted upon.
Told(r) ==
  IF call[r] = "leave" THEN result
  ELSE IF pc[r] = "decide"
       THEN LET c == CHOOSE x \in cert[r] : TRUE
            IN [decision |-> c.decision, ready |-> c.ready, cand |-> c.cand]
       ELSE NoResult

\* The attempt's decision follows its verdict, and so does the controller's.
Voted(r) ==
  /\ pc[r] = "prepare" /\ vote[r] = "ok" => txn[r].active
  /\ pc[r] \in {"prepared", "finish", "decide"} =>
       /\ txn[r].prepared = IF verdict = "ok" THEN "accept" ELSE "reject"
       /\ verdict = "ok" => txn[r].active
  /\ call[r] = "finish" =>
       outcome[r] = IF verdict = "recouple" THEN "retryable" ELSE verdict
  /\ Told(r).decision = "accept" => verdict = "ok"
  /\ Told(r).decision = "retry" => verdict # "ok"

\* The layers, the side state and the clock are of one accepted step.
Level(r) == txn[r].level = ctl[r].step /\ side[r].level = ctl[r].step

Local(r) == Control(r) /\ Clean(r) /\ Voted(r) /\ Level(r)

\* The controller of c after it has done what it was told.
After(c, told) ==
  CASE told.decision = "propose" ->
         [c EXCEPT !.active = TRUE, !.prop = told.cand]
    [] told.decision = "accept" ->
         [time |-> told.cand.time, lastDt |-> c.prop.dt,
          step |-> told.cand.step, gen |-> told.cand.gen, retries |-> 0,
          origin |-> "accepted", forceBE |-> FALSE, active |-> FALSE,
          prop |-> NoStep]
    [] told.decision = "retry" ->
         [c EXCEPT !.retries = told.cand.attempt, !.gen = told.cand.gen,
                   !.origin = "retry", !.forceBE = TRUE, !.active = TRUE,
                   !.prop = told.cand]
    [] told.decision = "fatal" /\ told.ready ->
         [c EXCEPT !.gen = Lesser(c.prop.gen + 1, MaxGeneration),
                   !.retries = 0, !.origin = "retry", !.forceBE = TRUE,
                   !.active = FALSE, !.prop = NoStep]
    [] OTHER -> c
Target(r) == After(ctl[r], Told(r))

\* Ranks between two steps, or about to be there, are there with one
\* controller.
Together ==
  \A p, q \in Ranks :
    /\ ~ctl[p].active /\ ~ctl[q].active => ctl[p] = ctl[q]
    /\ ~ctl[p].active /\ ~Target(q).active => ctl[p] = Target(q)
    /\ ~Target(p).active /\ ~Target(q).active => Target(p) = Target(q)

DriverInv == DriverTypeOK /\ Together /\ \A r \in Ranks : Local(r)

-----------------------------------------------------------------------------
\* A rank that was told nothing goes nowhere.
LEMMA AfterNothing ==
  ASSUME NEW c, NEW told,
         \/ told.decision = "none"
         \/ told.decision = "fatal" /\ ~told.ready
  PROVE  After(c, told) = c
BY DEF After

LEMMA NothingTold ==
  ASSUME NEW r \in Ranks, call[r] # "leave", pc[r] # "decide"
  PROVE  Told(r) = NoResult /\ Target(r) = ctl[r]
<1>1. Told(r) = NoResult BY DEF Told
<1>2. NoResult.decision = "none" BY DEF NoResult
<1> QED BY <1>1, <1>2, AfterNothing DEF Target

LEMMA NothingToldNext ==
  ASSUME NEW r \in Ranks, call'[r] # "leave", pc'[r] # "decide"
  PROVE  Told(r)' = NoResult /\ Target(r)' = ctl'[r]
<1>1. Told(r)' = NoResult BY DEF Told, NoResult, NoStep
<1>2. NoResult.decision = "none" BY DEF NoResult
<1>3. After(ctl'[r], NoResult) = ctl'[r] BY <1>2, AfterNothing
<1> QED BY <1>1, <1>3 DEF Target, After

\* The rank that holds one certificate was told what it says.
LEMMA CertificateTold ==
  ASSUME NEW r \in Ranks, pc[r] = "decide", Control(r), NEW c \in cert[r]
  PROVE  /\ cert[r] = {c} /\ c.identity = ctl[r] /\ c.prop = held[r]
         /\ Told(r) = [decision |-> c.decision, ready |-> c.ready,
                       cand |-> c.cand]
BY DEF Control, Told

\* The step of one rank does nothing to the others.
Others(r) ==
  /\ verdict' = verdict
  /\ \A q \in Ranks \ {r} :
       /\ ctl'[q] = ctl[q] /\ held'[q] = held[q] /\ cert'[q] = cert[q]
       /\ call'[q] = call[q] /\ outcome'[q] = outcome[q]
       /\ pc'[q] = pc[q] /\ sweep'[q] = sweep[q] /\ vote'[q] = vote[q]
       /\ txn'[q] = txn[q] /\ side'[q] = side[q]
       /\ call[q] = "leave" => result' = result

\* The rank does something of what it was told, or loses it.
Moves(r) ==
  \/ ctl'[r] \in {ctl[r], Target(r)} /\ Target(r)' = Target(r)
  \/ ctl'[r] = ctl[r] /\ Target(r)' = ctl[r]

LEMMA OtherKept ==
  ASSUME NEW r \in Ranks, NEW q \in Ranks \ {r}, Others(r), Local(q)
  PROVE  Local(q)' /\ Told(q)' = Told(q) /\ Target(q)' = Target(q)
<1>1. Told(q)' = Told(q)
  BY DEF Others, Told
<1>2. Target(q)' = Target(q)
  BY <1>1 DEF Others, Target, After, Lesser
<1>3. Control(q)'
  BY DEF Others, Local, Control
<1>4. Clean(q)'
  BY DEF Others, Local, Clean
<1>5. Voted(q)'
  BY <1>1 DEF Others, Local, Voted
<1>6. Level(q)'
  BY DEF Others, Local, Level
<1> QED BY <1>1, <1>2, <1>3, <1>4, <1>5, <1>6 DEF Local

\* One rank's step keeps the invariant if it keeps the rank's part of it.
LEMMA RankKept ==
  ASSUME DriverInv, NEW r \in Ranks, Others(r), Moves(r),
         DriverTypeOK', Local(r)'
  PROVE  DriverInv'
<1>1. \A q \in Ranks : Local(q)'
  BY OtherKept DEF DriverInv
<1>2. \A q \in Ranks \ {r} : ctl'[q] = ctl[q] /\ Target(q)' = Target(q)
  BY OtherKept DEF DriverInv, Others
<1>3. Together'
  <2> DEFINE T(q) == Target(q)
  <2>1. \A p, q \in Ranks :
          /\ ~ctl[p].active /\ ~ctl[q].active => ctl[p] = ctl[q]
          /\ ~ctl[p].active /\ ~T(q).active => ctl[p] = T(q)
          /\ ~T(p).active /\ ~T(q).active => T(p) = T(q)
    BY DEF DriverInv, Together
  <2>2. \A q \in Ranks \ {r} : ctl'[q] = ctl[q] /\ T(q)' = T(q)
    BY <1>2
  <2>3. \/ ctl'[r] \in {ctl[r], T(r)} /\ T(r)' = T(r)
        \/ ctl'[r] = ctl[r] /\ T(r)' = ctl[r]
    BY DEF Moves
  <2> HIDE DEF T
  <2>4. \A p, q \in Ranks :
          /\ ~ctl'[p].active /\ ~ctl'[q].active => ctl'[p] = ctl'[q]
          /\ ~ctl'[p].active /\ ~T(q)'.active => ctl'[p] = T(q)'
          /\ ~T(p)'.active /\ ~T(q)'.active => T(p)' = T(q)'
    BY <2>1, <2>2, <2>3
  <2> QED BY <2>4 DEF Together, T
<1> QED BY <1>1, <1>3 DEF DriverInv

-----------------------------------------------------------------------------
(***************************************************************************)
(* The steps of one rank.                                                  *)
(***************************************************************************)
\* The types that the steps rely on, and the rank's part of the invariant.
LEMMA RankFacts ==
  ASSUME IndInv, DriverInv, NEW r \in Ranks
  PROVE  /\ Local(r) /\ Control(r) /\ Clean(r) /\ Voted(r) /\ Level(r)
         /\ ctl \in [Ranks -> Controllers] /\ held \in [Ranks -> Steps]
         /\ call \in [Ranks -> {"idle", "propose", "finish", "leave"}]
         /\ outcome \in [Ranks -> Outcomes] /\ cert \in [Ranks -> SUBSET Certificates]
         /\ pc \in [Ranks -> Places] /\ sweep \in [Ranks -> 0 .. MaximumSweeps]
         /\ vote \in [Ranks -> AllStatuses] /\ verdict \in AllStatuses
         /\ txn \in [Ranks -> Transactions] /\ side \in [Ranks -> Sides]
         /\ cold \in BOOLEAN /\ reliable \in BOOLEAN
BY DEF IndInv, TypeOK, DriverInv, DriverTypeOK, Local

LEMMA AdvanceBeginStep ==
  ASSUME IndInv, DriverInv, NEW r \in Ranks, NEW lim \in 0 .. MaximumDt,
         AdvanceBegin(r, lim)
  PROVE  DriverInv' /\ Others(r) /\ Target(r)' = Target(r)
<1>1. /\ pc[r] = "idle" /\ ~ctl[r].active
      /\ pc' = [pc EXCEPT ![r] = "propose"]
      /\ call' = [call EXCEPT ![r] = "propose"]
      /\ UNCHANGED <<ctl, held, cert, outcome, result>>
      /\ UNCHANGED <<cold, reliable, sweep, vote, verdict, txn, side>>
  BY DEF AdvanceBegin, EnterPropose, Goto
<1>2. Others(r)
  BY <1>1, RankFacts DEF Others
<1>3. DriverTypeOK'
  BY <1>1, RankFacts DEF DriverTypeOK, Places
<1>4. pc'[r] = "propose" /\ call'[r] = "propose"
  BY <1>1, RankFacts
<1>5. Told(r)' = NoResult /\ Target(r)' = ctl[r]
  BY <1>1, <1>4, NothingToldNext
<1>6. Local(r)'
  <2>1. Control(r)' BY <1>1, <1>4, RankFacts DEF Control
  <2>2. Clean(r)' BY <1>1, <1>4, RankFacts DEF Clean
  <2>3. Voted(r)' BY <1>1, <1>4, <1>5, RankFacts DEF Voted, NoResult
  <2>4. Level(r)' BY <1>1, RankFacts DEF Level
  <2> QED BY <2>1, <2>2, <2>3, <2>4 DEF Local
<1>7. Moves(r)
  BY <1>1, <1>5 DEF Moves
<1>8. Target(r) = ctl[r]
  BY <1>1, RankFacts, NothingTold DEF Control
<1> QED BY <1>5, <1>8, <1>2, <1>3, <1>6, <1>7, RankKept

\* The rank takes the step that all ranks proposed.
LEMMA AdvanceProposedStep ==
  ASSUME IndInv, DriverInv, NEW r \in Ranks, AdvanceProposed(r)
  PROVE  DriverInv' /\ Others(r) /\ Target(r)' = Target(r)
<1>1. /\ pc[r] = "propose" /\ call[r] = "leave" /\ Return(r)
      /\ result.decision = "propose"
      /\ pc' = [pc EXCEPT ![r] = "attempt"]
      /\ call' = [call EXCEPT ![r] = "idle"]
      /\ ctl' = [ctl EXCEPT ![r] = [@ EXCEPT !.active = TRUE,
                                             !.prop = result.cand]]
      /\ held' = [held EXCEPT ![r] = result.cand]
      /\ UNCHANGED <<cert, limit, outcome>>
      /\ UNCHANGED <<cold, reliable, sweep, vote, verdict, txn, side>>
  BY DEF AdvanceProposed, LeavePropose, Return, Goto
<1>2. Others(r)
  BY <1>1, RankFacts, ReturnKept DEF Others
<1>3. DriverTypeOK'
  BY <1>1, RankFacts DEF DriverTypeOK, Places
<1>4. /\ pc'[r] = "attempt" /\ call'[r] = "idle" /\ held'[r] = result.cand
      /\ ctl'[r] = [ctl[r] EXCEPT !.active = TRUE, !.prop = result.cand]
      /\ ctl[r] \in Controllers
  BY <1>1, RankFacts
<1>5. Target(r) = ctl'[r]
  BY <1>1, <1>4 DEF Target, Told, After
<1>6. /\ ctl'[r].active /\ ctl'[r].prop = result.cand
      /\ ctl'[r].step = ctl[r].step
  BY <1>4 DEF Controllers
<1>7. Told(r)' = NoResult /\ Target(r)' = ctl'[r]
  BY <1>4, NothingToldNext
<1>8. Local(r)'
  <2>1. Control(r)' BY <1>1, <1>4, <1>6, RankFacts DEF Control
  <2>2. Clean(r)'
    <3>1. MaximumSweeps > 0 BY DriverAssumption
    <3> QED BY <1>1, <1>4, <3>1, RankFacts DEF Clean
  <2>3. Voted(r)' BY <1>1, <1>4, <1>7, RankFacts DEF Voted, NoResult
  <2>4. Level(r)' BY <1>1, <1>6, RankFacts DEF Level
  <2> QED BY <2>1, <2>2, <2>3, <2>4 DEF Local
<1>9. Moves(r)
  BY <1>5, <1>7 DEF Moves
<1> QED BY <1>5, <1>7, <1>2, <1>3, <1>8, <1>9, RankKept

\* The rank was not given a step: propose failed everywhere, or here only.
LEMMA AdvanceNotProposedStep ==
  ASSUME IndInv, DriverInv, NEW r \in Ranks, NEW e \in BOOLEAN,
         AdvanceNotProposed(r, e)
  PROVE  /\ DriverInv' /\ Others(r)
         /\ result.decision = "none" => Target(r)' = Target(r)
<1>1. /\ pc[r] = "propose" /\ call[r] = "leave" /\ Return(r)
      /\ pc' = [pc EXCEPT ![r] = "idle"]
      /\ call' = [call EXCEPT ![r] = "idle"]
      /\ UNCHANGED <<ctl, held, cert, limit, outcome>>
      /\ UNCHANGED <<cold, reliable, sweep, vote, verdict, txn, side>>
  BY DEF AdvanceNotProposed, LeaveFailed, Return, Goto
<1>2. Others(r)
  BY <1>1, RankFacts, ReturnKept DEF Others
<1>3. DriverTypeOK'
  BY <1>1, RankFacts DEF DriverTypeOK, Places
<1>4. pc'[r] = "idle" /\ call'[r] = "idle"
  BY <1>1, RankFacts
<1>5. Told(r)' = NoResult /\ Target(r)' = ctl[r]
  BY <1>1, <1>4, NothingToldNext
<1>6. Local(r)'
  <2>1. Control(r)' BY <1>1, <1>4, RankFacts DEF Control
  <2>2. Clean(r)' BY <1>1, <1>4, RankFacts DEF Clean
  <2>3. Voted(r)' BY <1>1, <1>4, <1>5, RankFacts DEF Voted, NoResult
  <2>4. Level(r)' BY <1>1, RankFacts DEF Level
  <2> QED BY <2>1, <2>2, <2>3, <2>4 DEF Local
<1>7. Moves(r)
  BY <1>1, <1>5 DEF Moves
<1>8. result.decision = "none" => Target(r) = ctl[r]
  <2>1. Told(r) = result BY <1>1 DEF Told
  <2> QED BY <2>1, AfterNothing DEF Target
<1> QED BY <1>2, <1>3, <1>5, <1>6, <1>7, <1>8, RankKept

\* execute_attempt leaves the accepted data and the controllers alone.
LEMMA ExecuteAttemptStep ==
  ASSUME IndInv, DriverInv, NEW r \in Ranks, NEW code \in Statuses,
         NEW pending \in BOOLEAN, ExecuteAttempt(r, code, pending)
  PROVE  DriverInv' /\ Others(r) /\ Target(r)' = Target(r)
<1>1. /\ pc[r] = "attempt"
      /\ pc' = [pc EXCEPT ![r] = "prepare"]
      /\ sweep' = [sweep EXCEPT ![r] = @ + 1]
      /\ vote' = [vote EXCEPT ![r] = code]
      /\ txn' = [txn EXCEPT ![r].active = TRUE]
      /\ side' = [side EXCEPT ![r].pending = pending, ![r].own = FALSE]
      /\ UNCHANGED <<ctl, held, cert, call, limit, outcome, result, verdict, cold, reliable>>
  BY DEF ExecuteAttempt, Goto, timeVars
<1>2. Others(r)
  BY <1>1, RankFacts DEF Others
<1>3. DriverTypeOK'
  <2>1. sweep[r] + 1 \in 0 .. MaximumSweeps
    <3>1. sweep[r] \in 0 .. MaximumSweeps /\ sweep[r] < MaximumSweeps
      BY <1>1, RankFacts DEF Clean
    <3> QED BY <3>1, DriverAssumption
  <2>2. sweep' \in [Ranks -> 0 .. MaximumSweeps]
    BY <1>1, <2>1, RankFacts
  <2>3. txn' \in [Ranks -> Transactions]
    BY <1>1, RankFacts DEF Transactions
  <2>4. side' \in [Ranks -> Sides]
    BY <1>1, RankFacts DEF Sides
  <2>5. vote' \in [Ranks -> AllStatuses]
    BY <1>1, RankFacts, DriverAssumption
  <2> QED BY <1>1, <2>2, <2>3, <2>4, <2>5, RankFacts DEF DriverTypeOK, Places
<1>4. /\ pc'[r] = "prepare" /\ txn'[r].active
      /\ txn'[r].level = txn[r].level /\ side'[r].level = side[r].level
  BY <1>1, RankFacts DEF Transactions, Sides
<1>5. call[r] = "idle"
  BY <1>1, RankFacts DEF Control
<1>6. Told(r)' = NoResult /\ Target(r)' = ctl[r]
  BY <1>1, <1>4, <1>5, NothingToldNext
<1>7. Local(r)'
  <2>1. Control(r)' BY <1>1, <1>4, <1>5, RankFacts DEF Control
  <2>2. Clean(r)' BY <1>1, <1>4, RankFacts DEF Clean
  <2>3. Voted(r)' BY <1>1, <1>4, <1>5, <1>6, RankFacts DEF Voted, NoResult
  <2>4. Level(r)' BY <1>1, <1>4, RankFacts DEF Level
  <2> QED BY <2>1, <2>2, <2>3, <2>4 DEF Local
<1>8. Moves(r)
  BY <1>1, <1>6 DEF Moves
<1>9. Target(r) = ctl[r]
  BY <1>1, <1>5, NothingTold
<1> QED BY <1>2, <1>3, <1>6, <1>7, <1>8, <1>9, RankKept

-----------------------------------------------------------------------------
\* How an attempt ends in the transaction and in the side state.
LEMMA Rejected ==
  ASSUME NEW r \in Ranks, txn \in [Ranks -> Transactions],
         TransactionRejected(r)
  PROVE  /\ txn' \in [Ranks -> Transactions]
         /\ ~txn'[r].active /\ txn'[r].level = txn[r].level
         /\ \A q \in Ranks \ {r} : txn'[q] = txn[q]
BY DEF TransactionRejected, Transactions

LEMMA Accepted ==
  ASSUME NEW r \in Ranks, txn \in [Ranks -> Transactions],
         TransactionAccepted(r)
  PROVE  /\ txn' \in [Ranks -> Transactions]
         /\ ~txn'[r].active /\ txn'[r].level = txn[r].level + 1
         /\ \A q \in Ranks \ {r} : txn'[q] = txn[q]
BY DEF TransactionAccepted, Transactions

LEMMA Discarded ==
  ASSUME NEW r \in Ranks, side \in [Ranks -> Sides], SideDiscarded(r)
  PROVE  /\ side' \in [Ranks -> Sides]
         /\ ~side'[r].pending /\ ~side'[r].warm
         /\ side'[r].level = side[r].level
         /\ \A q \in Ranks \ {r} : side'[q] = side[q]
BY DEF SideDiscarded, Sides

LEMMA Committed ==
  ASSUME NEW r \in Ranks, side \in [Ranks -> Sides], cold \in BOOLEAN,
         SideCommitted(r)
  PROVE  /\ side' \in [Ranks -> Sides]
         /\ ~side'[r].pending /\ side'[r].own
         /\ side'[r].level = side[r].level + 1
         /\ \A q \in Ranks \ {r} : side'[q] = side[q]
BY DEF SideCommitted, Sides

\* The rank returns with its attempt discarded and its proposal active.
LEMMA AttemptLostStep ==
  ASSUME IndInv, DriverInv, NEW r \in Ranks, AttemptLost(r)
  PROVE  DriverInv'
<1>1. /\ pc[r] = "prepared" /\ TransactionRejected(r)
      /\ pc' = [pc EXCEPT ![r] = "idle"]
      /\ sweep' = [sweep EXCEPT ![r] = 0]
      /\ UNCHANGED <<ctl, held, cert, call, limit, outcome, result>>
      /\ UNCHANGED <<cold, reliable, vote, verdict, side>>
  BY DEF AttemptLost, Goto, timeVars
<1>2. Others(r)
  BY <1>1, RankFacts, Rejected DEF Others
<1>3. DriverTypeOK'
  BY <1>1, RankFacts, Rejected, DriverAssumption DEF DriverTypeOK, Places
<1>4. pc'[r] = "idle" /\ call[r] = "idle" /\ sweep'[r] = 0 /\ ctl[r].active
  BY <1>1, RankFacts DEF Control
<1>5. Told(r)' = NoResult /\ Target(r)' = ctl[r]
  BY <1>1, <1>4, NothingToldNext
<1>6. Local(r)'
  <2>1. Control(r)' BY <1>1, <1>4, RankFacts DEF Control
  <2>2. Clean(r)' BY <1>1, <1>4, RankFacts, Rejected DEF Clean
  <2>3. Voted(r)' BY <1>1, <1>4, <1>5, RankFacts DEF Voted, NoResult
  <2>4. Level(r)' BY <1>1, RankFacts, Rejected DEF Level
  <2> QED BY <2>1, <2>2, <2>3, <2>4 DEF Local
<1>7. Moves(r)
  BY <1>1, <1>5 DEF Moves
<1> QED BY <1>2, <1>3, <1>6, <1>7, RankKept

\* The rank votes again for an attempt it has discarded.
LEMMA PrepareAgainStep ==
  ASSUME IndInv, DriverInv, NEW r \in Ranks, PrepareAgain(r)
  PROVE  DriverInv'
<1>1. /\ pc[r] = "prepared" /\ TransactionRejected(r)
      /\ pc' = [pc EXCEPT ![r] = "prepare"]
      /\ vote' = [vote EXCEPT ![r] = "fatal"]
      /\ UNCHANGED <<ctl, held, cert, call, limit, outcome, result>>
      /\ UNCHANGED <<cold, reliable, sweep, verdict, side>>
  BY DEF PrepareAgain, Goto, timeVars
<1>2. Others(r)
  BY <1>1, RankFacts, Rejected DEF Others
<1>3. DriverTypeOK'
  BY <1>1, RankFacts, Rejected DEF DriverTypeOK, Places, AllStatuses
<1>4. pc'[r] = "prepare" /\ call[r] = "idle" /\ vote'[r] = "fatal"
  BY <1>1, RankFacts DEF Control
<1>5. Told(r)' = NoResult /\ Target(r)' = ctl[r]
  BY <1>1, <1>4, NothingToldNext
<1>6. Local(r)'
  <2>1. Control(r)' BY <1>1, <1>4, RankFacts DEF Control
  <2>2. Clean(r)' BY <1>1, <1>4, RankFacts, Rejected DEF Clean
  <2>3. Voted(r)' BY <1>1, <1>4, <1>5, RankFacts DEF Voted, NoResult
  <2>4. Level(r)' BY <1>1, RankFacts, Rejected DEF Level
  <2> QED BY <2>1, <2>2, <2>3, <2>4 DEF Local
<1>7. Moves(r)
  BY <1>1, <1>5 DEF Moves
<1> QED BY <1>2, <1>3, <1>6, <1>7, RankKept

\* Another sweep of the same proposal starts from what the first one did.
LEMMA RecoupleStep ==
  ASSUME IndInv, DriverInv, NEW r \in Ranks, Recouple(r)
  PROVE  DriverInv' /\ Others(r) /\ Target(r)' = Target(r)
<1>1. /\ pc[r] = "prepared" /\ sweep[r] < MaximumSweeps
      /\ TransactionRejected(r) /\ SideDiscarded(r)
      /\ pc' = [pc EXCEPT ![r] = "attempt"]
      /\ UNCHANGED <<ctl, held, cert, call, limit, outcome, result>>
      /\ UNCHANGED <<cold, reliable, sweep, vote, verdict>>
  BY DEF Recouple, Recoupling, Goto, timeVars
<1>2. Others(r)
  BY <1>1, RankFacts, Rejected, Discarded DEF Others
<1>3. DriverTypeOK'
  BY <1>1, RankFacts, Rejected, Discarded DEF DriverTypeOK, Places
<1>4. pc'[r] = "attempt" /\ call[r] = "idle"
  BY <1>1, RankFacts DEF Control
<1>5. Told(r)' = NoResult /\ Target(r)' = ctl[r]
  BY <1>1, <1>4, NothingToldNext
<1>6. Local(r)'
  <2>1. Control(r)' BY <1>1, <1>4, RankFacts DEF Control
  <2>2. Clean(r)' BY <1>1, <1>4, RankFacts, Rejected, Discarded DEF Clean
  <2>3. Voted(r)' BY <1>1, <1>4, <1>5, RankFacts DEF Voted, NoResult
  <2>4. Level(r)' BY <1>1, RankFacts, Rejected, Discarded DEF Level
  <2> QED BY <2>1, <2>2, <2>3, <2>4 DEF Local
<1>7. Moves(r)
  BY <1>1, <1>5 DEF Moves
<1>8. Target(r) = ctl[r]
  BY <1>1, <1>4, NothingTold
<1> QED BY <1>2, <1>3, <1>5, <1>6, <1>7, <1>8, RankKept

\* The rank's outcome for the time controller is the attempt's verdict.
LEMMA FinishTimeStep ==
  ASSUME IndInv, DriverInv, NEW r \in Ranks, FinishTime(r)
  PROVE  DriverInv' /\ Others(r) /\ Target(r)' = Target(r)
<1> DEFINE code == IF verdict = "recouple" THEN "retryable" ELSE verdict
<1>1. /\ pc[r] = "prepared"
      /\ pc' = [pc EXCEPT ![r] = "finish"]
      /\ call' = [call EXCEPT ![r] = "finish"]
      /\ outcome' = [outcome EXCEPT ![r] = code]
      /\ UNCHANGED <<ctl, held, cert, limit, result>>
      /\ UNCHANGED <<cold, reliable, sweep, vote, verdict, txn, side>>
  BY DEF FinishTime, EnterFinish, Goto
<1> HIDE DEF code
<1>2. Others(r)
  BY <1>1, RankFacts DEF Others
<1>3. DriverTypeOK'
  BY <1>1, RankFacts DEF DriverTypeOK, Places
<1>4. pc'[r] = "finish" /\ call'[r] = "finish" /\ outcome'[r] = code
  BY <1>1, RankFacts
<1>5. Told(r)' = NoResult /\ Target(r)' = ctl[r]
  BY <1>1, <1>4, NothingToldNext
<1>6. Local(r)'
  <2>1. Control(r)' BY <1>1, <1>4, RankFacts DEF Control
  <2>2. Clean(r)' BY <1>1, <1>4, RankFacts DEF Clean
  <2>3. Voted(r)' BY <1>1, <1>4, <1>5, RankFacts DEF Voted, NoResult, code
  <2>4. Level(r)' BY <1>1, RankFacts DEF Level
  <2> QED BY <2>1, <2>2, <2>3, <2>4 DEF Local
<1>7. Moves(r)
  BY <1>1, <1>5 DEF Moves
<1>8. Target(r) = ctl[r]
  BY <1>1, RankFacts, NothingTold DEF Control
<1> QED BY <1>2, <1>3, <1>5, <1>6, <1>7, <1>8, RankKept

\* prepare_finish failed, for all ranks or for this one: rolled back.
LEMMA FinishFailedStep ==
  ASSUME IndInv, DriverInv, NEW r \in Ranks, NEW e \in BOOLEAN,
         FinishFailed(r, e)
  PROVE  DriverInv'
<1>1. /\ pc[r] = "finish" /\ call[r] = "leave" /\ Return(r)
      /\ TransactionRejected(r) /\ SideDiscarded(r)
      /\ pc' = [pc EXCEPT ![r] = "idle"]
      /\ call' = [call EXCEPT ![r] = "idle"]
      /\ sweep' = [sweep EXCEPT ![r] = 0]
      /\ UNCHANGED <<ctl, held, cert, limit, outcome>>
      /\ UNCHANGED <<cold, reliable, vote, verdict>>
  BY DEF FinishFailed, LeaveFailed, Return, Goto
<1>2. Others(r)
  BY <1>1, RankFacts, ReturnKept, Rejected, Discarded DEF Others
<1>3. DriverTypeOK'
  BY <1>1, RankFacts, Rejected, Discarded, DriverAssumption
     DEF DriverTypeOK, Places
<1>4. pc'[r] = "idle" /\ call'[r] = "idle" /\ sweep'[r] = 0
  BY <1>1, RankFacts
<1>5. Told(r)' = NoResult /\ Target(r)' = ctl[r]
  BY <1>1, <1>4, NothingToldNext
<1>6. Local(r)'
  <2>1. Control(r)' BY <1>1, <1>4, RankFacts DEF Control
  <2>2. Clean(r)' BY <1>1, <1>4, RankFacts, Rejected, Discarded DEF Clean
  <2>3. Voted(r)' BY <1>1, <1>4, <1>5, RankFacts DEF Voted, NoResult
  <2>4. Level(r)' BY <1>1, RankFacts, Rejected, Discarded DEF Level
  <2> QED BY <2>1, <2>2, <2>3, <2>4 DEF Local
<1>7. Moves(r)
  BY <1>1, <1>5 DEF Moves
<1> QED BY <1>2, <1>3, <1>6, <1>7, RankKept

-----------------------------------------------------------------------------
\* The certificate holds what the rank was told.
LEMMA FinishPreparedStep ==
  ASSUME IndInv, DriverInv, NEW r \in Ranks, FinishPrepared(r)
  PROVE  /\ DriverInv' /\ Others(r)
         /\ Told(r)' = Told(r) /\ Target(r)' = Target(r)
<1>1. PICK k \in CertificateSlots(r) : LeaveFinish(r, k)
  BY DEF FinishPrepared
<1> DEFINE c == Certified(r, k)
<1>2. /\ pc[r] = "finish" /\ call[r] = "leave" /\ Return(r)
      /\ pc' = [pc EXCEPT ![r] = "decide"]
      /\ call' = [call EXCEPT ![r] = "idle"]
      /\ cert' = [cert EXCEPT ![r] = @ \cup {c}]
      /\ UNCHANGED <<ctl, held, limit, outcome>>
      /\ UNCHANGED <<cold, reliable, sweep, vote, verdict, txn, side>>
  BY <1>1 DEF FinishPrepared, LeaveFinish, Return, Goto
<1>3. /\ c.identity = ctl[r] /\ c.prop = held[r]
      /\ [decision |-> c.decision, ready |-> c.ready, cand |-> c.cand] = result
  <2>1. result \in [decision : {"none", "propose", "accept", "retry", "fatal"},
                    ready : BOOLEAN, cand : Steps]
    BY DEF IndInv, TypeOK
  <2> QED BY <2>1 DEF Certified
<1> HIDE DEF c
<1>4. Others(r)
  BY <1>2, RankFacts, ReturnKept DEF Others
<1>5. DriverTypeOK'
  BY <1>2, RankFacts DEF DriverTypeOK, Places
<1>6. pc'[r] = "decide" /\ call'[r] = "idle" /\ cert'[r] = {c}
  <2>1. cert[r] = {} BY <1>2, RankFacts DEF Control
  <2> QED BY <1>2, <2>1, RankFacts
<1>7. Told(r) = result /\ Told(r)' = result
  <2>1. Told(r) = result BY <1>2 DEF Told
  <2>2. (CHOOSE x \in {c} : TRUE) = c OBVIOUS
  <2>3. Told(r)' = [decision |-> c.decision, ready |-> c.ready, cand |-> c.cand]
    BY <1>6, <2>2 DEF Told
  <2> QED BY <1>3, <2>1, <2>3
<1>8. Target(r)' = Target(r)
  BY <1>2, <1>7 DEF Target, After
<1>9. Local(r)'
  <2>1. Control(r)' BY <1>2, <1>3, <1>6, RankFacts DEF Control
  <2>2. Clean(r)' BY <1>2, <1>6, RankFacts DEF Clean
  <2>3. Voted(r)' BY <1>2, <1>6, <1>7, RankFacts DEF Voted
  <2>4. Level(r)' BY <1>2, RankFacts DEF Level
  <2> QED BY <2>1, <2>2, <2>3, <2>4 DEF Local
<1>10. Moves(r)
  BY <1>2, <1>8 DEF Moves
<1> QED BY <1>4, <1>7, <1>8, <1>5, <1>9, <1>10, RankKept

\* The rank's certificate at its decision.
LEMMA DecisionFacts ==
  ASSUME IndInv, DriverInv, NEW r \in Ranks, pc[r] = "decide", NEW c \in cert[r]
  PROVE  /\ cert[r] = {c} /\ c.identity = ctl[r] /\ c.prop = ctl[r].prop
         /\ call[r] = "idle" /\ ctl[r].active /\ ctl[r] \in Controllers
         /\ Told(r).decision = c.decision /\ Told(r).ready = c.ready
         /\ Told(r).cand = c.cand
BY CertificateTold, RankFacts DEF Control

\* The three finishes of an accepted step.
LEMMA DecideAcceptStep ==
  ASSUME IndInv, DriverInv, NEW r \in Ranks, DecideAccept(r)
  PROVE  DriverInv' /\ Others(r) /\ Target(r)' = Target(r) /\ ~ctl'[r].active
<1>1. PICK c \in cert[r] : CommitAccept(r, c)
  BY DEF DecideAccept
<1> DEFINE d == [time |-> c.cand.time, lastDt |-> c.prop.dt,
                 step |-> c.cand.step, gen |-> c.cand.gen, retries |-> 0,
                 origin |-> "accepted", forceBE |-> FALSE, active |-> FALSE,
                 prop |-> NoStep]
<1>2. /\ pc[r] = "decide" /\ Matches(r, c) /\ c.decision = "accept"
      /\ TransactionAccepted(r) /\ SideCommitted(r)
      /\ cert' = [cert EXCEPT ![r] = @ \ {c}]
      /\ ctl' = [ctl EXCEPT ![r] = d]
      /\ pc' = [pc EXCEPT ![r] = "idle"]
      /\ sweep' = [sweep EXCEPT ![r] = 0]
      /\ UNCHANGED <<held, call, limit, outcome, result>>
      /\ UNCHANGED <<cold, reliable, vote, verdict>>
  BY <1>1 DEF DecideAccept, CommitAccept, Consume, Goto
<1>3. /\ cert[r] = {c} /\ c.prop = ctl[r].prop /\ call[r] = "idle"
      /\ Told(r).decision = c.decision /\ Told(r).cand = c.cand
  BY <1>2, DecisionFacts
<1>4. Target(r) = d
  BY <1>2, <1>3 DEF Target, After
<1>5. d.step = ctl[r].step + 1 /\ ~d.active
  BY <1>2, MatchingCertificate DEF Accepts
<1> HIDE DEF d
<1>6. Others(r)
  BY <1>2, RankFacts, Accepted, Committed DEF Others
<1>7. DriverTypeOK'
  BY <1>2, RankFacts, Accepted, Committed, DriverAssumption
     DEF DriverTypeOK, Places
<1>8. /\ pc'[r] = "idle" /\ call'[r] = "idle" /\ sweep'[r] = 0
      /\ cert'[r] = {} /\ ctl'[r] = d
  BY <1>2, <1>3, RankFacts
<1>9. Told(r)' = NoResult /\ Target(r)' = d
  BY <1>8, NothingToldNext
<1>10. Local(r)'
  <2>1. Control(r)' BY <1>2, <1>8, RankFacts DEF Control
  <2>2. Clean(r)' BY <1>2, <1>8, RankFacts, Accepted, Committed DEF Clean
  <2>3. Voted(r)' BY <1>2, <1>8, <1>9, RankFacts DEF Voted, NoResult
  <2>4. Level(r)'
    BY <1>2, <1>5, <1>8, RankFacts, Accepted, Committed DEF Level
  <2> QED BY <2>1, <2>2, <2>3, <2>4 DEF Local
<1>11. Moves(r)
  BY <1>4, <1>8, <1>9 DEF Moves
<1> QED BY <1>4, <1>5, <1>6, <1>7, <1>8, <1>9, <1>10, <1>11, RankKept

\* The next attempt of the step starts clean, with the retry's proposal.
LEMMA DecideRetryStep ==
  ASSUME IndInv, DriverInv, NEW r \in Ranks, DecideRetry(r)
  PROVE  DriverInv' /\ Others(r) /\ Target(r)' = Target(r)
<1>1. PICK c \in cert[r] : CommitRetry(r, c)
  BY DEF DecideRetry
<1> DEFINE d == [ctl[r] EXCEPT !.retries = c.cand.attempt, !.gen = c.cand.gen,
                               !.origin = "retry", !.forceBE = TRUE,
                               !.active = TRUE, !.prop = c.cand]
<1>2. /\ pc[r] = "decide" /\ c.decision = "retry"
      /\ TransactionRejected(r) /\ SideDiscarded(r)
      /\ cert' = [cert EXCEPT ![r] = @ \ {c}]
      /\ ctl' = [ctl EXCEPT ![r] = d]
      /\ held' = [held EXCEPT ![r] = c.cand]
      /\ pc' = [pc EXCEPT ![r] = "attempt"]
      /\ sweep' = [sweep EXCEPT ![r] = 0]
      /\ UNCHANGED <<call, limit, outcome, result>>
      /\ UNCHANGED <<cold, reliable, vote, verdict>>
  BY <1>1 DEF DecideRetry, CommitRetry, Consume, Goto
<1>3. /\ cert[r] = {c} /\ call[r] = "idle" /\ ctl[r] \in Controllers
      /\ Told(r).decision = c.decision /\ Told(r).cand = c.cand
  BY <1>2, DecisionFacts
<1>4. Target(r) = d
  BY <1>2, <1>3 DEF Target, After
<1>5. d.step = ctl[r].step /\ d.active /\ d.prop = c.cand
  BY <1>3 DEF Controllers
<1> HIDE DEF d
<1>6. Others(r)
  BY <1>2, RankFacts, Rejected, Discarded DEF Others
<1>7. DriverTypeOK'
  BY <1>2, RankFacts, Rejected, Discarded, DriverAssumption
     DEF DriverTypeOK, Places
<1>8. /\ pc'[r] = "attempt" /\ call'[r] = "idle" /\ sweep'[r] = 0
      /\ cert'[r] = {} /\ ctl'[r] = d /\ held'[r] = c.cand
  BY <1>2, <1>3, RankFacts
<1>9. Told(r)' = NoResult /\ Target(r)' = d
  BY <1>8, NothingToldNext
<1>10. Local(r)'
  <2>1. Control(r)' BY <1>2, <1>5, <1>8, RankFacts DEF Control
  <2>2. Clean(r)'
    <3>1. MaximumSweeps > 0 BY DriverAssumption
    <3> QED BY <1>2, <1>8, <3>1, RankFacts, Rejected, Discarded DEF Clean
  <2>3. Voted(r)' BY <1>2, <1>8, <1>9, RankFacts DEF Voted, NoResult
  <2>4. Level(r)'
    BY <1>2, <1>5, <1>8, RankFacts, Rejected, Discarded DEF Level
  <2> QED BY <2>1, <2>2, <2>3, <2>4 DEF Local
<1>11. Moves(r)
  BY <1>4, <1>8, <1>9 DEF Moves
<1> QED BY <1>4, <1>6, <1>7, <1>9, <1>10, <1>11, RankKept

\* A certificate that does not match leaves the proposal active.
LEMMA DecideFatalStep ==
  ASSUME IndInv, DriverInv, NEW r \in Ranks, DecideFatal(r)
  PROVE  /\ DriverInv' /\ Others(r) /\ Target(r)' = Target(r)
         /\ Told(r).ready => ~ctl'[r].active
<1>1. PICK c \in cert[r] :
        /\ c.decision = "fatal"
        /\ \/ CommitFatal(r, c)
           \/ ~Matches(r, c) /\ DropCertificate(r, c)
  BY DEF DecideFatal
<1> DEFINE d == [ctl[r] EXCEPT !.gen = Lesser(c.prop.gen + 1, MaxGeneration),
                               !.retries = 0, !.origin = "retry",
                               !.forceBE = TRUE, !.active = FALSE,
                               !.prop = NoStep]
<1>2. /\ pc[r] = "decide" /\ c.decision = "fatal"
      /\ TransactionRejected(r) /\ SideDiscarded(r)
      /\ cert' = [cert EXCEPT ![r] = @ \ {c}]
      /\ pc' = [pc EXCEPT ![r] = "idle"]
      /\ sweep' = [sweep EXCEPT ![r] = 0]
      /\ UNCHANGED <<held, call, limit, outcome, result>>
      /\ UNCHANGED <<cold, reliable, vote, verdict>>
  BY <1>1 DEF DecideFatal, CommitFatal, DropCertificate, Consume, Goto
<1>3. \/ Matches(r, c) /\ ctl' = [ctl EXCEPT ![r] = d]
      \/ ~Matches(r, c) /\ ctl' = ctl
  BY <1>1 DEF CommitFatal, DropCertificate
<1>4. /\ cert[r] = {c} /\ call[r] = "idle" /\ ctl[r] \in Controllers
      /\ c.prop = ctl[r].prop /\ c.identity = ctl[r] /\ ctl[r].active
      /\ Told(r).decision = c.decision /\ Told(r).ready = c.ready
  BY <1>2, DecisionFacts
<1>5. Matches(r, c) <=> c.ready
  BY <1>4 DEF Matches, MatchesActive
<1>6. Target(r) = IF c.ready THEN d ELSE ctl[r]
  BY <1>2, <1>4 DEF Target, After
<1>7. d.step = ctl[r].step /\ ~d.active
  BY <1>4 DEF Controllers
<1> HIDE DEF d
<1>8. /\ ctl'[r] = Target(r) /\ ctl'[r].step = ctl[r].step
      /\ \A q \in Ranks \ {r} : ctl'[q] = ctl[q]
  BY <1>3, <1>5, <1>6, <1>7, RankFacts
<1>9. Others(r)
  BY <1>2, <1>8, RankFacts, Rejected, Discarded DEF Others
<1>10. DriverTypeOK'
  BY <1>2, RankFacts, Rejected, Discarded, DriverAssumption
     DEF DriverTypeOK, Places
<1>11. /\ pc'[r] = "idle" /\ call'[r] = "idle" /\ sweep'[r] = 0
       /\ cert'[r] = {}
  BY <1>2, <1>4, RankFacts
<1>12. Told(r)' = NoResult /\ Target(r)' = ctl'[r]
  BY <1>11, NothingToldNext
<1>13. Local(r)'
  <2>1. Control(r)' BY <1>2, <1>11, RankFacts DEF Control
  <2>2. Clean(r)' BY <1>2, <1>11, RankFacts, Rejected, Discarded DEF Clean
  <2>3. Voted(r)' BY <1>2, <1>11, <1>12, RankFacts DEF Voted, NoResult
  <2>4. Level(r)' BY <1>2, <1>8, RankFacts, Rejected, Discarded DEF Level
  <2> QED BY <2>1, <2>2, <2>3, <2>4 DEF Local
<1>14. Moves(r)
  BY <1>8, <1>12 DEF Moves
<1>15. Told(r).ready => ~ctl'[r].active
  BY <1>4, <1>6, <1>7, <1>8
<1> QED BY <1>8, <1>9, <1>10, <1>12, <1>13, <1>14, <1>15, RankKept

-----------------------------------------------------------------------------
(***************************************************************************)
(* The steps of all ranks.                                                 *)
(***************************************************************************)
\* propose ends: all ranks were between two steps.
LEMMA DriverProposeDoneStep ==
  ASSUME IndInv, DriverInv, DriverProposeDone
  PROVE  DriverInv'
<1>1. /\ \A r \in Ranks : call[r] = "propose"
      /\ call' = [r \in Ranks |-> "leave"]
      /\ result' = IF Proposable
                   THEN [decision |-> "propose", ready |-> TRUE,
                         cand |-> ProposedStep]
                   ELSE NoResult
      /\ UNCHANGED <<ctl, held, cert, outcome>>
      /\ UNCHANGED <<cold, reliable, pc, sweep, vote, verdict, txn, side>>
  BY DEF DriverProposeDone, ProposeDone, driverVars
<1>2. result'.decision \in {"none", "propose"}
  BY <1>1 DEF NoResult
<1>3. DriverTypeOK'
  BY <1>1 DEF DriverInv, DriverTypeOK
<1>4. ASSUME NEW r \in Ranks
      PROVE  /\ pc[r] = "propose" /\ ~ctl[r].active /\ ctl[r] \in Controllers
             /\ call'[r] = "leave" /\ Told(r)' = result'
             /\ Target(r)' = After(ctl[r], result')
  <2>1. pc[r] = "propose" /\ ~ctl[r].active /\ ctl[r] \in Controllers
    BY <1>1, <1>4, RankFacts DEF Control, Places
  <2>2. call'[r] = "leave" BY <1>1, <1>4
  <2>3. Told(r)' = result' BY <2>2 DEF Told
  <2>4. Target(r)' = After(ctl[r], result')
    BY <1>1, <2>3 DEF Target, After
  <2> QED BY <2>1, <2>2, <2>3, <2>4
<1>5. ASSUME NEW r \in Ranks PROVE Local(r)'
  <2>1. Control(r)' BY <1>1, <1>2, <1>4, <1>5, RankFacts DEF Control
  <2>2. Clean(r)' BY <1>1, <1>5, RankFacts DEF Clean
  <2>3. Voted(r)' BY <1>1, <1>2, <1>4, <1>5, RankFacts DEF Voted
  <2>4. Level(r)' BY <1>1, <1>5, RankFacts DEF Level
  <2> QED BY <2>1, <2>2, <2>3, <2>4 DEF Local
<1>6. Together'
  <2>1. \A p, q \in Ranks : ctl[p] = ctl[q]
    BY <1>4 DEF DriverInv, Together
  <2>2. CASE result'.decision = "propose"
    <3>1. \A q \in Ranks : Target(q)'.active
      BY <1>4, <2>2 DEF After, Controllers
    <3> QED BY <1>1, <2>1, <3>1 DEF Together
  <2>3. CASE result'.decision = "none"
    <3>1. \A q \in Ranks : Target(q)' = ctl[q]
      BY <1>4, <2>3, AfterNothing
    <3> QED BY <1>1, <2>1, <3>1 DEF Together
  <2> QED BY <1>2, <2>2, <2>3
<1> QED BY <1>3, <1>5, <1>6 DEF DriverInv

\* collective_prepare ends: the verdict is a success only if every rank voted
\* for it, with its attempt still active.
LEMMA AttemptDoneStep ==
  ASSUME IndInv, DriverInv, AttemptDone
  PROVE  DriverInv'
<1> DEFINE prepared == IF SelectedStatus = "ok" THEN "accept" ELSE "reject"
<1>1. /\ \A r \in Ranks : pc[r] = "prepare"
      /\ pc' = [r \in Ranks |-> "prepared"]
      /\ verdict' = SelectedStatus
      /\ vote' = [r \in Ranks |-> "ok"]
      /\ txn' = [r \in Ranks |-> [txn[r] EXCEPT !.prepared = prepared]]
      /\ UNCHANGED <<ctl, held, cert, call, outcome, result>>
      /\ UNCHANGED <<cold, reliable, sweep, side>>
  BY DEF AttemptDone, timeVars
<1>2. /\ SelectedStatus \in AllStatuses
      /\ SelectedStatus = "ok" <=> \A r \in Ranks : vote[r] = "ok"
  BY SelectedStatusType DEF DriverInv, DriverTypeOK
<1>3. prepared \in {"accept", "reject"}
      /\ prepared = IF verdict' = "ok" THEN "accept" ELSE "reject"
  BY <1>1
<1> HIDE DEF prepared
<1>4. DriverTypeOK'
  <2>1. txn' \in [Ranks -> Transactions]
    BY <1>1, <1>3 DEF DriverInv, DriverTypeOK, Transactions
  <2> QED BY <1>1, <1>2, <2>1
          DEF DriverInv, DriverTypeOK, Places, AllStatuses
<1>5. ASSUME NEW r \in Ranks
      PROVE  /\ pc[r] = "prepare" /\ pc'[r] = "prepared" /\ call[r] = "idle"
             /\ txn'[r].prepared = prepared
             /\ txn'[r].active = txn[r].active /\ txn'[r].level = txn[r].level
             /\ Told(r)' = NoResult /\ Target(r)' = ctl[r]
  <2>1. pc[r] = "prepare" /\ pc'[r] = "prepared" /\ call[r] = "idle"
    BY <1>1, <1>5, RankFacts DEF Control
  <2>2. /\ txn'[r].prepared = prepared
        /\ txn'[r].active = txn[r].active /\ txn'[r].level = txn[r].level
    BY <1>1, <1>5, RankFacts DEF Transactions
  <2> QED BY <1>1, <2>1, <2>2, NothingToldNext
<1>6. ASSUME NEW r \in Ranks PROVE Local(r)'
  <2>1. Control(r)' BY <1>1, <1>5, <1>6, RankFacts DEF Control
  <2>2. Clean(r)' BY <1>1, <1>5, <1>6, RankFacts DEF Clean
  <2>3. Voted(r)'
    <3>1. Told(r)'.decision = "none"
      BY <1>5, <1>6 DEF NoResult
    <3>2. call'[r] = "idle"
      BY <1>1, <1>5, <1>6
    <3>3. ASSUME verdict' = "ok" PROVE txn'[r].active
      <4>1. pc[r] = "prepare" /\ vote[r] = "ok"
        BY <1>1, <1>2, <1>5, <1>6, <3>3
      <4>2. txn[r].active
        BY <4>1, RankFacts DEF Voted
      <4> QED BY <1>5, <1>6, <4>2
    <3> QED BY <1>3, <1>5, <1>6, <3>1, <3>2, <3>3 DEF Voted
  <2>4. Level(r)' BY <1>1, <1>5, <1>6, RankFacts DEF Level
  <2> QED BY <2>1, <2>2, <2>3, <2>4 DEF Local
<1>7. Together'
  <2>1. \A q \in Ranks : Target(q) = ctl[q]
    BY <1>5, NothingTold
  <2>2. \A q \in Ranks : Target(q)' = ctl[q] /\ ctl'[q] = ctl[q]
    BY <1>1, <1>5
  <2>3. \A p, q \in Ranks : ~ctl[p].active /\ ~ctl[q].active => ctl[p] = ctl[q]
    BY DEF DriverInv, Together
  <2> QED BY <2>2, <2>3 DEF Together
<1> QED BY <1>4, <1>6, <1>7 DEF DriverInv

\* What prepare_finish decides follows from the outcomes of all ranks, and it
\* is a decision about one controller unless its certificates never match.
LEMMA FinishDecisionFacts ==
  /\ FinishDecision.decision \in {"none", "accept", "retry", "fatal"}
  /\ \/ FinishDecision.decision \in {"accept", "retry"}
     \/ FinishDecision.decision = "fatal" /\ FinishDecision.ready
     => \A r \in Ranks : Identified(r)
  /\ FinishDecision.decision = "accept" => \A r \in Ranks : outcome[r] = "ok"
  /\ FinishDecision.decision = "retry" => \E r \in Ranks : outcome[r] # "ok"
  /\ (\A r \in Ranks : Identified(r) /\ outcome[r] # "mpi") =>
       FinishDecision.decision # "none" /\ FinishDecision.ready
<1> DEFINE unsure == \E r \in Ranks : ~Identified(r)
           broken == (\A r \in Ranks : Identified(r)) /\ Gravest # {}
           sound  == \A r \in Ranks : Identified(r) /\ outcome[r] = "ok"
<1>1. CASE unsure
  <2>1. FinishDecision = Fatal(FALSE)
    BY <1>1 DEF FinishDecision
  <2> QED BY <1>1, <2>1 DEF Fatal
<1>2. CASE ~unsure /\ broken
  <2>1. /\ FinishDecision = NoResult \/ FinishDecision = Fatal(TRUE)
        /\ FinishDecision = NoResult => \E r \in Ranks : outcome[r] = "mpi"
    BY <1>2 DEF FinishDecision, Gravest, Fatal, NoResult
  <2> QED BY <1>2, <2>1 DEF Fatal, NoResult
<1>3. CASE ~unsure /\ ~broken /\ sound
  <2>1. \/ FinishDecision = [decision |-> "accept", ready |-> TRUE,
                             cand |-> AcceptedStep]
        \/ FinishDecision = Fatal(TRUE)
    BY <1>3 DEF FinishDecision
  <2> QED BY <1>3, <2>1 DEF Fatal
<1>4. CASE ~unsure /\ ~broken /\ ~sound
  <2>1. \/ FinishDecision = [decision |-> "retry", ready |-> TRUE,
                             cand |-> RetryStep]
        \/ FinishDecision = Fatal(TRUE)
    BY <1>4 DEF FinishDecision
  <2> QED BY <1>4, <2>1 DEF Fatal
<1> QED BY <1>1, <1>2, <1>3, <1>4

\* prepare_finish ends: all ranks had a proposal and one verdict.
LEMMA DriverFinishDoneStep ==
  ASSUME IndInv, DriverInv, DriverFinishDone
  PROVE  DriverInv'
<1>1. /\ \A r \in Ranks : call[r] = "finish"
      /\ call' = [r \in Ranks |-> "leave"]
      /\ result' = FinishDecision
      /\ UNCHANGED <<ctl, held, cert>>
      /\ UNCHANGED <<cold, reliable, pc, sweep, vote, verdict, txn, side>>
  BY DEF DriverFinishDone, FinishDone, driverVars
<1>2. DriverTypeOK'
  BY <1>1 DEF DriverInv, DriverTypeOK
<1>3. ASSUME NEW r \in Ranks
      PROVE  /\ pc[r] = "finish" /\ ctl[r].active /\ ctl[r] \in Controllers
             /\ outcome[r] = "ok" <=> verdict = "ok"
             /\ call'[r] = "leave" /\ Told(r)' = result'
             /\ Target(r)' = After(ctl[r], result')
  <2>1. pc[r] = "finish" /\ ctl[r].active /\ ctl[r] \in Controllers
    BY <1>1, <1>3, RankFacts DEF Control, Places
  <2>2. outcome[r] = "ok" <=> verdict = "ok"
    BY <1>1, <1>3, RankFacts DEF Voted
  <2>3. call'[r] = "leave" BY <1>1, <1>3
  <2>4. Told(r)' = result' BY <2>3 DEF Told
  <2>5. Target(r)' = After(ctl[r], result')
    BY <1>1, <2>4 DEF Target, After
  <2> QED BY <2>1, <2>2, <2>3, <2>4, <2>5
<1>4. ASSUME NEW r \in Ranks PROVE Local(r)'
  <2>1. result'.decision # "propose"
    BY <1>1, FinishDecisionFacts
  <2>2. Control(r)' BY <1>1, <1>3, <1>4, <2>1, RankFacts DEF Control
  <2>3. Clean(r)' BY <1>1, <1>4, RankFacts DEF Clean
  <2>4. Voted(r)'
    BY <1>1, <1>3, <1>4, RankFacts, FinishDecisionFacts DEF Voted
  <2>5. Level(r)' BY <1>1, <1>4, RankFacts DEF Level
  <2> QED BY <2>2, <2>3, <2>4, <2>5 DEF Local
<1>5. Together'
  <2>1. \A q \in Ranks : ctl'[q].active
    BY <1>1, <1>3
  <2>2. CASE \/ result'.decision = "accept"
             \/ result'.decision = "fatal" /\ result'.ready
    <3>1. \A p, q \in Ranks : ctl[p] = ctl[q]
      BY <1>1, <2>2, FinishDecisionFacts DEF Identified
    <3>2. \A p, q \in Ranks : Target(p)' = Target(q)'
      BY <1>3, <3>1
    <3> QED BY <2>1, <3>2 DEF Together
  <2>3. CASE result'.decision = "retry"
    <3>1. \A q \in Ranks : Target(q)'.active
      BY <1>3, <2>3 DEF After, Controllers
    <3> QED BY <2>1, <3>1 DEF Together
  <2>4. CASE \/ result'.decision = "none"
             \/ result'.decision = "fatal" /\ ~result'.ready
    <3>1. \A q \in Ranks : Target(q)' = ctl[q]
      BY <1>3, <2>4, AfterNothing
    <3> QED BY <1>1, <1>3, <2>1, <3>1 DEF Together
  <2> QED BY <1>1, <2>2, <2>3, <2>4, FinishDecisionFacts
<1> QED BY <1>2, <1>4, <1>5 DEF DriverInv

-----------------------------------------------------------------------------
(***************************************************************************)
(* The invariant holds.                                                    *)
(***************************************************************************)
LEMMA DriverInitSound == DriverInit => DriverInv
<1> SUFFICES ASSUME DriverInit PROVE DriverInv
  OBVIOUS
<1>1. PICK c \in {Start} \cup {d \in Restarts : Restartable(d)} :
        ctl = [r \in Ranks |-> c]
  BY DEF DriverInit, Init
<1>2. ~c.active /\ c.step \in Nat
  <2>1. IndInv BY InitSound DEF DriverInit
  <2>2. ctl[0] \in Controllers /\ ctl[0] = c
    BY <1>1, <2>1, RankZero DEF IndInv, TypeOK
  <2>3. c.step \in 0 .. MaxStep
    BY <2>2, ControllerFields
  <2>4. ~c.active
    BY DEF Start, Restarts
  <2> QED BY <2>3, <2>4
<1>3. \A r \in Ranks : call[r] = "idle" /\ pc[r] = "idle" /\ ctl[r] = c
  BY <1>1 DEF DriverInit, Init
<1>4. DriverTypeOK
  BY <1>2, <1>3, DriverAssumption
     DEF DriverInit, Init, DriverTypeOK, Places, AllStatuses, Transactions, Sides
<1>5. \A r \in Ranks : Told(r) = NoResult /\ Target(r) = c
  BY <1>3, NothingTold
<1>6. Together
  BY <1>3, <1>5 DEF Together
<1>7. ASSUME NEW r \in Ranks PROVE Local(r)
  <2>1. Control(r) BY <1>2, <1>3, <1>7 DEF Control, DriverInit, Init
  <2>2. Clean(r) BY <1>3, <1>7 DEF Clean, DriverInit
  <2>3. Voted(r)
    BY <1>3, <1>5, <1>7 DEF Voted, NoResult
  <2>4. Level(r) BY <1>3, <1>7 DEF Level, DriverInit
  <2> QED BY <2>1, <2>2, <2>3, <2>4 DEF Local
<1> QED BY <1>4, <1>6, <1>7 DEF DriverInv

LEMMA DriverStutter ==
  ASSUME DriverInv, UNCHANGED vars
  PROVE  DriverInv' /\ \A r \in Ranks : Told(r)' = Told(r) /\ Target(r)' = Target(r)
<1>1. UNCHANGED <<ctl, held, cert, call, limit, outcome, result>>
      /\ UNCHANGED <<cold, reliable, pc, sweep, vote, verdict, txn, side>>
  BY DEF vars, timeVars, driverVars
<1>2. DriverTypeOK'
  BY <1>1 DEF DriverInv, DriverTypeOK
<1>3. ASSUME NEW r \in Ranks PROVE Told(r)' = Told(r) /\ Target(r)' = Target(r)
  <2>1. Told(r)' = Told(r) BY <1>1 DEF Told
  <2> QED BY <1>1, <2>1 DEF Target, After
<1>4. ASSUME NEW r \in Ranks PROVE Local(r)'
  <2>1. Local(r) BY <1>4 DEF DriverInv
  <2>2. Control(r)' BY <1>1, <2>1 DEF Local, Control
  <2>3. Clean(r)' BY <1>1, <2>1 DEF Local, Clean
  <2>4. Voted(r)' BY <1>1, <1>3, <1>4, <2>1 DEF Local, Voted
  <2>5. Level(r)' BY <1>1, <2>1 DEF Local, Level
  <2> QED BY <2>2, <2>3, <2>4, <2>5 DEF Local
<1>5. Together'
  BY <1>1, <1>3 DEF DriverInv, Together
<1> QED BY <1>2, <1>3, <1>4, <1>5 DEF DriverInv

LEMMA DriverInvStep ==
  ASSUME IndInv, DriverInv, [DriverNext]_vars
  PROVE  DriverInv'
<1>1. CASE UNCHANGED vars
  BY <1>1, DriverStutter
<1>2. CASE CollectiveStep
  BY <1>2, DriverProposeDoneStep, AttemptDoneStep, DriverFinishDoneStep
     DEF CollectiveStep
<1>3. ASSUME NEW r \in Ranks, RankStep(r)
      PROVE  DriverInv'
  <2>1. CASE \E lim \in 0 .. MaximumDt : AdvanceBegin(r, lim)
    BY <2>1, AdvanceBeginStep
  <2>2. CASE AdvanceProposed(r)
    BY <2>2, AdvanceProposedStep
  <2>3. CASE \E e \in BOOLEAN : AdvanceNotProposed(r, e)
    BY <2>3, AdvanceNotProposedStep
  <2>4. CASE \E code \in Statuses, pending \in BOOLEAN :
               ExecuteAttempt(r, code, pending)
    BY <2>4, ExecuteAttemptStep
  <2>5. CASE AttemptLost(r)
    BY <2>5, AttemptLostStep
  <2>6. CASE PrepareAgain(r)
    BY <2>6, PrepareAgainStep
  <2>7. CASE Recouple(r)
    BY <2>7, RecoupleStep
  <2>8. CASE FinishTime(r)
    BY <2>8, FinishTimeStep
  <2>9. CASE \E e \in BOOLEAN : FinishFailed(r, e)
    BY <2>9, FinishFailedStep
  <2>10. CASE FinishPrepared(r)
    BY <2>10, FinishPreparedStep
  <2>11. CASE DecideAccept(r)
    BY <2>11, DecideAcceptStep
  <2>12. CASE DecideRetry(r)
    BY <2>12, DecideRetryStep
  <2>13. CASE DecideFatal(r)
    BY <2>13, DecideFatalStep
  <2> QED BY <1>3, <2>1, <2>2, <2>3, <2>4, <2>5, <2>6, <2>7, <2>8, <2>9,
             <2>10, <2>11, <2>12, <2>13 DEF RankStep
<1> QED BY <1>1, <1>2, <1>3 DEF DriverNext

\* What holds of the controllers by themselves and of the driver around them.
THEOREM DriverInvariant == DriverSpec => [](IndInv /\ DriverInv)
<1>1. DriverSpec => []IndInv
  BY DriverRefinesController, InductiveInvariant, PTL
<1>2. DriverInit => DriverInv BY DriverInitSound
<1>3. IndInv /\ DriverInv /\ [DriverNext]_vars => DriverInv' BY DriverInvStep
<1> QED BY <1>1, <1>2, <1>3, PTL DEF DriverSpec

\* The coupling sweeps of advance stay within their limit, and the statuses,
\* transactions and side states are of their types.
THEOREM DriverTypeCorrect == DriverSpec => []DriverTypeOK
<1>1. DriverInv => DriverTypeOK BY DEF DriverInv
<1> QED BY <1>1, DriverInvariant, PTL

\* The assertion of execute_attempt never fails.
THEOREM AttemptsStartClean == DriverSpec => []AttemptStartsClean
<1>1. DriverInv => AttemptStartsClean
  BY DEF DriverInv, Local, Clean, AttemptStartsClean
<1> QED BY <1>1, DriverInvariant, PTL

\* The assertions of advance about its two finishes never fail.
THEOREM DecisionsAreConsistent == DriverSpec => []DecisionsConsistent
<1>1. IndInv /\ DriverInv => DecisionsConsistent
  <2> SUFFICES ASSUME IndInv, DriverInv, NEW r \in Ranks, pc[r] = "decide",
                      NEW c \in cert[r]
               PROVE  /\ c.decision = "accept" =>
                           txn[r].prepared = "accept" /\ txn[r].active
                      /\ c.decision = "retry" => txn[r].prepared = "reject"
    BY DEF DecisionsConsistent
  <2>1. Told(r).decision = c.decision
    BY DecisionFacts
  <2> QED BY <2>1, RankFacts DEF Voted
<1> QED BY <1>1, DriverInvariant, PTL

\* The three finishes of an accepted step stay together on every rank, and
\* ranks that are between two steps have one controller, even if MPI calls
\* failed on some ranks only.
THEOREM StepsCommitTogether == DriverSpec => []CommittedTogether
<1>1. DriverInv => CommittedTogether
  BY DEF DriverInv, Local, Level, Together, CommittedTogether
<1> QED BY <1>1, DriverInvariant, PTL

\* use_pressure_correction_warm_start is true only while the workspace still
\* holds the correction of the accepted step.
THEOREM WarmStartIsSound == DriverSpec => []WarmStartSound
<1>1. DriverInv => WarmStartSound
  BY DEF DriverInv, Local, Clean, WarmStartSound, UsesWarmStart
<1> QED BY <1>1, DriverInvariant, PTL

-----------------------------------------------------------------------------
(***************************************************************************)
(* Without MPI failures.                                                   *)
(***************************************************************************)
\* Without MPI failures the ranks do everything together.
Reliable ==
  /\ \A p, q \in Ranks : Target(p) = Target(q)
  /\ verdict # "mpi"
  /\ \A r \in Ranks :
       /\ vote[r] # "mpi"
       /\ pc[r] = "idle" => ~ctl[r].active
       /\ pc[r] \in {"finish", "decide"} /\ call[r] # "finish" =>
            Told(r).decision # "none" /\ Told(r).ready

\* Whether MPI fails is settled when the execution begins.
LEMMA RigidReliable ==
  ASSUME [DriverNext]_vars
  PROVE  reliable' = reliable
<1>1. CASE UNCHANGED vars
  BY <1>1 DEF vars, driverVars
<1>2. CASE CollectiveStep
  BY <1>2 DEF CollectiveStep, DriverProposeDone, AttemptDone, DriverFinishDone,
    driverVars
<1>3. ASSUME NEW r \in Ranks, RankStep(r) PROVE reliable' = reliable
  BY <1>3 DEF RankStep, AdvanceBegin, AdvanceProposed, AdvanceNotProposed,
    ExecuteAttempt, AttemptLost, PrepareAgain, Recouple, FinishTime,
    FinishFailed, FinishPrepared, DecideAccept, DecideRetry, DecideFatal
<1> QED BY <1>1, <1>2, <1>3 DEF DriverNext

LEMMA ReliableInit ==
  ASSUME DriverInit
  PROVE  Reliable
<1>1. IndInv /\ DriverInv BY DriverInitSound, InitSound DEF DriverInit
<1>2. \A r \in Ranks : pc[r] = "idle" /\ call[r] = "idle"
  BY DEF DriverInit, Init
<1>3. \A p, q \in Ranks : ctl[p] = ctl[q]
  BY DEF DriverInit, Init
<1>4. \A r \in Ranks : Target(r) = ctl[r]
  BY <1>2, NothingTold
<1>5. \A r \in Ranks : ~ctl[r].active
  BY RankZero DEF DriverInit, Init, Start, Restarts
<1> QED BY <1>2, <1>3, <1>4, <1>5 DEF Reliable, DriverInit

\* A rank that goes where it was told, and says nothing of MPI, stays together
\* with the others.
LEMMA ReliableRank ==
  ASSUME NEW r \in Ranks, Reliable, Others(r), Target(r)' = Target(r),
         \A q \in Ranks : Local(q), vote'[r] # "mpi",
         pc'[r] = "idle" => ~ctl'[r].active,
         pc'[r] \in {"finish", "decide"} /\ call'[r] # "finish" =>
           Told(r)'.decision # "none" /\ Told(r)'.ready
  PROVE  Reliable'
<1>1. \A q \in Ranks \ {r} : Target(q)' = Target(q) /\ Told(q)' = Told(q)
  BY OtherKept
<1>2. \A p, q \in Ranks : Target(p)' = Target(q)'
  BY <1>1 DEF Reliable
<1>3. \A q \in Ranks \ {r} :
        /\ vote'[q] # "mpi"
        /\ pc'[q] = "idle" => ~ctl'[q].active
        /\ pc'[q] \in {"finish", "decide"} /\ call'[q] # "finish" =>
             Told(q)'.decision # "none" /\ Told(q)'.ready
  BY <1>1 DEF Reliable, Others
<1> QED BY <1>2, <1>3 DEF Reliable, Others

LEMMA ReliableRankStep ==
  ASSUME reliable, IndInv, DriverInv, Reliable,
         NEW r \in Ranks, RankStep(r)
  PROVE  Reliable'
<1>1. \A q \in Ranks : Local(q)
  BY DEF DriverInv
<1>2. CASE \E lim \in 0 .. MaximumDt : AdvanceBegin(r, lim)
  <2>1. Others(r) /\ Target(r)' = Target(r)
    BY <1>2, AdvanceBeginStep
  <2>2. pc'[r] = "propose" /\ vote'[r] = vote[r]
    BY <1>2, RankFacts DEF AdvanceBegin, Goto
  <2> QED BY <1>1, <2>1, <2>2, ReliableRank DEF Reliable
<1>3. CASE AdvanceProposed(r)
  <2>1. Others(r) /\ Target(r)' = Target(r)
    BY <1>3, AdvanceProposedStep
  <2>2. pc'[r] = "attempt" /\ vote'[r] = vote[r]
    BY <1>3, RankFacts DEF AdvanceProposed, Goto
  <2> QED BY <1>1, <2>1, <2>2, ReliableRank DEF Reliable
<1>4. CASE \E e \in BOOLEAN : AdvanceNotProposed(r, e)
  <2>1. PICK e \in BOOLEAN : AdvanceNotProposed(r, e) BY <1>4
  <2>2. result.decision = "none"
    BY <2>1 DEF AdvanceNotProposed, LeaveFailed
  <2>3. Others(r) /\ Target(r)' = Target(r)
    BY <2>1, <2>2, AdvanceNotProposedStep
  <2>4. pc'[r] = "idle" /\ ~ctl'[r].active /\ vote'[r] = vote[r]
    BY <2>1, RankFacts DEF AdvanceNotProposed, LeaveFailed, Goto, Control
  <2> QED BY <1>1, <2>3, <2>4, ReliableRank DEF Reliable
<1>5. CASE \E code \in Statuses, pending \in BOOLEAN :
             ExecuteAttempt(r, code, pending)
  <2>1. PICK code \in Statuses, pending \in BOOLEAN :
          ExecuteAttempt(r, code, pending)
    BY <1>5
  <2>2. Others(r) /\ Target(r)' = Target(r)
    BY <2>1, ExecuteAttemptStep
  <2>3. pc'[r] = "prepare" /\ vote'[r] # "mpi"
    BY <2>1, RankFacts DEF ExecuteAttempt, Goto
  <2> QED BY <1>1, <2>2, <2>3, ReliableRank
<1>6. CASE Recouple(r)
  <2>1. Others(r) /\ Target(r)' = Target(r)
    BY <1>6, RecoupleStep
  <2>2. pc'[r] = "attempt" /\ vote'[r] = vote[r]
    BY <1>6, RankFacts DEF Recouple, Goto
  <2> QED BY <1>1, <2>1, <2>2, ReliableRank DEF Reliable
<1>7. CASE FinishTime(r)
  <2>1. Others(r) /\ Target(r)' = Target(r)
    BY <1>7, FinishTimeStep
  <2>2. pc'[r] = "finish" /\ call'[r] = "finish" /\ vote'[r] = vote[r]
    BY <1>7, RankFacts DEF FinishTime, EnterFinish, Goto
  <2> QED BY <1>1, <2>1, <2>2, ReliableRank DEF Reliable
<1>8. CASE \E e \in BOOLEAN : FinishFailed(r, e)
  <2>1. PICK e \in BOOLEAN : FinishFailed(r, e) BY <1>8
  <2>2. /\ result.decision = "none" /\ pc[r] = "finish" /\ call[r] = "leave"
    BY <2>1 DEF FinishFailed, LeaveFailed, Return
  <2> QED BY <2>2 DEF Reliable, Told
<1>9. CASE FinishPrepared(r)
  <2>1. Others(r) /\ Target(r)' = Target(r) /\ Told(r)' = Told(r)
    BY <1>9, FinishPreparedStep
  <2>2. /\ pc'[r] = "decide" /\ vote'[r] = vote[r]
        /\ pc[r] = "finish" /\ call[r] = "leave"
    BY <1>9, RankFacts DEF FinishPrepared, LeaveFinish, Return, Goto
  <2> QED BY <1>1, <2>1, <2>2, ReliableRank DEF Reliable
<1>10. CASE DecideAccept(r)
  <2>1. Others(r) /\ Target(r)' = Target(r) /\ ~ctl'[r].active
    BY <1>10, DecideAcceptStep
  <2>2. pc'[r] = "idle" /\ vote'[r] = vote[r]
    BY <1>10, RankFacts DEF DecideAccept, Goto
  <2> QED BY <1>1, <2>1, <2>2, ReliableRank DEF Reliable
<1>11. CASE DecideRetry(r)
  <2>1. Others(r) /\ Target(r)' = Target(r)
    BY <1>11, DecideRetryStep
  <2>2. pc'[r] = "attempt" /\ vote'[r] = vote[r]
    BY <1>11, RankFacts DEF DecideRetry, Goto
  <2> QED BY <1>1, <2>1, <2>2, ReliableRank DEF Reliable
<1>12. CASE DecideFatal(r)
  <2>1. pc[r] = "decide" /\ call[r] = "idle" /\ pc'[r] = "idle"
        /\ vote'[r] = vote[r]
    BY <1>12, RankFacts DEF DecideFatal, Goto, Control
  <2>2. Told(r).ready
    BY <2>1 DEF Reliable
  <2>3. Others(r) /\ Target(r)' = Target(r) /\ ~ctl'[r].active
    BY <1>12, <2>2, DecideFatalStep
  <2> QED BY <1>1, <2>1, <2>3, ReliableRank DEF Reliable
<1> QED BY <1>2, <1>3, <1>4, <1>5, <1>6, <1>7, <1>8, <1>9, <1>10, <1>11, <1>12
        DEF RankStep, AttemptLost, PrepareAgain

LEMMA ReliableCollectiveStep ==
  ASSUME reliable, IndInv, DriverInv, Reliable, CollectiveStep
  PROVE  Reliable'
<1>1. DriverInv'
  BY DriverInvStep DEF DriverNext
<1>2. CASE DriverProposeDone
  <2>1. /\ \A r \in Ranks : call[r] = "propose"
        /\ call' = [r \in Ranks |-> "leave"]
        /\ UNCHANGED <<ctl, pc, vote, verdict>>
    BY <1>2 DEF DriverProposeDone, ProposeDone, driverVars
  <2>2. ASSUME NEW r \in Ranks
        PROVE  /\ pc[r] = "propose" /\ Target(r) = ctl[r]
               /\ Target(r)' = After(ctl[r], result')
    <3>1. call[r] = "propose" /\ call'[r] = "leave" BY <2>1, <2>2
    <3>2. pc[r] = "propose" BY <3>1, RankFacts DEF Control, Places
    <3>3. Target(r) = ctl[r] BY <3>1, <3>2, NothingTold
    <3> QED BY <2>1, <3>1, <3>2, <3>3 DEF Target, Told, After
  <2>3. \A p, q \in Ranks : Target(p)' = Target(q)'
    BY <2>2 DEF Reliable
  <2> QED BY <2>1, <2>2, <2>3 DEF Reliable
<1>3. CASE AttemptDone
  <2>1. /\ \A r \in Ranks : pc[r] = "prepare"
        /\ pc' = [r \in Ranks |-> "prepared"]
        /\ verdict' = SelectedStatus
        /\ vote' = [r \in Ranks |-> "ok"]
        /\ UNCHANGED <<ctl, call>>
    BY <1>3 DEF AttemptDone, timeVars
  <2>2. verdict' # "mpi"
    BY <2>1, SelectedStatusType DEF Reliable, DriverInv, DriverTypeOK
  <2>3. ASSUME NEW r \in Ranks
        PROVE  Target(r) = ctl[r] /\ Target(r)' = ctl[r]
    <3>1. call[r] = "idle" BY <2>1, <2>3, RankFacts DEF Control
    <3> QED BY <2>1, <3>1, NothingTold, NothingToldNext
  <2>4. \A p, q \in Ranks : Target(p)' = Target(q)'
    BY <2>3 DEF Reliable
  <2> QED BY <2>1, <2>2, <2>4 DEF Reliable
<1>4. CASE DriverFinishDone
  <2>1. /\ \A r \in Ranks : call[r] = "finish"
        /\ call' = [r \in Ranks |-> "leave"]
        /\ result' = FinishDecision
        /\ UNCHANGED <<ctl, held, pc, vote, verdict>>
    BY <1>4 DEF DriverFinishDone, FinishDone, driverVars
  <2>2. ASSUME NEW r \in Ranks
        PROVE  /\ pc[r] = "finish" /\ Target(r) = ctl[r]
               /\ ctl[r].active /\ held[r] = ctl[r].prop
               /\ outcome[r] # "mpi" /\ Told(r)' = result'
               /\ Target(r)' = After(ctl[r], result')
    <3>1. call[r] = "finish" /\ call'[r] = "leave" BY <2>1, <2>2
    <3>2. pc[r] = "finish" /\ ctl[r].active /\ held[r] = ctl[r].prop
      BY <3>1, RankFacts DEF Control, Places
    <3>3. Target(r) = ctl[r] BY <3>1, <3>2, NothingTold
    <3>4. outcome[r] # "mpi"
      BY <3>1, RankFacts DEF Voted, Reliable
    <3>5. Told(r)' = result' BY <3>1 DEF Told
    <3> QED BY <2>1, <3>2, <3>3, <3>4, <3>5 DEF Target, After
  <2>3. \A p, q \in Ranks : ctl[p] = ctl[q]
    BY <2>2 DEF Reliable
  <2>4. \A p, q \in Ranks : Target(p)' = Target(q)'
    BY <2>2, <2>3
  <2>5. \A r \in Ranks : Identified(r) /\ outcome[r] # "mpi"
    BY <2>2, <2>3, RankZero DEF Identified, MatchesActive
  <2>6. result'.decision # "none" /\ result'.ready
    BY <2>1, <2>5, FinishDecisionFacts
  <2> QED BY <2>1, <2>2, <2>4, <2>6 DEF Reliable
<1> QED BY <1>2, <1>3, <1>4 DEF CollectiveStep

\* When advance has returned everywhere, no proposal is left active, in every
\* execution in which no MPI call fails: the run driver_mpi_outcome shows the
\* proposal that stays when one does.
THEOREM ProposalsAreRetired == DriverSpec => []RetiredIfReliable
<1> DEFINE Inv == reliable => Reliable
<1>1. DriverInit => Inv BY ReliableInit
<1>2. IndInv /\ DriverInv /\ Inv /\ [DriverNext]_vars => Inv'
  <2> SUFFICES ASSUME IndInv, DriverInv, Inv, [DriverNext]_vars, reliable'
               PROVE  Reliable'
    OBVIOUS
  <2>1. reliable
    BY RigidReliable
  <2>2. CASE UNCHANGED vars
    <3>1. \A r \in Ranks : Told(r)' = Told(r) /\ Target(r)' = Target(r)
      BY <2>2, DriverStutter
    <3> QED BY <2>1, <2>2, <3>1 DEF vars, timeVars, driverVars, Reliable
  <2>3. CASE CollectiveStep
    BY <2>1, <2>3, ReliableCollectiveStep
  <2>4. CASE \E r \in Ranks : RankStep(r)
    BY <2>1, <2>4, ReliableRankStep
  <2> QED BY <2>2, <2>3, <2>4 DEF DriverNext
<1>3. Inv => RetiredIfReliable
  BY DEF Reliable, RetiredIfReliable, ProposalRetired
<1> QED BY <1>1, <1>2, <1>3, DriverInvariant, PTL DEF DriverSpec
=============================================================================
