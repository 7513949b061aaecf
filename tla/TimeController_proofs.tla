------------------------ MODULE TimeController_proofs ------------------------
(***************************************************************************)
(* Proofs about TimeController, for every number of ranks and every plan.  *)
(* The heart of the inductive invariant is what a certificate to accept a  *)
(* step knows about the other ranks: when it was issued they all had the   *)
(* controller that it records, and whatever they did since has raised      *)
(* their generation.  A certificate that still matches is therefore shared *)
(* by every other rank whose certificate still matches.                    *)
(***************************************************************************)
EXTENDS TimeController, NaturalsInduction, WellFoundedInduction, TLAPS

\* The step s may be proposed on top of the accepted history of c.
Fits(c, s) ==
  /\ s.time = c.time /\ s.step = c.step /\ s.gen = c.gen /\ s.attempt = c.retries
  /\ MinimumDt <= s.dt /\ s.dt <= MaximumDt
  /\ s.order = 2 =>
       /\ s.origin \in {"accepted", "restart"} /\ s.attempt = 0 /\ c.lastDt > 0

\* Every rank still has the controller i, or has retired its generation.
Shared(i) ==
  \A q \in Ranks : (ctl[q] = i \/ ctl[q].gen > i.gen) /\ i.step <= ctl[q].step

\* The ranks that have already accepted the proposal of i.
Ahead(i) ==
  \A q \in Ranks : ctl[q].step = i.step + 1 =>
    ctl[q].time = i.time + i.prop.dt /\ ctl[q].lastDt = i.prop.dt

\* What the candidate of a decision is to the controller i and its proposal s.
Accepts(i, s, cand) ==
  /\ i \in Controllers /\ i.active /\ s = i.prop
  /\ cand.time = i.time + s.dt /\ cand.step = i.step + 1 /\ cand.gen = i.gen + 1
  /\ Shared(i)

Retries(i, cand) == Fits([i EXCEPT !.retries = @ + 1, !.gen = @ + 1], cand)

CtlSound ==
  \A r \in Ranks :
    /\ ctl[r].active => Fits(ctl[r], ctl[r].prop)
    /\ ~ctl[r].forceBE =>
         ctl[r].origin \in {"accepted", "restart"} /\ ctl[r].retries = 0

ResultSound ==
  \A r \in Ranks : call[r] = "leave" =>
    /\ result.decision = "propose" =>
         ~ctl[r].active /\ Fits(ctl[r], result.cand)
    /\ result.decision = "accept" =>
         Accepts(ctl[r], held[r], result.cand) /\ Ahead(ctl[r])
    /\ result.decision = "retry" => Retries(ctl[r], result.cand)

CertSound ==
  \A r \in Ranks : \A c \in cert[r] : c.ready =>
    /\ c.decision = "accept" =>
         Accepts(c.identity, c.prop, c.cand)
         /\ (ctl[r] = c.identity => Ahead(c.identity))
    /\ c.decision = "retry" => Retries(c.identity, c.cand)

IndInv == TypeOK /\ CtlSound /\ ResultSound /\ CertSound /\ AcceptedHistoriesAgree

-----------------------------------------------------------------------------
\* Rank 0, whose controller and proposal the collectives publish, exists.
LEMMA RankZero == 0 \in Ranks
BY PlanAssumption DEF Ranks

\* The fields of controllers and of steps.
LEMMA ControllerFields ==
  ASSUME NEW c \in Controllers
  PROVE  /\ c.time \in 0 .. MaxTime /\ c.lastDt \in 0 .. MaximumDt
         /\ c.step \in 0 .. MaxStep /\ c.gen \in 1 .. MaxGeneration
         /\ c.retries \in 0 .. MaximumRetries /\ c.origin \in Origins
         /\ c.forceBE \in BOOLEAN /\ c.active \in BOOLEAN /\ c.prop \in Steps
BY DEF Controllers

LEMMA StepFields ==
  ASSUME NEW s \in Steps
  PROVE  /\ s.time \in 0 .. MaxTime /\ s.dt \in 0 .. MaximumDt
         /\ s.step \in 0 .. MaxStep /\ s.attempt \in 0 .. MaximumRetries
         /\ s.origin \in Origins /\ s.order \in 0 .. 2
         /\ s.gen \in 0 .. MaxGeneration
BY DEF Steps

\* The bounds are numbers.
LEMMA Bounds ==
  /\ MaxTime \in Nat /\ MaximumDt \in Nat /\ MaxStep \in Nat
  /\ MaxGeneration \in Nat \ {0} /\ MaximumRetries \in Nat
  /\ MinimumDt \in Nat \ {0} /\ InitialDt \in Nat /\ Growth \in Nat
  /\ RetryDivisor \in Nat /\ 2 <= RetryDivisor
BY PlanAssumption

\* A nonempty set of numbers has a least element.
LEMMA LeastElement ==
  ASSUME NEW T \in SUBSET Nat, T # {}
  PROVE  \E x \in T : \A y \in T : x <= y
<1>1. PICK x \in T : \A y \in T : <<y, x>> \notin OpToRel(<, Nat)
  BY WFMin, NatLessThanWellFounded, Zenon
<1>2. \A y \in T : ~(y < x)
  BY <1>1 DEF OpToRel
<1> QED BY <1>2

\* The proposed step size is within the candidate limits (propose).
LEMMA ProposedDtBounded ==
  ASSUME TypeOK
  PROVE  ProposedDt \in Int /\ ProposedDt <= MaximumDt
<1> DEFINE L == {limit[r] : r \in Ranks}
           global == CHOOSE d \in L : \A r \in Ranks : d <= limit[r]
           cap == IF ctl[0].lastDt = 0 THEN InitialDt ELSE ctl[0].lastDt * Growth
<1>1. L \in SUBSET (0 .. MaximumDt) /\ L # {}
  BY RankZero DEF TypeOK
<1>2. L \in SUBSET Nat
  BY <1>1, PlanAssumption
<1>3. PICK x \in L : \A y \in L : x <= y
  BY <1>1, <1>2, LeastElement
<1>4. global \in L
  BY <1>3
<1>5. cap \in Int
  <2>1. ctl[0].lastDt \in Int BY RankZero DEF TypeOK, Controllers
  <2> QED BY <2>1, PlanAssumption
<1>6. ProposedDt = Lesser(global, cap)
  BY DEF ProposedDt
<1> HIDE DEF global, cap, L
<1> QED BY <1>1, <1>4, <1>5, <1>6, PlanAssumption DEF Lesser

\* A step to a controller that is still inactive, or retires the generation,
\* or repeats the last one, leaves what certificates know of the other ranks.
Progress(q, d) ==
  /\ d \in Controllers /\ ctl[q].step <= d.step
  /\ \/ d.gen > ctl[q].gen
     \/ d.gen = ctl[q].gen /\ (~ctl[q].active \/ d.gen = MaxGeneration)

LEMMA AcceptsKept ==
  ASSUME TypeOK, NEW q \in Ranks, NEW d, Progress(q, d),
         ctl' = [ctl EXCEPT ![q] = d],
         NEW i, NEW s, NEW cand \in Steps, Accepts(i, s, cand)
  PROVE  Accepts(i, s, cand)'
<1>1. i.gen < MaxGeneration
  BY Bounds, ControllerFields, StepFields DEF Accepts
<1>2. ASSUME NEW p \in Ranks
      PROVE  (ctl'[p] = i \/ ctl'[p].gen > i.gen) /\ i.step <= ctl'[p].step
  <2>1. (ctl[p] = i \/ ctl[p].gen > i.gen) /\ i.step <= ctl[p].step
    BY DEF Accepts, Shared
  <2>2. CASE p # q
    BY <2>1, <2>2 DEF TypeOK
  <2>3. CASE p = q
    <3>1. ctl'[p] = d BY <2>3 DEF TypeOK
    <3>2. /\ i.gen \in Int /\ ctl[p].gen \in Int /\ d.gen \in Int
          /\ i.step \in Int /\ ctl[p].step \in Int /\ d.step \in Int
      BY Bounds, ControllerFields DEF TypeOK, Accepts, Progress
    <3>3. i.active BY DEF Accepts
    <3> QED BY <1>1, <2>1, <2>3, <3>1, <3>2, <3>3 DEF Progress
  <2> QED BY <2>2, <2>3
<1> QED BY <1>2 DEF Accepts, Shared

\* A step that accepts nothing leaves who is ahead.
LEMMA AheadKept ==
  ASSUME TypeOK, NEW q \in Ranks, NEW d, ctl' = [ctl EXCEPT ![q] = d],
         d.step = ctl[q].step, d.time = ctl[q].time, d.lastDt = ctl[q].lastDt,
         NEW i, Ahead(i)
  PROVE  Ahead(i)'
BY DEF Ahead, TypeOK

\* A rank that has left the controller i does not come back to it.
LEMMA NoReturn ==
  ASSUME TypeOK, NEW q \in Ranks, NEW d, Progress(q, d),
         ctl' = [ctl EXCEPT ![q] = d], ctl[q] # d,
         NEW i, NEW s, NEW cand \in Steps, Accepts(i, s, cand)
  PROVE  d # i
<1>1. i.gen < MaxGeneration /\ i.active
  BY Bounds, ControllerFields, StepFields DEF Accepts
<1>2. ctl[q] = i \/ ctl[q].gen > i.gen
  BY DEF Accepts, Shared
<1>3. i.gen \in Int /\ ctl[q].gen \in Int /\ d.gen \in Int
  <2>1. i \in Controllers /\ ctl[q] \in Controllers /\ d \in Controllers
    BY DEF TypeOK, Accepts, Progress
  <2> QED BY <2>1, Bounds, ControllerFields
<1> QED BY <1>1, <1>2, <1>3 DEF Progress

\* Two ranks whose certificates to accept still match have one controller.
LEMMA OneController ==
  ASSUME TypeOK, NEW p \in Ranks, NEW q \in Ranks,
         Shared(ctl[p]), Shared(ctl[q])
  PROVE  ctl[p] = ctl[q]
<1>1. ctl[p].gen \in Int /\ ctl[q].gen \in Int
  <2>1. ctl[p] \in Controllers /\ ctl[q] \in Controllers
    BY DEF TypeOK
  <2> QED BY <2>1, Bounds, ControllerFields
<1>2. ctl[q] = ctl[p] \/ ctl[q].gen > ctl[p].gen
  BY DEF Shared
<1>3. ctl[p] = ctl[q] \/ ctl[p].gen > ctl[q].gen
  BY DEF Shared
<1> QED BY <1>1, <1>2, <1>3

-----------------------------------------------------------------------------
\* What the invariant says of one rank depends on its own variables, except
\* for what it knows of the others.
LEMMA InitSound == Init => IndInv
<1> SUFFICES ASSUME Init PROVE IndInv
  OBVIOUS
<1>1. PICK c \in {Start} \cup {d \in Restarts : Restartable(d)} :
        ctl = [r \in Ranks |-> c]
  BY DEF Init
<1>2. NoStep \in Steps
  BY Bounds DEF NoStep, Steps, Origins
<1>3. c \in Controllers /\ ~c.active
      /\ (~c.forceBE => c.origin \in {"accepted", "restart"} /\ c.retries = 0)
  <2>1. CASE c = Start
    BY <2>1, <1>2, Bounds DEF Start, Controllers, Origins
  <2>2. CASE c \in Restarts
    <3>1. PICK p \in RestartPoints, d \in MinimumDt .. MaximumDt,
               g \in 1 .. MaxGeneration - 1, be \in BOOLEAN :
            c = [time |-> p[1], lastDt |-> d, step |-> p[2], gen |-> g,
                 retries |-> 0, origin |-> "restart", forceBE |-> be,
                 active |-> FALSE, prop |-> NoStep]
      BY <2>2 DEF Restarts
    <3>2. p[1] \in 0 .. MaxTime /\ p[2] \in 0 .. MaxStep /\ d \in 0 .. MaximumDt
      BY PlanAssumption
    <3>3. g \in 1 .. MaxGeneration
      BY Bounds
    <3> QED BY <3>1, <3>2, <3>3, <1>2, Bounds DEF Controllers, Origins
  <2> QED BY <2>1, <2>2
<1>4. TypeOK
  BY <1>1, <1>2, <1>3, Bounds DEF Init, TypeOK, Outcomes, NoResult
<1>5. CtlSound
  BY <1>1, <1>3 DEF CtlSound
<1>6. ResultSound /\ CertSound
  BY DEF Init, ResultSound, CertSound
<1>7. AcceptedHistoriesAgree
  BY <1>1, <1>3, ControllerFields DEF AcceptedHistoriesAgree
<1> QED BY <1>4, <1>5, <1>6, <1>7 DEF IndInv

\* A step that leaves the controllers and keeps the sound results and
\* certificates, or drops some, or adds sound ones.
LEMMA SameControllers ==
  ASSUME IndInv, TypeOK', UNCHANGED ctl, ResultSound', CertSound'
  PROVE  IndInv'
BY DEF IndInv, CtlSound, AcceptedHistoriesAgree

\* What certificates know is about the controllers only.
LEMMA KnowledgeKept ==
  ASSUME UNCHANGED ctl, NEW i, NEW s, NEW cand
  PROVE  /\ Accepts(i, s, cand)' <=> Accepts(i, s, cand)
         /\ Ahead(i)' <=> Ahead(i)
         /\ Retries(i, cand)' <=> Retries(i, cand)
BY DEF Accepts, Shared, Ahead, Retries, Fits

LEMMA CertKept ==
  ASSUME IndInv, UNCHANGED ctl, \A r \in Ranks : cert'[r] \subseteq cert[r]
  PROVE  CertSound'
BY KnowledgeKept DEF IndInv, CertSound

\* Entering a collective (propose, prepare_finish).
LEMMA EnterProposeStep ==
  ASSUME IndInv, NEW r \in Ranks, NEW lim \in 0 .. MaximumDt, EnterPropose(r, lim)
  PROVE  IndInv'
<1>1. TypeOK' BY DEF IndInv, TypeOK, EnterPropose
<1>2. UNCHANGED <<ctl, cert>> BY DEF EnterPropose
<1>3. ResultSound'
  BY KnowledgeKept DEF IndInv, TypeOK, EnterPropose, ResultSound, Fits
<1> QED BY <1>1, <1>2, <1>3, CertKept, SameControllers

LEMMA EnterFinishStep ==
  ASSUME IndInv, NEW r \in Ranks, NEW code \in Outcomes, EnterFinish(r, code)
  PROVE  IndInv'
<1>1. TypeOK' BY DEF IndInv, TypeOK, EnterFinish
<1>2. UNCHANGED <<ctl, cert>> BY DEF EnterFinish
<1>3. ResultSound'
  BY KnowledgeKept DEF IndInv, TypeOK, EnterFinish, ResultSound, Fits
<1> QED BY <1>1, <1>2, <1>3, CertKept, SameControllers

\* propose ends: all ranks had the controller of rank 0, without a proposal.
LEMMA ProposeDoneStep ==
  ASSUME IndInv, ProposeDone
  PROVE  IndInv'
<1>1. UNCHANGED <<ctl, cert, held>> BY DEF ProposeDone
<1>2. CASE Proposable
  <2> DEFINE s == ProposedStep
  <2>1. ctl[0] \in Controllers BY RankZero DEF IndInv, TypeOK
  <2>2. MinimumDt <= ProposedDt /\ ProposedDt <= MaximumDt /\ ProposedDt \in Int
    BY <1>2, ProposedDtBounded DEF Proposable, IndInv
  <2>3. Order(ctl[0], ProposedDt, ctl[0].forceBE) \in {1, 2}
        /\ (Order(ctl[0], ProposedDt, ctl[0].forceBE) = 2
             => ~ctl[0].forceBE /\ ctl[0].lastDt > 0)
    BY DEF Order
  <2>4. Fits(ctl[0], s)
    BY <2>1, <2>2, <2>3, RankZero DEF Fits, ProposedStep, IndInv, CtlSound
  <2>5. s \in Steps
    BY <2>1, <2>2, <2>3, Bounds, ControllerFields DEF ProposedStep, Steps
  <2>6. result' = [decision |-> "propose", ready |-> TRUE, cand |-> s]
    BY <1>2 DEF ProposeDone
  <2> HIDE DEF s
  <2>7. TypeOK'
    <3>1. result' \in [decision : {"none", "propose", "accept", "retry", "fatal"},
                       ready : BOOLEAN, cand : Steps]
      BY <2>5, <2>6
    <3>2. 0 \in 0 .. MaximumDt BY Bounds
    <3> QED BY <3>1, <3>2 DEF IndInv, TypeOK, ProposeDone
  <2>8. ResultSound'
    <3>1. \A r \in Ranks : ctl[r] = ctl[0] /\ ~ctl[0].active
      BY <1>2 DEF Proposable, Agreed
    <3> QED BY <1>1, <2>4, <2>6, <3>1 DEF ResultSound, Fits
  <2> QED BY <1>1, <2>7, <2>8, CertKept, SameControllers
<1>3. CASE ~Proposable
  <2>1. result' = NoResult BY <1>3 DEF ProposeDone
  <2>2. NoStep \in Steps
    BY Bounds DEF NoStep, Steps, Origins
  <2>3. TypeOK'
    BY <2>1, <2>2, Bounds DEF IndInv, TypeOK, ProposeDone, NoResult
  <2>4. ResultSound' BY <2>1 DEF ResultSound, NoResult
  <2> QED BY <1>1, <2>3, <2>4, CertKept, SameControllers
<1> QED BY <1>2, <1>3

\* prepare_finish ends: a decision to accept or retry is made only if all
\* ranks have the controller and the proposal of rank 0.
LEMMA FinishDoneStep ==
  ASSUME IndInv, FinishDone
  PROVE  IndInv'
<1>1. UNCHANGED <<ctl, cert, held>> /\ result' = FinishDecision BY DEF FinishDone
<1> DEFINE c == ctl[0]
           s == held[0]
<1>2. c \in Controllers /\ s \in Steps /\ c.prop \in Steps
  BY RankZero, ControllerFields DEF IndInv, TypeOK
<1>3. NoStep \in Steps
  BY Bounds DEF NoStep, Steps, Origins
<1>4. ASSUME result'.decision \in {"accept", "retry"}
      PROVE  \A r \in Ranks : Identified(r)
  BY <1>1, <1>4 DEF FinishDecision, Fatal, NoResult
<1>5. ASSUME result'.decision = "accept"
      PROVE  Acceptable /\ result'.cand = AcceptedStep
  BY <1>1, <1>5 DEF FinishDecision, Fatal, NoResult
<1>6. ASSUME result'.decision = "retry"
      PROVE  Retryable /\ result'.cand = RetryStep
  BY <1>1, <1>6 DEF FinishDecision, Fatal, NoResult
<1>7. \/ /\ result'.decision \in {"none", "fatal"} /\ result'.cand = NoStep
      \/ result'.decision = "accept"
      \/ result'.decision = "retry"
  BY <1>1 DEF FinishDecision, Fatal, NoResult
<1>8. ASSUME result'.decision = "accept"
      PROVE  result'.cand \in Steps
             /\ \A r \in Ranks : Accepts(ctl[r], held[r], result'.cand) /\ Ahead(ctl[r])
  <2>1. \A r \in Ranks : ctl[r] = c /\ held[r] = s /\ c.active /\ s = c.prop
    BY <1>4, <1>8 DEF Identified, MatchesActive
  <2>2. /\ AcceptedStep = [s EXCEPT !.time = c.time + s.dt, !.step = c.step + 1,
                                    !.gen = c.gen + 1]
        /\ c.step # MaxStep /\ c.gen # MaxGeneration /\ c.time + s.dt <= MaxTime
    BY <1>5, <1>8 DEF AcceptedStep, Acceptable
  <2>3. /\ c.time + s.dt \in 0 .. MaxTime /\ c.step + 1 \in 0 .. MaxStep
        /\ c.gen + 1 \in 0 .. MaxGeneration
    BY <1>2, <2>2, Bounds, ControllerFields, StepFields
  <2>4. AcceptedStep \in Steps
    BY <1>2, <2>2, <2>3 DEF Steps
  <2>5. /\ AcceptedStep.time = c.time + s.dt /\ AcceptedStep.step = c.step + 1
        /\ AcceptedStep.gen = c.gen + 1
    BY <1>2, <2>2 DEF Steps
  <2>6. Shared(c) /\ Ahead(c)
    <3>1. c.step \in Int BY <1>2, ControllerFields
    <3> HIDE DEF c
    <3> QED BY <2>1, <3>1 DEF Shared, Ahead
  <2> HIDE DEF c, s
  <2> QED BY <1>2, <1>5, <1>8, <2>1, <2>4, <2>5, <2>6 DEF Accepts
<1>9. ASSUME result'.decision = "retry"
      PROVE  result'.cand \in Steps /\ \A r \in Ranks : Retries(ctl[r], result'.cand)
  <2>1. \A r \in Ranks : ctl[r] = c
    BY <1>4, <1>9 DEF Identified
  <2> DEFINE dt == s.dt \div RetryDivisor
  <2>2. RetryStep = [time |-> c.time, dt |-> dt, step |-> c.step,
                     attempt |-> c.retries + 1, origin |-> "retry",
                     order |-> 1, gen |-> c.gen + 1]
        /\ c.retries < MaximumRetries /\ c.gen # MaxGeneration /\ MinimumDt <= dt
    BY <1>6, <1>9 DEF RetryStep, Retryable, Order
  <2>3. dt \in 0 .. MaximumDt
    <3>1. s.dt \in 0 .. MaximumDt BY <1>2, StepFields
    <3> HIDE DEF s
    <3> QED BY <3>1, Bounds
  <2> HIDE DEF dt
  <2>4. c.retries + 1 \in 0 .. MaximumRetries /\ c.gen + 1 \in 0 .. MaxGeneration
    BY <1>2, <2>2, Bounds, ControllerFields
  <2>5. RetryStep \in Steps
    BY <1>2, <2>2, <2>3, <2>4, ControllerFields DEF Steps, Origins
  <2>6. Retries(c, RetryStep)
    BY <1>2, <2>2, <2>3 DEF Retries, Fits, Controllers
  <2> HIDE DEF c
  <2> QED BY <1>6, <1>9, <2>1, <2>5, <2>6
<1>10. TypeOK'
  <2>1. result' \in [decision : {"none", "propose", "accept", "retry", "fatal"},
                     ready : BOOLEAN, cand : Steps]
    <3>1. result'.cand \in Steps BY <1>3, <1>7, <1>8, <1>9
    <3>2. \/ result' = NoResult \/ result' = Fatal(FALSE) \/ result' = Fatal(TRUE)
          \/ result' = [decision |-> "accept", ready |-> TRUE, cand |-> AcceptedStep]
          \/ result' = [decision |-> "retry", ready |-> TRUE, cand |-> RetryStep]
      <4> DEFINE unsure == \E r \in Ranks : ~Identified(r)
                 broken == (\A r \in Ranks : Identified(r)) /\ Gravest # {}
                 sound  == \A r \in Ranks : Identified(r) /\ outcome[r] = "ok"
      <4>1. CASE unsure
        BY <1>1, <4>1 DEF FinishDecision
      <4>2. CASE ~unsure /\ broken
        BY <1>1, <4>2 DEF FinishDecision, Gravest
      <4>3. CASE ~unsure /\ ~broken /\ sound
        BY <1>1, <4>3 DEF FinishDecision
      <4>4. CASE ~unsure /\ ~broken /\ ~sound
        BY <1>1, <4>4 DEF FinishDecision
      <4> QED BY <4>1, <4>2, <4>3, <4>4
    <3>3. \A d \in {"none", "accept", "retry", "fatal"}, b \in BOOLEAN, e \in Steps :
            [decision |-> d, ready |-> b, cand |-> e]
              \in [decision : {"none", "propose", "accept", "retry", "fatal"},
                  ready : BOOLEAN, cand : Steps]
      OBVIOUS
    <3>4. CASE result' = NoResult
      BY <1>3, <3>3, <3>4 DEF NoResult
    <3>5. CASE result' = Fatal(FALSE) \/ result' = Fatal(TRUE)
      BY <1>3, <3>3, <3>5 DEF Fatal
    <3>6. CASE result' = [decision |-> "accept", ready |-> TRUE, cand |-> AcceptedStep]
      BY <3>1, <3>3, <3>6
    <3>7. CASE result' = [decision |-> "retry", ready |-> TRUE, cand |-> RetryStep]
      BY <3>1, <3>3, <3>7
    <3> QED BY <3>2, <3>4, <3>5, <3>6, <3>7
  <2> QED BY <2>1 DEF IndInv, TypeOK, FinishDone, Outcomes
<1>11. ResultSound'
  <2> SUFFICES ASSUME NEW r \in Ranks
               PROVE  /\ result'.decision # "propose"
                      /\ result'.decision = "accept" =>
                           Accepts(ctl[r], held[r], result'.cand) /\ Ahead(ctl[r])
                      /\ result'.decision = "retry" => Retries(ctl[r], result'.cand)
    BY <1>1, KnowledgeKept DEF ResultSound
  <2> QED BY <1>7, <1>8, <1>9
<1> QED BY <1>1, <1>10, <1>11, CertKept, SameControllers
-----------------------------------------------------------------------------
\* A rank returns from a collective without a change of its controller.
LEMMA ReturnKept ==
  ASSUME IndInv, NEW r \in Ranks, Return(r), NEW q \in Ranks, call'[q] = "leave"
  PROVE  q # r /\ call[q] = "leave" /\ result' = result
BY DEF IndInv, TypeOK, Return

\* The types of the variables that Return changes.
LEMMA ReturnType ==
  ASSUME IndInv, NEW r \in Ranks, Return(r)
  PROVE  /\ call' \in [Ranks -> {"idle", "propose", "finish", "leave"}]
         /\ result' \in [decision : {"none", "propose", "accept", "retry", "fatal"},
                         ready : BOOLEAN, cand : Steps]
<1>1. NoStep \in Steps
  BY Bounds DEF NoStep, Steps, Origins
<1>2. NoResult \in [decision : {"none", "propose", "accept", "retry", "fatal"},
                    ready : BOOLEAN, cand : Steps]
  BY <1>1 DEF NoResult
<1> QED BY <1>2 DEF IndInv, TypeOK, Return

LEMMA ReturnSound ==
  ASSUME IndInv, NEW r \in Ranks, Return(r), UNCHANGED <<ctl, held>>
  PROVE  ResultSound'
<1> SUFFICES ASSUME NEW q \in Ranks, call'[q] = "leave"
             PROVE  (/\ result.decision = "propose" =>
                          ~ctl[q].active /\ Fits(ctl[q], result.cand)
                     /\ result.decision = "accept" =>
                          Accepts(ctl[q], held[q], result.cand) /\ Ahead(ctl[q])
                     /\ result.decision = "retry" => Retries(ctl[q], result.cand))'
  BY DEF ResultSound
<1>1. call[q] = "leave" /\ result' = result
  BY ReturnKept
<1>2. /\ result.decision = "propose" => ~ctl[q].active /\ Fits(ctl[q], result.cand)
      /\ result.decision = "accept" =>
           Accepts(ctl[q], held[q], result.cand) /\ Ahead(ctl[q])
      /\ result.decision = "retry" => Retries(ctl[q], result.cand)
  BY <1>1 DEF IndInv, ResultSound
<1> QED BY <1>1, <1>2, KnowledgeKept DEF Fits

LEMMA LeaveFailedStep ==
  ASSUME IndInv, NEW r \in Ranks, NEW mpiError \in BOOLEAN, LeaveFailed(r, mpiError)
  PROVE  IndInv'
<1>1. Return(r) /\ UNCHANGED <<ctl, held, cert, limit, outcome>>
  BY DEF LeaveFailed
<1>2. TypeOK' BY <1>1, ReturnType DEF IndInv, TypeOK
<1>3. ResultSound' BY <1>1, ReturnSound
<1> QED BY <1>1, <1>2, <1>3, CertKept, SameControllers

\* The certificate that prepare_finish returns knows what the decision knew.
LEMMA LeaveFinishStep ==
  ASSUME IndInv, NEW r \in Ranks, NEW k \in CertificateSlots(r), LeaveFinish(r, k)
  PROVE  IndInv'
<1> DEFINE c == Certified(r, k)
<1>1. Return(r) /\ UNCHANGED <<ctl, held, limit, outcome>>
      /\ cert' = [cert EXCEPT ![r] = @ \cup {c}]
      /\ call[r] = "leave" /\ result.decision \in {"accept", "retry", "fatal"}
  BY DEF LeaveFinish, Return
<1>2. /\ c.ready = result.ready /\ c.decision = result.decision
      /\ c.cand = result.cand /\ c.identity = ctl[r] /\ c.prop = held[r]
  BY DEF Certified
<1>3. c \in Certificates
  <2>1. k \in Nat
    BY PlanAssumption DEF CertificateSlots, Ranks
  <2> QED BY <1>1, <2>1 DEF Certificates, Certified, IndInv, TypeOK
<1> HIDE DEF c
<1>4. TypeOK'
  BY <1>1, <1>3, ReturnType DEF IndInv, TypeOK
<1>5. ResultSound' BY <1>1, ReturnSound
<1>6. /\ c.decision = "accept" =>
           Accepts(c.identity, c.prop, c.cand) /\ Ahead(c.identity)
      /\ c.decision = "retry" => Retries(c.identity, c.cand)
  BY <1>1, <1>2 DEF IndInv, ResultSound
<1>7. CertSound'
  <2> SUFFICES ASSUME NEW q \in Ranks, NEW e \in cert'[q], e.ready
               PROVE  (/\ e.decision = "accept" =>
                            Accepts(e.identity, e.prop, e.cand)
                            /\ (ctl[q] = e.identity => Ahead(e.identity))
                       /\ e.decision = "retry" => Retries(e.identity, e.cand))'
    BY DEF CertSound
  <2>1. CASE e \in cert[q]
    BY <1>1, <2>1, KnowledgeKept DEF IndInv, CertSound
  <2>2. CASE e = c
    BY <1>1, <1>6, <2>2, KnowledgeKept
  <2> QED BY <1>1, <2>1, <2>2 DEF IndInv, TypeOK
<1> QED BY <1>1, <1>4, <1>5, <1>7, SameControllers

\* The caller drops a certificate.
LEMMA DropCertificateStep ==
  ASSUME IndInv, NEW r \in Ranks, NEW c \in cert[r], DropCertificate(r, c)
  PROVE  IndInv'
<1>1. UNCHANGED <<ctl, held, call, limit, outcome, result>>
      /\ cert' = [cert EXCEPT ![r] = @ \ {c}]
  BY DEF DropCertificate, Consume
<1>2. TypeOK' BY <1>1 DEF IndInv, TypeOK
<1>3. ResultSound' BY <1>1, KnowledgeKept DEF IndInv, ResultSound, Fits
<1>4. \A q \in Ranks : cert'[q] \subseteq cert[q]
  BY <1>1 DEF IndInv, TypeOK
<1> QED BY <1>1, <1>2, <1>3, <1>4, CertKept, SameControllers

-----------------------------------------------------------------------------
\* One rank's controller goes on from ctl[r] to d and accepts nothing, and the
\* rank is in no collective after the step: what the others know is kept.
LEMMA OneAdvances ==
  ASSUME IndInv, TypeOK', NEW r \in Ranks, NEW d, Progress(r, d), ctl[r] # d,
         ctl' = [ctl EXCEPT ![r] = d],
         d.step = ctl[r].step, d.time = ctl[r].time, d.lastDt = ctl[r].lastDt,
         d.active => Fits(d, d.prop),
         ~d.forceBE => d.origin \in {"accepted", "restart"} /\ d.retries = 0,
         call'[r] # "leave",
         \A q \in Ranks : cert'[q] \subseteq cert[q],
         \A q \in Ranks \ {r} : /\ call'[q] = call[q] /\ held'[q] = held[q]
                                /\ call[q] = "leave" => result' = result
  PROVE  IndInv'
<1>1. TypeOK /\ ctl'[r] = d /\ \A q \in Ranks \ {r} : ctl'[q] = ctl[q]
  BY DEF IndInv, TypeOK
<1>2. CtlSound'
  BY <1>1 DEF IndInv, CtlSound, Fits
<1>3. AcceptedHistoriesAgree'
  BY <1>1 DEF IndInv, AcceptedHistoriesAgree
<1>4. ResultSound'
  <2> SUFFICES ASSUME NEW q \in Ranks, call'[q] = "leave"
               PROVE  (/\ result.decision = "propose" =>
                            ~ctl[q].active /\ Fits(ctl[q], result.cand)
                       /\ result.decision = "accept" =>
                            Accepts(ctl[q], held[q], result.cand) /\ Ahead(ctl[q])
                       /\ result.decision = "retry" => Retries(ctl[q], result.cand))'
    BY DEF ResultSound
  <2>1. q # r /\ call[q] = "leave" /\ result' = result
        /\ held'[q] = held[q] /\ ctl'[q] = ctl[q] /\ result.cand \in Steps
        /\ ctl[q] \in Controllers /\ held[q] \in Steps
    BY <1>1 DEF TypeOK
  <2>2. /\ result.decision = "propose" =>
             ~ctl[q].active /\ Fits(ctl[q], result.cand)
        /\ result.decision = "accept" =>
             Accepts(ctl[q], held[q], result.cand) /\ Ahead(ctl[q])
        /\ result.decision = "retry" => Retries(ctl[q], result.cand)
    BY <2>1 DEF IndInv, ResultSound
  <2>3. ASSUME result.decision = "accept"
        PROVE  (Accepts(ctl[q], held[q], result.cand) /\ Ahead(ctl[q]))'
    <3>1. PICK i \in Controllers, s \in Steps, cand \in Steps :
            i = ctl[q] /\ s = held[q] /\ cand = result.cand
      BY <2>1
    <3>2. Accepts(i, s, cand) /\ Ahead(i)
      BY <2>2, <2>3, <3>1
    <3>3. Accepts(i, s, cand)'
      BY <1>1, <3>2, AcceptsKept
    <3>4. Ahead(i)'
      BY <1>1, <3>2, AheadKept
    <3>5. i = ctl'[q] /\ s = held'[q] /\ cand = result'.cand
      BY <2>1, <3>1
    <3> QED BY <3>3, <3>4, <3>5 DEF Accepts, Shared, Ahead
  <2> QED BY <2>1, <2>2, <2>3 DEF Fits, Retries
<1>5. CertSound'
  <2> SUFFICES ASSUME NEW q \in Ranks, NEW e \in cert'[q], e.ready
               PROVE  (/\ e.decision = "accept" =>
                            Accepts(e.identity, e.prop, e.cand)
                            /\ (ctl[q] = e.identity => Ahead(e.identity))
                       /\ e.decision = "retry" => Retries(e.identity, e.cand))'
    BY DEF CertSound
  <2>1. e \in cert[q] /\ e.cand \in Steps
    BY <1>1 DEF TypeOK, Certificates
  <2>2. ASSUME e.decision = "accept"
        PROVE  (Accepts(e.identity, e.prop, e.cand)
                /\ (ctl[q] = e.identity => Ahead(e.identity)))'
    <3>1. Accepts(e.identity, e.prop, e.cand)
          /\ (ctl[q] = e.identity => Ahead(e.identity))
      BY <2>1, <2>2 DEF IndInv, CertSound
    <3>2. Accepts(e.identity, e.prop, e.cand)'
      BY <1>1, <2>1, <3>1, AcceptsKept
    <3>3. d # e.identity
      BY <1>1, <2>1, <3>1, NoReturn
    <3>4. ctl'[q] = e.identity => Ahead(e.identity)'
      BY <1>1, <3>1, <3>3, AheadKept
    <3> QED BY <3>2, <3>4
  <2>3. e.decision = "retry" => Retries(e.identity, e.cand)
    BY <2>1 DEF IndInv, CertSound
  <2> QED BY <2>2, <2>3 DEF Retries, Fits
<1> QED BY <1>2, <1>3, <1>4, <1>5 DEF IndInv
\* LeavePropose: the rank had no proposal, and activates the published one.
LEMMA LeaveProposeStep ==
  ASSUME IndInv, NEW r \in Ranks, LeavePropose(r)
  PROVE  IndInv'
<1> DEFINE d == [ctl[r] EXCEPT !.active = TRUE, !.prop = result.cand]
<1>1. /\ result.decision = "propose" /\ Return(r) /\ call[r] = "leave"
      /\ ctl' = [ctl EXCEPT ![r] = d]
      /\ held' = [held EXCEPT ![r] = result.cand]
      /\ UNCHANGED <<cert, limit, outcome>>
  BY DEF LeavePropose, Return
<1>2. ctl[r] \in Controllers /\ result.cand \in Steps
  BY DEF IndInv, TypeOK
<1>3. ~ctl[r].active /\ Fits(ctl[r], result.cand)
  BY <1>1 DEF IndInv, ResultSound
<1>4. /\ d.time = ctl[r].time /\ d.lastDt = ctl[r].lastDt
      /\ d.step = ctl[r].step /\ d.gen = ctl[r].gen
      /\ d.retries = ctl[r].retries /\ d.origin = ctl[r].origin
      /\ d.forceBE = ctl[r].forceBE /\ d.active /\ d.prop = result.cand
      /\ d \in Controllers
  BY <1>2 DEF Controllers
<1> HIDE DEF d
<1>5. Progress(r, d)
  BY <1>2, <1>3, <1>4, ControllerFields DEF Progress
<1>6. TypeOK'
  BY <1>1, <1>2, <1>4, ReturnType DEF IndInv, TypeOK
<1>7. Fits(d, d.prop)
  BY <1>3, <1>4 DEF Fits
<1>8. ~d.forceBE => d.origin \in {"accepted", "restart"} /\ d.retries = 0
  BY <1>4 DEF IndInv, CtlSound
<1>9. call'[r] # "leave"
  BY <1>1 DEF Return, IndInv, TypeOK
<1>10. \A q \in Ranks \ {r} : /\ call'[q] = call[q] /\ held'[q] = held[q]
                              /\ call[q] = "leave" => result' = result
  BY <1>1 DEF Return, IndInv, TypeOK
<1> QED BY <1>1, <1>3, <1>4, <1>5, <1>6, <1>7, <1>8, <1>9, <1>10, OneAdvances

-----------------------------------------------------------------------------
\* What a certificate that matches says of its rank's controller.
LEMMA MatchingCertificate ==
  ASSUME IndInv, NEW r \in Ranks, NEW c, Matches(r, c)
  PROVE  /\ c.cand \in Steps /\ c.prop = ctl[r].prop /\ c.identity = ctl[r]
         /\ ctl[r] \in Controllers /\ ctl[r].active /\ Fits(ctl[r], ctl[r].prop)
         /\ c.decision = "accept" =>
              Accepts(ctl[r], ctl[r].prop, c.cand) /\ Ahead(ctl[r])
         /\ c.decision = "retry" => Retries(ctl[r], c.cand)
<1>1. c \in cert[r] /\ c.ready /\ c.identity = ctl[r]
      /\ ctl[r].active /\ c.prop = ctl[r].prop
  BY DEF Matches, MatchesActive
<1>2. c.cand \in Steps
  BY <1>1 DEF IndInv, TypeOK, Certificates
<1> QED BY <1>1, <1>2 DEF IndInv, TypeOK, CtlSound, CertSound

\* commit_retry: the next attempt of the same step, with backward Euler.
LEMMA CommitRetryStep ==
  ASSUME IndInv, NEW r \in Ranks, NEW c \in cert[r], CommitRetry(r, c)
  PROVE  IndInv'
<1> DEFINE d == [ctl[r] EXCEPT !.retries = c.cand.attempt, !.gen = c.cand.gen,
                               !.origin = "retry", !.forceBE = TRUE,
                               !.active = TRUE, !.prop = c.cand]
<1>1. /\ call[r] = "idle" /\ Matches(r, c) /\ c.decision = "retry"
      /\ cert' = [cert EXCEPT ![r] = @ \ {c}]
      /\ ctl' = [ctl EXCEPT ![r] = d]
      /\ held' = [held EXCEPT ![r] = c.cand]
      /\ UNCHANGED <<call, limit, outcome, result>>
  BY DEF CommitRetry, Consume
<1>2. ctl[r] \in Controllers /\ c.cand \in Steps /\ Retries(ctl[r], c.cand)
  BY <1>1, MatchingCertificate
<1>3. /\ c.cand.time = ctl[r].time /\ c.cand.step = ctl[r].step
      /\ c.cand.gen = ctl[r].gen + 1 /\ c.cand.attempt = ctl[r].retries + 1
      /\ MinimumDt <= c.cand.dt /\ c.cand.dt <= MaximumDt
      /\ c.cand.order = 2 => c.cand.attempt = 0
  BY <1>2 DEF Retries, Fits, Controllers
<1>4. c.cand.attempt \in 1 .. MaximumRetries /\ c.cand.gen \in 1 .. MaxGeneration
  BY <1>2, <1>3, Bounds, ControllerFields, StepFields
<1>5. /\ d.time = ctl[r].time /\ d.lastDt = ctl[r].lastDt
      /\ d.step = ctl[r].step /\ d.gen = c.cand.gen
      /\ d.retries = c.cand.attempt /\ d.forceBE /\ d.prop = c.cand
      /\ d \in Controllers
  <2>1. c.cand.attempt \in 0 .. MaximumRetries
    BY <1>4, Bounds
  <2>2. d \in Controllers
    BY <1>2, <1>4, <2>1 DEF Controllers, Origins
  <2> QED BY <1>2, <2>2 DEF Controllers
<1> HIDE DEF d
<1>6. Progress(r, d) /\ ctl[r] # d
  BY <1>2, <1>3, <1>5, ControllerFields DEF Progress
<1>7. Fits(d, d.prop)
  BY <1>3, <1>4, <1>5, Bounds DEF Fits
<1>8. TypeOK'
  BY <1>1, <1>2, <1>5 DEF IndInv, TypeOK
<1>9. \A q \in Ranks : cert'[q] \subseteq cert[q]
  BY <1>1 DEF IndInv, TypeOK
<1>10. call'[r] # "leave"
       /\ \A q \in Ranks \ {r} : /\ call'[q] = call[q] /\ held'[q] = held[q]
                                 /\ call[q] = "leave" => result' = result
  BY <1>1 DEF IndInv, TypeOK
<1> QED BY <1>1, <1>5, <1>6, <1>7, <1>8, <1>9, <1>10, OneAdvances

\* commit_fatal: the proposal is given up; its generation is retired unless the
\* counter is exhausted.
LEMMA CommitFatalStep ==
  ASSUME IndInv, NEW r \in Ranks, NEW c \in cert[r], CommitFatal(r, c)
  PROVE  IndInv'
<1> DEFINE d == [ctl[r] EXCEPT !.gen = Lesser(c.prop.gen + 1, MaxGeneration),
                               !.retries = 0, !.origin = "retry",
                               !.forceBE = TRUE, !.active = FALSE,
                               !.prop = NoStep]
<1>1. /\ call[r] = "idle" /\ Matches(r, c)
      /\ cert' = [cert EXCEPT ![r] = @ \ {c}]
      /\ ctl' = [ctl EXCEPT ![r] = d]
      /\ UNCHANGED <<held, call, limit, outcome, result>>
  BY DEF CommitFatal, Consume
<1>2. /\ ctl[r] \in Controllers /\ ctl[r].active
      /\ c.prop.gen = ctl[r].gen
  BY <1>1, MatchingCertificate DEF Fits
<1>3. NoStep \in Steps
  BY Bounds DEF NoStep, Steps, Origins
<1>4. ctl[r].gen \in 1 .. MaxGeneration /\ ctl[r].step \in 0 .. MaxStep
  BY <1>2, ControllerFields
<1>5. /\ Lesser(c.prop.gen + 1, MaxGeneration) \in 1 .. MaxGeneration
      /\ \/ Lesser(c.prop.gen + 1, MaxGeneration) > ctl[r].gen
         \/ /\ Lesser(c.prop.gen + 1, MaxGeneration) = ctl[r].gen
            /\ ctl[r].gen = MaxGeneration
  BY <1>2, <1>4, Bounds DEF Lesser
<1>6. /\ d.time = ctl[r].time /\ d.lastDt = ctl[r].lastDt
      /\ d.step = ctl[r].step /\ d.gen = Lesser(c.prop.gen + 1, MaxGeneration)
      /\ d.forceBE /\ ~d.active /\ d \in Controllers
  <2>1. 0 \in 0 .. MaximumRetries
    BY Bounds
  <2>2. d \in Controllers
    BY <1>2, <1>3, <1>5, <2>1 DEF Controllers, Origins
  <2> QED BY <1>2, <2>2 DEF Controllers
<1> HIDE DEF d
<1>7. Progress(r, d) /\ ctl[r] # d
  BY <1>2, <1>4, <1>5, <1>6 DEF Progress
<1>8. TypeOK'
  BY <1>1, <1>6 DEF IndInv, TypeOK
<1>9. \A q \in Ranks : cert'[q] \subseteq cert[q]
  BY <1>1 DEF IndInv, TypeOK
<1>10. call'[r] # "leave"
       /\ \A q \in Ranks \ {r} : /\ call'[q] = call[q] /\ held'[q] = held[q]
                                 /\ call[q] = "leave" => result' = result
  BY <1>1 DEF IndInv, TypeOK
<1> QED BY <1>1, <1>6, <1>7, <1>8, <1>9, <1>10, OneAdvances
\* commit_accept: every other rank that could still accept has the controller
\* that this rank had, so it will accept the same time and step size; a rank
\* that has accepted already is one step ahead with exactly these.
LEMMA CommitAcceptStep ==
  ASSUME IndInv, NEW r \in Ranks, NEW c \in cert[r], CommitAccept(r, c)
  PROVE  IndInv'
<1> DEFINE d == [time |-> c.cand.time, lastDt |-> c.prop.dt,
                 step |-> c.cand.step, gen |-> c.cand.gen, retries |-> 0,
                 origin |-> "accepted", forceBE |-> FALSE, active |-> FALSE,
                 prop |-> NoStep]
<1>1. /\ call[r] = "idle" /\ Matches(r, c) /\ c.decision = "accept"
      /\ cert' = [cert EXCEPT ![r] = @ \ {c}]
      /\ ctl' = [ctl EXCEPT ![r] = d]
      /\ UNCHANGED <<held, call, limit, outcome, result>>
  BY DEF CommitAccept, Consume
<1>2. /\ c.cand \in Steps /\ ctl[r] \in Controllers /\ c.prop = ctl[r].prop
      /\ Accepts(ctl[r], ctl[r].prop, c.cand) /\ Ahead(ctl[r])
  BY <1>1, MatchingCertificate
<1>3. PICK i \in Controllers, s \in Steps, cand \in Steps :
        /\ i = ctl[r] /\ s = i.prop /\ cand = c.cand
        /\ Accepts(i, s, cand) /\ Ahead(i) /\ Shared(i)
  BY <1>2, ControllerFields DEF Accepts
<1>4. /\ cand.time = i.time + s.dt /\ cand.step = i.step + 1
      /\ cand.gen = i.gen + 1
  BY <1>3 DEF Accepts
<1>5. NoStep \in Steps
  BY Bounds DEF NoStep, Steps, Origins
<1>6. cand.gen \in 1 .. MaxGeneration /\ 0 \in 0 .. MaximumRetries
  BY <1>3, <1>4, Bounds, ControllerFields, StepFields
<1>7. /\ d.time = i.time + s.dt /\ d.lastDt = s.dt /\ d.step = i.step + 1
      /\ d.gen = i.gen + 1 /\ ~d.active /\ d.retries = 0
      /\ d.origin = "accepted" /\ d \in Controllers
  <2>1. d.time = cand.time /\ d.lastDt = s.dt /\ d.step = cand.step
        /\ d.gen = cand.gen /\ ~d.active /\ d.retries = 0
        /\ d.origin = "accepted"
    BY <1>2, <1>3
  <2>2. d \in Controllers
    BY <1>2, <1>3, <1>5, <1>6, StepFields DEF Controllers, Origins
  <2> QED BY <1>4, <2>1, <2>2
<1> HIDE DEF d
<1>8. i.step \in Int /\ i.gen \in Int /\ \A q \in Ranks : ctl[q].step \in Int
  <2>1. \A q \in Ranks : ctl[q] \in Controllers
    BY DEF IndInv, TypeOK
  <2> QED BY <1>3, <2>1, Bounds, ControllerFields
<1>9. Progress(r, d) /\ ctl[r] # d
  BY <1>3, <1>7, <1>8 DEF Progress
<1>10. TypeOK /\ ctl'[r] = d /\ \A q \in Ranks \ {r} : ctl'[q] = ctl[q]
  BY <1>1 DEF IndInv, TypeOK
<1>11. TypeOK'
  BY <1>1, <1>7, <1>10 DEF TypeOK
<1>12. CtlSound'
  BY <1>7, <1>10 DEF IndInv, CtlSound, Fits
<1>13. Ahead(i)'
  BY <1>3, <1>7, <1>10 DEF Ahead
<1>14. AcceptedHistoriesAgree'
  <2>1. \A q \in Ranks \ {r} :
          /\ i.step <= ctl[q].step /\ ctl[q].step <= i.step + 1
          /\ ctl[q].step = i.step + 1 =>
               ctl[q].time = i.time + s.dt /\ ctl[q].lastDt = s.dt
    BY <1>3 DEF Shared, Ahead, IndInv, AcceptedHistoriesAgree
  <2> SUFFICES ASSUME NEW p \in Ranks, NEW q \in Ranks
               PROVE  (/\ ctl[p].step <= ctl[q].step + 1
                       /\ ctl[p].step = ctl[q].step =>
                            /\ ctl[p].time = ctl[q].time
                            /\ ctl[p].lastDt = ctl[q].lastDt)'
    BY DEF AcceptedHistoriesAgree
  <2>2. CASE p # r /\ q # r
    BY <1>10, <2>2 DEF IndInv, AcceptedHistoriesAgree
  <2>3. CASE p = r /\ q # r
    BY <1>7, <1>8, <1>10, <2>1, <2>3
  <2>4. CASE p # r /\ q = r
    BY <1>7, <1>8, <1>10, <2>1, <2>4
  <2>5. CASE p = r /\ q = r
    BY <1>7, <1>8, <1>10, <2>5
  <2> QED BY <2>2, <2>3, <2>4, <2>5
\* Whoever may still accept a step accepts the one of i.
<1>15. ASSUME NEW q \in Ranks, q # r, NEW j, Shared(j), j = ctl[q]
       PROVE  j = i
  BY <1>3, <1>10, <1>15, OneController
<1>16. ResultSound'
  <2> SUFFICES ASSUME NEW q \in Ranks, call'[q] = "leave"
               PROVE  (/\ result.decision = "propose" =>
                            ~ctl[q].active /\ Fits(ctl[q], result.cand)
                       /\ result.decision = "accept" =>
                            Accepts(ctl[q], held[q], result.cand) /\ Ahead(ctl[q])
                       /\ result.decision = "retry" => Retries(ctl[q], result.cand))'
    BY DEF ResultSound
  <2>1. /\ q # r /\ call[q] = "leave" /\ ctl'[q] = ctl[q]
        /\ result.cand \in Steps /\ ctl[q] \in Controllers /\ held[q] \in Steps
    BY <1>1, <1>10 DEF TypeOK
  <2>2. /\ result.decision = "propose" =>
             ~ctl[q].active /\ Fits(ctl[q], result.cand)
        /\ result.decision = "accept" =>
             Accepts(ctl[q], held[q], result.cand) /\ Ahead(ctl[q])
        /\ result.decision = "retry" => Retries(ctl[q], result.cand)
    BY <2>1 DEF IndInv, ResultSound
  <2>3. ASSUME result.decision = "accept"
        PROVE  (Accepts(ctl[q], held[q], result.cand) /\ Ahead(ctl[q]))'
    <3>1. PICK j \in Controllers, t \in Steps, x \in Steps :
            j = ctl[q] /\ t = held[q] /\ x = result.cand
      BY <2>1
    <3>2. Accepts(j, t, x) /\ Shared(j)
      BY <2>2, <2>3, <3>1 DEF Accepts
    <3>3. Accepts(j, t, x)'
      BY <1>1, <1>9, <1>10, <3>2, AcceptsKept
    <3>4. j = i
      BY <1>15, <2>1, <3>1, <3>2
    <3>5. Ahead(j)'
      BY <1>13, <3>4
    <3>6. j = ctl'[q] /\ t = held'[q] /\ x = result'.cand
      BY <1>1, <2>1, <3>1
    <3> QED BY <3>3, <3>5, <3>6 DEF Accepts, Shared, Ahead
  <2> QED BY <1>1, <2>1, <2>2, <2>3 DEF Fits, Retries
<1>17. CertSound'
  <2> SUFFICES ASSUME NEW q \in Ranks, NEW e \in cert'[q], e.ready
               PROVE  (/\ e.decision = "accept" =>
                            Accepts(e.identity, e.prop, e.cand)
                            /\ (ctl[q] = e.identity => Ahead(e.identity))
                       /\ e.decision = "retry" => Retries(e.identity, e.cand))'
    BY DEF CertSound
  <2>1. e \in cert[q] /\ e.cand \in Steps
    BY <1>1, <1>10 DEF TypeOK, Certificates
  <2>2. ASSUME e.decision = "accept"
        PROVE  (Accepts(e.identity, e.prop, e.cand)
                /\ (ctl[q] = e.identity => Ahead(e.identity)))'
    <3>1. Accepts(e.identity, e.prop, e.cand) /\ Shared(e.identity)
      BY <2>1, <2>2 DEF IndInv, CertSound, Accepts
    <3>2. Accepts(e.identity, e.prop, e.cand)'
      BY <1>1, <1>9, <1>10, <2>1, <3>1, AcceptsKept
    <3>3. d # e.identity
      BY <1>1, <1>9, <1>10, <2>1, <3>1, NoReturn
    <3>4. ctl'[q] = e.identity => e.identity = i
      BY <1>10, <1>15, <3>1, <3>3
    <3> QED BY <1>13, <3>2, <3>4
  <2>3. e.decision = "retry" => Retries(e.identity, e.cand)
    BY <2>1 DEF IndInv, CertSound
  <2> QED BY <2>2, <2>3 DEF Retries, Fits
<1> QED BY <1>11, <1>12, <1>14, <1>16, <1>17 DEF IndInv

-----------------------------------------------------------------------------
LEMMA StutterStep ==
  ASSUME IndInv, UNCHANGED timeVars
  PROVE  IndInv'
BY DEF timeVars, IndInv, TypeOK, CtlSound, ResultSound, CertSound,
       AcceptedHistoriesAgree, Accepts, Shared, Ahead, Retries, Fits

LEMMA NextStep ==
  ASSUME IndInv, [Next]_timeVars
  PROVE  IndInv'
<1>1. CASE ProposeDone BY <1>1, ProposeDoneStep
<1>2. CASE FinishDone BY <1>2, FinishDoneStep
<1>3. ASSUME NEW r \in Ranks, RankNext(r) PROVE IndInv'
  <2>1. CASE \E lim \in 0 .. MaximumDt : EnterPropose(r, lim)
    BY <2>1, EnterProposeStep
  <2>2. CASE LeavePropose(r)
    BY <2>2, LeaveProposeStep
  <2>3. CASE \E mpiError \in BOOLEAN : LeaveFailed(r, mpiError)
    BY <2>3, LeaveFailedStep
  <2>4. CASE \E code \in Outcomes : EnterFinish(r, code)
    BY <2>4, EnterFinishStep
  <2>5. CASE \E k \in CertificateSlots(r) : LeaveFinish(r, k)
    BY <2>5, LeaveFinishStep
  <2>6. CASE \E c \in cert[r] : CommitAccept(r, c)
    BY <2>6, CommitAcceptStep
  <2>7. CASE \E c \in cert[r] : CommitRetry(r, c)
    BY <2>7, CommitRetryStep
  <2>8. CASE \E c \in cert[r] : CommitFatal(r, c)
    BY <2>8, CommitFatalStep
  <2>9. CASE \E c \in cert[r] : DropCertificate(r, c)
    BY <2>9, DropCertificateStep
  <2> QED BY <1>3, <2>1, <2>2, <2>3, <2>4, <2>5, <2>6, <2>7, <2>8, <2>9
          DEF RankNext
<1>4. CASE UNCHANGED timeVars BY <1>4, StutterStep
<1> QED BY <1>1, <1>2, <1>3, <1>4 DEF Next

\* The invariant holds in every state.
THEOREM InductiveInvariant == Spec => []IndInv
<1>1. Init => IndInv BY InitSound
<1>2. IndInv /\ [Next]_timeVars => IndInv' BY NextStep
<1> QED BY <1>1, <1>2, PTL DEF Spec

\* The counters of every controller, proposal and certificate stay within
\* their width, whatever the ranks do (TimeControllerState, StepTime,
\* PreparedTimeFinish).
THEOREM TypeCorrect == Spec => []TypeOK
<1>1. IndInv => TypeOK BY DEF IndInv
<1> QED BY <1>1, InductiveInvariant, PTL

\* The active proposal always continues the accepted history of its rank.
THEOREM ProposalIsCurrent == Spec => []ProposalCurrent
<1>1. IndInv => ProposalCurrent
  <2>1. \A r \in Ranks : IndInv => ctl[r].retries <= MaximumRetries
    BY Bounds, ControllerFields DEF IndInv, TypeOK
  <2> QED BY <2>1 DEF IndInv, CtlSound, Fits, ProposalCurrent
<1> QED BY <1>1, InductiveInvariant, PTL

\* Second-order steps follow only accepted or exactly restored steps.
THEOREM SecondOrderHasHistory == Spec => []SecondOrderNeedsHistory
<1>1. IndInv => SecondOrderNeedsHistory
  BY DEF IndInv, CtlSound, Fits, SecondOrderNeedsHistory
<1> QED BY <1>1, InductiveInvariant, PTL

\* All ranks accept the same history, although each of them commits alone,
\* may have seen an MPI error or may have dropped its certificate.
THEOREM HistoriesAgree == Spec => []AcceptedHistoriesAgree
<1>1. IndInv => AcceptedHistoriesAgree BY DEF IndInv
<1> QED BY <1>1, InductiveInvariant, PTL

\* A proposal that ends retires its generation (commit_accept, commit_retry,
\* commit_fatal): a certificate issued for it can never match again, unless
\* the counter is exhausted.
THEOREM GenerationsAreRetired == Spec => GenerationsRetired
<1> DEFINE Retired(r) ==
      ctl[r].active /\ ctl'[r] # ctl[r] =>
        \/ ctl'[r].gen = ctl[r].gen + 1
        \/ /\ ctl[r].gen = MaxGeneration /\ ctl'[r].gen = MaxGeneration
           /\ ctl'[r].step = ctl[r].step /\ ~ctl'[r].active
<1>1. ASSUME IndInv, [Next]_timeVars, NEW r \in Ranks
      PROVE  Retired(r)
  <2> SUFFICES ASSUME ctl[r].active, ctl'[r] # ctl[r] PROVE Retired(r)
    OBVIOUS
  <2>1. PICK q \in Ranks : RankNext(q)
    BY <1>1 DEF Next, ProposeDone, FinishDone, timeVars
  <2>2. CASE LeavePropose(q)
    BY <1>1, <2>2 DEF LeavePropose, Return, IndInv, TypeOK, ResultSound
  <2>3. CASE \E c \in cert[q] : CommitAccept(q, c)
    <3>1. PICK c \in cert[q] : CommitAccept(q, c) BY <2>3
    <3>2. q = r /\ ctl'[r].gen = c.cand.gen /\ Matches(r, c) /\ c.decision = "accept"
      BY <1>1, <3>1 DEF CommitAccept, IndInv, TypeOK
    <3> QED BY <1>1, <3>2, MatchingCertificate DEF Accepts
  <2>4. CASE \E c \in cert[q] : CommitRetry(q, c)
    <3>1. PICK c \in cert[q] : CommitRetry(q, c) BY <2>4
    <3>2. q = r /\ ctl'[r].gen = c.cand.gen /\ Matches(r, c) /\ c.decision = "retry"
          /\ ctl[r] \in Controllers
      BY <1>1, <3>1 DEF CommitRetry, IndInv, TypeOK, Controllers
    <3> QED BY <1>1, <3>2, MatchingCertificate DEF Retries, Fits, Controllers
  <2>5. CASE \E c \in cert[q] : CommitFatal(q, c)
    <3>1. PICK c \in cert[q] : CommitFatal(q, c) BY <2>5
    <3>2. /\ q = r /\ Matches(r, c) /\ ctl[r] \in Controllers
          /\ ctl'[r].gen = Lesser(c.prop.gen + 1, MaxGeneration)
          /\ ctl'[r].step = ctl[r].step /\ ~ctl'[r].active
      BY <1>1, <3>1 DEF CommitFatal, IndInv, TypeOK, Controllers
    <3>3. c.prop.gen = ctl[r].gen
      BY <1>1, <3>2, MatchingCertificate DEF Fits
    <3>4. ctl[r].gen \in 1 .. MaxGeneration
      BY <3>2, ControllerFields
    <3> QED BY <3>2, <3>3, <3>4, Bounds DEF Lesser
  <2> QED BY <2>1, <2>2, <2>3, <2>4, <2>5 DEF RankNext, EnterPropose,
             LeaveFailed, EnterFinish, LeaveFinish, DropCertificate
<1>2. IndInv /\ [Next]_timeVars => [\A r \in Ranks : Retired(r)]_timeVars
  BY <1>1
<1> QED BY <1>2, InductiveInvariant, PTL DEF Spec, GenerationsRetired
=============================================================================
