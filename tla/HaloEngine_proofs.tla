--------------------------- MODULE HaloEngine_proofs ---------------------------
(***************************************************************************)
(* Proofs about HaloEngine, for every number of ranks, every relation of   *)
(* peers, every plan and every combination of faults.                      *)
(*                                                                         *)
(* The ranks never meet except in a collective, and which collective a     *)
(* rank comes to next, and with what it leaves the round, is settled by    *)
(* what the last collective told it.  The heart of the inductive invariant *)
(* is therefore a function of the state of one rank alone, its             *)
(* Destination, which no step of a rank or of a message changes: a         *)
(* consensus sets it for all ranks, to the same.                           *)
(***************************************************************************)
EXTENDS HaloEngine, SequenceTheorems, NaturalsInduction, WellFoundedInduction,
        TLAPS

\* What a rank may bring to the collective at a place.
Ballot(place) ==
  CASE place = "begin" -> {"ok", "field", "request"}
    [] place = "start" -> {"ok", "start"}
    [] place \in {"restart", "recover"} -> {"ok", "request"}
    [] place = "open" -> {"state"}
    [] place \in {"preflight", "enter"} -> {"ok", "state", "field"}
    [] place = "wait" -> {"ok", "completion"}
    [] place = "close" -> {"ok", "state", "field", "start", "completion"}
    [] place = "reserve" -> {"ok", "state", "reserve"}
    [] OTHER -> {}

\* A rank is in the collective of its place, before or after the consensus.
Seated(r) ==
  /\ vote[r] = None \/ verdict[r] = None
  /\ vote[r] # None => vote[r] \in Ballot(pc[r])
  /\ verdict[r] # None => verdict[r] \in Ballot(pc[r])
  /\ pc[r] \notin {"idle", "open", "ready", "flying"} =>
       vote[r] # None \/ verdict[r] # None
  /\ pc[r] = "open" /\ (vote[r] # None \/ verdict[r] # None) =>
       Round(r) = "reenter" /\ ticket[r]

\* Its place belongs to the round that it is in.
Placed(r) ==
  /\ pc[r] \in {"begin", "start", "restart", "open", "preflight", "wait",
                "recover"} => Round(r) \in {"exchange", "reenter"}
  /\ pc[r] \in {"enter", "ready", "flying", "close"} => Round(r) = "epoch"
  /\ pc[r] = "reserve" => Round(r) = "reserve"

\* What it keeps for a later report, and the stage that it is in.
Counted(r) ==
  /\ pc[r] \notin {"restart", "wait", "recover"} => kept[r] = "ok"
  /\ pc[r] = "restart" => kept[r] = "start"
  /\ pc[r] = "wait" => kept[r] \in {"ok", "state", "field"}
  /\ pc[r] = "recover" => kept[r] \in {"completion", "state", "field"}
  /\ pc[r] \notin {"ready", "flying", "close", "reserve"} => stage[r] = 0
  /\ pc[r] = "ready" => stage[r] <= EpochExchanges
  /\ pc[r] = "flying" => stage[r] < EpochExchanges

\* The status that the rank brings to the collective, or took from it.
Says(r, s) == vote[r] = s \/ verdict[r] = s

\* Where the flags of an engine may be set.
Flagged(r) ==
  /\ ticket[r] \/ impl[r].active =>
       pc[r] \in {"open", "preflight", "wait", "recover", "flying"}
  /\ impl[r].started => pc[r] \in {"start", "open", "preflight", "wait", "flying"}
  /\ impl[r].epoch => pc[r] \in {"enter", "ready", "flying", "close"}
  /\ pc[r] \in {"ready", "flying"} => impl[r].epoch
  /\ pc[r] \in {"enter", "close"} /\ Says(r, "ok") => impl[r].epoch
  /\ impl[r].cert # 0 => pc[r] \in {"idle", "reserve"}

\* Where an engine is sound: its requests are those that all ranks built.
Sound(r) ==
  /\ impl[r].poisoned =>
       pc[r] \in {"idle", "begin", "restart", "recover", "enter", "close", "reserve"}
  /\ impl[r].poisoned /\ pc[r] \in {"begin", "restart", "recover", "enter", "close"} =>
       ~Says(r, "ok")
  /\ pc[r] \in {"restart", "recover"} /\ vote[r] \notin {None, "ok"} =>
       impl[r].poisoned

\* The exchange that would be certified is the last one of the field.
Pending(r) ==
  /\ pc[r] \in {"begin", "start", "flying"} => revision[r] # 0
  /\ \/ pc[r] \in {"open", "preflight", "wait"}
     \/ pc[r] = "close" /\ Says(r, "ok")
     \/ pc[r] = "ready" /\ stage[r] > 0 /\ deferred[r] = "ok"
     \/ pc[r] = "flying" /\ deferred[r] = "ok"
     => impl[r].pending = revision[r] /\ revision[r] # 0

\* What a prepared epoch may have to report.
Deferring(r) == deferred[r] \in {"ok", "state", "field"}

Local(r) == Seated(r) /\ Placed(r) /\ Counted(r) /\ Flagged(r) /\ Sound(r)
            /\ Pending(r)

-----------------------------------------------------------------------------
\* The next step of the rank ends the round.
Leaves(r) ==
  /\ verdict[r] # None
  /\ \/ pc[r] \in {"begin", "enter"} /\ verdict[r] # "ok"
     \/ pc[r] \in {"restart", "recover", "close"}
     \/ pc[r] = "wait" /\ verdict[r] = "ok"
     \/ pc[r] = "reserve" /\ (verdict[r] # "ok" \/ stage[r] + 1 = ReserveStages)

\* With this outcome.
Outcome(r) ==
  CASE pc[r] \in {"restart", "recover"} -> kept[r]
    [] pc[r] = "wait" -> IF kept[r] = "ok" THEN "published" ELSE kept[r]
    [] pc[r] = "close" /\ verdict[r] = "ok" -> "published"
    [] pc[r] = "reserve" /\ verdict[r] = "ok" -> "reserved"
    [] OTHER -> verdict[r]

\* The outcomes that are settled for the rank.
Log(r) == IF Leaves(r) THEN Append(outcomes[r], Outcome(r)) ELSE outcomes[r]

\* The first collective of the round after the outcomes s.
Opening(s) ==
  IF Len(s) < Len(Plan)
  THEN CASE Plan[Len(s) + 1] = "epoch" -> "enter"
         [] Plan[Len(s) + 1] = "reserve" -> "reserve"
         [] OTHER -> "begin"
  ELSE None

\* The collective that the rank is in, or comes to next.
Target(r) ==
  IF pc[r] = "idle" \/ Leaves(r) THEN Opening(Log(r))
  ELSE IF pc[r] \in {"ready", "flying"} THEN "close"
  ELSE IF verdict[r] = None
  THEN IF pc[r] = "open" /\ ~(Round(r) = "reenter" /\ ticket[r])
       THEN "preflight" ELSE pc[r]
  ELSE CASE pc[r] = "begin" -> "start"
         [] pc[r] = "start" -> IF verdict[r] # "ok" THEN "restart"
                               ELSE IF Round(r) = "reenter" THEN "open"
                               ELSE "preflight"
         [] pc[r] = "open" -> "preflight"
         [] pc[r] = "preflight" -> "wait"
         [] pc[r] = "wait" -> "recover"
         [] pc[r] = "enter" -> "close"
         [] OTHER -> pc[r]

\* What the rank keeps for a later report when it is there.
Carried(r) ==
  IF pc[r] = "idle" \/ Leaves(r) \/ pc[r] \in {"ready", "flying"} THEN "ok"
  ELSE IF verdict[r] = None THEN kept[r]
  ELSE IF pc[r] \in {"start", "preflight"} THEN verdict[r]
  ELSE IF pc[r] = "wait" /\ kept[r] = "ok" THEN verdict[r]
  ELSE kept[r]

\* The stage that it is at there, in a reservation.
Stage(r) ==
  IF pc[r] # "reserve" \/ Leaves(r) THEN 0
  ELSE IF verdict[r] = None THEN stage[r] ELSE stage[r] + 1

Destination(r) == <<Log(r), Target(r), Carried(r), Stage(r)>>

\* All ranks are on their way to the same.
Synced == \A p, q \in Ranks : Destination(p) = Destination(q)

IndInv == TypeOK /\ (\A r \in Ranks : Local(r) /\ Deferring(r)) /\ Synced

-----------------------------------------------------------------------------
\* The round that a rank is in.
LEMMA RoundType ==
  ASSUME TypeOK, NEW r \in Ranks
  PROVE  /\ Round(r) \in Rounds \cup {None}
         /\ Round(r) # None => /\ Len(outcomes[r]) < Len(Plan)
                               /\ Round(r) = Plan[Len(outcomes[r]) + 1]
BY HaloAssumption DEF TypeOK, Round, Rounds, None

\* The control of a rank, its caller and its engine are as they were, and its
\* buffers and requests too.
Steady(q) ==
  /\ pc'[q] = pc[q] /\ vote'[q] = vote[q] /\ verdict'[q] = verdict[q]
  /\ kept'[q] = kept[q] /\ stage'[q] = stage[q] /\ outcomes'[q] = outcomes[q]
  /\ revision'[q] = revision[q] /\ ticket'[q] = ticket[q]
  /\ deferred'[q] = deferred[q] /\ impl'[q] = impl[q]

Still(q) ==
  /\ Steady(q)
  /\ outbox'[q] = outbox[q] /\ inbox'[q] = inbox[q] /\ ghost'[q] = ghost[q]
  /\ sending'[q] = sending[q] /\ receiving'[q] = receiving[q]

\* Withdrawing messages and building requests anew concerns one rank only.
LEMMA RecreateStill ==
  ASSUME TypeOK, NEW r \in Ranks, NEW s, Recreate(r, s), NEW q \in Ranks \ {r}
  PROVE  /\ vote'[q] = vote[q] /\ verdict'[q] = verdict[q] /\ impl'[q] = impl[q]
         /\ sending'[q] = sending[q] /\ receiving'[q] = receiving[q]
<1>1. vote'[q] = vote[q] /\ verdict'[q] = verdict[q] /\ impl'[q] = impl[q]
  BY DEF TypeOK, Recreate, AnswerAndAsk, Answer
<1>2. sending'[q] = sending[q] /\ receiving'[q] = receiving[q]
  BY DEF TypeOK, Recreate, CancelAndDrain, wires
<1> QED BY <1>1, <1>2

LEMMA RankStill ==
  ASSUME TypeOK, NEW r \in Ranks, RankStep(r), NEW q \in Ranks \ {r}
  PROVE  Still(q)
<1>1. CASE BeginStep(r)
  <2>1. Begin(r) => Still(q)
    <3> SUFFICES ASSUME Begin(r) PROVE Still(q)
      OBVIOUS
    <3>1. Steady(q)
      BY DEF TypeOK, Begin, Steady, Goto, Ask
    <3> QED BY <3>1 DEF TypeOK, Begin, Still, wires
  <2>2. BeginRefused(r) => Still(q)
    BY DEF TypeOK, BeginRefused, Still, Steady, Answer, Return, Goto, caller, buffers, wires
  <2>3. Start(r) => Still(q)
    <3> SUFFICES ASSUME Start(r) PROVE Still(q)
      OBVIOUS
    <3>1. Steady(q)
      BY DEF TypeOK, Start, Steady, AnswerAndAsk, Answer, Goto, caller
    <3> QED BY <3>1 DEF TypeOK, Start, Still, Startall, buffers
  <2>4. Opened(r) => Still(q)
    BY DEF TypeOK, Opened, Still, Steady, Answer, Goto, buffers, wires
  <2>5. StartFailed(r) => Still(q)
    <3> SUFFICES ASSUME StartFailed(r) PROVE Still(q)
      OBVIOUS
    <3>1. PICK s \in {"ok", "request"} : Recreate(r, s)
      BY DEF StartFailed
    <3>2. pc'[q] = pc[q] /\ kept'[q] = kept[q]
      BY DEF TypeOK, StartFailed, Goto
    <3>3. UNCHANGED <<stage, outcomes, caller, buffers>>
      BY DEF StartFailed
    <3> QED BY <3>1, <3>2, <3>3, RecreateStill DEF Still, Steady, caller, buffers
  <2>6. StartReported(r) => Still(q)
    BY DEF TypeOK, StartReported, Still, Steady, Answer, Return, Goto, buffers, wires
  <2>7. Reenter(r) => Still(q)
    BY DEF TypeOK, Reenter, Still, Steady, Ask, Answer, buffers, wires
  <2> QED BY <1>1, <2>1, <2>2, <2>3, <2>4, <2>5, <2>6, <2>7 DEF BeginStep
<1>2. CASE FinishStep(r)
  <2>1. Finish(r) => Still(q)
    BY DEF TypeOK, Finish, Still, Steady, Ask, Goto, caller, buffers, wires
  <2>2. Wait(r) => Still(q)
    BY DEF TypeOK, Wait, Still, Steady, AnswerAndAsk, Answer, Waitall, Goto, caller, buffers
  <2>3. Published(r) => Still(q)
    <3> SUFFICES ASSUME Published(r) PROVE Still(q)
      OBVIOUS
    <3>1. Steady(q)
      BY DEF TypeOK, Published, Steady, Answer, FinishExchange, Return, Goto
    <3> QED BY <3>1 DEF TypeOK, Published, Still, Unpack, wires
  <2>4. PreflightFailed(r) => Still(q)
    <3> SUFFICES ASSUME PreflightFailed(r) PROVE Still(q)
      OBVIOUS
    <3>1. Steady(q)
      BY DEF TypeOK, PreflightFailed, Steady, Answer, FinishExchange, Return, Goto
    <3> QED BY <3>1 DEF TypeOK, PreflightFailed, Still, buffers, wires
  <2>5. WaitFailed(r) => Still(q)
    <3> SUFFICES ASSUME WaitFailed(r) PROVE Still(q)
      OBVIOUS
    <3>1. PICK s \in {"ok", "request"} : Recreate(r, s)
      BY DEF WaitFailed
    <3>2. pc'[q] = pc[q] /\ kept'[q] = kept[q]
      BY DEF TypeOK, WaitFailed, Goto
    <3>3. UNCHANGED <<stage, outcomes, caller, buffers>>
      BY DEF WaitFailed
    <3> QED BY <3>1, <3>2, <3>3, RecreateStill DEF Still, Steady, caller, buffers
  <2>6. WaitReported(r) => Still(q)
    BY DEF TypeOK, WaitReported, Still, Steady, Answer, Return, Goto, buffers, wires
  <2> QED BY <1>2, <2>1, <2>2, <2>3, <2>4, <2>5, <2>6 DEF FinishStep
<1>3. CASE EpochStep(r)
  <2>1. EnterEpoch(r) => Still(q)
    BY DEF TypeOK, EnterEpoch, Still, Steady, Ask, Goto, buffers, wires
  <2>2. EpochEntered(r) => Still(q)
    BY DEF TypeOK, EpochEntered, Still, Steady, Answer, Goto, caller, buffers, wires
  <2>3. EpochRefused(r) => Still(q)
    BY DEF TypeOK, EpochRefused, Still, Steady, Answer, CloseEpoch, Return, Goto, caller,
       buffers, wires
  <2>4. BeginPrepared(r) => Still(q)
    BY DEF TypeOK, BeginPrepared, Still, Steady, Retain, Startall, Goto
  <2>5. StartPreparedFailed(r) => Still(q)
    BY DEF TypeOK, StartPreparedFailed, Still, Steady, Ask, Goto, buffers, wires
  <2>6. FinishPrepared(r) => Still(q)
    <3> SUFFICES ASSUME FinishPrepared(r) PROVE Still(q)
      OBVIOUS
    <3>1. deferred'[q] = deferred[q]
      BY DEF TypeOK, FinishPrepared, Retain
    <3>2. Unpack(r) \/ UNCHANGED <<inbox, ghost>>
      BY DEF FinishPrepared
    <3>3. inbox'[q] = inbox[q] /\ ghost'[q] = ghost[q]
      BY <3>2 DEF TypeOK, Unpack
    <3>4. sending'[q] = sending[q] /\ receiving'[q] = receiving[q]
      BY DEF TypeOK, FinishPrepared, Waitall
    <3> QED BY <3>1, <3>3, <3>4 DEF TypeOK, FinishPrepared, Still, Steady, Goto
  <2>7. WaitPreparedFailed(r) => Still(q)
    BY DEF TypeOK, WaitPreparedFailed, Still, Steady, CancelAndDrain, Ask, Goto, buffers,
       wires
  <2>8. EndEpoch(r) => Still(q)
    BY DEF TypeOK, EndEpoch, Still, Steady, Ask, Goto, caller, buffers, wires
  <2>9. EpochClosed(r) => Still(q)
    BY DEF TypeOK, EpochClosed, Still, Steady, Answer, CloseEpoch, Return, Goto, caller,
       buffers, wires
  <2> QED
    BY <1>3, <2>1, <2>2, <2>3, <2>4, <2>5, <2>6, <2>7, <2>8, <2>9 DEF EpochStep
<1>4. CASE ReserveStep(r)
  <2>1. Reserve(r) => Still(q)
    BY DEF TypeOK, Reserve, Still, Steady, Ask, Goto, caller, buffers, wires
  <2>2. NextStage(r) => Still(q)
    BY DEF TypeOK, NextStage, Still, Steady, AnswerAndAsk, Answer, caller, buffers, wires
  <2>3. ReserveRefused(r) => Still(q)
    BY DEF TypeOK, ReserveRefused, Still, Steady, Answer, Return, Goto, caller, buffers,
       wires
  <2>4. Reserved(r) => Still(q)
    BY DEF TypeOK, Reserved, Still, Steady, Answer, Return, Goto, caller
  <2> QED BY <1>4, <2>1, <2>2, <2>3, <2>4 DEF ReserveStep
<1> QED BY <1>1, <1>2, <1>3, <1>4 DEF RankStep

-----------------------------------------------------------------------------
(***************************************************************************)
(* Types.                                                                  *)
(***************************************************************************)
ControlTypeOK ==
  /\ pc \in [Ranks -> Pcs]
  /\ vote \in [Ranks -> Statuses \cup {None}]
  /\ verdict \in [Ranks -> Statuses \cup {None}]
  /\ kept \in [Ranks -> Statuses]
  /\ stage \in [Ranks -> Nat]
  /\ outcomes \in [Ranks -> Seq(Failures \cup {"published", "reserved"})]

CallerTypeOK ==
  /\ revision \in [Ranks -> Nat]
  /\ ticket \in [Ranks -> BOOLEAN]
  /\ deferred \in [Ranks -> Statuses]

BuffersTypeOK ==
  /\ outbox \in [Ranks -> Nat]
  /\ inbox \in [Ranks -> [Ranks -> Nat]]
  /\ ghost \in [Ranks -> [Ranks -> Nat]]

WiresTypeOK ==
  /\ sending \in [Ranks -> [Ranks -> Requests]]
  /\ receiving \in [Ranks -> [Ranks -> Requests \ {"buffered"}]]
  /\ network \in [Ranks -> [Ranks -> Seq(Nat)]]

ImplTypeOK == impl \in [Ranks -> Impls]
FaultsTypeOK == faults \in [count : 0 .. MaxFaults, broken : BOOLEAN]

\* The type invariant by groups of variables.
LEMMA TypeParts ==
  TypeOK <=> /\ ControlTypeOK /\ CallerTypeOK /\ BuffersTypeOK /\ WiresTypeOK
             /\ ImplTypeOK /\ FaultsTypeOK
BY DEF TypeOK, ControlTypeOK, CallerTypeOK, BuffersTypeOK, WiresTypeOK,
   ImplTypeOK, FaultsTypeOK

LEMMA TypeNext ==
  ASSUME ControlTypeOK', CallerTypeOK', BuffersTypeOK', WiresTypeOK', ImplTypeOK',
         FaultsTypeOK'
  PROVE  TypeOK'
BY DEF TypeOK, ControlTypeOK, CallerTypeOK, BuffersTypeOK, WiresTypeOK,
   ImplTypeOK, FaultsTypeOK

LEMMA InitType == Init => TypeOK
BY HaloAssumption
   DEF Init, TypeOK, ForAll, NewImpl, Impls, Pcs, Statuses, Requests, None

LEMMA FaultType ==
  ASSUME FaultsTypeOK, NEW kind, Fault(kind) \/ UNCHANGED faults
  PROVE  FaultsTypeOK'
<1>1. CASE Fault(kind)
  <2> DEFINE b == faults.broken \/ kind \in Unrecovered
  <2>1. faults' = [count |-> faults.count + 1, broken |-> b]
    BY <1>1 DEF Fault
  <2>2. b \in BOOLEAN
    OBVIOUS
  <2>3. faults.count + 1 \in 0 .. MaxFaults
    BY <1>1, HaloAssumption DEF FaultsTypeOK, Fault
  <2> HIDE DEF b
  <2> QED BY <2>1, <2>2, <2>3 DEF FaultsTypeOK
<1>2. CASE UNCHANGED faults
  BY <1>2 DEF FaultsTypeOK
<1> QED BY <1>1, <1>2

LEMMA ReturnType ==
  ASSUME ControlTypeOK, NEW r \in Ranks,
         NEW o \in Failures \cup {"published", "reserved"}, Return(r, o),
         vote' \in [Ranks -> Statuses \cup {None}],
         verdict' \in [Ranks -> Statuses \cup {None}]
  PROVE  ControlTypeOK'
<1> DEFINE Outcomes == Failures \cup {"published", "reserved"}
<1>2. outcomes \in [Ranks -> Seq(Outcomes)] /\ outcomes[r] \in Seq(Outcomes)
  BY DEF ControlTypeOK
<1>3. Append(outcomes[r], o) \in Seq(Outcomes)
  BY <1>2
<1>4. outcomes' \in [Ranks -> Seq(Outcomes)]
  BY <1>2, <1>3 DEF Return
<1> HIDE DEF Outcomes
<1>5. pc' \in [Ranks -> Pcs] /\ kept' \in [Ranks -> Statuses] /\ stage' \in [Ranks -> Nat]
  BY DEF ControlTypeOK, Return, Goto, Pcs, Statuses
<1> QED BY <1>4, <1>5 DEF ControlTypeOK, Outcomes

LEMMA StartallType ==
  ASSUME WiresTypeOK, NEW r \in Ranks, NEW To, NEW From, NEW data \in Nat,
         Startall(r, To, From, data)
  PROVE  WiresTypeOK'
<1>1. sending' \in [Ranks -> [Ranks -> Requests]]
  BY DEF WiresTypeOK, Startall, Requests
<1>2. receiving' \in [Ranks -> [Ranks -> Requests \ {"buffered"}]]
  BY DEF WiresTypeOK, Startall, Requests
<1>3. \A q \in Ranks : network[r][q] \in Seq(Nat)
  BY DEF WiresTypeOK
<1>4. \A q \in Ranks : Append(network[r][q], data) \in Seq(Nat)
  BY <1>3
<1>5. network' \in [Ranks -> [Ranks -> Seq(Nat)]]
  BY <1>3, <1>4 DEF WiresTypeOK, Startall
<1> QED BY <1>1, <1>2, <1>5 DEF WiresTypeOK

LEMMA WaitallType ==
  ASSUME WiresTypeOK, NEW r \in Ranks, Waitall(r)
  PROVE  WiresTypeOK'
BY DEF WiresTypeOK, Waitall, Requests

LEMMA CancelType ==
  ASSUME WiresTypeOK, NEW r \in Ranks, CancelAndDrain(r)
  PROVE  WiresTypeOK'
<1>1. CASE impl[r].started
  <2>1. \A q \in Ranks : network[r][q] \in Seq(Nat)
    BY DEF WiresTypeOK
  <2>2. \A q \in Ranks :
          SubSeq(network[r][q], 1, Len(network[r][q]) - 1) \in Seq(Nat)
    BY <2>1
  <2>3. /\ sending' = [sending EXCEPT ![r] = ForAll("inactive")]
        /\ receiving' = [receiving EXCEPT ![r] = ForAll("inactive")]
        /\ network' = [network EXCEPT ![r] = [q \in Ranks |->
             IF sending[r][q] \in {"active", "buffered"}
             THEN SubSeq(network[r][q], 1, Len(network[r][q]) - 1)
             ELSE network[r][q]]]
    BY <1>1, Zenon DEF CancelAndDrain
  <2>4. network' \in [Ranks -> [Ranks -> Seq(Nat)]]
    BY <2>1, <2>2, <2>3 DEF WiresTypeOK
  <2>5. /\ sending' \in [Ranks -> [Ranks -> Requests]]
        /\ receiving' \in [Ranks -> [Ranks -> Requests \ {"buffered"}]]
    BY <2>3 DEF WiresTypeOK, ForAll, Requests
  <2> QED BY <2>4, <2>5 DEF WiresTypeOK
<1>2. CASE ~impl[r].started
  BY <1>2 DEF WiresTypeOK, CancelAndDrain, wires
<1> QED BY <1>1, <1>2

LEMMA UnpackType ==
  ASSUME BuffersTypeOK, NEW r \in Ranks, Unpack(r), UNCHANGED outbox
  PROVE  BuffersTypeOK'
<1>1. inbox' \in [Ranks -> [Ranks -> Nat]]
  BY DEF BuffersTypeOK, Unpack
<1>2. ghost' \in [Ranks -> [Ranks -> Nat]]
  BY <1>1 DEF BuffersTypeOK, Unpack
<1> QED BY <1>1, <1>2 DEF BuffersTypeOK

\* Assigning to members of one engine.
LEMMA ImplType ==
  ASSUME ImplTypeOK, NEW r \in Ranks, NEW i \in Impls, impl' = [impl EXCEPT ![r] = i]
  PROVE  ImplTypeOK'
BY DEF ImplTypeOK

\* The end of an exchange (finish_exchange_state).
LEMMA FinishType ==
  ASSUME ImplTypeOK, CallerTypeOK, NEW r \in Ranks, NEW cert \in Nat,
         FinishExchange(r, cert), UNCHANGED <<revision, deferred>>
  PROVE  CallerTypeOK' /\ ImplTypeOK'
<1> DEFINE i == [impl[r] EXCEPT !.active = FALSE, !.started = FALSE, !.cert = cert]
<1>1. i \in Impls
  BY DEF ImplTypeOK, Impls
<1>2. impl' = [impl EXCEPT ![r] = i]
  BY DEF FinishExchange
<1>3. ImplTypeOK'
  <2> HIDE DEF i
  <2> QED BY <1>1, <1>2, ImplType
<1>4. CallerTypeOK'
  BY DEF CallerTypeOK, FinishExchange
<1> QED BY <1>3, <1>4

LEMMA RecreateType ==
  ASSUME TypeOK, NEW r \in Ranks, NEW s \in {"ok", "request"}, Recreate(r, s)
  PROVE  /\ WiresTypeOK' /\ ImplTypeOK' /\ FaultsTypeOK'
         /\ vote' \in [Ranks -> Statuses \cup {None}]
         /\ verdict' \in [Ranks -> Statuses \cup {None}]
<1>1. WiresTypeOK'
  BY TypeParts, CancelType DEF Recreate
<1>2. FaultsTypeOK'
  BY TypeParts, FaultType DEF Recreate, Try
<1>3. ImplTypeOK'
  <2>1. ImplTypeOK BY TypeParts
  <2>2. impl' = [impl EXCEPT ![r].started = FALSE, ![r].poisoned = s # "ok"]
    BY DEF Recreate
  <2>3. (s # "ok") \in BOOLEAN
    OBVIOUS
  <2> DEFINE i == [impl[r] EXCEPT !.started = FALSE, !.poisoned = s # "ok"]
  <2>4. i \in Impls
    BY <2>1, <2>3 DEF ImplTypeOK, Impls
  <2>5. impl' = [impl EXCEPT ![r] = i]
    BY <2>2
  <2> HIDE DEF i
  <2> QED BY <2>1, <2>4, <2>5, ImplType
<1>4. /\ vote' \in [Ranks -> Statuses \cup {None}]
      /\ verdict' \in [Ranks -> Statuses \cup {None}]
  <2>1. ControlTypeOK BY TypeParts
  <2> QED BY <2>1 DEF Recreate, AnswerAndAsk, Answer, ControlTypeOK, Statuses, Failures
<1> QED BY <1>1, <1>2, <1>3, <1>4

LEMMA BeginStepType ==
  ASSUME TypeOK, NEW r \in Ranks, Local(r), BeginStep(r)
  PROVE  TypeOK'
<1> USE TypeParts, TypeNext
<1>1. CASE Begin(r)
  <2>1. FaultsTypeOK'
    BY <1>1, FaultType, Zenon DEF Begin
  <2>2. ImplTypeOK'
    <3>1. PICK again \in BOOLEAN :
            impl' = [impl EXCEPT ![r].cert = 0,
                                 ![r].poisoned = impl[r].poisoned /\ ~again]
      BY <1>1 DEF Begin
    <3> DEFINE b == impl[r].poisoned /\ ~again
    <3>2. b \in BOOLEAN
      OBVIOUS
    <3> DEFINE i == [impl[r] EXCEPT !.cert = 0, !.poisoned = b]
    <3>3. impl' = [impl EXCEPT ![r] = i]
      BY <3>1
    <3> HIDE DEF b
    <3>4. i \in Impls
      BY <3>2 DEF ImplTypeOK, Impls
    <3> HIDE DEF i
    <3> QED BY <3>3, <3>4, ImplType
  <2>3. ControlTypeOK'
    BY <1>1 DEF ControlTypeOK, Begin, Goto, Ask, Pcs, Statuses, Failures
  <2>4. CallerTypeOK'
    BY <1>1 DEF CallerTypeOK, Begin
  <2>5. BuffersTypeOK'
    BY <1>1, <2>4 DEF CallerTypeOK, BuffersTypeOK, Begin
  <2>6. WiresTypeOK'
    BY <1>1 DEF WiresTypeOK, Begin, wires
  <2> QED BY <2>1, <2>2, <2>3, <2>4, <2>5, <2>6
<1>2. CASE BeginRefused(r)
  <2>1. verdict[r] \in Failures
    BY <1>2 DEF ControlTypeOK, BeginRefused, Answer, Statuses
  <2>2. /\ vote' \in [Ranks -> Statuses \cup {None}]
        /\ verdict' \in [Ranks -> Statuses \cup {None}]
    BY <1>2 DEF ControlTypeOK, BeginRefused, Answer
  <2>3. ControlTypeOK'
    <3>1. Return(r, verdict[r])
      BY <1>2 DEF BeginRefused
    <3> QED BY <2>1, <2>2, <3>1, ReturnType
  <2> QED BY <1>2, <2>3 DEF BeginRefused, caller, buffers, wires, CallerTypeOK,
             BuffersTypeOK, WiresTypeOK, ImplTypeOK, FaultsTypeOK
<1>3. CASE Start(r)
  <2>1. ControlTypeOK'
    BY <1>3 DEF ControlTypeOK, Start, Goto, AnswerAndAsk, Answer, Pcs, Statuses, Failures
  <2>2. outbox[r] \in Nat
    BY DEF BuffersTypeOK
  <2>3. WiresTypeOK'
    BY <1>3, <2>2, StartallType DEF Start
  <2>4. FaultsTypeOK'
    BY <1>3, FaultType DEF Start
  <2>5. ImplTypeOK'
    <3>1. impl' = [impl EXCEPT ![r].started = (Links(r) # {})]
      BY <1>3 DEF Start
    <3>2. (Links(r) # {}) \in BOOLEAN
      OBVIOUS
    <3> DEFINE i == [impl[r] EXCEPT !.started = (Links(r) # {})]
    <3>3. i \in Impls
      BY <3>2 DEF ImplTypeOK, Impls
    <3>4. impl' = [impl EXCEPT ![r] = i]
      BY <3>1
    <3> HIDE DEF i
    <3> QED BY <3>3, <3>4, ImplType
  <2> QED BY <1>3, <2>1, <2>3, <2>4, <2>5 DEF Start, caller, buffers,
             CallerTypeOK, BuffersTypeOK
<1>4. CASE Opened(r)
  <2>1. ControlTypeOK' /\ CallerTypeOK'
    BY <1>4 DEF ControlTypeOK, CallerTypeOK, Opened, Goto, Answer, Pcs
  <2>2. ImplTypeOK'
    <3> DEFINE i == [impl[r] EXCEPT !.pending = revision[r], !.active = TRUE]
    <3>1. i \in Impls
      BY DEF ImplTypeOK, CallerTypeOK, Impls
    <3>2. impl' = [impl EXCEPT ![r] = i]
      BY <1>4 DEF Opened
    <3> HIDE DEF i
    <3> QED BY <3>1, <3>2, ImplType
  <2> QED BY <1>4, <2>1, <2>2 DEF Opened, buffers, wires, BuffersTypeOK,
             WiresTypeOK, FaultsTypeOK
<1>5. CASE StartFailed(r)
  <2>1. PICK s \in {"ok", "request"} : Recreate(r, s)
    BY <1>5 DEF StartFailed
  <2>2. ControlTypeOK'
    <3>1. /\ vote' \in [Ranks -> Statuses \cup {None}]
          /\ verdict' \in [Ranks -> Statuses \cup {None}]
      BY <2>1, RecreateType
    <3>2. verdict[r] \in Statuses
      BY <2>1 DEF ControlTypeOK, Recreate, AnswerAndAsk, Answer
    <3> QED BY <1>5, <3>1, <3>2 DEF ControlTypeOK, StartFailed, Goto, Pcs
  <2> QED BY <1>5, <2>1, <2>2, RecreateType DEF StartFailed, caller, buffers,
             CallerTypeOK, BuffersTypeOK
<1>6. CASE StartReported(r)
  <2>1. kept[r] \in Failures
    BY <1>6 DEF StartReported, Local, Counted, Failures
  <2>2. /\ vote' \in [Ranks -> Statuses \cup {None}]
        /\ verdict' \in [Ranks -> Statuses \cup {None}]
    BY <1>6 DEF ControlTypeOK, StartReported, Answer
  <2>3. ControlTypeOK'
    <3>1. Return(r, kept[r])
      BY <1>6 DEF StartReported
    <3> QED BY <2>1, <2>2, <3>1, ReturnType
  <2>4. ImplTypeOK'
    <3> DEFINE b == impl[r].poisoned \/ verdict[r] # "ok"
    <3>1. b \in BOOLEAN
      OBVIOUS
    <3>2. impl' = [impl EXCEPT ![r].poisoned = b, ![r].active = FALSE]
      BY <1>6 DEF StartReported
    <3> HIDE DEF b
    <3> QED BY <3>1, <3>2 DEF ImplTypeOK, Impls
  <2>5. CallerTypeOK'
    BY <1>6 DEF StartReported, CallerTypeOK
  <2> QED BY <1>6, <2>3, <2>4, <2>5 DEF StartReported, buffers, wires,
             BuffersTypeOK, WiresTypeOK, FaultsTypeOK
<1>7. CASE Reenter(r)
  <2>1. ControlTypeOK' /\ CallerTypeOK'
    BY <1>7 DEF ControlTypeOK, CallerTypeOK, Reenter, Ask, Answer, Statuses, Failures
  <2> QED BY <1>7, <2>1 DEF Reenter, buffers, wires, BuffersTypeOK, WiresTypeOK,
             ImplTypeOK, FaultsTypeOK
<1> QED BY <1>1, <1>2, <1>3, <1>4, <1>5, <1>6, <1>7 DEF BeginStep

LEMMA FinishStepType ==
  ASSUME TypeOK, NEW r \in Ranks, Local(r), FinishStep(r)
  PROVE  TypeOK'
<1> USE TypeParts, TypeNext
<1>1. CASE Finish(r)
  <2>1. ControlTypeOK'
    BY <1>1 DEF ControlTypeOK, Finish, Goto, Ask, Pcs, Statuses, Failures
  <2>2. FaultsTypeOK'
    BY <1>1, FaultType DEF Finish, Try
  <2> QED BY <1>1, <2>1, <2>2 DEF Finish, caller, buffers, wires, CallerTypeOK,
             BuffersTypeOK, WiresTypeOK, ImplTypeOK
<1>2. CASE Wait(r)
  <2>1. ControlTypeOK'
    <3>1. kept' \in [Ranks -> Statuses]
      BY <1>2 DEF ControlTypeOK, Wait, AnswerAndAsk, Answer
    <3> QED BY <1>2, <3>1 DEF ControlTypeOK, Wait, Goto, AnswerAndAsk, Answer, Pcs,
               Statuses, Failures
  <2>2. FaultsTypeOK'
    BY <1>2, FaultType DEF Wait, Try
  <2>3. WiresTypeOK'
    BY <1>2, WaitallType DEF Wait
  <2>4. ImplTypeOK'
    <3>1. PICK s : impl' = [impl EXCEPT ![r].started = impl[r].started /\ s # "ok"]
      BY <1>2 DEF Wait
    <3> DEFINE b == impl[r].started /\ s # "ok"
    <3>2. b \in BOOLEAN
      OBVIOUS
    <3>3. impl' = [impl EXCEPT ![r].started = b]
      BY <3>1
    <3> HIDE DEF b
    <3> QED BY <3>2, <3>3 DEF ImplTypeOK, Impls
  <2> QED BY <1>2, <2>1, <2>2, <2>3, <2>4 DEF Wait, caller, buffers,
             CallerTypeOK, BuffersTypeOK
<1>3. CASE Published(r)
  <2>1. /\ vote' \in [Ranks -> Statuses \cup {None}]
        /\ verdict' \in [Ranks -> Statuses \cup {None}]
    BY <1>3 DEF ControlTypeOK, Published, Answer
  <2>2. ControlTypeOK'
    BY <1>3, <2>1, ReturnType DEF Published
  <2>3. BuffersTypeOK'
    BY <1>3, UnpackType DEF Published
  <2>4. CallerTypeOK' /\ ImplTypeOK'
    <3>1. impl[r].pending \in Nat
      BY DEF ImplTypeOK, Impls
    <3> QED BY <1>3, <3>1, FinishType DEF Published
  <2> QED BY <1>3, <2>2, <2>3, <2>4 DEF Published, wires, WiresTypeOK, FaultsTypeOK
<1>4. CASE PreflightFailed(r)
  <2>1. /\ vote' \in [Ranks -> Statuses \cup {None}]
        /\ verdict' \in [Ranks -> Statuses \cup {None}]
    BY <1>4 DEF ControlTypeOK, PreflightFailed, Answer
  <2>2. kept[r] \in Failures /\ Return(r, kept[r])
    BY <1>4 DEF ControlTypeOK, PreflightFailed, Statuses
  <2>3. ControlTypeOK'
    BY <2>1, <2>2, ReturnType
  <2>4. CallerTypeOK' /\ ImplTypeOK'
    <3>1. impl[r].cert \in Nat
      BY DEF ImplTypeOK, Impls
    <3> QED BY <1>4, <3>1, FinishType DEF PreflightFailed, buffers
  <2> QED BY <1>4, <2>3, <2>4 DEF PreflightFailed, buffers, wires, BuffersTypeOK,
             WiresTypeOK, FaultsTypeOK
<1>5. CASE WaitFailed(r)
  <2>1. PICK s \in {"ok", "request"} : Recreate(r, s)
    BY <1>5 DEF WaitFailed
  <2>2. kept' \in [Ranks -> Statuses]
    BY <1>5 DEF ControlTypeOK, WaitFailed, Statuses, Failures
  <2>3. ControlTypeOK'
    BY <1>5, <2>1, <2>2, RecreateType DEF ControlTypeOK, WaitFailed, Goto, Pcs
  <2> QED BY <1>5, <2>1, <2>3, RecreateType DEF WaitFailed, caller, buffers,
             CallerTypeOK, BuffersTypeOK
<1>6. CASE WaitReported(r)
  <2>1. kept[r] \in Failures /\ Return(r, kept[r])
    BY <1>6 DEF WaitReported, Local, Counted, Failures
  <2>2. /\ vote' \in [Ranks -> Statuses \cup {None}]
        /\ verdict' \in [Ranks -> Statuses \cup {None}]
    BY <1>6 DEF ControlTypeOK, WaitReported, Answer
  <2>3. ControlTypeOK'
    BY <2>1, <2>2, ReturnType
  <2>4. ImplTypeOK'
    <3> DEFINE b == impl[r].poisoned \/ verdict[r] # "ok"
    <3>1. b \in BOOLEAN
      OBVIOUS
    <3> DEFINE i == [impl[r] EXCEPT !.poisoned = b, !.active = FALSE, !.started = FALSE]
    <3>2. impl' = [impl EXCEPT ![r] = i]
      BY <1>6 DEF WaitReported
    <3> HIDE DEF b
    <3>3. i \in Impls
      BY <3>1 DEF ImplTypeOK, Impls
    <3> HIDE DEF i
    <3> QED BY <3>2, <3>3, ImplType
  <2>5. CallerTypeOK'
    BY <1>6 DEF WaitReported, CallerTypeOK
  <2> QED BY <1>6, <2>3, <2>4, <2>5 DEF WaitReported, buffers, wires,
             BuffersTypeOK, WiresTypeOK, FaultsTypeOK
<1> QED BY <1>1, <1>2, <1>3, <1>4, <1>5, <1>6 DEF FinishStep

LEMMA CloseType ==
  ASSUME ImplTypeOK, NEW r \in Ranks, NEW publish, CloseEpoch(r, publish)
  PROVE  ImplTypeOK'
<1> DEFINE n == IF publish /\ ~impl[r].active /\ ~impl[r].started /\ ~impl[r].poisoned
                THEN impl[r].pending ELSE 0
           i == [impl EXCEPT ![r].cert = n, ![r].epoch = FALSE, ![r].valid = FALSE]
<1>1. n \in Nat
  BY DEF ImplTypeOK, Impls
<1>2. impl' = i \/ impl' = impl
  BY DEF CloseEpoch
<1> HIDE DEF n
<1> QED BY <1>1, <1>2 DEF ImplTypeOK, Impls

LEMMA EpochStepType ==
  ASSUME TypeOK, NEW r \in Ranks, Local(r), EpochStep(r)
  PROVE  TypeOK'
<1> USE TypeParts, TypeNext
<1>1. CASE EnterEpoch(r)
  <2>1. ControlTypeOK' /\ CallerTypeOK'
    BY <1>1 DEF ControlTypeOK, CallerTypeOK, EnterEpoch, Goto, Ask, Pcs, Statuses,
       Failures
  <2>2. FaultsTypeOK'
    BY <1>1, FaultType DEF EnterEpoch, Try
  <2>3. ImplTypeOK'
    <3>1. PICK refused \in BOOLEAN :
            impl' = [impl EXCEPT ![r].cert = 0, ![r].pending = 0,
                                 ![r].epoch = impl[r].epoch \/ ~refused,
                                 ![r].valid = impl[r].valid /\ refused]
      <4> DEFINE R == \/ impl[r].epoch \/ impl[r].active
                      \/ impl[r].started \/ impl[r].poisoned
      <4>1. R \in BOOLEAN
        OBVIOUS
      <4>2. impl' = [impl EXCEPT ![r].cert = 0, ![r].pending = 0,
                                 ![r].epoch = impl[r].epoch \/ ~R,
                                 ![r].valid = impl[r].valid /\ R]
        BY <1>1, Zenon DEF EnterEpoch
      <4> HIDE DEF R
      <4> QED BY <4>1, <4>2, Zenon
    <3> DEFINE b == impl[r].epoch \/ ~refused
               c == impl[r].valid /\ refused
    <3>2. b \in BOOLEAN /\ c \in BOOLEAN
      OBVIOUS
    <3>3. impl' = [impl EXCEPT ![r].cert = 0, ![r].pending = 0,
                               ![r].epoch = b, ![r].valid = c]
      BY <3>1
    <3> HIDE DEF b, c
    <3> DEFINE i == [impl[r] EXCEPT !.cert = 0, !.pending = 0, !.epoch = b, !.valid = c]
    <3>4. impl' = [impl EXCEPT ![r] = i]
      BY <3>3 DEF ImplTypeOK
    <3>5. i \in Impls
      BY <3>2 DEF ImplTypeOK, Impls
    <3> HIDE DEF i
    <3> QED BY <3>4, <3>5, ImplType
  <2> QED BY <1>1, <2>1, <2>2, <2>3 DEF EnterEpoch, buffers, wires,
             BuffersTypeOK, WiresTypeOK
<1>2. CASE EpochEntered(r)
  <2>1. ControlTypeOK'
    BY <1>2 DEF ControlTypeOK, EpochEntered, Goto, Answer, Pcs
  <2> QED BY <1>2, <2>1 DEF EpochEntered, caller, buffers, wires, CallerTypeOK,
             BuffersTypeOK, WiresTypeOK, ImplTypeOK, FaultsTypeOK
<1>3. CASE EpochRefused(r)
  <2>1. verdict[r] \in Failures /\ Return(r, verdict[r])
    BY <1>3 DEF ControlTypeOK, EpochRefused, Answer, Statuses
  <2>2. /\ vote' \in [Ranks -> Statuses \cup {None}]
        /\ verdict' \in [Ranks -> Statuses \cup {None}]
    BY <1>3 DEF ControlTypeOK, EpochRefused, Answer
  <2>3. ControlTypeOK'
    BY <2>1, <2>2, ReturnType
  <2>4. ImplTypeOK'
    BY <1>3, CloseType DEF EpochRefused
  <2> QED BY <1>3, <2>3, <2>4 DEF EpochRefused, caller, buffers, wires,
             CallerTypeOK, BuffersTypeOK, WiresTypeOK, FaultsTypeOK
<1>4. CASE BeginPrepared(r)
  <2>1. PICK s \in {"ok", "state", "field"} :
          /\ Retain(r, s)
          /\ outbox' = [outbox EXCEPT ![r] = IF s = "ok" THEN revision'[r] ELSE @]
          /\ impl' = [impl EXCEPT
               ![r].pending = IF s = "ok" THEN revision'[r] ELSE @,
               ![r].valid = (s = "ok"), ![r].active = TRUE,
               ![r].started = (Links(r) # {})]
          /\ Fault("epochReject") \/ UNCHANGED faults
    BY <1>4 DEF BeginPrepared, Try
  <2>2. CallerTypeOK'
    BY <1>4, <2>1 DEF CallerTypeOK, BeginPrepared, Retain, Statuses, Failures
  <2>3. BuffersTypeOK'
    BY <1>4, <2>1, <2>2 DEF CallerTypeOK, BuffersTypeOK, BeginPrepared
  <2>4. ControlTypeOK'
    BY <1>4 DEF ControlTypeOK, BeginPrepared, Goto, Pcs
  <2>5. FaultsTypeOK'
    BY <2>1, FaultType
  <2>6. ImplTypeOK'
    <3> DEFINE n == IF s = "ok" THEN revision'[r] ELSE impl[r].pending
               b == s = "ok"
               c == Links(r) # {}
    <3>1. n \in Nat /\ b \in BOOLEAN /\ c \in BOOLEAN
      BY <2>2 DEF CallerTypeOK, ImplTypeOK, Impls
    <3>2. impl' = [impl EXCEPT ![r].pending = n, ![r].valid = b,
                               ![r].active = TRUE, ![r].started = c]
      BY <2>1
    <3> HIDE DEF n, b, c
    <3> DEFINE i == [impl[r] EXCEPT !.pending = n, !.valid = b, !.active = TRUE,
                                    !.started = c]
    <3>3. impl' = [impl EXCEPT ![r] = i]
      BY <3>2 DEF ImplTypeOK
    <3>4. i \in Impls
      BY <3>1 DEF ImplTypeOK, Impls
    <3> HIDE DEF i
    <3> QED BY <3>3, <3>4, ImplType
  <2>7. WiresTypeOK'
    <3>1. outbox'[r] \in Nat
      BY <2>3 DEF BuffersTypeOK
    <3> QED BY <1>4, <3>1, StartallType DEF BeginPrepared
  <2> QED BY <2>2, <2>3, <2>4, <2>5, <2>6, <2>7
<1>5. CASE StartPreparedFailed(r)
  <2>1. ControlTypeOK' /\ CallerTypeOK'
    BY <1>5 DEF ControlTypeOK, CallerTypeOK, StartPreparedFailed, Goto, Ask, Pcs,
       Statuses, Failures
  <2>2. FaultsTypeOK'
    BY <1>5, FaultType DEF StartPreparedFailed
  <2>3. ImplTypeOK'
    <3> DEFINE i == [impl[r] EXCEPT !.poisoned = TRUE, !.active = FALSE,
                                    !.started = FALSE, !.valid = FALSE]
    <3>1. impl' = [impl EXCEPT ![r] = i]
      BY <1>5 DEF ImplTypeOK, StartPreparedFailed
    <3>2. i \in Impls
      BY DEF ImplTypeOK, Impls
    <3> HIDE DEF i
    <3> QED BY <3>1, <3>2, ImplType
  <2> QED BY <1>5, <2>1, <2>2, <2>3 DEF StartPreparedFailed, buffers, wires,
             BuffersTypeOK, WiresTypeOK
<1>6. CASE FinishPrepared(r)
  <2>1. PICK s \in {"ok", "state", "field"} :
          /\ Retain(r, s)
          /\ Unpack(r) \/ UNCHANGED <<inbox, ghost>>
          /\ Fault("epochRebind") \/ UNCHANGED faults
    BY <1>6 DEF FinishPrepared, Try
  <2>2. ControlTypeOK'
    BY <1>6 DEF ControlTypeOK, FinishPrepared, Goto, Pcs
  <2>3. CallerTypeOK'
    BY <1>6, <2>1 DEF CallerTypeOK, FinishPrepared, Retain, Statuses, Failures
  <2>4. BuffersTypeOK'
    <3>1. UNCHANGED outbox
      BY <1>6 DEF FinishPrepared
    <3>2. CASE Unpack(r)
      BY <3>1, <3>2, UnpackType
    <3>3. CASE UNCHANGED <<inbox, ghost>>
      BY <3>1, <3>3 DEF BuffersTypeOK
    <3> QED BY <2>1, <3>2, <3>3
  <2>5. WiresTypeOK'
    BY <1>6, WaitallType DEF FinishPrepared
  <2>6. FaultsTypeOK'
    BY <2>1, FaultType
  <2>7. ImplTypeOK'
    <3> DEFINE i == [impl[r] EXCEPT !.active = FALSE, !.started = FALSE,
                                    !.valid = FALSE]
    <3>1. impl' = [impl EXCEPT ![r] = i]
      BY <1>6 DEF ImplTypeOK, FinishPrepared
    <3>2. i \in Impls
      BY DEF ImplTypeOK, Impls
    <3> HIDE DEF i
    <3> QED BY <3>1, <3>2, ImplType
  <2> QED BY <2>2, <2>3, <2>4, <2>5, <2>6, <2>7
<1>7. CASE WaitPreparedFailed(r)
  <2>1. ControlTypeOK' /\ CallerTypeOK'
    BY <1>7 DEF ControlTypeOK, CallerTypeOK, WaitPreparedFailed, Goto, Ask, Pcs,
       Statuses, Failures
  <2>2. FaultsTypeOK'
    BY <1>7, FaultType DEF WaitPreparedFailed
  <2>3. ImplTypeOK'
    BY <1>7 DEF ImplTypeOK, Impls, WaitPreparedFailed
  <2>4. WiresTypeOK'
    BY <1>7, CancelType DEF WaitPreparedFailed
  <2> QED BY <1>7, <2>1, <2>2, <2>3, <2>4 DEF WaitPreparedFailed, buffers,
             BuffersTypeOK
<1>8. CASE EndEpoch(r)
  <2>1. ControlTypeOK'
    BY <1>8 DEF ControlTypeOK, CallerTypeOK, EndEpoch, Goto, Ask, Pcs
  <2> QED BY <1>8, <2>1 DEF EndEpoch, caller, buffers, wires, CallerTypeOK,
             BuffersTypeOK, WiresTypeOK, ImplTypeOK, FaultsTypeOK
<1>9. CASE EpochClosed(r)
  <2> DEFINE o == IF verdict[r] = "ok" THEN "published" ELSE verdict[r]
  <2>1. o \in Failures \cup {"published", "reserved"} /\ Return(r, o)
    BY <1>9 DEF ControlTypeOK, EpochClosed, Answer, Statuses
  <2>2. /\ vote' \in [Ranks -> Statuses \cup {None}]
        /\ verdict' \in [Ranks -> Statuses \cup {None}]
    BY <1>9 DEF ControlTypeOK, EpochClosed, Answer
  <2> HIDE DEF o
  <2>3. ControlTypeOK'
    BY <2>1, <2>2, ReturnType
  <2>4. ImplTypeOK'
    BY <1>9, CloseType DEF EpochClosed
  <2> QED BY <1>9, <2>3, <2>4 DEF EpochClosed, caller, buffers, wires,
             CallerTypeOK, BuffersTypeOK, WiresTypeOK, FaultsTypeOK
<1> QED BY <1>1, <1>2, <1>3, <1>4, <1>5, <1>6, <1>7, <1>8, <1>9 DEF EpochStep

LEMMA ReserveStepType ==
  ASSUME TypeOK, NEW r \in Ranks, Local(r), ReserveStep(r)
  PROVE  TypeOK'
<1> USE TypeParts, TypeNext
<1>1. CASE Reserve(r)
  <2>1. ControlTypeOK'
    BY <1>1 DEF ControlTypeOK, Reserve, Goto, Ask, Pcs, Statuses, Failures
  <2>2. FaultsTypeOK'
    BY <1>1, FaultType DEF Reserve, Try
  <2> QED BY <1>1, <2>1, <2>2 DEF Reserve, caller, buffers, wires, CallerTypeOK,
             BuffersTypeOK, WiresTypeOK, ImplTypeOK
<1>2. CASE NextStage(r)
  <2>1. ControlTypeOK'
    BY <1>2 DEF ControlTypeOK, NextStage, AnswerAndAsk, Answer, Statuses, Failures
  <2>2. FaultsTypeOK'
    BY <1>2, FaultType DEF NextStage, Try
  <2> QED BY <1>2, <2>1, <2>2 DEF NextStage, caller, buffers, wires, CallerTypeOK,
             BuffersTypeOK, WiresTypeOK, ImplTypeOK
<1>3. CASE ReserveRefused(r)
  <2>1. verdict[r] \in Failures /\ Return(r, verdict[r])
    BY <1>3 DEF ControlTypeOK, ReserveRefused, Answer, Statuses
  <2>2. /\ vote' \in [Ranks -> Statuses \cup {None}]
        /\ verdict' \in [Ranks -> Statuses \cup {None}]
    BY <1>3 DEF ControlTypeOK, ReserveRefused, Answer
  <2>3. ControlTypeOK'
    BY <2>1, <2>2, ReturnType
  <2> QED BY <1>3, <2>3 DEF ReserveRefused, caller, buffers, wires, CallerTypeOK,
             BuffersTypeOK, WiresTypeOK, ImplTypeOK, FaultsTypeOK
<1>4. CASE Reserved(r)
  <2>1. /\ vote' \in [Ranks -> Statuses \cup {None}]
        /\ verdict' \in [Ranks -> Statuses \cup {None}]
    BY <1>4 DEF ControlTypeOK, Reserved, Answer
  <2>2. ControlTypeOK'
    BY <1>4, <2>1, ReturnType DEF Reserved
  <2>3. BuffersTypeOK'
    BY <1>4 DEF BuffersTypeOK, Reserved, ForAll
  <2>4. WiresTypeOK'
    <3>1. /\ sending' \in [Ranks -> [Ranks -> Requests]]
          /\ receiving' \in [Ranks -> [Ranks -> Requests \ {"buffered"}]]
      BY <1>4 DEF WiresTypeOK, Reserved, ForAll, Requests
    <3>2. \A p, q \in Ranks : network[p][q] \in Seq(Nat)
      BY DEF WiresTypeOK
    <3>3. network' \in [Ranks -> [Ranks -> Seq(Nat)]]
      BY <1>4, <3>2 DEF Reserved
    <3> QED BY <3>1, <3>3 DEF WiresTypeOK
  <2>5. ImplTypeOK'
    BY <1>4 DEF ImplTypeOK, Impls, Reserved, NewImpl
  <2> QED BY <1>4, <2>2, <2>3, <2>4, <2>5 DEF Reserved, caller, CallerTypeOK,
             FaultsTypeOK
<1> QED BY <1>1, <1>2, <1>3, <1>4 DEF ReserveStep

LEMMA RankType ==
  ASSUME TypeOK, NEW r \in Ranks, Local(r), RankStep(r)
  PROVE  TypeOK'
BY BeginStepType, FinishStepType, EpochStepType, ReserveStepType DEF RankStep

\* A nonempty set of ranks has a lowest one.
LEMMA LowestRank ==
  ASSUME NEW T \in SUBSET Ranks, T # {}
  PROVE  \E l \in T : \A q \in T : l <= q
<1>1. T \in SUBSET Nat
  BY HaloAssumption DEF Ranks
<1>2. PICK l \in T : \A q \in T : <<q, l>> \notin OpToRel(<, Nat)
  BY <1>1, WFMin, NatLessThanWellFounded, Zenon
<1>3. \A q \in T : ~(q < l)
  BY <1>1, <1>2 DEF OpToRel
<1> QED BY <1>1, <1>3

\* raw_collective_status: ok if all ranks are, or else what some rank said.
LEMMA Agreed ==
  ASSUME TypeOK, Agree
  PROVE  \E v \in Statuses :
           /\ verdict' = ForAll(v) /\ vote' = ForAll(None)
           /\ \A q \in Ranks : vote[q] # None /\ (v = "ok" => vote[q] = "ok")
           /\ \E q \in Ranks : vote[q] = v
<1> DEFINE failing == {q \in Ranks : vote[q] # "ok"}
           lowest == CHOOSE l \in failing : \A q \in failing : l <= q
<1>1. \A q \in Ranks : vote[q] \in Statuses
  BY DEF TypeOK, Agree
<1>2. CASE failing = {}
  <2>1. verdict' = ForAll("ok")
    BY <1>2 DEF Agree
  <2>2. 0 \in Ranks
    BY HaloAssumption DEF Ranks
  <2> QED BY <1>1, <1>2, <2>1, <2>2 DEF Agree, Statuses
<1>3. CASE failing # {}
  <2>1. verdict' = ForAll(vote[lowest])
    BY <1>3 DEF Agree
  <2>2. lowest \in failing
    <3>1. \E l \in failing : \A q \in failing : l <= q
      BY <1>3, LowestRank
    <3> QED BY <3>1
  <2> HIDE DEF lowest
  <2> QED BY <1>1, <2>1, <2>2 DEF Agree
<1> QED BY <1>2, <1>3

LEMMA AgreeType ==
  ASSUME TypeOK, Agree
  PROVE  TypeOK'
<1>1. PICK v \in Statuses : verdict' = ForAll(v) /\ vote' = ForAll(None)
  BY Agreed
<1>2. ControlTypeOK'
  <2>1. ControlTypeOK /\ UNCHANGED <<pc, kept, stage, outcomes>>
    BY TypeParts DEF Agree
  <2> QED BY <1>1, <2>1 DEF ControlTypeOK, ForAll
<1>3. CallerTypeOK' /\ ImplTypeOK' /\ FaultsTypeOK'
  <2>1. CallerTypeOK /\ ImplTypeOK /\ FaultsTypeOK /\ UNCHANGED <<caller, impl, faults>>
    BY TypeParts DEF Agree
  <2> QED BY <2>1 DEF caller, CallerTypeOK, ImplTypeOK, FaultsTypeOK
<1>4. BuffersTypeOK' /\ WiresTypeOK'
  <2>1. BuffersTypeOK /\ WiresTypeOK /\ UNCHANGED <<buffers, wires>>
    BY TypeParts DEF Agree
  <2> QED BY <2>1 DEF buffers, wires, BuffersTypeOK, WiresTypeOK
<1> QED BY <1>2, <1>3, <1>4, TypeNext

LEMMA MatchType ==
  ASSUME TypeOK, NEW p \in Ranks, NEW q \in Ranks, Match(p, q)
  PROVE  TypeOK'
<1> USE TypeParts, TypeNext
<1>1. network[p][q] \in Seq(Nat) /\ network[p][q] # <<>>
  BY DEF WiresTypeOK, Match
<1>2. Head(network[p][q]) \in Nat /\ Tail(network[p][q]) \in Seq(Nat)
  BY <1>1
<1>3. network' = [network EXCEPT ![p][q] = Tail(network[p][q])]
  BY DEF Match
<1>4. network' \in [Ranks -> [Ranks -> Seq(Nat)]]
  BY <1>2, <1>3 DEF WiresTypeOK
<1>5. /\ sending' \in [Ranks -> [Ranks -> Requests]]
      /\ receiving' \in [Ranks -> [Ranks -> Requests \ {"buffered"}]]
  BY DEF WiresTypeOK, Match, Requests
<1>6. BuffersTypeOK'
  BY <1>2 DEF BuffersTypeOK, Match
<1> QED BY <1>4, <1>5, <1>6 DEF Match, control, caller, ControlTypeOK,
           CallerTypeOK, WiresTypeOK, ImplTypeOK, FaultsTypeOK

LEMMA BufferType ==
  ASSUME TypeOK, NEW p \in Ranks, NEW q \in Ranks, Buffer(p, q)
  PROVE  TypeOK'
BY DEF TypeOK, Buffer, Requests, control, caller, buffers

-----------------------------------------------------------------------------
(***************************************************************************)
(* What holds of a rank alone, and where it goes.                          *)
(***************************************************************************)
LEMMA SteadyLocal ==
  ASSUME NEW q \in Ranks, Steady(q)
  PROVE  /\ Local(q) => Local(q)'
         /\ Destination(q)' = Destination(q)
<1>1. Round(q)' = Round(q)
  BY DEF Steady, Round
<1>2. Local(q) => Local(q)'
  BY <1>1 DEF Steady, Local, Seated, Placed, Counted, Flagged, Sound, Pending, Says
<1>3. /\ Leaves(q)' = Leaves(q) /\ Outcome(q)' = Outcome(q)
  BY DEF Steady, Leaves, Outcome
<1>4. Log(q)' = Log(q)
  BY <1>3 DEF Steady, Log
<1>5. Target(q)' = Target(q)
  BY <1>1, <1>3, <1>4 DEF Steady, Target, Opening
<1>6. Carried(q)' = Carried(q) /\ Stage(q)' = Stage(q)
  BY <1>3 DEF Steady, Carried, Stage
<1> QED BY <1>2, <1>4, <1>5, <1>6 DEF Destination

\* The types of what a rank has.
LEMMA RankTypes ==
  ASSUME TypeOK, NEW r \in Ranks
  PROVE  /\ pc[r] \in Pcs /\ vote[r] \in Statuses \cup {None}
         /\ verdict[r] \in Statuses \cup {None} /\ kept[r] \in Statuses
         /\ stage[r] \in Nat /\ outcomes[r] \in Seq(Failures \cup {"published", "reserved"})
         /\ revision[r] \in Nat /\ ticket[r] \in BOOLEAN /\ deferred[r] \in Statuses
         /\ impl[r] \in Impls
BY DEF TypeOK

LEMMA BeginLocal ==
  ASSUME TypeOK, NEW r \in Ranks, Local(r), Begin(r)
  PROVE  Local(r)' /\ Destination(r)' = Destination(r)
<1>1. /\ pc[r] = "idle" /\ pc'[r] = "begin"
      /\ vote'[r] \in {"ok", "field", "request"} /\ verdict'[r] = verdict[r]
      /\ kept'[r] = kept[r] /\ stage'[r] = stage[r] /\ outcomes'[r] = outcomes[r]
      /\ revision'[r] = revision[r] + 1 /\ ticket'[r] = ticket[r]
      /\ deferred'[r] = deferred[r]
  BY DEF TypeOK, Begin, Goto, Ask
<1>a. /\ impl'[r].cert = 0 /\ impl'[r].active = impl[r].active
      /\ impl'[r].started = impl[r].started /\ impl'[r].epoch = impl[r].epoch
  BY DEF TypeOK, Begin, Impls
<1>b. vote'[r] = "ok" => ~impl'[r].poisoned
  <2>1. PICK s \in {"ok", "field", "request"}, again \in BOOLEAN :
          /\ s = "ok" => again
          /\ impl' = [impl EXCEPT ![r].cert = 0,
                                  ![r].poisoned = impl[r].poisoned /\ ~again]
          /\ vote' = [vote EXCEPT ![r] = s]
    BY Zenon DEF Begin, Ask
  <2> DEFINE b == impl[r].poisoned /\ ~again
  <2>2. impl' = [impl EXCEPT ![r].cert = 0, ![r].poisoned = b]
    BY <2>1
  <2>3. s = "ok" => ~b
    BY <2>1
  <2>4. vote'[r] = s
    BY <2>1 DEF TypeOK
  <2> HIDE DEF b
  <2>5. impl'[r].poisoned = b
    BY <2>2 DEF TypeOK, Impls
  <2> QED BY <2>3, <2>4, <2>5, Zenon
<1>2. Round(r) \in {"exchange", "reenter"} /\ Round(r)' = Round(r)
  BY <1>1 DEF Begin, Round
<1>3. verdict[r] = None /\ vote[r] = None
  BY <1>1 DEF Local, Seated, Ballot
<1>4. Local(r)'
  <2>1. Seated(r)' BY <1>1, <1>2, <1>3 DEF Seated, Ballot, None
  <2>2. Placed(r)' BY <1>1, <1>2 DEF Placed
  <2>3. Counted(r)' BY <1>1, <1>2 DEF Local, Counted
  <2>4. Flagged(r)' BY <1>1, <1>a, <1>2 DEF Local, Flagged
  <2>5. Sound(r)' BY <1>1, <1>b, <1>2, <1>3 DEF Sound, Says, None
  <2>6. Pending(r)' BY <1>1, <1>2, <1>3, RankTypes DEF Pending
  <2> QED BY <2>1, <2>2, <2>3, <2>4, <2>5, <2>6 DEF Local
<1>5. Destination(r)' = Destination(r)
  <2>1. ~Leaves(r) /\ ~Leaves(r)'
    BY <1>1, <1>3 DEF Leaves
  <2>2. Log(r)' = Log(r)
    BY <1>1, <2>1 DEF Log
  <2>3. Target(r)' = "begin"
    BY <1>1, <1>3, <2>1 DEF Target
  <2>4. Target(r) = "begin"
    BY <1>1, <1>2, <2>1, RoundType DEF Target, Log, Opening, None
  <2>5. Carried(r)' = Carried(r) /\ Stage(r)' = Stage(r)
    BY <1>1, <1>3, <2>1 DEF Carried, Stage, Local, Counted
  <2> QED BY <2>2, <2>3, <2>4, <2>5 DEF Destination
<1> QED BY <1>4, <1>5

LEMMA StartLocal ==
  ASSUME TypeOK, NEW r \in Ranks, Local(r), Start(r)
  PROVE  Local(r)' /\ Destination(r)' = Destination(r)
<1>1. /\ pc[r] = "begin" /\ pc'[r] = "start"
      /\ verdict[r] = "ok" /\ verdict'[r] = None /\ vote'[r] \in {"ok", "start"}
      /\ kept'[r] = kept[r] /\ stage'[r] = stage[r] /\ outcomes'[r] = outcomes[r]
      /\ revision'[r] = revision[r] /\ ticket'[r] = ticket[r]
      /\ deferred'[r] = deferred[r]
  BY DEF TypeOK, Start, Goto, AnswerAndAsk, Answer, caller
<1>2. /\ impl'[r].cert = impl[r].cert /\ impl'[r].active = impl[r].active
      /\ impl'[r].epoch = impl[r].epoch /\ impl'[r].poisoned = impl[r].poisoned
  BY DEF TypeOK, Start, Impls
<1>3. Round(r)' = Round(r)
  BY <1>1 DEF Round
<1>4. Local(r)'
  BY <1>1, <1>2, <1>3 DEF Local, Seated, Placed, Counted, Flagged, Sound, Pending,
     Says, Ballot, None
<1>5. ~Leaves(r) /\ ~Leaves(r)'
  BY <1>1 DEF Leaves
<1> QED BY <1>1, <1>4, <1>5 DEF Destination, Log, Target, Carried, Stage, Local, Counted, None

LEMMA ReturnLocal ==
  ASSUME TypeOK, NEW r \in Ranks, Local(r), Leaves(r), Return(r, Outcome(r)),
         Answer(r), UNCHANGED vote, ~ticket'[r],
         ~impl'[r].active, ~impl'[r].started, ~impl'[r].epoch
  PROVE  Local(r)' /\ Destination(r)' = Destination(r)
<1>1. /\ pc'[r] = "idle" /\ verdict'[r] = None /\ vote'[r] = vote[r]
      /\ kept'[r] = "ok" /\ stage'[r] = 0
      /\ outcomes'[r] = Append(outcomes[r], Outcome(r))
  BY DEF TypeOK, Return, Goto, Answer
<1>2. vote[r] = None
  BY DEF Leaves, Local, Seated
<1>3. Local(r)'
  BY <1>1, <1>2 DEF Local, Seated, Placed, Counted, Flagged, Sound, Pending, Says,
     Ballot, None
<1>4. ~Leaves(r)'
  BY <1>1 DEF Leaves
<1>5. Log(r)' = Log(r)
  BY <1>1, <1>4 DEF Log
<1>6. Opening(Log(r))' = Opening(Log(r))
  BY <1>5 DEF Opening
<1>7. Target(r)' = Target(r)
  BY <1>1, <1>6 DEF Target
<1>8. Carried(r)' = Carried(r) /\ Stage(r)' = Stage(r)
  BY <1>1 DEF Carried, Stage
<1> QED BY <1>3, <1>5, <1>7, <1>8 DEF Destination

\* The steps that end a round.
LEMMA ReturnsLocal ==
  ASSUME TypeOK, NEW r \in Ranks, Local(r),
         \/ BeginRefused(r) \/ StartReported(r) \/ Published(r)
         \/ PreflightFailed(r) \/ WaitReported(r) \/ EpochRefused(r)
         \/ EpochClosed(r) \/ ReserveRefused(r) \/ Reserved(r)
  PROVE  /\ Leaves(r) /\ Return(r, Outcome(r))
         /\ Local(r)' /\ Destination(r)' = Destination(r)
<1> SUFFICES /\ Leaves(r) /\ Return(r, Outcome(r)) /\ Answer(r) /\ UNCHANGED vote
             /\ ~ticket'[r]
             /\ ~impl'[r].active /\ ~impl'[r].started /\ ~impl'[r].epoch
  BY ReturnLocal
<1>1. CASE BeginRefused(r)
  BY <1>1 DEF BeginRefused, Answer, Leaves, Outcome, Local, Flagged, caller
<1>2. CASE StartReported(r)
  <2>1. ~impl[r].started /\ ~impl[r].epoch
    BY <1>2 DEF StartReported, Local, Flagged
  <2>2. /\ impl'[r].active = FALSE /\ impl'[r].started = impl[r].started
        /\ impl'[r].epoch = impl[r].epoch
    BY <1>2 DEF TypeOK, Impls, StartReported
  <2>3. ~ticket'[r]
    BY <1>2 DEF TypeOK, StartReported
  <2> QED BY <1>2, <2>1, <2>2, <2>3 DEF StartReported, Answer, Leaves, Outcome
<1>3. CASE Published(r)
  <2>1. ~impl[r].epoch
    BY <1>3 DEF Published, Local, Flagged
  <2>2. /\ impl'[r].active = FALSE /\ impl'[r].started = FALSE
        /\ impl'[r].epoch = impl[r].epoch
    BY <1>3 DEF TypeOK, Impls, Published, FinishExchange
  <2>3. ~ticket'[r]
    BY <1>3 DEF TypeOK, Published, FinishExchange
  <2> QED BY <1>3, <2>1, <2>2, <2>3 DEF Published, Answer, Leaves, Outcome
<1>4. CASE PreflightFailed(r)
  <2>1. ~impl[r].epoch
    BY <1>4 DEF PreflightFailed, Local, Flagged
  <2>2. /\ impl'[r].active = FALSE /\ impl'[r].started = FALSE
        /\ impl'[r].epoch = impl[r].epoch
    BY <1>4 DEF TypeOK, Impls, PreflightFailed, FinishExchange
  <2>3. ~ticket'[r]
    BY <1>4 DEF TypeOK, PreflightFailed, FinishExchange
  <2> QED BY <1>4, <2>1, <2>2, <2>3 DEF PreflightFailed, Answer, Leaves, Outcome
<1>5. CASE WaitReported(r)
  <2>1. ~impl[r].epoch
    BY <1>5 DEF WaitReported, Local, Flagged
  <2>2. /\ impl'[r].active = FALSE /\ impl'[r].started = FALSE
        /\ impl'[r].epoch = impl[r].epoch
    BY <1>5 DEF TypeOK, Impls, WaitReported
  <2>3. ~ticket'[r]
    BY <1>5 DEF TypeOK, WaitReported
  <2> QED BY <1>5, <2>1, <2>2, <2>3 DEF WaitReported, Answer, Leaves, Outcome
<1>6. CASE EpochRefused(r)
  <2>1. ~impl[r].active /\ ~impl[r].started /\ ~ticket[r]
    BY <1>6 DEF EpochRefused, Local, Flagged
  <2>2. /\ impl'[r].active = impl[r].active /\ impl'[r].started = impl[r].started
        /\ impl'[r].epoch = FALSE
    <3>1. CASE impl[r].epoch
      BY <1>6, <3>1 DEF TypeOK, Impls, EpochRefused, CloseEpoch
    <3>2. CASE ~impl[r].epoch
      BY <1>6, <3>2 DEF TypeOK, Impls, EpochRefused, CloseEpoch
    <3> QED BY <3>1, <3>2
  <2> QED BY <1>6, <2>1, <2>2 DEF EpochRefused, Answer, Leaves, Outcome, caller
<1>7. CASE EpochClosed(r)
  <2>1. ~impl[r].active /\ ~impl[r].started /\ ~ticket[r]
    BY <1>7 DEF EpochClosed, Local, Flagged
  <2>2. /\ impl'[r].active = impl[r].active /\ impl'[r].started = impl[r].started
        /\ impl'[r].epoch = FALSE
    <3>1. CASE impl[r].epoch
      BY <1>7, <3>1 DEF TypeOK, Impls, EpochClosed, CloseEpoch
    <3>2. CASE ~impl[r].epoch
      BY <1>7, <3>2 DEF TypeOK, Impls, EpochClosed, CloseEpoch
    <3> QED BY <3>1, <3>2
  <2>3. Return(r, Outcome(r))
    BY <1>7 DEF EpochClosed, Outcome
  <2> QED BY <1>7, <2>1, <2>2, <2>3 DEF EpochClosed, Answer, Leaves, caller
<1>8. CASE ReserveRefused(r)
  BY <1>8 DEF ReserveRefused, Answer, Leaves, Outcome, Local, Flagged, caller
<1>9. CASE Reserved(r)
  <2>1. ~ticket[r]
    BY <1>9 DEF Reserved, Local, Flagged
  <2>2. impl'[r] = NewImpl
    BY <1>9 DEF TypeOK, Reserved
  <2> QED BY <1>9, <2>1, <2>2 DEF Reserved, Answer, Leaves, Outcome, NewImpl, caller
<1> QED BY <1>1, <1>2, <1>3, <1>4, <1>5, <1>6, <1>7, <1>8, <1>9

\* Opened, StartFailed, Reenter.
LEMMA OpenedLocal ==
  ASSUME TypeOK, NEW r \in Ranks, Local(r), Opened(r)
  PROVE  Local(r)' /\ Destination(r)' = Destination(r)
<1>1. /\ pc[r] = "start" /\ pc'[r] = "open"
      /\ verdict[r] = "ok" /\ verdict'[r] = None /\ vote'[r] = vote[r]
      /\ kept'[r] = kept[r] /\ stage'[r] = stage[r] /\ outcomes'[r] = outcomes[r]
      /\ revision'[r] = revision[r] /\ ticket'[r] = TRUE
      /\ deferred'[r] = deferred[r]
  BY DEF TypeOK, Opened, Goto, Answer
<1>2. /\ impl'[r].cert = impl[r].cert /\ impl'[r].active = TRUE
      /\ impl'[r].started = impl[r].started
      /\ impl'[r].epoch = impl[r].epoch /\ impl'[r].poisoned = impl[r].poisoned
      /\ impl'[r].pending = revision[r]
  BY DEF TypeOK, Opened, Impls
<1>3. Round(r)' = Round(r) /\ vote[r] = None
  BY <1>1 DEF Round, Local, Seated, None
<1>4. Local(r)'
  BY <1>1, <1>2, <1>3 DEF Local, Seated, Placed, Counted, Flagged, Sound, Pending,
     Says, Ballot, None
<1>5. ~Leaves(r) /\ ~Leaves(r)'
  BY <1>1 DEF Leaves
<1> QED BY <1>1, <1>3, <1>4, <1>5
        DEF Destination, Log, Target, Carried, Stage, Local, Counted, None

LEMMA RecreateEffect ==
  ASSUME TypeOK, NEW r \in Ranks, NEW s \in {"ok", "request"}, Recreate(r, s)
  PROVE  /\ verdict'[r] = None /\ vote'[r] = s
         /\ impl'[r].started = FALSE /\ impl'[r].poisoned = (s # "ok")
         /\ impl'[r].cert = impl[r].cert /\ impl'[r].active = impl[r].active
         /\ impl'[r].epoch = impl[r].epoch /\ impl'[r].pending = impl[r].pending
<1>1. verdict'[r] = None /\ vote'[r] = s
  BY DEF TypeOK, Recreate, AnswerAndAsk, Answer
<1>2. impl' = [impl EXCEPT ![r].started = FALSE, ![r].poisoned = (s # "ok")]
  BY DEF Recreate
<1> QED BY <1>1, <1>2 DEF TypeOK, Impls

LEMMA StartFailedLocal ==
  ASSUME TypeOK, NEW r \in Ranks, Local(r), StartFailed(r)
  PROVE  Local(r)' /\ Destination(r)' = Destination(r)
<1>1. PICK s \in {"ok", "request"} : Recreate(r, s)
  BY DEF StartFailed
<1>2. verdict[r] \in {"start"}
  BY DEF StartFailed, Local, Seated, Ballot, Recreate, AnswerAndAsk, Answer
<1>3. /\ pc[r] = "start" /\ pc'[r] = "restart" /\ kept'[r] = verdict[r]
      /\ stage'[r] = stage[r] /\ outcomes'[r] = outcomes[r]
      /\ revision'[r] = revision[r] /\ ticket'[r] = ticket[r]
      /\ deferred'[r] = deferred[r]
  BY DEF TypeOK, StartFailed, Goto, caller
<1>4. Round(r)' = Round(r)
  BY <1>3 DEF Round
<1>5. Local(r)'
  BY <1>1, <1>2, <1>3, <1>4, RecreateEffect DEF Local, Seated, Placed, Counted,
     Flagged, Sound, Pending, Says, Ballot, None
<1>6. ~Leaves(r) /\ ~Leaves(r)'
  BY <1>1, <1>3, RecreateEffect DEF Leaves
<1> QED BY <1>1, <1>2, <1>3, <1>5, <1>6, RecreateEffect
        DEF Destination, Log, Target, Carried, Stage, None

LEMMA ReenterLocal ==
  ASSUME TypeOK, NEW r \in Ranks, Local(r), Reenter(r)
  PROVE  Local(r)' /\ Destination(r)' = Destination(r)
<1>1. /\ pc[r] = "open" /\ pc'[r] = "open" /\ Round(r) = "reenter" /\ ticket[r]
      /\ kept'[r] = kept[r] /\ stage'[r] = stage[r] /\ outcomes'[r] = outcomes[r]
      /\ revision'[r] = revision[r] /\ deferred'[r] = deferred[r]
      /\ impl'[r] = impl[r]
      /\ \/ /\ vote[r] = None /\ verdict[r] = None /\ verdict'[r] = None
            /\ vote'[r] = "state" /\ ticket'[r]
         \/ /\ verdict[r] # None /\ verdict'[r] = None /\ vote'[r] = vote[r]
            /\ ~ticket'[r]
  BY DEF TypeOK, Reenter, Ask, Answer
<1>2. Round(r)' = Round(r)
  BY <1>1 DEF Round
<1>3. Local(r)'
  BY <1>1, <1>2 DEF Local, Seated, Placed, Counted, Flagged, Sound, Pending, Says,
     Ballot, None
<1>4. ~Leaves(r) /\ ~Leaves(r)'
  BY <1>1 DEF Leaves
<1> QED BY <1>1, <1>2, <1>3, <1>4
        DEF Destination, Log, Target, Carried, Stage, Local, Counted, None

LEMMA FinishLocal ==
  ASSUME TypeOK, NEW r \in Ranks, Local(r), Finish(r)
  PROVE  Local(r)' /\ Destination(r)' = Destination(r)
<1>1. /\ pc[r] = "open" /\ pc'[r] = "preflight"
      /\ vote'[r] \in {"ok", "state", "field"} /\ verdict'[r] = verdict[r]
      /\ kept'[r] = kept[r] /\ stage'[r] = stage[r] /\ outcomes'[r] = outcomes[r]
      /\ revision'[r] = revision[r] /\ ticket'[r] = ticket[r]
      /\ deferred'[r] = deferred[r] /\ impl'[r] = impl[r]
  BY DEF TypeOK, Finish, Goto, Ask, caller
<1>2. ~(Round(r) = "reenter" /\ ticket[r])
  BY DEF Finish
<1>3. verdict[r] = None /\ Round(r)' = Round(r)
  BY <1>1, <1>2 DEF Round, Local, Seated
<1>4. Local(r)'
  BY <1>1, <1>3 DEF Local, Seated, Placed, Counted, Flagged, Sound, Pending, Says,
     Ballot, None
<1>5. ~Leaves(r) /\ ~Leaves(r)'
  BY <1>1 DEF Leaves
<1> QED BY <1>1, <1>2, <1>3, <1>4, <1>5
        DEF Destination, Log, Target, Carried, Stage, Local, Counted, None

LEMMA WaitLocal ==
  ASSUME TypeOK, NEW r \in Ranks, Local(r), Wait(r)
  PROVE  Local(r)' /\ Destination(r)' = Destination(r)
<1>1. /\ pc[r] = "preflight" /\ pc'[r] = "wait" /\ verdict[r] # None
      /\ vote'[r] \in {"ok", "completion"} /\ verdict'[r] = None
      /\ kept'[r] = verdict[r] /\ stage'[r] = stage[r] /\ outcomes'[r] = outcomes[r]
      /\ revision'[r] = revision[r] /\ ticket'[r] = ticket[r]
      /\ deferred'[r] = deferred[r]
  BY DEF TypeOK, Wait, Goto, AnswerAndAsk, Answer, caller
<1>2. /\ impl'[r].cert = impl[r].cert /\ impl'[r].active = impl[r].active
      /\ impl'[r].epoch = impl[r].epoch /\ impl'[r].poisoned = impl[r].poisoned
      /\ impl'[r].pending = impl[r].pending
  BY DEF TypeOK, Wait, Impls
<1>3. verdict[r] \in {"ok", "state", "field"} /\ Round(r)' = Round(r)
  BY <1>1 DEF Round, Local, Seated, Ballot
<1>4. Local(r)'
  BY <1>1, <1>2, <1>3 DEF Local, Seated, Placed, Counted, Flagged, Sound, Pending,
     Says, Ballot, None
<1>5. ~Leaves(r) /\ ~Leaves(r)'
  BY <1>1 DEF Leaves
<1> QED BY <1>1, <1>3, <1>4, <1>5 DEF Destination, Log, Target, Carried, Stage, None

LEMMA WaitFailedLocal ==
  ASSUME TypeOK, NEW r \in Ranks, Local(r), WaitFailed(r)
  PROVE  Local(r)' /\ Destination(r)' = Destination(r)
<1>1. PICK s \in {"ok", "request"} : Recreate(r, s)
  BY DEF WaitFailed
<1>2. /\ pc[r] = "wait" /\ pc'[r] = "recover" /\ verdict[r] = "completion"
      /\ kept'[r] = IF kept[r] = "ok" THEN verdict[r] ELSE kept[r]
      /\ stage'[r] = stage[r] /\ outcomes'[r] = outcomes[r]
      /\ revision'[r] = revision[r] /\ ticket'[r] = ticket[r]
      /\ deferred'[r] = deferred[r]
  BY DEF TypeOK, WaitFailed, Goto, caller
<1>3. Round(r)' = Round(r)
  BY <1>2 DEF Round
<1>4. Local(r)'
  BY <1>1, <1>2, <1>3, RecreateEffect DEF Local, Seated, Placed, Counted,
     Flagged, Sound, Pending, Says, Ballot, None
<1>5. ~Leaves(r) /\ ~Leaves(r)'
  BY <1>1, <1>2, RecreateEffect DEF Leaves
<1> QED BY <1>1, <1>2, <1>4, <1>5, RecreateEffect
        DEF Destination, Log, Target, Carried, Stage, None

LEMMA EnterEpochLocal ==
  ASSUME TypeOK, NEW r \in Ranks, Local(r), EnterEpoch(r)
  PROVE  Local(r)' /\ Destination(r)' = Destination(r)
<1> DEFINE refused == impl[r].epoch \/ impl[r].active \/ impl[r].started
                      \/ impl[r].poisoned
<1>1. /\ pc[r] = "idle" /\ pc'[r] = "enter" /\ Round(r) = "epoch"
      /\ vote'[r] \in {"ok", "state", "field"} /\ verdict'[r] = verdict[r]
      /\ kept'[r] = kept[r] /\ stage'[r] = stage[r] /\ outcomes'[r] = outcomes[r]
      /\ revision'[r] = revision[r] /\ ticket'[r] = ticket[r]
  BY DEF TypeOK, EnterEpoch, Goto, Ask
<1>2. refused => vote'[r] # "ok"
  BY DEF TypeOK, EnterEpoch, Ask
<1>3. /\ impl'[r].cert = 0 /\ impl'[r].active = impl[r].active
      /\ impl'[r].started = impl[r].started /\ impl'[r].poisoned = impl[r].poisoned
  BY DEF TypeOK, EnterEpoch, Impls
<1>4. ~refused => impl'[r].epoch
  <2>1. SUFFICES ASSUME ~refused PROVE impl'[r].epoch
    OBVIOUS
  <2>2. impl' = [impl EXCEPT ![r].cert = 0, ![r].pending = 0, ![r].epoch = TRUE,
                             ![r].valid = FALSE]
    BY <2>1 DEF EnterEpoch
  <2> QED BY <2>2 DEF TypeOK, Impls
<1> HIDE DEF refused
<1>5. verdict[r] = None /\ vote[r] = None /\ Round(r)' = Round(r)
  BY <1>1 DEF Round, Local, Seated, Ballot
<1>6. Local(r)'
  <2>1. Seated(r)' BY <1>1, <1>5 DEF Seated, Ballot, None
  <2>2. Placed(r)' BY <1>1, <1>5 DEF Placed
  <2>3. Counted(r)' BY <1>1 DEF Local, Counted
  <2>4. Flagged(r)'
    BY <1>1, <1>2, <1>3, <1>4, <1>5 DEF Local, Flagged, Says, None
  <2>5. Sound(r)' BY <1>1, <1>2, <1>3, <1>5 DEF Sound, Says, None, refused
  <2>6. Pending(r)' BY <1>1 DEF Pending
  <2> QED BY <2>1, <2>2, <2>3, <2>4, <2>5, <2>6 DEF Local
<1>7. ~Leaves(r) /\ ~Leaves(r)'
  BY <1>1, <1>5 DEF Leaves
<1>8. Target(r)' = "enter" /\ Target(r) = "enter"
  BY <1>1, <1>5, <1>7, RoundType DEF Target, Log, Opening, None
<1> QED BY <1>1, <1>5, <1>6, <1>7, <1>8
        DEF Destination, Log, Carried, Stage, Local, Counted

LEMMA EpochEnteredLocal ==
  ASSUME TypeOK, NEW r \in Ranks, Local(r), EpochEntered(r)
  PROVE  Local(r)' /\ Destination(r)' = Destination(r)
<1>1. /\ pc[r] = "enter" /\ pc'[r] = "ready"
      /\ verdict[r] = "ok" /\ verdict'[r] = None /\ vote'[r] = vote[r]
      /\ kept'[r] = kept[r] /\ stage'[r] = stage[r] /\ outcomes'[r] = outcomes[r]
      /\ revision'[r] = revision[r] /\ ticket'[r] = ticket[r]
      /\ deferred'[r] = deferred[r] /\ impl'[r] = impl[r]
  BY DEF TypeOK, EpochEntered, Goto, Answer, caller
<1>2. Round(r)' = Round(r) /\ vote[r] = None
  BY <1>1 DEF Round, Local, Seated, None
<1>3. Local(r)'
  BY <1>1, <1>2, HaloAssumption DEF Local, Seated, Placed, Counted, Flagged, Sound,
     Pending, Says, Ballot, None
<1>4. ~Leaves(r) /\ ~Leaves(r)'
  BY <1>1 DEF Leaves
<1> QED BY <1>1, <1>3, <1>4 DEF Destination, Log, Target, Carried, Stage, Local, Counted, None

LEMMA BeginPreparedLocal ==
  ASSUME TypeOK, NEW r \in Ranks, Local(r), BeginPrepared(r)
  PROVE  Local(r)' /\ Destination(r)' = Destination(r)
<1>1. /\ pc[r] = "ready" /\ pc'[r] = "flying" /\ stage[r] < EpochExchanges
      /\ verdict'[r] = verdict[r] /\ vote'[r] = vote[r]
      /\ kept'[r] = kept[r] /\ stage'[r] = stage[r] /\ outcomes'[r] = outcomes[r]
      /\ revision'[r] = revision[r] + 1
  BY DEF TypeOK, BeginPrepared, Goto
<1>2. PICK s \in {"ok", "state", "field"} :
        /\ Retain(r, s)
        /\ impl' = [impl EXCEPT
             ![r].pending = IF s = "ok" THEN revision'[r] ELSE @,
             ![r].valid = (s = "ok"), ![r].active = TRUE,
             ![r].started = (Links(r) # {})]
  BY DEF BeginPrepared
<1>3. /\ impl'[r].cert = impl[r].cert /\ impl'[r].epoch = impl[r].epoch
      /\ impl'[r].poisoned = impl[r].poisoned
      /\ impl'[r].pending = IF s = "ok" THEN revision'[r] ELSE impl[r].pending
  BY <1>2 DEF TypeOK, Impls
<1>4. deferred'[r] = "ok" => s = "ok"
  BY <1>2 DEF TypeOK, Retain
<1>5. verdict[r] = None /\ vote[r] = None /\ Round(r)' = Round(r)
  BY <1>1 DEF Round, Local, Seated, Ballot
<1>6. Local(r)'
  BY <1>1, <1>3, <1>4, <1>5, RankTypes DEF Local, Seated, Placed, Counted, Flagged,
     Sound, Pending, Says, Ballot, None
<1>7. ~Leaves(r) /\ ~Leaves(r)'
  BY <1>1 DEF Leaves
<1> QED BY <1>1, <1>6, <1>7 DEF Destination, Log, Target, Carried, Stage

LEMMA StartPreparedFailedLocal ==
  ASSUME TypeOK, NEW r \in Ranks, Local(r), StartPreparedFailed(r)
  PROVE  Local(r)' /\ Destination(r)' = Destination(r)
<1>1. /\ pc[r] = "ready" /\ pc'[r] = "close"
      /\ verdict'[r] = verdict[r] /\ vote'[r] = "start"
      /\ kept'[r] = kept[r] /\ stage'[r] = stage[r] /\ outcomes'[r] = outcomes[r]
      /\ ~ticket'[r]
  BY DEF TypeOK, StartPreparedFailed, Goto, Ask
<1>2. /\ impl'[r].cert = impl[r].cert /\ impl'[r].epoch = impl[r].epoch
      /\ ~impl'[r].active /\ ~impl'[r].started
  BY DEF TypeOK, Impls, StartPreparedFailed
<1>3. verdict[r] = None /\ vote[r] = None /\ Round(r)' = Round(r)
  BY <1>1 DEF Round, Local, Seated, Ballot
<1>4. Local(r)'
  BY <1>1, <1>2, <1>3 DEF Local, Seated, Placed, Counted, Flagged, Sound, Pending,
     Says, Ballot, None
<1>5. ~Leaves(r) /\ ~Leaves(r)'
  BY <1>1, <1>3 DEF Leaves
<1> QED BY <1>1, <1>3, <1>4, <1>5
        DEF Destination, Log, Target, Carried, Stage, Local, Counted

LEMMA FinishPreparedLocal ==
  ASSUME TypeOK, NEW r \in Ranks, Local(r), FinishPrepared(r)
  PROVE  Local(r)' /\ Destination(r)' = Destination(r)
<1>1. /\ pc[r] = "flying" /\ pc'[r] = "ready"
      /\ verdict'[r] = verdict[r] /\ vote'[r] = vote[r]
      /\ kept'[r] = kept[r] /\ stage'[r] = stage[r] + 1 /\ outcomes'[r] = outcomes[r]
      /\ revision'[r] = revision[r] /\ ~ticket'[r]
  BY DEF TypeOK, FinishPrepared, Goto
<1>2. /\ impl'[r].cert = impl[r].cert /\ impl'[r].epoch = impl[r].epoch
      /\ impl'[r].poisoned = impl[r].poisoned
      /\ impl'[r].pending = impl[r].pending
      /\ ~impl'[r].active /\ ~impl'[r].started
  BY DEF TypeOK, Impls, FinishPrepared
<1>3. deferred'[r] = "ok" => deferred[r] = "ok"
  BY DEF TypeOK, FinishPrepared, Retain
<1>4. verdict[r] = None /\ vote[r] = None /\ Round(r)' = Round(r)
  BY <1>1 DEF Round, Local, Seated, Ballot
<1>5. Local(r)'
  BY <1>1, <1>2, <1>3, <1>4, RankTypes, HaloAssumption DEF Local, Seated, Placed,
     Counted, Flagged, Sound, Pending, Says, Ballot, None
<1>6. ~Leaves(r) /\ ~Leaves(r)'
  BY <1>1 DEF Leaves
<1> QED BY <1>1, <1>5, <1>6 DEF Destination, Log, Target, Carried, Stage

LEMMA WaitPreparedFailedLocal ==
  ASSUME TypeOK, NEW r \in Ranks, Local(r), WaitPreparedFailed(r)
  PROVE  Local(r)' /\ Destination(r)' = Destination(r)
<1>1. /\ pc[r] = "flying" /\ pc'[r] = "close"
      /\ verdict'[r] = verdict[r] /\ vote'[r] = "completion"
      /\ kept'[r] = kept[r] /\ stage'[r] = stage[r] /\ outcomes'[r] = outcomes[r]
      /\ ~ticket'[r]
  BY DEF TypeOK, WaitPreparedFailed, Goto, Ask
<1>2. /\ impl'[r].cert = impl[r].cert /\ impl'[r].epoch = impl[r].epoch
      /\ ~impl'[r].active /\ ~impl'[r].started
  BY DEF TypeOK, Impls, WaitPreparedFailed
<1>3. verdict[r] = None /\ vote[r] = None /\ Round(r)' = Round(r)
  BY <1>1 DEF Round, Local, Seated, Ballot
<1>4. Local(r)'
  BY <1>1, <1>2, <1>3 DEF Local, Seated, Placed, Counted, Flagged, Sound, Pending,
     Says, Ballot, None
<1>5. ~Leaves(r) /\ ~Leaves(r)'
  BY <1>1, <1>3 DEF Leaves
<1> QED BY <1>1, <1>3, <1>4, <1>5
        DEF Destination, Log, Target, Carried, Stage, Local, Counted

LEMMA EndEpochLocal ==
  ASSUME TypeOK, NEW r \in Ranks, Local(r), EndEpoch(r),
         Deferring(r)
  PROVE  Local(r)' /\ Destination(r)' = Destination(r)
<1>1. /\ pc[r] = "ready" /\ pc'[r] = "close" /\ stage[r] = EpochExchanges
      /\ verdict'[r] = verdict[r] /\ vote'[r] = deferred[r]
      /\ kept'[r] = kept[r] /\ stage'[r] = stage[r] /\ outcomes'[r] = outcomes[r]
      /\ revision'[r] = revision[r] /\ ticket'[r] = ticket[r]
      /\ deferred'[r] = deferred[r] /\ impl'[r] = impl[r]
  BY DEF TypeOK, EndEpoch, Goto, Ask, caller
<1>2. verdict[r] = None /\ vote[r] = None /\ Round(r)' = Round(r)
  BY <1>1 DEF Round, Local, Seated, Ballot
<1>3. Local(r)'
  BY <1>1, <1>2, HaloAssumption DEF Local, Seated, Placed, Counted, Flagged, Sound,
     Pending, Says, Ballot, Deferring, None
<1>4. ~Leaves(r) /\ ~Leaves(r)'
  BY <1>1, <1>2 DEF Leaves
<1> QED BY <1>1, <1>2, <1>3, <1>4
        DEF Destination, Log, Target, Carried, Stage, Local, Counted

LEMMA ReserveLocal ==
  ASSUME TypeOK, NEW r \in Ranks, Local(r), Reserve(r)
  PROVE  Local(r)' /\ Destination(r)' = Destination(r)
<1>1. /\ pc[r] = "idle" /\ pc'[r] = "reserve" /\ Round(r) = "reserve"
      /\ vote'[r] \in {"ok", "state", "reserve"} /\ verdict'[r] = verdict[r]
      /\ kept'[r] = kept[r] /\ stage'[r] = stage[r] /\ outcomes'[r] = outcomes[r]
      /\ revision'[r] = revision[r] /\ ticket'[r] = ticket[r]
      /\ deferred'[r] = deferred[r] /\ impl'[r] = impl[r]
  BY DEF TypeOK, Reserve, Goto, Ask, caller
<1>2. verdict[r] = None /\ vote[r] = None /\ Round(r)' = Round(r)
  BY <1>1 DEF Round, Local, Seated, Ballot
<1>3. Local(r)'
  BY <1>1, <1>2 DEF Local, Seated, Placed, Counted, Flagged, Sound, Pending,
     Says, Ballot, None
<1>4. ~Leaves(r) /\ ~Leaves(r)'
  BY <1>1, <1>2 DEF Leaves
<1>5. Target(r)' = "reserve" /\ Target(r) = "reserve"
  BY <1>1, <1>2, <1>4, RoundType DEF Target, Log, Opening, None
<1> QED BY <1>1, <1>2, <1>3, <1>4, <1>5
        DEF Destination, Log, Carried, Stage, Local, Counted

LEMMA NextStageLocal ==
  ASSUME TypeOK, NEW r \in Ranks, Local(r), NextStage(r)
  PROVE  Local(r)' /\ Destination(r)' = Destination(r)
<1>1. /\ pc[r] = "reserve" /\ pc'[r] = "reserve" /\ verdict[r] = "ok"
      /\ stage[r] + 1 < ReserveStages
      /\ vote'[r] \in {"ok", "reserve"} /\ verdict'[r] = None
      /\ kept'[r] = kept[r] /\ stage'[r] = stage[r] + 1 /\ outcomes'[r] = outcomes[r]
      /\ revision'[r] = revision[r] /\ ticket'[r] = ticket[r]
      /\ deferred'[r] = deferred[r] /\ impl'[r] = impl[r]
  BY DEF TypeOK, NextStage, AnswerAndAsk, Answer, caller
<1>2. Round(r)' = Round(r)
  BY <1>1 DEF Round
<1>3. Local(r)'
  BY <1>1, <1>2 DEF Local, Seated, Placed, Counted, Flagged, Sound, Pending,
     Says, Ballot, None
<1>4. ~Leaves(r) /\ ~Leaves(r)'
  BY <1>1, RankTypes, HaloAssumption DEF Leaves, None
<1> QED BY <1>1, <1>3, <1>4
        DEF Destination, Log, Target, Carried, Stage, Local, Counted, None

LEMMA DeferringKept ==
  ASSUME TypeOK, NEW r \in Ranks, Deferring(r), RankStep(r)
  PROVE  Deferring(r)'
<1>1. CASE BeginStep(r)
  BY <1>1 DEF BeginStep, Deferring, Begin, BeginRefused, Start, Opened, StartFailed,
     StartReported, Reenter, caller
<1>2. CASE FinishStep(r)
  BY <1>2 DEF FinishStep, Deferring, Finish, Wait, Published, PreflightFailed,
     WaitFailed, WaitReported, caller
<1>3. CASE EpochStep(r)
  <2>1. CASE EnterEpoch(r)
    BY <2>1 DEF EnterEpoch, Deferring, TypeOK
  <2>2. CASE BeginPrepared(r)
    <3>1. PICK s \in {"ok", "state", "field"} : Retain(r, s)
      BY <2>2 DEF BeginPrepared
    <3> QED BY <3>1 DEF Retain, Deferring, TypeOK
  <2>3. CASE FinishPrepared(r)
    <3>1. PICK s \in {"ok", "state", "field"} : Retain(r, s)
      BY <2>3 DEF FinishPrepared
    <3> QED BY <3>1 DEF Retain, Deferring, TypeOK
  <2>4. CASE UNCHANGED deferred
    BY <2>4 DEF Deferring
  <2> QED BY <1>3, <2>1, <2>2, <2>3, <2>4 DEF EpochStep, EpochEntered, EpochRefused,
             StartPreparedFailed, WaitPreparedFailed, EndEpoch, EpochClosed, caller
<1>4. CASE ReserveStep(r)
  BY <1>4 DEF ReserveStep, Deferring, Reserve, NextStage, ReserveRefused, Reserved,
     caller
<1> QED BY <1>1, <1>2, <1>3, <1>4 DEF RankStep

\* No step of a rank changes what holds of it alone, nor where it goes.
LEMMA RankLocal ==
  ASSUME TypeOK, NEW r \in Ranks, Local(r), Deferring(r), RankStep(r)
  PROVE  Local(r)' /\ Deferring(r)' /\ Destination(r)' = Destination(r)
<1>1. CASE BeginStep(r)
  BY <1>1, BeginLocal, StartLocal, OpenedLocal, StartFailedLocal, ReenterLocal,
     ReturnsLocal, DeferringKept DEF BeginStep, RankStep
<1>2. CASE FinishStep(r)
  BY <1>2, FinishLocal, WaitLocal, WaitFailedLocal, ReturnsLocal, DeferringKept
     DEF FinishStep, RankStep
<1>3. CASE EpochStep(r)
  BY <1>3, EnterEpochLocal, EpochEnteredLocal, BeginPreparedLocal,
     StartPreparedFailedLocal, FinishPreparedLocal, WaitPreparedFailedLocal,
     EndEpochLocal, ReturnsLocal, DeferringKept DEF EpochStep, RankStep
<1>4. CASE ReserveStep(r)
  BY <1>4, ReserveLocal, NextStageLocal, ReturnsLocal, DeferringKept
     DEF ReserveStep, RankStep
<1> QED BY <1>1, <1>2, <1>3, <1>4 DEF RankStep

LEMMA RankInductive ==
  ASSUME IndInv, NEW r \in Ranks, RankStep(r)
  PROVE  IndInv'
<1>1. TypeOK'
  BY RankType DEF IndInv
<1>2. \A q \in Ranks : Local(q)' /\ Deferring(q)' /\ Destination(q)' = Destination(q)
  <2> SUFFICES ASSUME NEW q \in Ranks
               PROVE  Local(q)' /\ Deferring(q)' /\ Destination(q)' = Destination(q)
    OBVIOUS
  <2>1. CASE q = r
    BY <2>1, RankLocal DEF IndInv
  <2>2. CASE q # r
    <3>1. Still(q)
      BY <2>2, RankStill DEF IndInv
    <3> QED BY <3>1, SteadyLocal DEF IndInv, Still, Steady, Deferring
  <2> QED BY <2>1, <2>2
<1>3. Synced'
  BY <1>2 DEF IndInv, Synced
<1> QED BY <1>1, <1>2, <1>3 DEF IndInv

LEMMA MessageInductive ==
  ASSUME IndInv, NEW p \in Ranks, NEW q \in Ranks, Match(p, q) \/ Buffer(p, q)
  PROVE  IndInv'
<1>1. TypeOK'
  BY MatchType, BufferType DEF IndInv
<1>2. \A r \in Ranks : Steady(r)
  BY DEF Match, Buffer, Steady, control, caller
<1>3. \A r \in Ranks : Local(r)' /\ Deferring(r)' /\ Destination(r)' = Destination(r)
  BY <1>2, SteadyLocal DEF IndInv, Steady, Deferring
<1>4. Synced'
  BY <1>3 DEF IndInv, Synced
<1> QED BY <1>1, <1>3, <1>4 DEF IndInv

\* All ranks are in the collective in which they agree.
LEMMA Assembled ==
  ASSUME IndInv, \A q \in Ranks : vote[q] # None
  PROVE  /\ \A q \in Ranks : /\ verdict[q] = None /\ ~Leaves(q)
                             /\ pc[q] \notin {"idle", "ready", "flying"}
                             /\ vote[q] \in Ballot(pc[q])
         /\ \A p, q \in Ranks :
              /\ pc[p] = pc[q] /\ outcomes[p] = outcomes[q] /\ kept[p] = kept[q]
              /\ pc[p] = "reserve" => stage[p] = stage[q]
              /\ Round(p) = Round(q)
              /\ pc[p] = "open" => Round(p) = "reenter" /\ ticket[p]
<1>1. ASSUME NEW q \in Ranks
      PROVE  /\ verdict[q] = None /\ ~Leaves(q) /\ vote[q] \in Ballot(pc[q])
             /\ pc[q] \notin {"idle", "ready", "flying"}
             /\ pc[q] = "open" => Round(q) = "reenter" /\ ticket[q]
             /\ Log(q) = outcomes[q] /\ Target(q) = pc[q] /\ Carried(q) = kept[q]
             /\ Stage(q) = IF pc[q] = "reserve" THEN stage[q] ELSE 0
  <2>1. Local(q) /\ vote[q] # None
    BY <1>1 DEF IndInv
  <2>2. /\ verdict[q] = None /\ vote[q] \in Ballot(pc[q])
        /\ pc[q] = "open" => Round(q) = "reenter" /\ ticket[q]
    BY <2>1 DEF Local, Seated
  <2>3. pc[q] \notin {"idle", "ready", "flying"}
    BY <2>2 DEF Ballot
  <2>4. ~Leaves(q)
    BY <2>2 DEF Leaves
  <2> QED BY <2>2, <2>3, <2>4 DEF Log, Target, Carried, Stage
<1>2. ASSUME NEW p \in Ranks, NEW q \in Ranks
      PROVE  /\ pc[p] = pc[q] /\ outcomes[p] = outcomes[q] /\ kept[p] = kept[q]
             /\ pc[p] = "reserve" => stage[p] = stage[q]
             /\ Round(p) = Round(q)
  <2>1. Destination(p) = Destination(q)
    BY DEF IndInv, Synced
  <2>2. /\ Log(p) = Log(q) /\ Target(p) = Target(q) /\ Carried(p) = Carried(q)
        /\ Stage(p) = Stage(q)
    BY <2>1 DEF Destination
  <2> QED BY <1>1, <2>2 DEF Round
<1> QED BY <1>1, <1>2

\* The consensus sends all ranks the same way.
LEMMA AgreeInductive ==
  ASSUME IndInv, Agree
  PROVE  IndInv'
<1>1. TypeOK'
  BY AgreeType DEF IndInv
<1>2. PICK v \in Statuses :
        /\ verdict' = ForAll(v) /\ vote' = ForAll(None)
        /\ \A q \in Ranks : vote[q] # None /\ (v = "ok" => vote[q] = "ok")
        /\ \E q \in Ranks : vote[q] = v
  BY Agreed DEF IndInv
<1>3. /\ \A q \in Ranks : /\ verdict[q] = None /\ ~Leaves(q)
                          /\ pc[q] \notin {"idle", "ready", "flying"}
                          /\ vote[q] \in Ballot(pc[q])
      /\ \A p, q \in Ranks :
           /\ pc[p] = pc[q] /\ outcomes[p] = outcomes[q] /\ kept[p] = kept[q]
           /\ pc[p] = "reserve" => stage[p] = stage[q]
           /\ Round(p) = Round(q)
           /\ pc[p] = "open" => Round(p) = "reenter" /\ ticket[p]
  BY <1>2, Assembled
<1>4. ASSUME NEW q \in Ranks
      PROVE  /\ pc'[q] = pc[q] /\ kept'[q] = kept[q] /\ stage'[q] = stage[q]
             /\ outcomes'[q] = outcomes[q] /\ revision'[q] = revision[q]
             /\ ticket'[q] = ticket[q] /\ deferred'[q] = deferred[q]
             /\ impl'[q] = impl[q] /\ vote'[q] = None /\ verdict'[q] = v
             /\ v \in Ballot(pc[q]) /\ v # None /\ (v = "ok" => vote[q] = "ok")
             /\ Round(q)' = Round(q)
  <2>1. v \in Ballot(pc[q]) /\ v # None
    BY <1>2, <1>3
  <2> QED BY <1>2, <2>1 DEF Agree, caller, ForAll, Round
<1>5. ASSUME NEW q \in Ranks
      PROVE  Local(q)' /\ Deferring(q)'
  <2>1. Local(q) /\ Deferring(q) /\ verdict[q] = None /\ vote[q] # None
    BY <1>2, <1>3 DEF IndInv
  <2>2. Seated(q)'
    BY <1>3, <1>4 DEF Seated
  <2>3. Placed(q)' /\ Counted(q)' /\ Deferring(q)'
    BY <1>4, <2>1 DEF Local, Placed, Counted, Deferring
  <2>4. Says(q, "ok")' => Says(q, "ok")
    BY <1>4 DEF Says, None
  <2>5. Flagged(q)'
    BY <1>4, <2>1, <2>4 DEF Local, Flagged
  <2>6. Sound(q)'
    BY <1>4, <2>1, <2>4 DEF Local, Sound
  <2>7. Pending(q)'
    BY <1>4, <2>1, <2>4 DEF Local, Pending
  <2> QED BY <2>2, <2>3, <2>5, <2>6, <2>7 DEF Local
<1>6. ASSUME NEW p \in Ranks, NEW q \in Ranks
      PROVE  Destination(p)' = Destination(q)'
  <2>1. /\ pc'[p] = pc'[q] /\ outcomes'[p] = outcomes'[q] /\ kept'[p] = kept'[q]
        /\ verdict'[p] = verdict'[q] /\ verdict'[p] # None
        /\ pc'[p] = "reserve" => stage'[p] = stage'[q]
        /\ Round(p)' = Round(q)'
        /\ pc'[p] \notin {"idle", "ready", "flying"}
    BY <1>3, <1>4
  <2>2. Leaves(p)' = Leaves(q)' /\ Outcome(p)' = Outcome(q)'
    BY <2>1 DEF Leaves, Outcome
  <2>3. Log(p)' = Log(q)'
    BY <2>1, <2>2 DEF Log
  <2>4. Opening(Log(p))' = Opening(Log(q))'
    BY <2>3 DEF Opening
  <2>5. Target(p)' = Target(q)'
    BY <2>1, <2>2, <2>4 DEF Target
  <2>6. Carried(p)' = Carried(q)' /\ Stage(p)' = Stage(q)'
    BY <2>1, <2>2 DEF Carried, Stage
  <2> QED BY <2>3, <2>5, <2>6 DEF Destination
<1>7. Synced'
  BY <1>6 DEF Synced
<1> QED BY <1>1, <1>5, <1>7 DEF IndInv

LEMMA InitInductive == Init => IndInv
<1> SUFFICES ASSUME Init PROVE IndInv
  OBVIOUS
<1>1. TypeOK
  BY InitType
<1>2. ASSUME NEW q \in Ranks
      PROVE  /\ pc[q] = "idle" /\ vote[q] = None /\ verdict[q] = None
             /\ kept[q] = "ok" /\ stage[q] = 0 /\ outcomes[q] = <<>>
             /\ ~ticket[q] /\ impl[q] = NewImpl /\ deferred[q] = "ok"
  BY DEF Init, ForAll
<1>3. ASSUME NEW q \in Ranks
      PROVE  Local(q) /\ Deferring(q)
  BY <1>2 DEF Local, Seated, Placed, Counted, Flagged, Sound, Pending, Says, Ballot,
     NewImpl, Deferring, None
<1>4. ASSUME NEW q \in Ranks
      PROVE  ~Leaves(q) /\ Log(q) = <<>>
  BY <1>2 DEF Leaves, Log
<1>5. ASSUME NEW q \in Ranks
      PROVE  Destination(q) = <<<<>>, Opening(<<>>), "ok", 0>>
  BY <1>2, <1>4 DEF Destination, Target, Carried, Stage
<1>6. Synced
  BY <1>5 DEF Synced
<1> QED BY <1>1, <1>3, <1>6 DEF IndInv

LEMMA StutterInductive ==
  ASSUME IndInv, UNCHANGED vars
  PROVE  IndInv'
<1>1. TypeOK'
  BY DEF IndInv, TypeOK, vars, control, caller, buffers, wires
<1>2. \A r \in Ranks : Steady(r)
  BY DEF Steady, vars, control, caller
<1>3. \A r \in Ranks : Local(r)' /\ Deferring(r)' /\ Destination(r)' = Destination(r)
  BY <1>2, SteadyLocal DEF IndInv, Steady, Deferring
<1>4. Synced'
  BY <1>3 DEF IndInv, Synced
<1> QED BY <1>1, <1>3, <1>4 DEF IndInv

\* IndInv is an invariant of the engines.
THEOREM Inductive == Spec => []IndInv
<1>1. IndInv /\ [Next]_vars => IndInv'
  BY RankInductive, MessageInductive, AgreeInductive, StutterInductive
     DEF Next, Terminated
<1> QED BY <1>1, InitInductive, PTL DEF Spec

\* The variables have their types.
THEOREM TypeCorrect == Spec => []TypeOK
<1>1. IndInv => TypeOK
  BY DEF IndInv
<1> QED BY <1>1, Inductive, PTL

-----------------------------------------------------------------------------
(***************************************************************************)
(* Outcomes.                                                               *)
(***************************************************************************)
\* A rank leaves a round with a failure or with the success of its round.
LEMMA OutcomeType ==
  ASSUME IndInv, NEW r \in Ranks, Leaves(r)
  PROVE  /\ pc[r] # "idle" /\ Round(r) # None
         /\ Outcome(r) \in Failures
              \cup {IF Round(r) = "reserve" THEN "reserved" ELSE "published"}
         /\ Outcome(r) \in Failures \cup {"published", "reserved"}
<1>1. Local(r) /\ verdict[r] \in Statuses /\ kept[r] \in Statuses
  BY DEF IndInv, TypeOK, Leaves
<1>2. pc[r] # "idle" /\ Round(r) # None
  BY <1>1 DEF Leaves, Local, Placed, None
<1> QED BY <1>1, <1>2
        DEF Leaves, Outcome, Local, Placed, Counted, Statuses, Failures

\* What a rank has left is the beginning of what is settled for it.
LEMMA LogExtends ==
  ASSUME IndInv, NEW r \in Ranks
  PROVE  /\ Len(outcomes[r]) \in Nat
         /\ \A i \in 1 .. Len(outcomes[r]) : Log(r)[i] = outcomes[r][i]
         /\ ~Leaves(r) => Len(Log(r)) = Len(outcomes[r])
         /\ Leaves(r) => /\ Len(Log(r)) = Len(outcomes[r]) + 1
                         /\ Log(r)[Len(outcomes[r]) + 1] = Outcome(r)
<1>1. outcomes[r] \in Seq(Failures \cup {"published", "reserved"})
  BY DEF IndInv, TypeOK
<1>2. CASE Leaves(r)
  <2>1. Outcome(r) \in Failures \cup {"published", "reserved"}
    BY <1>2, OutcomeType
  <2> QED BY <1>1, <1>2, <2>1, AppendProperties DEF Log
<1>3. CASE ~Leaves(r)
  BY <1>1, <1>3 DEF Log
<1> QED BY <1>2, <1>3

\* All ranks leave a round with the same outcome (begin, finish,
\* close_prepared_epoch and reserve), whatever fails.
THEOREM OutcomesAgree == Spec => []AgreedOutcomes
<1>1. IndInv => AgreedOutcomes
  <2> SUFFICES ASSUME IndInv, NEW p \in Ranks, NEW q \in Ranks,
                      NEW i \in 1 .. Len(outcomes[p]), i <= Len(outcomes[q])
               PROVE  outcomes[p][i] = outcomes[q][i]
    BY DEF AgreedOutcomes
  <2>1. Log(p) = Log(q)
    BY DEF IndInv, Synced, Destination
  <2>2. i \in 1 .. Len(outcomes[q])
    BY LogExtends
  <2> QED BY <2>1, <2>2, LogExtends
<1> QED BY <1>1, Inductive, PTL

-----------------------------------------------------------------------------
(***************************************************************************)
(* Rounds.                                                                 *)
(***************************************************************************)
\* The abstract state.
Inside == [r \in Ranks |-> pc[r] # "idle"]
Certified == [r \in Ranks |-> impl[r].cert # 0]

\* A step that begins a round.
LEMMA EnterRefines ==
  ASSUME TypeOK, NEW r \in Ranks, \A q \in Ranks \ {r} : Steady(q),
         pc[r] = "idle", pc'[r] # "idle", UNCHANGED outcomes, Round(r) # None,
         (impl'[r].cert # 0) <=> (impl[r].cert # 0 /\ Round(r) = "reserve")
  PROVE  Abstract!Enter(r)
<1>1. Len(outcomes[r]) < Len(Plan) /\ Round(r) = Plan[Len(outcomes[r]) + 1]
  BY RoundType
<1>2. ~Inside[r] /\ Inside' = [Inside EXCEPT ![r] = TRUE]
  BY DEF Steady, Inside
<1>3. Certified' =
        [Certified EXCEPT ![r] = @ /\ Plan[Len(outcomes[r]) + 1] = "reserve"]
  BY <1>1 DEF Steady, Certified
<1> QED BY <1>1, <1>2, <1>3 DEF Abstract!Enter, Inside, Certified

\* A step that neither begins nor ends one.
LEMMA StutterRefines ==
  ASSUME UNCHANGED outcomes,
         \A q \in Ranks : /\ pc'[q] = "idle" <=> pc[q] = "idle"
                          /\ impl'[q].cert = impl[q].cert
  PROVE  UNCHANGED <<Inside, outcomes, Certified>>
BY DEF Inside, Certified

\* A step that ends one: every rank has begun it, and those that have left it
\* left it with the same outcome.
LEMMA LeaveRefines ==
  ASSUME IndInv, NEW r \in Ranks, \A q \in Ranks \ {r} : Steady(q),
         Leaves(r), Return(r, Outcome(r)),
         Outcome(r) \in Failures => impl'[r].cert = impl[r].cert,
         Outcome(r) \notin Failures =>
           ((impl'[r].cert # 0) <=> Round(r) # "reserve")
  PROVE  Abstract!Leave(r)
<1> DEFINE round == Len(outcomes[r]) + 1
           success == IF Plan[round] = "reserve" THEN "reserved" ELSE "published"
<1>1. /\ pc[r] # "idle" /\ Round(r) = Plan[round]
      /\ Outcome(r) \in Failures \cup {success}
      /\ {"reserved", "published"} \cap Failures = {}
  BY OutcomeType, RoundType DEF IndInv, Failures
<1>2. ASSUME NEW q \in Ranks
      PROVE  /\ Len(outcomes[q]) + (IF Inside[q] THEN 1 ELSE 0) >= round
             /\ Len(outcomes[q]) >= round => outcomes[q][round] = Outcome(r)
  <2>1. Log(q) = Log(r)
    BY DEF IndInv, Synced, Destination
  <2>2. Len(Log(q)) = round /\ Log(q)[round] = Outcome(r)
    BY <2>1, LogExtends
  <2>3. Leaves(q) => pc[q] # "idle"
    BY OutcomeType
  <2>4. /\ Len(outcomes[q]) \in Nat /\ Len(outcomes[r]) \in Nat
        /\ Leaves(q) => Len(Log(q)) = Len(outcomes[q]) + 1
        /\ ~Leaves(q) => Len(Log(q)) = Len(outcomes[q])
        /\ \A i \in 1 .. Len(outcomes[q]) : Log(q)[i] = outcomes[q][i]
    BY LogExtends
  <2>5. Len(outcomes[q]) >= round => outcomes[q][round] = Outcome(r)
    BY <2>2, <2>4
  <2>6. Len(outcomes[q]) + (IF Inside[q] THEN 1 ELSE 0) >= round
    <3> DEFINE k == IF Inside[q] THEN 1 ELSE 0
               n == Len(outcomes[q])
    <3>1. k \in Nat /\ (Leaves(q) => k = 1)
      BY <2>3 DEF Inside
    <3>2. n \in Nat /\ round \in Nat
      BY <2>4
    <3>3. n = round \/ (n + 1 = round /\ k = 1)
      BY <2>2, <2>4, <3>1
    <3>4. n + k >= round
      <4> HIDE DEF k, n, round
      <4> QED BY <3>1, <3>2, <3>3
    <3> QED BY <3>4
  <2> QED BY <2>5, <2>6
<1>3. Inside[r] /\ Inside' = [Inside EXCEPT ![r] = FALSE]
  <2>1. pc'[r] = "idle"
    BY DEF IndInv, TypeOK, Return, Goto
  <2> QED BY <1>1, <2>1 DEF Steady, Inside
<1>4. Certified' = [Certified EXCEPT ![r] =
        IF Outcome(r) \in Failures THEN @ ELSE success = "published"]
  <2>1. Outcome(r) \notin Failures => ((impl'[r].cert # 0) <=> success = "published")
    BY <1>1
  <2> HIDE DEF success
  <2> QED BY <2>1 DEF Steady, Certified
<1>5. outcomes' = [outcomes EXCEPT ![r] = Append(@, Outcome(r))]
  BY DEF Return
<1> QED BY <1>1, <1>2, <1>3, <1>4, <1>5
        DEF Abstract!Leave, Abstract!Entered, Inside, Certified

LEMMA RankRefines ==
  ASSUME IndInv, NEW r \in Ranks, RankStep(r)
  PROVE  Abstract!Enter(r) \/ Abstract!Leave(r)
         \/ UNCHANGED <<Inside, outcomes, Certified>>
<1>1. \A q \in Ranks \ {r} : Steady(q)
  BY RankStill DEF IndInv, Still
<1>2. TypeOK /\ Local(r)
  BY DEF IndInv
<1>3. CASE Begin(r)
  <2>1. /\ pc[r] = "idle" /\ pc'[r] # "idle" /\ UNCHANGED outcomes
        /\ Round(r) # None /\ Round(r) # "reserve" /\ impl'[r].cert = 0
    BY <1>2, <1>3 DEF TypeOK, Impls, Begin, Goto, None
  <2> QED BY <1>1, <1>2, <2>1, EnterRefines
<1>4. CASE EnterEpoch(r)
  <2>1. /\ pc[r] = "idle" /\ pc'[r] # "idle" /\ UNCHANGED outcomes
        /\ Round(r) # None /\ Round(r) # "reserve" /\ impl'[r].cert = 0
    BY <1>2, <1>4 DEF TypeOK, Impls, EnterEpoch, Goto, None
  <2> QED BY <1>1, <1>2, <2>1, EnterRefines
<1>5. CASE Reserve(r)
  <2>1. /\ pc[r] = "idle" /\ pc'[r] # "idle" /\ UNCHANGED <<outcomes, impl>>
        /\ Round(r) # None /\ Round(r) = "reserve"
    BY <1>2, <1>5 DEF TypeOK, Reserve, Goto, None
  <2> QED BY <1>1, <1>2, <2>1, EnterRefines
<1>6. CASE \/ BeginRefused(r) \/ StartReported(r) \/ Published(r)
           \/ PreflightFailed(r) \/ WaitReported(r) \/ EpochRefused(r)
           \/ EpochClosed(r) \/ ReserveRefused(r) \/ Reserved(r)
  <2>1. Leaves(r) /\ Return(r, Outcome(r))
    BY <1>2, <1>6, ReturnsLocal
  <2>2. /\ Outcome(r) \in Failures => impl'[r].cert = impl[r].cert
        /\ Outcome(r) \notin Failures => ((impl'[r].cert # 0) <=> Round(r) # "reserve")
    <3>1. CASE BeginRefused(r)
      <4>1. verdict[r] \in Failures
        BY <1>2, <3>1 DEF BeginRefused, Answer, TypeOK, Statuses
      <4> QED BY <3>1, <4>1 DEF BeginRefused, Outcome
    <3>2. CASE StartReported(r) \/ WaitReported(r) \/ PreflightFailed(r)
      <4>1. kept[r] \in Failures /\ Outcome(r) = kept[r]
        BY <1>2, <3>2 DEF StartReported, WaitReported, PreflightFailed, Outcome,
           Local, Counted, Failures
      <4>2. impl'[r].cert = impl[r].cert
        BY <1>2, <3>2 DEF StartReported, WaitReported, PreflightFailed,
           FinishExchange, TypeOK, Impls
      <4> QED BY <4>1, <4>2
    <3>3. CASE Published(r)
      <4>1. Outcome(r) \notin Failures
        BY <3>3 DEF Published, Outcome, Failures
      <4>2. impl'[r].cert = impl[r].pending
        BY <1>2, <3>3 DEF Published, FinishExchange, TypeOK, Impls
      <4>3. Round(r) # "reserve" /\ impl[r].pending # 0
        BY <1>2, <3>3 DEF Published, Local, Placed, Pending
      <4> QED BY <4>1, <4>2, <4>3
    <3>4. CASE EpochRefused(r)
      <4>1. verdict[r] \in Failures
        BY <1>2, <3>4 DEF EpochRefused, Answer, TypeOK, Statuses
      <4>2. impl[r].cert = 0
        BY <1>2, <3>4 DEF EpochRefused, Local, Flagged
      <4>3. impl'[r].cert = 0
        BY <1>2, <3>4, <4>2 DEF EpochRefused, CloseEpoch, TypeOK, Impls
      <4> QED BY <3>4, <4>1, <4>2, <4>3 DEF EpochRefused, Outcome
    <3>5. CASE EpochClosed(r) /\ verdict[r] = "ok"
      <4>1. Outcome(r) \notin Failures
        BY <3>5 DEF EpochClosed, Outcome, Failures
      <4>2. /\ impl[r].epoch /\ ~impl[r].active /\ ~impl[r].started
            /\ ~impl[r].poisoned /\ impl[r].pending # 0 /\ Round(r) # "reserve"
        BY <1>2, <3>5 DEF EpochClosed, Local, Flagged, Sound, Pending, Placed, Says
      <4>3. impl'[r].cert = impl[r].pending
        BY <1>2, <3>5, <4>2 DEF EpochClosed, CloseEpoch, TypeOK, Impls
      <4> QED BY <4>1, <4>2, <4>3
    <3>6. CASE EpochClosed(r) /\ verdict[r] # "ok"
      <4>1. verdict[r] \in Failures
        BY <1>2, <3>6 DEF EpochClosed, Answer, TypeOK, Statuses
      <4>2. impl[r].cert = 0
        BY <1>2, <3>6 DEF EpochClosed, Local, Flagged
      <4>3. impl'[r].cert = 0
        BY <1>2, <3>6, <4>2 DEF EpochClosed, CloseEpoch, TypeOK, Impls
      <4> QED BY <3>6, <4>1, <4>2, <4>3 DEF EpochClosed, Outcome
    <3>7. CASE ReserveRefused(r)
      <4>1. verdict[r] \in Failures
        BY <1>2, <3>7 DEF ReserveRefused, Answer, TypeOK, Statuses
      <4> QED BY <3>7, <4>1 DEF ReserveRefused, Outcome
    <3>8. CASE Reserved(r)
      <4>1. Outcome(r) \notin Failures /\ Round(r) = "reserve"
        BY <1>2, <3>8 DEF Reserved, Outcome, Failures, Local, Placed
      <4>2. impl'[r].cert = 0
        BY <1>2, <3>8 DEF Reserved, NewImpl, TypeOK
      <4> QED BY <4>1, <4>2
    <3> QED BY <1>6, <3>1, <3>2, <3>3, <3>4, <3>5, <3>6, <3>7, <3>8
  <2> QED BY <1>1, <2>1, <2>2, LeaveRefines
<1>7. CASE \/ Start(r) \/ Opened(r) \/ StartFailed(r) \/ Reenter(r) \/ Finish(r)
           \/ Wait(r) \/ WaitFailed(r) \/ EpochEntered(r) \/ BeginPrepared(r)
           \/ StartPreparedFailed(r) \/ FinishPrepared(r) \/ WaitPreparedFailed(r)
           \/ EndEpoch(r) \/ NextStage(r)
  <2>1. UNCHANGED outcomes
    BY <1>7 DEF Start, Opened, StartFailed, Reenter, Finish, Wait, WaitFailed,
       EpochEntered, BeginPrepared, StartPreparedFailed, FinishPrepared,
       WaitPreparedFailed, EndEpoch, NextStage
  <2>2. pc[r] # "idle" /\ pc'[r] # "idle"
    BY <1>2, <1>7 DEF Start, Opened, StartFailed, Reenter, Finish, Wait, WaitFailed,
       EpochEntered, BeginPrepared, StartPreparedFailed, FinishPrepared,
       WaitPreparedFailed, EndEpoch, NextStage, Goto, TypeOK
  <2>3. impl'[r].cert = impl[r].cert
    <3>1. CASE StartFailed(r) \/ WaitFailed(r)
      BY <1>2, <3>1, RecreateEffect DEF StartFailed, WaitFailed
    <3>2. CASE BeginPrepared(r)
      BY <1>2, <3>2 DEF BeginPrepared, TypeOK, Impls
    <3>3. CASE Start(r) \/ Opened(r) \/ Wait(r)
      BY <1>2, <3>3 DEF Start, Opened, Wait, TypeOK, Impls
    <3>4. CASE StartPreparedFailed(r) \/ FinishPrepared(r) \/ WaitPreparedFailed(r)
      BY <1>2, <3>4 DEF StartPreparedFailed, FinishPrepared, WaitPreparedFailed,
         TypeOK, Impls
    <3>5. CASE Reenter(r) \/ Finish(r) \/ EpochEntered(r) \/ EndEpoch(r) \/ NextStage(r)
      BY <3>5 DEF Reenter, Finish, EpochEntered, EndEpoch, NextStage
    <3> QED BY <1>7, <3>1, <3>2, <3>3, <3>4, <3>5
  <2> QED BY <1>1, <2>1, <2>2, <2>3, StutterRefines DEF Steady
<1> QED BY <1>3, <1>4, <1>5, <1>6, <1>7
        DEF RankStep, BeginStep, FinishStep, EpochStep, ReserveStep

\* The engines implement bulk-synchronous rounds, whatever fails: no rank leaves
\* a round before all have begun it, all leave it with one outcome, and a rank
\* holds a certificate exactly if the last exchange that it left was published.
THEOREM EnginesImplementRounds == Spec => ImplementsRounds
<1>1. Init => Abstract!Init
  <2> SUFFICES ASSUME Init PROVE Abstract!Init
    OBVIOUS
  <2>1. \A r \in Ranks : pc[r] = "idle" /\ impl[r].cert = 0
    BY DEF Init, ForAll, NewImpl
  <2>2. outcomes = [r \in Ranks |-> <<>>]
    BY DEF Init, ForAll
  <2> QED BY <2>1, <2>2 DEF Abstract!Init
<1>2. IndInv /\ [Next]_vars => [Abstract!Next]_<<Inside, outcomes, Certified>>
  <2> SUFFICES ASSUME IndInv, [Next]_vars
               PROVE  [Abstract!Next]_<<Inside, outcomes, Certified>>
    OBVIOUS
  <2>1. ASSUME NEW r \in Ranks, RankStep(r)
        PROVE  [Abstract!Next]_<<Inside, outcomes, Certified>>
    BY <2>1, RankRefines DEF Abstract!Next
  <2>2. CASE Agree \/ UNCHANGED vars
            \/ \E p, q \in Ranks : Match(p, q) \/ Buffer(p, q)
    BY <2>2 DEF Agree, Match, Buffer, vars, control, Inside, Certified
  <2> QED BY <2>1, <2>2 DEF Next, Terminated
<1> QED BY <1>1, <1>2, Inductive, PTL
        DEF Spec, ImplementsRounds, Abstract!Spec, Inside, Certified

-----------------------------------------------------------------------------
(***************************************************************************)
(* Poisoned engines.                                                       *)
(***************************************************************************)
\* The exchange failed after its start, and nothing is left to agree on.
Aborted(r) ==
  \/ pc[r] \in {"restart", "recover"} /\ verdict[r] # None
  \/ /\ pc[r] = "idle" /\ outcomes[r] # <<>>
     /\ outcomes[r][Len(outcomes[r])] \in {"start", "completion"}

\* The engine is or will be poisoned.
Doomed(r) == impl[r].poisoned \/ (pc[r] # "idle" /\ verdict[r] # "ok")

\* In an epoch it is not, if the engine recovered from all that failed.
Whole(r) ==
  pc[r] = "close" => /\ ~impl[r].poisoned
                     /\ {vote[r], verdict[r]} \cap {"start", "completion"} = {}

Mended ==
  ~faults.broken =>
    /\ \A r \in Ranks : Whole(r)
    /\ \A p, q \in Ranks : Aborted(p) /\ Aborted(q) => (Doomed(p) <=> Doomed(q))

\* Faults that the engine does not recover from are remembered.
LEMMA Recovered ==
  ASSUME NEW kind, Fault(kind), ~faults'.broken
  PROVE  ~faults.broken /\ kind \notin Unrecovered
<1> DEFINE b == faults.broken \/ kind \in Unrecovered
<1>1. faults' = [count |-> faults.count + 1, broken |-> b]
  BY DEF Fault
<1>2. ~b
  <2> HIDE DEF b
  <2> QED BY <1>1
<1> QED BY <1>2

LEMMA FaultsStep ==
  ASSUME NEW r \in Ranks, RankStep(r)
  PROVE  UNCHANGED faults \/ \E kind : Fault(kind)
<1>1. CASE BeginStep(r)
  <2>1. Begin(r) => UNCHANGED faults \/ \E kind : Fault(kind)
    BY DEF Begin
  <2>2. StartFailed(r) => UNCHANGED faults \/ \E kind : Fault(kind)
    BY DEF StartFailed, Recreate, Try
  <2> QED BY <1>1, <2>1, <2>2
          DEF BeginStep, BeginRefused, Start, Opened, StartReported, Reenter
<1>2. CASE FinishStep(r)
  <2>1. Wait(r) => UNCHANGED faults \/ \E kind : Fault(kind)
    BY DEF Wait, Try
  <2>2. WaitFailed(r) => UNCHANGED faults \/ \E kind : Fault(kind)
    BY DEF WaitFailed, Recreate, Try
  <2>3. Finish(r) => UNCHANGED faults \/ \E kind : Fault(kind)
    BY DEF Finish, Try
  <2> QED BY <1>2, <2>1, <2>2, <2>3
          DEF FinishStep, Published, PreflightFailed, WaitReported
<1>3. CASE EpochStep(r)
  <2>1. EnterEpoch(r) => UNCHANGED faults \/ \E kind : Fault(kind)
    BY DEF EnterEpoch, Try
  <2>2. BeginPrepared(r) => UNCHANGED faults \/ \E kind : Fault(kind)
    BY DEF BeginPrepared, Try
  <2>3. FinishPrepared(r) => UNCHANGED faults \/ \E kind : Fault(kind)
    BY DEF FinishPrepared, Try
  <2> QED BY <1>3, <2>1, <2>2, <2>3 DEF EpochStep, EpochEntered, EpochRefused,
             StartPreparedFailed, WaitPreparedFailed, EndEpoch, EpochClosed
<1>4. CASE ReserveStep(r)
  BY <1>4 DEF ReserveStep, Reserve, NextStage, ReserveRefused, Reserved, Try
<1> QED BY <1>1, <1>2, <1>3, <1>4 DEF RankStep

LEMMA BrokenStays ==
  ASSUME [Next]_vars, ~faults'.broken
  PROVE  ~faults.broken
<1>1. ASSUME NEW r \in Ranks, RankStep(r)
      PROVE  ~faults.broken
  BY <1>1, FaultsStep, Recovered
<1>2. CASE UNCHANGED faults
  BY <1>2
<1> QED BY <1>1, <1>2 DEF Next, Terminated, vars, Agree, Match, Buffer

LEMMA RankMended ==
  ASSUME IndInv, NEW r \in Ranks, RankStep(r), ~faults'.broken, Whole(r)
  PROVE  /\ Whole(r)'
         /\ Aborted(r)' => Aborted(r) /\ (Doomed(r)' <=> Doomed(r))
<1>1. TypeOK /\ Local(r) /\ Deferring(r)
  BY DEF IndInv
<1>2. CASE StartReported(r) \/ WaitReported(r)
  <2>1. /\ pc[r] \in {"restart", "recover"} /\ verdict[r] # None /\ pc'[r] = "idle"
    BY <1>1, <1>2 DEF StartReported, WaitReported, Answer, Return, Goto, TypeOK
  <2>2. impl'[r].poisoned <=> impl[r].poisoned \/ verdict[r] # "ok"
    <3> DEFINE b == impl[r].poisoned \/ verdict[r] # "ok"
    <3>1. \/ impl' = [impl EXCEPT ![r].poisoned = b, ![r].active = FALSE]
          \/ impl' = [impl EXCEPT ![r].poisoned = b, ![r].active = FALSE,
                                  ![r].started = FALSE]
      BY <1>2 DEF StartReported, WaitReported
    <3>2. impl'[r].poisoned = b
      <4> HIDE DEF b
      <4> QED BY <1>1, <3>1 DEF TypeOK, Impls
    <3> QED BY <3>2
  <2> QED BY <2>1, <2>2 DEF Whole, Aborted, Doomed
<1>3. CASE \/ BeginRefused(r) \/ Published(r) \/ PreflightFailed(r)
           \/ EpochRefused(r) \/ EpochClosed(r) \/ ReserveRefused(r) \/ Reserved(r)
  <2>1. Leaves(r) /\ Return(r, Outcome(r))
    BY <1>1, <1>3, ReturnsLocal
  <2>2. pc[r] \in {"begin", "wait", "enter", "close", "reserve"}
    BY <1>3 DEF BeginRefused, Published, PreflightFailed, EpochRefused, EpochClosed,
       ReserveRefused, Reserved
  <2>3. Outcome(r) \notin {"start", "completion"}
    BY <1>1, <2>1, <2>2 DEF Leaves, Outcome, Local, Seated, Counted, Ballot, Whole
  <2>4. pc'[r] = "idle" /\ outcomes'[r] = Append(outcomes[r], Outcome(r))
    BY <1>1, <2>1 DEF Return, Goto, TypeOK
  <2>5. outcomes'[r][Len(outcomes'[r])] = Outcome(r)
    <3>1. /\ outcomes[r] \in Seq(Failures \cup {"published", "reserved"})
          /\ Outcome(r) \in Failures \cup {"published", "reserved"}
      BY <1>1, <2>1, OutcomeType DEF TypeOK
    <3> QED BY <2>4, <3>1, AppendProperties
  <2> QED BY <2>3, <2>4, <2>5 DEF Whole, Aborted
<1>4. CASE StartPreparedFailed(r) \/ WaitPreparedFailed(r)
  BY <1>4, Recovered DEF StartPreparedFailed, WaitPreparedFailed, Unrecovered
<1>5. CASE EndEpoch(r)
  <2>1. /\ pc[r] = "ready" /\ pc'[r] = "close" /\ vote'[r] = deferred[r]
        /\ verdict'[r] = verdict[r] /\ impl'[r] = impl[r]
    BY <1>1, <1>5 DEF EndEpoch, Ask, Goto, TypeOK
  <2>2. verdict[r] = None /\ ~impl[r].poisoned
    BY <1>1, <2>1 DEF Local, Seated, Ballot, Sound
  <2> QED BY <1>1, <2>1, <2>2 DEF Whole, Aborted, Deferring, None
<1>6. CASE StartFailed(r) \/ WaitFailed(r)
  <2>1. pc'[r] \in {"restart", "recover"} /\ verdict'[r] = None
    <3>1. PICK t \in {"ok", "request"} : Recreate(r, t)
      BY <1>6 DEF StartFailed, WaitFailed
    <3>2. verdict'[r] = None
      BY <1>1, <3>1, RecreateEffect
    <3>3. Goto(r, "restart") \/ Goto(r, "recover")
      BY <1>6 DEF StartFailed, WaitFailed
    <3> QED BY <1>1, <3>2, <3>3 DEF Goto, TypeOK
  <2> QED BY <2>1 DEF Whole, Aborted
<1>7. CASE \/ Begin(r) \/ Start(r) \/ Opened(r) \/ Reenter(r) \/ Finish(r) \/ Wait(r)
           \/ EnterEpoch(r) \/ EpochEntered(r) \/ BeginPrepared(r)
           \/ FinishPrepared(r) \/ Reserve(r) \/ NextStage(r)
  <2>1. pc'[r] \notin {"idle", "close", "restart", "recover"}
    <3>1. CASE \/ Begin(r) \/ Start(r) \/ Opened(r) \/ Finish(r) \/ Wait(r) \/ EnterEpoch(r)
               \/ EpochEntered(r) \/ BeginPrepared(r) \/ FinishPrepared(r) \/ Reserve(r)
      <4>1. \E place \in Pcs \ {"idle", "close", "restart", "recover"} : Goto(r, place)
        BY <3>1 DEF Begin, Start, Opened, Finish, Wait, EnterEpoch, EpochEntered,
           BeginPrepared, FinishPrepared, Reserve, Pcs
      <4> QED BY <1>1, <4>1 DEF Goto, TypeOK
    <3>2. CASE Reenter(r) \/ NextStage(r)
      BY <1>1, <3>2 DEF Reenter, NextStage
    <3> QED BY <1>7, <3>1, <3>2
  <2> QED BY <2>1 DEF Whole, Aborted
<1> QED BY <1>2, <1>3, <1>4, <1>5, <1>6, <1>7
        DEF RankStep, BeginStep, FinishStep, EpochStep, ReserveStep

\* A consensus on the recreation tells all ranks whether one of them failed.
LEMMA AgreeMended ==
  ASSUME IndInv, Mended, Agree
  PROVE  Mended'
<1> SUFFICES ASSUME ~faults'.broken
             PROVE  /\ \A r \in Ranks : Whole(r)'
                    /\ \A p, q \in Ranks :
                         Aborted(p)' /\ Aborted(q)' => (Doomed(p)' <=> Doomed(q)')
  BY DEF Mended
<1>1. PICK v \in Statuses :
        /\ verdict' = ForAll(v) /\ vote' = ForAll(None)
        /\ \A q \in Ranks : vote[q] # None /\ (v = "ok" => vote[q] = "ok")
        /\ \E q \in Ranks : vote[q] = v
  BY Agreed DEF IndInv
<1>2. PICK leader \in Ranks : vote[leader] = v
  BY <1>1
<1>3. /\ \A q \in Ranks : /\ verdict[q] = None /\ vote[q] \in Ballot(pc[q])
                          /\ pc[q] # "idle"
      /\ \A p, q \in Ranks : pc[p] = pc[q]
  BY <1>1, Assembled
<1>4. ASSUME NEW q \in Ranks
      PROVE  /\ pc'[q] = pc[q] /\ impl'[q] = impl[q] /\ outcomes'[q] = outcomes[q]
             /\ vote'[q] = None /\ verdict'[q] = v
  BY <1>1 DEF Agree, ForAll
<1>5. \A q \in Ranks : Whole(q) /\ Local(q)
  BY DEF Mended, Agree, IndInv
<1>6. ASSUME NEW q \in Ranks PROVE Whole(q)'
  <2> SUFFICES ASSUME pc[q] = "close"
               PROVE  ~impl[q].poisoned /\ v \notin {"start", "completion"}
    BY <1>4 DEF Whole, None
  <2> QED BY <1>2, <1>3, <1>5 DEF Whole
<1>7. ASSUME NEW q \in Ranks, Aborted(q)' PROVE Doomed(q)' <=> v # "ok"
  <2>1. pc[q] \in {"restart", "recover"}
    BY <1>3, <1>4, <1>7 DEF Aborted
  <2>2. v = "ok" => ~impl[q].poisoned
    BY <1>1, <1>5, <2>1 DEF Local, Sound, Says
  <2> QED BY <1>4, <2>1, <2>2 DEF Doomed
<1> QED BY <1>6, <1>7

LEMMA MendedInductive ==
  ASSUME IndInv, Mended, [Next]_vars
  PROVE  Mended'
<1> SUFFICES ASSUME ~faults'.broken
             PROVE  /\ \A r \in Ranks : Whole(r)'
                    /\ \A p, q \in Ranks :
                         Aborted(p)' /\ Aborted(q)' => (Doomed(p)' <=> Doomed(q)')
  BY DEF Mended
<1>1. /\ \A r \in Ranks : Whole(r)
      /\ \A p, q \in Ranks : Aborted(p) /\ Aborted(q) => (Doomed(p) <=> Doomed(q))
  BY BrokenStays DEF Mended
<1>2. ASSUME NEW q \in Ranks, Steady(q)
      PROVE  /\ Whole(q)'
             /\ Aborted(q)' => Aborted(q) /\ (Doomed(q)' <=> Doomed(q))
  BY <1>1, <1>2 DEF Steady, Whole, Aborted, Doomed
<1>3. CASE \A q \in Ranks : Steady(q)
  BY <1>1, <1>2, <1>3
<1>4. ASSUME NEW r \in Ranks, RankStep(r)
      PROVE  \A q \in Ranks : /\ Whole(q)'
                              /\ Aborted(q)' => Aborted(q) /\ (Doomed(q)' <=> Doomed(q))
  <2> SUFFICES ASSUME NEW q \in Ranks
               PROVE  /\ Whole(q)'
                      /\ Aborted(q)' => Aborted(q) /\ (Doomed(q)' <=> Doomed(q))
    OBVIOUS
  <2>1. CASE q = r
    BY <1>1, <1>4, <2>1, RankMended
  <2>2. CASE q # r
    BY <1>2, <1>4, <2>2, RankStill DEF IndInv, Still
  <2> QED BY <2>1, <2>2
<1>5. CASE \E r \in Ranks : RankStep(r)
  BY <1>1, <1>4, <1>5
<1>6. CASE Agree
  BY <1>6, AgreeMended DEF Mended
<1>7. CASE UNCHANGED vars \/ \E p, q \in Ranks : Match(p, q) \/ Buffer(p, q)
  <2>1. \A q \in Ranks : Steady(q)
    BY <1>7 DEF vars, Match, Buffer, Steady, control, caller
  <2> QED BY <1>3, <2>1
<1> QED BY <1>5, <1>6, <1>7 DEF Next, Terminated

LEMMA InitMended == Init => Mended
BY DEF Init, ForAll, NewImpl, Mended, Whole, Aborted

\* A poisoned engine and an exchange under way have different destinations.
LEMMA PoisonApart ==
  ASSUME IndInv, NEW p \in Ranks, NEW q \in Ranks, Whole(p),
         pc[q] \in {"open", "preflight", "ready", "flying"}
  PROVE  ~impl[p].poisoned
<1> SUFFICES ASSUME impl[p].poisoned PROVE FALSE
  OBVIOUS
<1>1. TypeOK /\ Local(p) /\ Local(q) /\ Destination(p) = Destination(q)
  BY DEF IndInv, Synced
<1>2. Target(p) = Target(q) /\ Log(p) = Log(q) /\ Carried(p) = Carried(q)
  BY <1>1 DEF Destination
<1>3. /\ pc[p] \in {"idle", "begin", "restart", "recover", "enter", "reserve"}
      /\ pc[p] \in {"begin", "restart", "recover", "enter"} => verdict[p] # "ok"
  BY <1>1 DEF Local, Sound, Whole, Says
<1>4. Target(p) \in {None, "enter", "reserve", "begin", "restart", "recover"}
  <2>1. Opening(Log(p)) \in {None, "enter", "reserve", "begin"}
    BY DEF Opening
  <2> QED BY <1>3, <2>1 DEF Target, Leaves, None
<1>5. Target(q) \in {"open", "preflight", "wait", "close"}
  <2>1. ~Leaves(q)
    BY DEF Leaves
  <2> QED BY <2>1 DEF Target
<1> QED BY <1>2, <1>4, <1>5 DEF None

\* A recreation leaves all engines poisoned or none, and no rank gets as far as
\* an exchange while another's engine is poisoned, unless a rank left a prepared
\* epoch early or was left with open requests (begin, finish).
THEOREM PoisonTogether == Spec => []PoisonedTogether
<1>1. ASSUME IndInv, Mended PROVE PoisonedTogether
  <2> SUFFICES ASSUME ~faults.broken, NEW p \in Ranks, NEW q \in Ranks
               PROVE  /\ pc[q] \in {"open", "preflight", "ready", "flying"} =>
                           ~impl[p].poisoned
                      /\ /\ pc[p] = "idle" /\ pc[q] = "idle"
                         /\ outcomes[p] # <<>> /\ Len(outcomes[p]) = Len(outcomes[q])
                         /\ outcomes[p][Len(outcomes[p])] \in {"start", "completion"}
                         => impl[p].poisoned = impl[q].poisoned
    BY DEF PoisonedTogether
  <2>1. /\ Whole(p)
        /\ Aborted(p) /\ Aborted(q) => (Doomed(p) <=> Doomed(q))
    BY <1>1 DEF Mended
  <2>2. pc[q] \in {"open", "preflight", "ready", "flying"} => ~impl[p].poisoned
    BY <1>1, <2>1, PoisonApart
  <2>3. ASSUME pc[p] = "idle", pc[q] = "idle", outcomes[p] # <<>>,
               outcomes[p][Len(outcomes[p])] \in {"start", "completion"}
        PROVE  impl[p].poisoned = impl[q].poisoned
    <3>1. outcomes[p] = outcomes[q]
      <4>1. Log(p) = Log(q)
        BY <1>1 DEF IndInv, Synced, Destination
      <4> QED BY <2>3, <4>1 DEF Log, Leaves
    <3>2. Aborted(p) /\ Aborted(q)
      BY <2>3, <3>1 DEF Aborted
    <3>3. impl[p].poisoned <=> impl[q].poisoned
      BY <2>1, <2>3, <3>2 DEF Doomed
    <3>4. impl[p].poisoned \in BOOLEAN /\ impl[q].poisoned \in BOOLEAN
      BY <1>1 DEF IndInv, TypeOK, Impls
    <3> QED BY <3>3, <3>4
  <2> QED BY <2>2, <2>3
<1>2. Spec => []Mended
  <2>1. Init => Mended
    BY InitMended
  <2>2. IndInv /\ Mended /\ [Next]_vars => Mended'
    BY MendedInductive
  <2> QED BY <2>1, <2>2, Inductive, PTL DEF Spec
<1> QED BY <1>1, <1>2, Inductive, PTL
=============================================================================
