-------------------------- MODULE HaloMessages_proofs --------------------------
(***************************************************************************)
(* Proofs about the messages of HaloEngine and what they carry, for every  *)
(* number of ranks, every relation of peers, every plan and all faults     *)
(* that the engine recovers from.                                          *)
(*                                                                         *)
(* A link from one rank to another is described by where the two are       *)
(* going, their Target: no step of a rank changes that, so that each step  *)
(* has to do with one description only.  The messages on a link are the    *)
(* last revisions of the sender's field, and all fields have the same      *)
(* revision when their ranks have come to the same place.                  *)
(***************************************************************************)
EXTENDS HaloEngine_proofs

\* A rank has requests open only within an exchange, and then with all peers.
Wired(r) ==
  /\ \A q \in Ranks :
       /\ sending[r][q] # "inactive" \/ receiving[r][q] # "inactive" =>
            q \in Links(r) /\ pc[r] \in {"start", "open", "preflight", "flying"}
       /\ /\ q \in Links(r)
          /\ \/ pc[r] \in {"open", "preflight", "flying"}
             \/ pc[r] = "start" /\ Says(r, "ok")
          => sending[r][q] # "inactive" /\ receiving[r][q] # "inactive"
  /\ pc[r] = "start" => impl[r].started = (Links(r) # {})
  /\ pc[r] = "close" => stage[r] = EpochExchanges

\* Exchanges of the epoch that the rank has started, and messages of the peer
\* that it has taken.
Launched(r) == stage[r] + (IF pc[r] = "flying" THEN 1 ELSE 0)
Taken(q, p) ==
  stage[q] + (IF pc[q] = "flying" /\ receiving[q][p] = "done" THEN 1 ELSE 0)

\* The send is open: its message is withdrawn if it is cancelled.
Open(p, q) == sending[p][q] \in {"active", "buffered"}
Took(q, p) == receiving[q][p] = "done"
Bit(b) == IF b THEN 1 ELSE 0

\* The messages from p to q, by where the two are going.
Link(p, q) ==
  IF q \notin Links(p) THEN network[p][q] = <<>>
  ELSE CASE Target(p) \in {"start", "open", "preflight"} ->
              /\ Len(network[p][q]) = Bit(Open(p, q))
              /\ sending[p][q] = "done" <=> Took(q, p)
         [] Target(p) = "restart" -> Len(network[p][q]) = Bit(Open(p, q))
         [] Target(p) = "wait" ->
              Len(network[p][q]) = Bit(receiving[q][p] = "active")
         [] Target(p) = "close" ->
              Len(network[p][q]) + Taken(q, p) = Launched(p)
         [] OTHER -> Len(network[p][q]) = 0

Linked ==
  ~faults.broken => /\ \A r \in Ranks : Wired(r)
                    /\ \A p, q \in Ranks : Link(p, q)

-----------------------------------------------------------------------------
\* The revision of the field when the rank comes to where it is going, or, in
\* an epoch, the one before its exchanges.
Revised(r) ==
  IF Target(r) = "close" THEN revision[r] - Launched(r)
  ELSE IF Target(r) = "begin" /\ (pc[r] = "idle" \/ Leaves(r))
  THEN revision[r] + 1 ELSE revision[r]

\* The exchanges of an epoch of which no failure was deferred have good data.
Good(r) == Target(r) = "close" => deferred[r] = "ok"

\* What a rank packs, receives and publishes is of the last revision.
Current(r) ==
  /\ \/ pc[r] \in {"start", "open", "preflight", "wait"}
     \/ pc[r] = "begin" /\ Says(r, "ok")
     => outbox[r] = revision[r]
  /\ pc[r] = "flying" /\ deferred[r] = "ok" =>
       outbox[r] = revision[r] /\ impl[r].valid
  /\ pc[r] = "close" /\ vote[r] # None => vote[r] = deferred[r]
  /\ pc[r] = "wait" => \A p \in Links(r) : inbox[r][p] = revision[r]
  /\ pc[r] = "close" /\ verdict[r] = "ok" =>
       \A p \in Peers[r] : ghost[r][p] = revision[r]
  /\ impl[r].cert # 0 => \A p \in Peers[r] : ghost[r][p] = impl[r].cert

\* The last exchange of the epoch has been unpacked.
Unpacked(r) == \/ pc[r] = "ready" /\ stage[r] > 0
               \/ pc[r] = "close" /\ verdict[r] = None

\* The messages on a link are the last revisions of the sender's field, and
\* what has been received is of the receiver's last revision.
Fresh(p, q) ==
  /\ Good(p) =>
       /\ \A i \in 1 .. Len(network[p][q]) :
            network[p][q][i] = revision[p] - (Len(network[p][q]) - i)
       /\ receiving[q][p] = "done" => inbox[q][p] = revision[q]
  /\ p \in Peers[q] /\ Unpacked(q) /\ deferred[p] = "ok" /\ deferred[q] = "ok" =>
       ghost[q][p] = revision[q]

Dated ==
  ~faults.broken => /\ \A r \in Ranks : Current(r)
                    /\ \A p, q \in Ranks : Fresh(p, q) /\ Revised(p) = Revised(q)

-----------------------------------------------------------------------------
(***************************************************************************)
(* Steps and places.                                                       *)
(***************************************************************************)
\* Where a rank is, by where it is going.
LEMMA Places ==
  ASSUME TypeOK, NEW r \in Ranks, Local(r)
  PROVE  /\ Target(r) = "start" => \/ pc[r] = "begin" /\ verdict[r] = "ok"
                                   \/ pc[r] = "start" /\ verdict[r] = None
         /\ Target(r) = "restart" => \/ pc[r] = "start" /\ verdict[r] \notin {None, "ok"}
                                     \/ pc[r] = "restart" /\ verdict[r] = None
         /\ Target(r) \in {"open", "preflight"} =>
              \/ pc[r] = "start" /\ verdict[r] = "ok"
              \/ pc[r] = "open"
              \/ pc[r] = "preflight" /\ verdict[r] = None
         /\ Target(r) = "wait" => \/ pc[r] = "preflight" /\ verdict[r] # None
                                  \/ pc[r] = "wait" /\ verdict[r] = None
         /\ Target(r) = "recover" => \/ pc[r] = "wait" /\ verdict[r] = "completion"
                                     \/ pc[r] = "recover" /\ verdict[r] = None
         /\ Target(r) = "close" => \/ pc[r] = "enter" /\ verdict[r] = "ok"
                                   \/ pc[r] \in {"ready", "flying"}
                                   \/ pc[r] = "close" /\ verdict[r] = None
         /\ Target(r) \in {None, "enter", "reserve", "begin"} =>
              \/ pc[r] = "idle" \/ Leaves(r)
              \/ pc[r] \in {"begin", "enter", "reserve"}
         /\ Target(r) \in {"start", "restart", "open", "preflight", "wait", "recover",
                           "close", "enter", "reserve", "begin", None}
<1> DEFINE o == Opening(Log(r))
<1>1. o \in {None, "enter", "reserve", "begin"}
  BY DEF Opening
<1>2. pc[r] = "idle" \/ Leaves(r) => Target(r) = o
  BY DEF Target
<1> HIDE DEF o
<1>3. CASE pc[r] = "idle" \/ Leaves(r)
  BY <1>1, <1>2, <1>3 DEF None
<1>4. CASE pc[r] # "idle" /\ ~Leaves(r) /\ verdict[r] = None
  <2>1. Target(r) = IF pc[r] \in {"ready", "flying"} THEN "close"
                    ELSE IF pc[r] = "open" /\ ~(Round(r) = "reenter" /\ ticket[r])
                    THEN "preflight" ELSE pc[r]
    BY <1>4 DEF Target
  <2> QED BY <1>4, <2>1 DEF None, TypeOK, Pcs
<1>5. CASE pc[r] # "idle" /\ ~Leaves(r) /\ verdict[r] # None
  <2>1. verdict[r] \in Ballot(pc[r])
    BY <1>5 DEF Local, Seated
  <2>2. pc[r] \in Pcs
    BY DEF TypeOK
  <2> QED BY <1>5, <2>1, <2>2 DEF None, Pcs, Ballot, Target, Leaves
<1> QED BY <1>3, <1>4, <1>5

\* No step of a rank changes where the ranks are going.
LEMMA TargetKept ==
  ASSUME IndInv, NEW r \in Ranks, RankStep(r), NEW q \in Ranks
  PROVE  Local(q)' /\ Destination(q)' = Destination(q) /\ Target(q)' = Target(q)
<1>1. Local(q)' /\ Destination(q)' = Destination(q)
  <2>1. CASE q = r
    BY <2>1, RankLocal DEF IndInv
  <2>2. CASE q # r
    BY <2>2, RankStill, SteadyLocal DEF IndInv, Still
  <2> QED BY <2>1, <2>2
<1>2. Destination(q)'[2] = Destination(q)[2]
  BY <1>1
<1> QED BY <1>1, <1>2 DEF Destination

LEMMA SameTarget ==
  ASSUME IndInv, NEW p \in Ranks, NEW q \in Ranks
  PROVE  Target(p) = Target(q)
<1>1. Destination(p)[2] = Destination(q)[2]
  BY DEF IndInv, Synced
<1> QED BY <1>1 DEF Destination

\* A step that has nothing to do with requests or messages.
Silent(r) ==
  \/ Begin(r) \/ BeginRefused(r) \/ Opened(r) \/ StartReported(r) \/ Reenter(r)
  \/ Finish(r) \/ Published(r) \/ PreflightFailed(r) \/ WaitReported(r)
  \/ EnterEpoch(r) \/ EpochEntered(r) \/ EpochRefused(r) \/ EndEpoch(r)
  \/ EpochClosed(r) \/ Reserve(r) \/ NextStage(r) \/ ReserveRefused(r)

\* The others, where the engine can recover.
LEMMA StepKinds ==
  ASSUME NEW r \in Ranks, RankStep(r), ~faults'.broken
  PROVE  \/ Silent(r) \/ Start(r) \/ BeginPrepared(r) \/ StartFailed(r)
         \/ WaitFailed(r) \/ Wait(r) \/ FinishPrepared(r) \/ Reserved(r)
<1>1. ~StartPreparedFailed(r) /\ ~WaitPreparedFailed(r)
  BY Recovered DEF StartPreparedFailed, WaitPreparedFailed, Unrecovered
<1> QED BY <1>1 DEF RankStep, BeginStep, FinishStep, EpochStep, ReserveStep, Silent

LEMMA SilentWires ==
  ASSUME NEW r \in Ranks, Silent(r)
  PROVE  network' = network /\ sending' = sending /\ receiving' = receiving
BY DEF Silent, Begin, BeginRefused, Opened, StartReported, Reenter, Finish, Published,
   PreflightFailed, WaitReported, EnterEpoch, EpochEntered, EpochRefused, EndEpoch,
   EpochClosed, Reserve, NextStage, ReserveRefused, wires

LEMMA SilentPlace ==
  ASSUME TypeOK, NEW r \in Ranks, Local(r), Silent(r)
  PROVE  \/ /\ pc[r] \notin {"start", "open", "preflight", "ready", "flying"}
            /\ pc'[r] \notin {"start", "open", "preflight", "flying", "close"}
            /\ Target(r) = "close" =>
                 pc[r] = "enter" /\ verdict[r] = "ok" /\ stage'[r] = stage[r]
         \/ /\ pc[r] \in {"start", "open"} /\ pc'[r] \in {"open", "preflight"}
            /\ pc[r] = "start" => verdict[r] = "ok"
            /\ Target(r) # "close"
         \/ /\ pc[r] = "ready" /\ pc'[r] = "close"
            /\ stage[r] = EpochExchanges /\ stage'[r] = stage[r]
<1>1. CASE Opened(r) \/ Reenter(r) \/ Finish(r)
  <2>1. /\ pc[r] \in {"start", "open"} /\ pc'[r] \in {"open", "preflight"}
        /\ pc[r] = "start" => verdict[r] = "ok"
    BY <1>1 DEF Opened, Reenter, Finish, Goto, TypeOK
  <2> QED BY <2>1, Places
<1>2. CASE EndEpoch(r)
  BY <1>2 DEF EndEpoch, Goto, TypeOK
<1>3. CASE EpochEntered(r)
  BY <1>3 DEF EpochEntered, Goto, TypeOK
<1>4. CASE \/ BeginRefused(r) \/ StartReported(r) \/ Published(r) \/ PreflightFailed(r)
           \/ WaitReported(r) \/ EpochRefused(r) \/ EpochClosed(r) \/ ReserveRefused(r)
  <2>1. Leaves(r) /\ Return(r, Outcome(r))
    BY <1>4, ReturnsLocal
  <2>2. pc'[r] = "idle" /\ Target(r) # "close"
    <3>1. Target(r) \in {None, "enter", "reserve", "begin"}
      BY <2>1 DEF Target, Opening
    <3> QED BY <2>1, <3>1 DEF Return, Goto, TypeOK, None
  <2> QED BY <2>1, <2>2 DEF Leaves
<1>5. CASE Begin(r) \/ EnterEpoch(r) \/ Reserve(r)
  <2>1. pc[r] = "idle" /\ pc'[r] \in {"begin", "enter", "reserve"}
    BY <1>5 DEF Begin, EnterEpoch, Reserve, Goto, TypeOK
  <2> QED BY <2>1, Places DEF Leaves
<1>6. CASE NextStage(r)
  <2>1. pc[r] = "reserve" /\ pc'[r] = "reserve"
    BY <1>6 DEF NextStage
  <2> QED BY <2>1, Places
<1> QED BY <1>1, <1>2, <1>3, <1>4, <1>5, <1>6 DEF Silent

\* What the operations on requests do, link by link.
LEMMA StartallEffect ==
  ASSUME TypeOK, NEW r \in Ranks, NEW To, NEW From, NEW data,
         Startall(r, To, From, data), NEW p \in Ranks, NEW q \in Ranks
  PROVE  /\ sending'[p][q] = IF p = r /\ q \in To THEN "active" ELSE sending[p][q]
         /\ receiving'[p][q] = IF p = r /\ q \in From THEN "active"
                               ELSE receiving[p][q]
         /\ network'[p][q] = IF p = r /\ q \in To THEN Append(network[p][q], data)
                             ELSE network[p][q]
BY DEF Startall, TypeOK

LEMMA WaitallEffect ==
  ASSUME TypeOK, NEW r \in Ranks, Waitall(r), NEW p \in Ranks, NEW q \in Ranks
  PROVE  /\ sending'[p][q] = IF p = r /\ sending[p][q] \in {"buffered", "done"}
                             THEN "inactive" ELSE sending[p][q]
         /\ receiving'[p][q] = IF p = r /\ receiving[p][q] = "done"
                               THEN "inactive" ELSE receiving[p][q]
         /\ network'[p][q] = network[p][q]
BY DEF Waitall, TypeOK

LEMMA CancelEffect ==
  ASSUME TypeOK, NEW r \in Ranks, CancelAndDrain(r), NEW p \in Ranks, NEW q \in Ranks
  PROVE  IF p = r /\ impl[r].started
         THEN /\ sending'[p][q] = "inactive" /\ receiving'[p][q] = "inactive"
              /\ network'[p][q] = IF Open(p, q)
                   THEN SubSeq(network[p][q], 1, Len(network[p][q]) - 1)
                   ELSE network[p][q]
         ELSE /\ sending'[p][q] = sending[p][q] /\ receiving'[p][q] = receiving[p][q]
              /\ network'[p][q] = network[p][q]
<1>1. CASE impl[r].started
  <2>1. /\ sending' = [sending EXCEPT ![r] = ForAll("inactive")]
        /\ receiving' = [receiving EXCEPT ![r] = ForAll("inactive")]
        /\ network' = [network EXCEPT ![r] = [x \in Ranks |->
             IF sending[r][x] \in {"active", "buffered"}
             THEN SubSeq(@[x], 1, Len(@[x]) - 1) ELSE @[x]]]
    BY <1>1 DEF CancelAndDrain
  <2>2. CASE p = r
    <3>1. /\ sending'[r] = ForAll("inactive") /\ receiving'[r] = ForAll("inactive")
          /\ network'[r] = [x \in Ranks |->
               IF sending[r][x] \in {"active", "buffered"}
               THEN SubSeq(network[r][x], 1, Len(network[r][x]) - 1)
               ELSE network[r][x]]
      BY <2>1 DEF TypeOK
    <3> QED BY <1>1, <2>2, <3>1 DEF ForAll, Open
  <2>3. CASE p # r
    BY <2>1, <2>3 DEF TypeOK
  <2> QED BY <2>2, <2>3
<1>2. CASE ~impl[r].started
  BY <1>2 DEF CancelAndDrain, wires
<1> QED BY <1>1, <1>2

LEMMA ReservedEffect ==
  ASSUME TypeOK, NEW r \in Ranks, Reserved(r), NEW p \in Ranks, NEW q \in Ranks
  PROVE  /\ sending'[p][q] = IF p = r THEN "inactive" ELSE sending[p][q]
         /\ receiving'[p][q] = IF p = r THEN "inactive" ELSE receiving[p][q]
         /\ network'[p][q] = IF r \in {p, q} THEN <<>> ELSE network[p][q]
BY DEF Reserved, TypeOK, ForAll

\* An exchange is started with all peers, unless MPI_Startall fails.
LEMMA Launch ==
  ASSUME TypeOK, NEW r \in Ranks, Start(r) \/ BeginPrepared(r)
  PROVE  \E To, From \in SUBSET Links(r) :
           /\ Startall(r, To, From, outbox'[r])
           /\ BeginPrepared(r) \/ vote'[r] = "ok" => To = Links(r) /\ From = Links(r)
<1>1. CASE Start(r)
  <2>1. pc'[r] = "start" /\ outbox' = outbox
    BY <1>1 DEF Start, Goto, TypeOK, buffers
  <2>2. CASE vote'[r] = "ok"
    <3>1. Startall(r, Links(r), Links(r), outbox[r])
      BY <1>1, <2>2 DEF Start, AnswerAndAsk, TypeOK
    <3> QED BY <2>1, <3>1
  <2>3. CASE vote'[r] # "ok"
    <3>1. \E To, From \in SUBSET Links(r) : Startall(r, To, From, outbox[r])
      BY <1>1, <2>3 DEF Start
    <3>2. pc[r] = "begin"
      BY <1>1 DEF Start
    <3>3. ~BeginPrepared(r)
      BY <3>2 DEF BeginPrepared
    <3> QED BY <2>1, <2>3, <3>1, <3>3
  <2> QED BY <2>2, <2>3
<1>2. CASE BeginPrepared(r)
  <2>1. Startall(r, Links(r), Links(r), outbox'[r])
    BY <1>2 DEF BeginPrepared
  <2> QED BY <2>1
<1> QED BY <1>1, <1>2

\* An ordinary exchange ends when all its requests are complete, unless MPI
\* leaves some open.
LEMMA Completed ==
  ASSUME TypeOK, NEW r \in Ranks, Wait(r) \/ FinishPrepared(r), ~faults'.broken
  PROVE  Complete(r) /\ Waitall(r)
<1>1. CASE FinishPrepared(r)
  BY <1>1 DEF FinishPrepared
<1>2. CASE Wait(r)
  <2>1. ~Fault("pending")
    BY Recovered DEF Unrecovered
  <2> QED BY <1>2, <2>1 DEF Wait
<1> QED BY <1>1, <1>2

LEMMA RecreateParts ==
  ASSUME TypeOK, NEW r \in Ranks, StartFailed(r) \/ WaitFailed(r)
  PROVE  /\ CancelAndDrain(r)
         /\ \/ pc[r] = "start" /\ pc'[r] = "restart"
            \/ pc[r] = "wait" /\ pc'[r] = "recover"
         /\ verdict[r] # None
<1>1. PICK s : Recreate(r, s)
  BY DEF StartFailed, WaitFailed
<1>2. CancelAndDrain(r) /\ verdict[r] # None
  BY <1>1 DEF Recreate, AnswerAndAsk, Answer
<1>3. CASE StartFailed(r)
  <2>1. pc[r] = "start" /\ pc' = [pc EXCEPT ![r] = "restart"]
    BY <1>3 DEF StartFailed, Goto
  <2> QED BY <1>2, <2>1 DEF TypeOK
<1>4. CASE WaitFailed(r)
  <2>1. pc[r] = "wait" /\ pc' = [pc EXCEPT ![r] = "recover"]
    BY <1>4 DEF WaitFailed, Goto
  <2> QED BY <1>2, <2>1 DEF TypeOK
<1> QED BY <1>3, <1>4

-----------------------------------------------------------------------------
(***************************************************************************)
(* Requests.                                                               *)
(***************************************************************************)
LEMMA WiredKept ==
  ASSUME IndInv, NEW r \in Ranks, RankStep(r), ~faults'.broken, Wired(r)
  PROVE  Wired(r)'
<1>1. TypeOK /\ Local(r)
  BY DEF IndInv
<1>2. CASE Silent(r)
  <2>1. sending' = sending /\ receiving' = receiving
    BY <1>2, SilentWires
  <2>2. CASE /\ pc[r] \notin {"start", "open", "preflight", "ready", "flying"}
             /\ pc'[r] \notin {"start", "open", "preflight", "flying", "close"}
    BY <2>1, <2>2 DEF Wired
  <2>3. CASE /\ pc[r] \in {"start", "open"} /\ pc'[r] \in {"open", "preflight"}
             /\ pc[r] = "start" => verdict[r] = "ok"
    BY <2>1, <2>3 DEF Wired, Says
  <2>4. CASE /\ pc[r] = "ready" /\ pc'[r] = "close"
             /\ stage[r] = EpochExchanges /\ stage'[r] = stage[r]
    BY <2>1, <2>4 DEF Wired
  <2> QED BY <1>1, <1>2, <2>2, <2>3, <2>4, SilentPlace
<1>3. CASE Start(r) \/ BeginPrepared(r)
  <2>1. PICK To \in SUBSET Links(r), From \in SUBSET Links(r) :
          /\ Startall(r, To, From, outbox'[r])
          /\ BeginPrepared(r) \/ vote'[r] = "ok" => To = Links(r) /\ From = Links(r)
    BY <1>1, <1>3, Launch
  <2>2. /\ pc'[r] \in {"start", "flying"}
        /\ pc'[r] = "flying" => BeginPrepared(r)
        /\ pc'[r] = "start" => verdict'[r] = None
    BY <1>1, <1>3 DEF Start, BeginPrepared, Goto, AnswerAndAsk, Answer, TypeOK
  <2>3. pc'[r] = "start" => impl'[r].started = (Links(r) # {})
    <3>1. CASE Start(r)
      <4> DEFINE b == Links(r) # {}
      <4>1. impl' = [impl EXCEPT ![r].started = b] /\ b \in BOOLEAN
        BY <3>1 DEF Start
      <4>2. impl'[r].started = b
        <5> HIDE DEF b
        <5> QED BY <1>1, <4>1 DEF TypeOK, Impls
      <4> QED BY <4>2
    <3>2. CASE BeginPrepared(r)
      BY <1>1, <3>2 DEF BeginPrepared, Goto, TypeOK
    <3> QED BY <1>3, <3>1, <3>2
  <2>4. \A q \in Ranks :
          /\ sending'[r][q] = IF q \in To THEN "active" ELSE sending[r][q]
          /\ receiving'[r][q] = IF q \in From THEN "active" ELSE receiving[r][q]
    BY <1>1, <2>1, StartallEffect
  <2>5. pc[r] \notin {"start", "open", "preflight", "flying"}
    BY <1>3 DEF Start, BeginPrepared
  <2>6. \A q \in Ranks : q \notin Links(r) =>
          sending[r][q] = "inactive" /\ receiving[r][q] = "inactive"
    BY DEF Wired
  <2>7. pc'[r] = "start" /\ Says(r, "ok")' => vote'[r] = "ok"
    BY <2>2 DEF Says, None
  <2> QED BY <2>1, <2>2, <2>3, <2>4, <2>5, <2>6, <2>7 DEF Wired
<1>4. CASE StartFailed(r) \/ WaitFailed(r)
  <2>1. /\ CancelAndDrain(r) /\ pc'[r] \in {"restart", "recover"}
        /\ pc[r] = "start" \/ pc[r] = "wait"
    BY <1>1, <1>4, RecreateParts
  <2>2. \A q \in Ranks : sending'[r][q] = "inactive" /\ receiving'[r][q] = "inactive"
    <3> SUFFICES ASSUME NEW q \in Ranks
                 PROVE  sending'[r][q] = "inactive" /\ receiving'[r][q] = "inactive"
      OBVIOUS
    <3>1. CASE impl[r].started
      BY <1>1, <2>1, <3>1, CancelEffect
    <3>2. CASE ~impl[r].started
      <4>1. sending[r][q] = "inactive" /\ receiving[r][q] = "inactive"
        BY <2>1, <3>2 DEF Wired
      <4> QED BY <1>1, <2>1, <3>2, <4>1, CancelEffect
    <3> QED BY <3>1, <3>2
  <2> QED BY <2>1, <2>2 DEF Wired
<1>5. CASE Wait(r) \/ FinishPrepared(r)
  <2>1. Complete(r) /\ Waitall(r)
    BY <1>1, <1>5, Completed
  <2>2. pc'[r] \in {"wait", "ready"}
    BY <1>1, <1>5 DEF Wait, FinishPrepared, Goto, TypeOK
  <2>3. \A q \in Ranks : sending'[r][q] = "inactive" /\ receiving'[r][q] = "inactive"
    BY <1>1, <2>1, WaitallEffect DEF Complete, Wired
  <2> QED BY <2>2, <2>3 DEF Wired
<1>6. CASE Reserved(r)
  <2>1. pc'[r] = "idle"
    BY <1>1, <1>6 DEF Reserved, Return, Goto, TypeOK
  <2>2. \A q \in Ranks : sending'[r][q] = "inactive" /\ receiving'[r][q] = "inactive"
    BY <1>1, <1>6, ReservedEffect
  <2> QED BY <2>1, <2>2 DEF Wired
<1> QED BY <1>2, <1>3, <1>4, <1>5, <1>6, StepKinds

-----------------------------------------------------------------------------
(***************************************************************************)
(* Messages.                                                               *)
(***************************************************************************)
LEMMA LinkSame ==
  ASSUME NEW p \in Ranks, NEW q \in Ranks, Link(p, q), Target(p)' = Target(p),
         network'[p][q] = network[p][q], sending'[p][q] = sending[p][q],
         receiving'[q][p] = receiving[q][p],
         Target(p) = "close" =>
           Launched(p)' = Launched(p) /\ Taken(q, p)' = Taken(q, p)
  PROVE  Link(p, q)'
<1>1. Open(p, q)' = Open(p, q) /\ Took(q, p)' = Took(q, p)
  BY DEF Open, Took
<1>2. CASE q \notin Links(p)
  BY <1>2 DEF Link, Links
<1>3. CASE q \in Links(p)
  BY <1>1, <1>3 DEF Link, Links
<1> QED BY <1>2, <1>3

\* The place of a rank that does not take a step, and what it has launched and
\* taken.
LEMMA Elsewhere ==
  ASSUME IndInv, NEW r \in Ranks, RankStep(r), NEW p \in Ranks \ {r}, NEW q \in Ranks
  PROVE  /\ Launched(p)' = Launched(p) /\ Taken(p, q)' = Taken(p, q)
         /\ sending'[p][q] = sending[p][q] /\ receiving'[p][q] = receiving[p][q]
BY RankStill DEF IndInv, Still, Steady, Launched, Taken

LEMMA SilentLink ==
  ASSUME IndInv, NEW r \in Ranks, RankStep(r), Silent(r),
         NEW p \in Ranks, NEW q \in Ranks, Link(p, q)
  PROVE  Link(p, q)'
<1>1. TypeOK /\ Local(r) /\ Target(p)' = Target(p) /\ Target(q) = Target(p)
  BY TargetKept, SameTarget DEF IndInv
<1>2. network' = network /\ sending' = sending /\ receiving' = receiving
  BY SilentWires
<1>3. Target(r) = "close" => /\ stage'[r] = stage[r]
                             /\ pc[r] # "flying" /\ pc'[r] # "flying"
  BY <1>1, SilentPlace
<1>4. Target(p) = "close" =>
        Launched(p)' = Launched(p) /\ Taken(q, p)' = Taken(q, p)
  BY <1>1, <1>3, Elsewhere DEF Launched, Taken
<1> QED BY <1>1, <1>2, <1>4, LinkSame

\* A rank starts an exchange.
LEMMA LaunchLink ==
  ASSUME IndInv, NEW r \in Ranks, RankStep(r), Start(r) \/ BeginPrepared(r),
         \A x \in Ranks : Wired(x), NEW p \in Ranks, NEW q \in Ranks, Link(p, q)
  PROVE  Link(p, q)'
<1>1. /\ TypeOK /\ Local(r) /\ Target(p)' = Target(p)
      /\ Target(r) = Target(p) /\ Target(q) = Target(p)
  BY TargetKept, SameTarget DEF IndInv
<1>2. PICK To \in SUBSET Links(r), From \in SUBSET Links(r) :
        /\ Startall(r, To, From, outbox'[r])
        /\ BeginPrepared(r) \/ vote'[r] = "ok" => To = Links(r) /\ From = Links(r)
  BY <1>1, Launch
<1>3. /\ sending'[p][q] = IF p = r /\ q \in To THEN "active" ELSE sending[p][q]
      /\ receiving'[q][p] = IF q = r /\ p \in From THEN "active" ELSE receiving[q][p]
      /\ network'[p][q] = IF p = r /\ q \in To THEN Append(network[p][q], outbox'[r])
                          ELSE network[p][q]
  BY <1>1, <1>2, StartallEffect
<1>4. network[p][q] \in Seq(Nat)
  BY <1>1 DEF TypeOK
<1>5. CASE q \notin Links(p)
  BY <1>2, <1>3, <1>5 DEF Link, Links
<1>6. CASE q \in Links(p) /\ Start(r)
  <2>1. pc[r] = "begin" /\ verdict[r] = "ok"
    BY <1>6 DEF Start
  <2>2. Target(p) = "start"
    BY <1>1, <2>1 DEF Target, Leaves, None
  <2>3. /\ Len(network[p][q]) = Bit(Open(p, q))
        /\ sending[p][q] = "done" <=> Took(q, p)
    BY <1>6, <2>2 DEF Link
  <2>4. /\ p = r => sending[p][q] = "inactive"
        /\ q = r => receiving[q][p] = "inactive"
    BY <2>1 DEF Wired
  <2>5. /\ Len(network'[p][q]) = Bit(Open(p, q)')
        /\ sending'[p][q] = "done" <=> Took(q, p)'
    <3>1. CASE p = r /\ q \in To
      BY <1>3, <1>4, <2>3, <2>4, <3>1 DEF Bit, Open, Took, Links
    <3>2. CASE ~(p = r /\ q \in To)
      BY <1>3, <2>3, <2>4, <3>2 DEF Bit, Open, Took, Links
    <3> QED BY <3>1, <3>2
  <2> QED BY <1>1, <1>6, <2>2, <2>5 DEF Link, Links
<1>7. CASE q \in Links(p) /\ BeginPrepared(r)
  <2>1. /\ pc[r] = "ready" /\ pc'[r] = "flying" /\ stage'[r] = stage[r]
        /\ To = Links(r) /\ From = Links(r)
    BY <1>1, <1>2, <1>7 DEF BeginPrepared, Goto, TypeOK
  <2>2. Target(p) = "close"
    BY <1>1, <2>1 DEF Target, Leaves
  <2>3. Len(network[p][q]) + Taken(q, p) = Launched(p)
    BY <1>7, <2>2 DEF Link
  <2>4. /\ stage[p] \in Nat /\ stage[q] \in Nat /\ p # q
        /\ p \in Links(q)
    BY <1>1, <1>7, HaloAssumption DEF TypeOK, Links
  <2>5. Len(network'[p][q]) + Taken(q, p)' = Launched(p)'
    <3>1. CASE p = r
      <4>1. Taken(q, p)' = Taken(q, p)
        BY <2>4, <3>1, Elsewhere
      <4>2. Launched(p)' = Launched(p) + 1
        BY <2>1, <2>4, <3>1 DEF Launched
      <4>3. Len(network'[p][q]) = Len(network[p][q]) + 1
        BY <1>3, <1>4, <1>7, <2>1, <3>1
      <4> QED BY <1>4, <2>3, <2>4, <4>1, <4>2, <4>3 DEF Taken, Launched
    <3>2. CASE q = r
      <4>1. Launched(p)' = Launched(p)
        BY <2>4, <3>2, Elsewhere
      <4>2. Taken(q, p)' = Taken(q, p)
        BY <1>3, <2>1, <2>4, <3>2 DEF Taken
      <4> QED BY <1>3, <2>3, <2>4, <3>2, <4>1, <4>2
    <3>3. CASE p # r /\ q # r
      BY <1>3, <2>3, <3>3, Elsewhere
    <3> QED BY <3>1, <3>2, <3>3
  <2> QED BY <1>1, <1>7, <2>2, <2>5 DEF Link, Links
<1> QED BY <1>5, <1>6, <1>7

\* A rank withdraws the messages that it has sent and nobody has received.
LEMMA RecreateLink ==
  ASSUME IndInv, NEW r \in Ranks, RankStep(r), StartFailed(r) \/ WaitFailed(r),
         \A x \in Ranks : Wired(x), NEW p \in Ranks, NEW q \in Ranks, Link(p, q)
  PROVE  Link(p, q)'
<1>1. /\ TypeOK /\ Local(r) /\ Target(p)' = Target(p)
      /\ Target(r) = Target(p) /\ Target(q) = Target(p)
  BY TargetKept, SameTarget DEF IndInv
<1>2. /\ CancelAndDrain(r) /\ verdict[r] # None
      /\ \/ pc[r] = "start" /\ pc'[r] = "restart"
         \/ pc[r] = "wait" /\ pc'[r] = "recover"
  BY <1>1, RecreateParts
<1>3. network[p][q] \in Seq(Nat)
  BY <1>1 DEF TypeOK
<1>4. p # r => network'[p][q] = network[p][q] /\ sending'[p][q] = sending[p][q]
  BY <1>1, <1>2, CancelEffect
<1>5. CASE q \notin Links(p)
  <2>1. ~Open(p, q)
    BY <1>5 DEF Wired, Open
  <2>2. network'[p][q] = network[p][q]
    BY <1>1, <1>2, <2>1, CancelEffect
  <2> QED BY <1>5, <2>2 DEF Link, Links
<1>6. CASE q \in Links(p) /\ pc[r] = "start"
  <2>1. verdict[r] # "ok" /\ Target(p) = "restart"
    <3>1. StartFailed(r)
      BY <1>2, <1>6 DEF WaitFailed
    <3>2. verdict[r] # "ok"
      BY <3>1 DEF StartFailed
    <3> QED BY <1>1, <1>2, <1>6, <3>2 DEF Target, Leaves
  <2>2. Len(network[p][q]) = Bit(Open(p, q))
    BY <1>6, <2>1 DEF Link
  <2>3. Len(network'[p][q]) = Bit(Open(p, q)')
    <3>1. CASE p # r
      BY <1>4, <2>2, <3>1 DEF Open
    <3>2. CASE p = r
      <4>1. impl[r].started
        BY <1>6, <3>2 DEF Wired
      <4>2. /\ sending'[p][q] = "inactive"
            /\ network'[p][q] = IF Open(p, q)
                 THEN SubSeq(network[p][q], 1, Len(network[p][q]) - 1)
                 ELSE network[p][q]
        BY <1>1, <1>2, <3>2, <4>1, CancelEffect
      <4>3. CASE Open(p, q)
        <5>1. Len(network[p][q]) = 1
          BY <2>2, <4>3 DEF Bit
        <5>2. network'[p][q] = SubSeq(network[p][q], 1, 0)
          BY <4>2, <4>3, <5>1
        <5>3. Len(network'[p][q]) = 0
          BY <1>3, <5>2
        <5> QED BY <4>2, <5>3 DEF Bit, Open
      <4>4. CASE ~Open(p, q)
        BY <2>2, <4>2, <4>4 DEF Bit, Open
      <4> QED BY <4>3, <4>4
    <3> QED BY <3>1, <3>2
  <2> QED BY <1>1, <1>6, <2>1, <2>3 DEF Link, Links
<1>7. CASE q \in Links(p) /\ pc[r] = "wait"
  <2>1. Target(p) = "recover"
    <3>1. verdict[r] = "completion"
      BY <1>2, <1>7 DEF WaitFailed, StartFailed
    <3> QED BY <1>1, <1>7, <3>1 DEF Target, Leaves, None
  <2>2. Len(network[p][q]) = 0
    BY <1>7, <2>1 DEF Link
  <2>3. p = r => ~Open(p, q)
    BY <1>7 DEF Wired, Open
  <2>4. network'[p][q] = network[p][q]
    BY <1>1, <1>2, <1>4, <2>3, CancelEffect
  <2> QED BY <1>1, <1>7, <2>1, <2>2, <2>4 DEF Link, Links
<1> QED BY <1>2, <1>5, <1>6, <1>7

\* A rank's requests are complete.
LEMMA WaitLink ==
  ASSUME IndInv, NEW r \in Ranks, RankStep(r), Wait(r) \/ FinishPrepared(r),
         ~faults'.broken, NEW p \in Ranks, NEW q \in Ranks, Link(p, q)
  PROVE  Link(p, q)'
<1>1. /\ TypeOK /\ Local(r) /\ Target(p)' = Target(p)
      /\ Target(r) = Target(p) /\ Target(q) = Target(p)
  BY TargetKept, SameTarget DEF IndInv
<1>2. Complete(r) /\ Waitall(r)
  BY <1>1, Completed
<1>3. /\ network'[p][q] = network[p][q]
      /\ receiving'[q][p] = IF q = r /\ receiving[q][p] = "done" THEN "inactive"
                            ELSE receiving[q][p]
  BY <1>1, <1>2, WaitallEffect
<1>4. CASE q \notin Links(p)
  BY <1>3, <1>4 DEF Link, Links
<1>5. q \in Links(p) => p \in Links(q) /\ p # q
  BY HaloAssumption DEF Links
<1>6. CASE q \in Links(p) /\ Wait(r)
  <2>1. Target(p) = "wait"
    <3>1. pc[r] = "preflight" /\ verdict[r] # None
      BY <1>6 DEF Wait, AnswerAndAsk, Answer
    <3> QED BY <1>1, <3>1 DEF Target, Leaves
  <2>2. Bit(receiving'[q][p] = "active") = Bit(receiving[q][p] = "active")
    BY <1>3 DEF Bit
  <2> QED BY <1>1, <1>3, <1>6, <2>1, <2>2 DEF Link, Links
<1>7. CASE q \in Links(p) /\ FinishPrepared(r)
  <2>1. pc[r] = "flying" /\ pc'[r] = "ready" /\ stage'[r] = stage[r] + 1
    BY <1>1, <1>7 DEF FinishPrepared, Goto, TypeOK
  <2>2. Target(p) = "close"
    BY <1>1, <2>1 DEF Target, Leaves
  <2>3. stage[r] \in Nat
    BY <1>1 DEF TypeOK
  <2>4. Launched(p)' = Launched(p)
    BY <2>1, <2>3, Elsewhere DEF Launched
  <2>5. Taken(q, p)' = Taken(q, p)
    <3>1. CASE q = r
      BY <1>2, <1>5, <1>7, <2>1, <2>3, <3>1 DEF Taken, Complete
    <3> QED BY <3>1, Elsewhere
  <2> QED BY <1>1, <1>3, <1>7, <2>2, <2>4, <2>5 DEF Link, Links
<1> QED BY <1>4, <1>6, <1>7

\* No message is on its way to or from an engine that is replaced.
LEMMA ReservedLink ==
  ASSUME IndInv, NEW r \in Ranks, RankStep(r), Reserved(r),
         \A x \in Ranks : Wired(x), NEW p \in Ranks, NEW q \in Ranks, Link(p, q)
  PROVE  Link(p, q)'
<1>1. /\ TypeOK /\ Target(p)' = Target(p) /\ Target(r) = Target(p)
      /\ Local(r)
  BY TargetKept, SameTarget DEF IndInv
<1>2. Target(p) \in {None, "enter", "reserve", "begin"}
  <2>1. Leaves(r)
    BY <1>1, ReturnsLocal
  <2> QED BY <1>1, <2>1 DEF Target, Opening
<1>3. network[p][q] \in Seq(Nat)
  BY <1>1 DEF TypeOK
<1>4. network[p][q] = <<>>
  BY <1>2, <1>3 DEF Link, None
<1>5. network'[p][q] = <<>>
  BY <1>1, <1>4, ReservedEffect
<1> QED BY <1>1, <1>2, <1>5 DEF Link, Links, None

LEMMA RankLinked ==
  ASSUME IndInv, Linked, NEW r \in Ranks, RankStep(r)
  PROVE  Linked'
<1> SUFFICES ASSUME ~faults'.broken
             PROVE  /\ \A x \in Ranks : Wired(x)'
                    /\ \A p, q \in Ranks : Link(p, q)'
  BY DEF Linked
<1>1. /\ \A x \in Ranks : Wired(x)
      /\ \A p, q \in Ranks : Link(p, q)
  BY FaultsStep, Recovered DEF Linked
<1>2. ASSUME NEW x \in Ranks PROVE Wired(x)'
  <2>1. CASE x = r
    BY <1>1, <2>1, WiredKept
  <2>2. CASE x # r
    <3>1. Still(x) /\ Wired(x)
      BY <1>1, <2>2, RankStill DEF IndInv
    <3>2. Says(x, "ok")' = Says(x, "ok")
      BY <3>1 DEF Says, Still, Steady
    <3> QED BY <3>1, <3>2 DEF Wired, Still, Steady, Links
  <2> QED BY <2>1, <2>2
<1>3. ASSUME NEW p \in Ranks, NEW q \in Ranks PROVE Link(p, q)'
  BY <1>1, SilentLink, LaunchLink, RecreateLink, WaitLink, ReservedLink, StepKinds
<1> QED BY <1>2, <1>3

LEMMA MessageSteady ==
  ASSUME IndInv, NEW a \in Ranks, NEW b \in Ranks, Match(a, b) \/ Buffer(a, b),
         NEW r \in Ranks
  PROVE  Steady(r) /\ Target(r)' = Target(r)
<1>1. Steady(r)
  BY DEF Match, Buffer, Steady, control, caller
<1>2. Destination(r)' = Destination(r)
  BY <1>1, SteadyLocal DEF IndInv, Steady
<1>3. Destination(r)'[2] = Destination(r)[2]
  BY <1>2
<1> QED BY <1>1, <1>3 DEF Destination

LEMMA MatchEffect ==
  ASSUME TypeOK, NEW a \in Ranks, NEW b \in Ranks, Match(a, b),
         NEW p \in Ranks, NEW q \in Ranks
  PROVE  IF p = a /\ q = b
         THEN /\ receiving[q][p] = "active" /\ network[p][q] # <<>>
              /\ network'[p][q] = Tail(network[p][q])
              /\ receiving'[q][p] = "done"
              /\ inbox'[q][p] = Head(network[p][q])
              /\ sending'[p][q] =
                   IF Len(network[p][q]) = 1 /\ sending[p][q] # "inactive"
                   THEN "done" ELSE sending[p][q]
         ELSE /\ network'[p][q] = network[p][q] /\ sending'[p][q] = sending[p][q]
              /\ receiving'[q][p] = receiving[q][p] /\ inbox'[q][p] = inbox[q][p]
BY DEF Match, TypeOK

LEMMA MatchLink ==
  ASSUME IndInv, NEW p \in Ranks, NEW q \in Ranks, Match(p, q),
         Wired(p), Wired(q), Link(p, q)
  PROVE  Link(p, q)'
<1> DEFINE n == Len(network[p][q])
<1>1. TypeOK /\ Local(q) /\ Target(q) = Target(p) /\ Target(p)' = Target(p)
  BY SameTarget, MessageSteady DEF IndInv
<1>2. /\ receiving[q][p] = "active" /\ network[p][q] # <<>>
      /\ network'[p][q] = Tail(network[p][q]) /\ receiving'[q][p] = "done"
      /\ sending'[p][q] = IF n = 1 /\ sending[p][q] # "inactive" THEN "done"
                          ELSE sending[p][q]
  BY <1>1, MatchEffect
<1>3. /\ p \in Links(q) /\ q \in Links(p)
      /\ pc[q] \in {"start", "open", "preflight", "flying"}
  BY <1>2, HaloAssumption DEF Wired, Links
<1>4. n \in Nat \ {0} /\ Len(network'[p][q]) = n - 1
  <2>1. network[p][q] \in Seq(Nat)
    BY <1>1 DEF TypeOK
  <2> QED BY <1>2, <2>1
<1> HIDE DEF n
<1>5. CASE Target(p) \in {"start", "open", "preflight"}
  <2>1. n = Bit(Open(p, q))
    BY <1>3, <1>5 DEF Link, n
  <2>2. n = 1 /\ Open(p, q)
    BY <1>4, <2>1 DEF Bit
  <2>3. sending'[p][q] = "done" /\ Len(network'[p][q]) = 0
    BY <1>2, <1>4, <2>2 DEF Open
  <2> QED BY <1>1, <1>2, <1>3, <1>5, <2>3 DEF Link, Links, Open, Took, Bit
<1>6. CASE Target(p) = "restart"
  <2>1. n = Bit(Open(p, q))
    BY <1>3, <1>6 DEF Link, n
  <2>2. n = 1 /\ Open(p, q)
    BY <1>4, <2>1 DEF Bit
  <2>3. sending'[p][q] = "done" /\ Len(network'[p][q]) = 0
    BY <1>2, <1>4, <2>2 DEF Open
  <2> QED BY <1>1, <1>3, <1>6, <2>3 DEF Link, Links, Open, Bit
<1>7. CASE Target(p) = "wait"
  <2>1. n = 1
    BY <1>2, <1>3, <1>7 DEF Link, n, Bit
  <2> QED BY <1>1, <1>2, <1>3, <1>4, <1>7, <2>1 DEF Link, Links, Bit
<1>8. CASE Target(p) = "close"
  <2>1. n + Taken(q, p) = Launched(p)
    BY <1>3, <1>8 DEF Link, n
  <2>2. pc[q] = "flying" /\ stage[q] \in Nat
    BY <1>1, <1>3, <1>8, Places DEF TypeOK
  <2>3. Steady(p) /\ Steady(q)
    BY MessageSteady
  <2>4. Taken(q, p)' = Taken(q, p) + 1 /\ Taken(q, p) \in Nat
    BY <1>2, <2>2, <2>3 DEF Taken, Steady
  <2>5. Launched(p)' = Launched(p)
    BY <2>3 DEF Launched, Steady
  <2>6. Len(network'[p][q]) + Taken(q, p)' = Launched(p)'
    <3> DEFINE l == Len(network'[p][q])  t == Taken(q, p)
    <3>1. l = n - 1 /\ n \in Nat \ {0} /\ t \in Nat
      BY <1>4, <2>4
    <3>2. n + t = (n - 1) + (t + 1)
      <4> HIDE DEF t
      <4> QED BY <3>1
    <3> QED BY <2>1, <2>4, <2>5, <3>1, <3>2
  <2> QED BY <1>1, <1>3, <1>8, <2>6 DEF Link, Links
<1>9. CASE Target(p) \notin {"start", "open", "preflight", "restart", "wait", "close"}
  BY <1>3, <1>4, <1>9 DEF Link, n
<1> QED BY <1>5, <1>6, <1>7, <1>8, <1>9

LEMMA BufferLink ==
  ASSUME IndInv, NEW a \in Ranks, NEW b \in Ranks, Buffer(a, b),
         NEW p \in Ranks, NEW q \in Ranks, Link(p, q)
  PROVE  Link(p, q)'
<1>1. TypeOK /\ Steady(p) /\ Steady(q) /\ Target(p)' = Target(p)
  BY MessageSteady DEF IndInv
<1>2. /\ network' = network /\ receiving' = receiving
      /\ \/ sending'[p][q] = sending[p][q]
         \/ sending[p][q] = "active" /\ sending'[p][q] = "buffered"
  BY <1>1 DEF Buffer, TypeOK
<1>3. Launched(p)' = Launched(p) /\ Taken(q, p)' = Taken(q, p)
  BY <1>1, <1>2 DEF Steady, Launched, Taken
<1>4. Open(p, q)' = Open(p, q) /\ (sending'[p][q] = "done" <=> sending[p][q] = "done")
      /\ Took(q, p)' = Took(q, p)
  BY <1>2 DEF Open, Took
<1> QED BY <1>1, <1>2, <1>3, <1>4 DEF Link, Links

LEMMA MessageLinked ==
  ASSUME IndInv, Linked, NEW a \in Ranks, NEW b \in Ranks, Match(a, b) \/ Buffer(a, b)
  PROVE  Linked'
<1> SUFFICES ASSUME ~faults'.broken
             PROVE  /\ \A x \in Ranks : Wired(x)'
                    /\ \A p, q \in Ranks : Link(p, q)'
  BY DEF Linked
<1>1. /\ \A x \in Ranks : Wired(x)
      /\ \A p, q \in Ranks : Link(p, q)
  BY DEF Linked, Match, Buffer
<1>2. TypeOK
  BY DEF IndInv
<1>3. ASSUME NEW x \in Ranks PROVE Wired(x)'
  <2>1. Steady(x) /\ Wired(x)
    BY <1>1, MessageSteady
  <2>2. \A q \in Ranks :
          /\ sending'[x][q] = "inactive" <=> sending[x][q] = "inactive"
          /\ receiving'[x][q] = "inactive" <=> receiving[x][q] = "inactive"
    <3> SUFFICES ASSUME NEW q \in Ranks
                 PROVE  /\ sending'[x][q] = "inactive" <=> sending[x][q] = "inactive"
                        /\ receiving'[x][q] = "inactive" <=> receiving[x][q] = "inactive"
      OBVIOUS
    <3>1. CASE Match(a, b)
      BY <1>2, <3>1 DEF Match, TypeOK
    <3>2. CASE Buffer(a, b)
      BY <1>2, <3>2 DEF Buffer, TypeOK
    <3> QED BY <3>1, <3>2
  <2>3. Says(x, "ok")' = Says(x, "ok")
    BY <2>1 DEF Says, Steady
  <2> QED BY <2>1, <2>2, <2>3 DEF Wired, Steady, Links
<1>4. ASSUME NEW p \in Ranks, NEW q \in Ranks PROVE Link(p, q)'
  <2>1. CASE Match(p, q)
    BY <1>1, <2>1, MatchLink
  <2>2. CASE Match(a, b) /\ ~(p = a /\ q = b)
    <3>1. /\ network'[p][q] = network[p][q] /\ sending'[p][q] = sending[p][q]
          /\ receiving'[q][p] = receiving[q][p]
      BY <1>2, <2>2, MatchEffect
    <3>2. Steady(p) /\ Steady(q) /\ Target(p)' = Target(p)
      BY MessageSteady
    <3>3. Launched(p)' = Launched(p) /\ Taken(q, p)' = Taken(q, p)
      BY <3>1, <3>2 DEF Steady, Launched, Taken
    <3> QED BY <1>1, <3>1, <3>2, <3>3, LinkSame
  <2>3. CASE Buffer(a, b)
    BY <1>1, <2>3, BufferLink
  <2> QED BY <2>1, <2>2, <2>3
<1> QED BY <1>3, <1>4

\* A consensus sends the ranks on, and all requests and messages stay.
LEMMA AgreeTarget ==
  ASSUME IndInv, Agree, NEW r \in Ranks
  PROVE  /\ pc'[r] = pc[r] /\ stage'[r] = stage[r] /\ outcomes'[r] = outcomes[r]
         /\ revision'[r] = revision[r] /\ deferred'[r] = deferred[r]
         /\ impl'[r] = impl[r] /\ vote'[r] = None /\ vote[r] # None
         /\ verdict[r] = None /\ verdict'[r] # None
         /\ verdict'[r] = "ok" => vote[r] = "ok"
         /\ Target(r) = pc[r]
         /\ pc[r] = "begin" => Target(r)' \in {"start", None, "enter", "reserve", "begin"}
         /\ pc[r] = "start" => Target(r)' \in {"restart", "open", "preflight"}
         /\ pc[r] = "open" => Target(r)' = "preflight"
         /\ pc[r] = "preflight" => Target(r)' = "wait"
         /\ pc[r] = "wait" =>
              Target(r)' \in {"recover", None, "enter", "reserve", "begin"}
         /\ pc[r] = "enter" => Target(r)' \in {"close", None, "enter", "reserve", "begin"}
         /\ pc[r] \in {"restart", "recover", "close", "reserve"} =>
              Target(r)' \in {None, "enter", "reserve", "begin"}
         /\ pc[r] \notin {"idle", "ready", "flying"}
<1>1. PICK v \in Statuses :
        /\ verdict' = ForAll(v) /\ vote' = ForAll(None)
        /\ \A q \in Ranks : vote[q] # None /\ (v = "ok" => vote[q] = "ok")
        /\ \E q \in Ranks : vote[q] = v
  BY Agreed DEF IndInv
<1>2. /\ verdict[r] = None /\ ~Leaves(r) /\ vote[r] \in Ballot(pc[r])
      /\ pc[r] \notin {"idle", "ready", "flying"}
      /\ pc[r] = "open" => Round(r) = "reenter" /\ ticket[r]
  BY <1>1, Assembled
<1>3. /\ pc'[r] = pc[r] /\ stage'[r] = stage[r] /\ outcomes'[r] = outcomes[r]
      /\ revision'[r] = revision[r] /\ deferred'[r] = deferred[r]
      /\ impl'[r] = impl[r] /\ vote'[r] = None /\ verdict'[r] = v
      /\ v # None
  BY <1>1 DEF Agree, caller, ForAll, Statuses, Failures, None
<1>4. Target(r) = pc[r]
  BY <1>2 DEF Target
<1>5. v \in Ballot(pc[r])
  BY <1>1, Assembled
<1>6. Opening(Log(r))' \in {None, "enter", "reserve", "begin"}
  BY DEF Opening
<1>7. Leaves(r)' => Target(r)' \in {None, "enter", "reserve", "begin"}
  BY <1>6 DEF Target
<1>8. CASE Leaves(r)'
  <2>1. pc[r] \notin {"start", "open", "preflight"}
    BY <1>3, <1>8 DEF Leaves
  <2> QED BY <1>1, <1>2, <1>3, <1>4, <1>7, <1>8, <2>1
<1>9. CASE ~Leaves(r)'
  <2>1. Target(r)' =
          CASE pc[r] = "begin" -> "start"
            [] pc[r] = "start" -> IF v # "ok" THEN "restart"
                                  ELSE IF Round(r)' = "reenter" THEN "open"
                                  ELSE "preflight"
            [] pc[r] = "open" -> "preflight"
            [] pc[r] = "preflight" -> "wait"
            [] pc[r] = "wait" -> "recover"
            [] pc[r] = "enter" -> "close"
            [] OTHER -> pc[r]
    BY <1>2, <1>3, <1>9 DEF Target
  <2>2. pc[r] \notin {"restart", "recover", "close"}
    BY <1>3, <1>9 DEF Leaves
  <2> QED BY <1>1, <1>2, <1>3, <1>4, <2>1, <2>2
<1> QED BY <1>8, <1>9

LEMMA AgreeLink ==
  ASSUME IndInv, Agree, \A x \in Ranks : Wired(x),
         NEW p \in Ranks, NEW q \in Ranks, Link(p, q)
  PROVE  Link(p, q)'
<1> DEFINE n == Len(network[p][q])
           T == Target(p)'
<1>1. TypeOK /\ Local(p) /\ Local(q) /\ pc[q] = pc[p] /\ Target(q) = Target(p)
  BY SameTarget, AgreeTarget DEF IndInv
<1>2. /\ network' = network /\ sending' = sending /\ receiving' = receiving
      /\ Len(network'[p][q]) = n
  BY DEF Agree, wires
<1>3. /\ pc'[p] = pc[p] /\ pc'[q] = pc[p] /\ stage'[p] = stage[p] /\ stage'[q] = stage[q]
      /\ Target(p) = pc[p] /\ pc[p] \notin {"idle", "ready", "flying"}
  BY <1>1, AgreeTarget
<1>4. /\ Open(p, q)' = Open(p, q) /\ Took(q, p)' = Took(q, p)
      /\ Launched(p)' = stage[p] /\ Taken(q, p)' = stage[q]
      /\ Launched(p) = stage[p] /\ Taken(q, p) = stage[q]
  <2>1. stage[p] \in Nat /\ stage[q] \in Nat
    BY <1>1 DEF TypeOK
  <2> QED BY <1>1, <1>2, <1>3, <2>1 DEF Open, Took, Launched, Taken
<1>5. CASE q \notin Links(p)
  BY <1>2, <1>5 DEF Link, Links
<1>6. q \in Links(p) => p \in Links(q)
  BY HaloAssumption DEF Links
<1>7. network[p][q] \in Seq(Nat) /\ n \in Nat
  BY <1>1 DEF TypeOK
<1>8. CASE q \in Links(p)
  <2>1. CASE pc[p] = "begin"
    <3>1. n = 0 /\ T \in {"start", None, "enter", "reserve", "begin"}
      BY <1>3, <1>8, <2>1, AgreeTarget DEF Link
    <3>2. sending[p][q] = "inactive" /\ receiving[q][p] = "inactive"
      BY <1>1, <2>1 DEF Wired
    <3> QED BY <1>2, <1>8, <3>1, <3>2 DEF Link, Links, Open, Took, Bit, None
  <2>2. CASE pc[p] = "start"
    <3>1. /\ n = Bit(Open(p, q)) /\ (sending[p][q] = "done" <=> Took(q, p))
          /\ T \in {"restart", "open", "preflight"}
      BY <1>3, <1>8, <2>2, AgreeTarget DEF Link
    <3> QED BY <1>2, <1>4, <1>8, <3>1 DEF Link, Links
  <2>3. CASE pc[p] = "open"
    <3>1. /\ n = Bit(Open(p, q)) /\ (sending[p][q] = "done" <=> Took(q, p))
          /\ T = "preflight"
      BY <1>3, <1>8, <2>3, AgreeTarget DEF Link
    <3> QED BY <1>2, <1>4, <1>8, <3>1 DEF Link, Links
  <2>4. CASE pc[p] = "preflight"
    <3>1. /\ n = Bit(Open(p, q)) /\ (sending[p][q] = "done" <=> Took(q, p))
          /\ T = "wait"
      BY <1>3, <1>8, <2>4, AgreeTarget DEF Link
    <3>2. sending[p][q] # "inactive" /\ receiving[q][p] # "inactive"
      BY <1>1, <1>6, <1>8, <2>4 DEF Wired
    <3>3. /\ sending[p][q] \in {"active", "buffered", "done"}
          /\ receiving[q][p] \in {"active", "done"}
      <4>1. sending[p][q] \in Requests /\ receiving[q][p] \in Requests \ {"buffered"}
        BY <1>1 DEF TypeOK
      <4> QED BY <3>2, <4>1 DEF Requests
    <3>4. Open(p, q) <=> receiving[q][p] = "active"
      BY <3>1, <3>3 DEF Open, Took
    <3>5. n = Bit(receiving[q][p] = "active")
      BY <3>1, <3>4 DEF Bit
    <3> QED BY <1>2, <1>8, <3>1, <3>5 DEF Link, Links
  <2>5. CASE pc[p] \in {"restart", "wait", "recover", "reserve"}
    <3>1. T \in {"recover", None, "enter", "reserve", "begin"}
      BY <1>3, <2>5, AgreeTarget
    <3>2. sending[p][q] = "inactive" /\ receiving[q][p] = "inactive"
      BY <1>1, <2>5 DEF Wired
    <3>3. n = 0
      BY <1>3, <1>8, <2>5, <3>2 DEF Link, Open, Bit
    <3> QED BY <1>2, <1>8, <3>1, <3>3 DEF Link, Links, None
  <2>6. CASE pc[p] = "enter"
    <3>1. n = 0 /\ T \in {"close", None, "enter", "reserve", "begin"}
      BY <1>3, <1>8, <2>6, AgreeTarget DEF Link
    <3>2. stage[p] = 0 /\ stage[q] = 0
      BY <1>1, <2>6 DEF Local, Counted
    <3> QED BY <1>2, <1>4, <1>8, <3>1, <3>2 DEF Link, Links, None
  <2>7. CASE pc[p] = "close"
    <3>1. n + stage[q] = stage[p] /\ T \in {None, "enter", "reserve", "begin"}
      BY <1>3, <1>4, <1>8, <2>7, AgreeTarget DEF Link
    <3>2. stage[p] = EpochExchanges /\ stage[q] = EpochExchanges
      BY <1>1, <2>7 DEF Wired
    <3>3. n = 0
      BY <1>7, <3>1, <3>2, HaloAssumption
    <3> QED BY <1>2, <1>8, <3>1, <3>3 DEF Link, Links, None
  <2>8. pc[p] \in Pcs
    BY <1>1 DEF TypeOK
  <2> QED BY <1>3, <2>1, <2>2, <2>3, <2>4, <2>5, <2>6, <2>7, <2>8 DEF Pcs
<1> QED BY <1>5, <1>8

LEMMA AgreeLinked ==
  ASSUME IndInv, Linked, Agree
  PROVE  Linked'
<1> SUFFICES ASSUME ~faults'.broken
             PROVE  /\ \A x \in Ranks : Wired(x)'
                    /\ \A p, q \in Ranks : Link(p, q)'
  BY DEF Linked
<1>1. /\ \A x \in Ranks : Wired(x)
      /\ \A p, q \in Ranks : Link(p, q)
  BY DEF Linked, Agree
<1>2. ASSUME NEW x \in Ranks PROVE Wired(x)'
  <2>1. /\ pc'[x] = pc[x] /\ stage'[x] = stage[x] /\ impl'[x] = impl[x]
        /\ Says(x, "ok")' => Says(x, "ok")
    BY AgreeTarget DEF Says, None
  <2>2. sending' = sending /\ receiving' = receiving
    BY DEF Agree, wires
  <2> QED BY <1>1, <2>1, <2>2 DEF Wired, Links
<1> QED BY <1>1, <1>2, AgreeLink

LEMMA InitLinked == Init => Linked
<1> SUFFICES ASSUME Init
             PROVE  /\ \A x \in Ranks : Wired(x)
                    /\ \A p, q \in Ranks : Link(p, q)
  BY DEF Linked
<1>1. \A x \in Ranks : Wired(x)
  BY DEF Init, ForAll, Wired
<1>2. ASSUME NEW p \in Ranks, NEW q \in Ranks PROVE Link(p, q)
  <2>1. network[p][q] = <<>> /\ pc[p] = "idle"
    BY DEF Init, ForAll
  <2>2. Target(p) \in {None, "enter", "reserve", "begin"}
    BY <2>1 DEF Target, Opening
  <2> QED BY <2>1, <2>2 DEF Link, None
<1> QED BY <1>1, <1>2

LEMMA LinkedInductive ==
  ASSUME IndInv, Linked, [Next]_vars
  PROVE  Linked'
<1>1. CASE UNCHANGED vars
  <2>1. /\ \A x \in Ranks : Wired(x)' = Wired(x)
        /\ \A p \in Ranks : Leaves(p)' = Leaves(p) /\ Outcome(p)' = Outcome(p)
    BY <1>1 DEF vars, control, caller, wires, Wired, Says, Links, Leaves, Outcome
  <2>2. \A p \in Ranks : Steady(p)
    BY <1>1 DEF vars, control, caller, Steady
  <2>3. \A p \in Ranks : Target(p)' = Target(p)
    <3> SUFFICES ASSUME NEW p \in Ranks PROVE Target(p)' = Target(p)
      OBVIOUS
    <3>1. Destination(p)' = Destination(p)
      BY <2>2, SteadyLocal
    <3>2. Destination(p)'[2] = Destination(p)[2]
      BY <3>1
    <3> QED BY <3>2 DEF Destination
  <2>4. ASSUME NEW p \in Ranks, NEW q \in Ranks, Link(p, q) PROVE Link(p, q)'
    <3>1. network' = network /\ sending' = sending /\ receiving' = receiving
      BY <1>1 DEF vars, wires
    <3>2. Launched(p)' = Launched(p) /\ Taken(q, p)' = Taken(q, p)
      BY <2>2, <3>1 DEF Steady, Launched, Taken
    <3> QED BY <2>3, <2>4, <3>1, <3>2, LinkSame
  <2>5. faults' = faults
    BY <1>1 DEF vars
  <2> QED BY <2>1, <2>4, <2>5 DEF Linked
<1> QED BY <1>1, RankLinked, MessageLinked, AgreeLinked DEF Next, Terminated

\* The messages on their way are those that somebody still waits for, and every
\* request is open only within its exchange, unless a rank left a prepared epoch
\* early or was left with open requests.
THEOREM LinksCounted == Spec => []Linked
<1>1. Init => Linked
  BY InitLinked
<1>2. IndInv /\ Linked /\ [Next]_vars => Linked'
  BY LinkedInductive
<1> QED BY <1>1, <1>2, Inductive, PTL DEF Spec

\* Between rounds no request is open and no message is on its way that a later
\* exchange could take for its own (cancel_and_drain).
THEOREM Quiet == Spec => []QuietBetweenRounds
<1>1. ASSUME IndInv, Linked PROVE QuietBetweenRounds
  <2> SUFFICES ASSUME ~faults.broken, \A r \in Ranks : pc[r] = "idle"
               PROVE  /\ \A p, q \in Ranks : /\ network[p][q] = <<>>
                                             /\ sending[p][q] = "inactive"
                                             /\ receiving[p][q] = "inactive"
                      /\ \A r \in Ranks : ~impl[r].active /\ ~impl[r].started
                                          /\ ~ticket[r] /\ ~impl[r].epoch
    BY DEF QuietBetweenRounds
  <2>1. ASSUME NEW p \in Ranks, NEW q \in Ranks
        PROVE  /\ network[p][q] = <<>> /\ sending[p][q] = "inactive"
               /\ receiving[p][q] = "inactive"
    <3>1. Wired(p) /\ Link(p, q) /\ network[p][q] \in Seq(Nat)
      BY <1>1 DEF Linked, IndInv, TypeOK
    <3>2. Target(p) \in {None, "enter", "reserve", "begin"}
      BY DEF Target, Opening
    <3> QED BY <3>1, <3>2 DEF Wired, Link, None
  <2>2. ASSUME NEW r \in Ranks
        PROVE  ~impl[r].active /\ ~impl[r].started /\ ~ticket[r] /\ ~impl[r].epoch
    BY <1>1 DEF IndInv, Local, Flagged
  <2> QED BY <2>1, <2>2
<1> QED BY <1>1, LinksCounted, Inductive, PTL

-----------------------------------------------------------------------------
(***************************************************************************)
(* Revisions.                                                              *)
(***************************************************************************)
\* The steps that write the field of the rank, and the others.
LEMMA RevisionSteps ==
  ASSUME TypeOK, NEW r \in Ranks, RankStep(r), ~faults'.broken
  PROVE  \/ Begin(r) /\ revision'[r] = revision[r] + 1
         \/ BeginPrepared(r) /\ revision'[r] = revision[r] + 1
         \/ ~Begin(r) /\ ~BeginPrepared(r) /\ revision'[r] = revision[r]
<1>1. CASE Begin(r)
  BY <1>1 DEF Begin, TypeOK
<1>2. CASE BeginPrepared(r)
  BY <1>2 DEF BeginPrepared, TypeOK
<1>3. CASE ~Begin(r) /\ ~BeginPrepared(r)
  <2>1. UNCHANGED revision
    BY <1>3, StepKinds DEF Silent, BeginRefused, Opened, StartReported, Reenter,
       Finish, Published, PreflightFailed, WaitReported, EnterEpoch, EpochEntered,
       EpochRefused, EndEpoch, EpochClosed, Reserve, NextStage, ReserveRefused, Start,
       StartFailed, WaitFailed, Wait, FinishPrepared, Reserved, caller
  <2> QED BY <1>3, <2>1
<1> QED BY <1>1, <1>2, <1>3

\* A rank steps out of a round or into one, or stays in it.
LEMMA RoundSteps ==
  ASSUME TypeOK, NEW r \in Ranks, Local(r), RankStep(r), ~faults'.broken
  PROVE  \/ Leaves(r) /\ pc'[r] = "idle"
         \/ Begin(r) /\ pc[r] = "idle" /\ ~Leaves(r)' /\ pc'[r] = "begin"
         \/ /\ EnterEpoch(r) \/ Reserve(r)
            /\ Target(r) \in {"enter", "reserve"}
         \/ /\ pc[r] # "idle" /\ ~Leaves(r) /\ ~Begin(r)
            /\ pc'[r] # "idle" /\ ~Leaves(r)'
<1>1. CASE \/ BeginRefused(r) \/ StartReported(r) \/ Published(r) \/ PreflightFailed(r)
           \/ WaitReported(r) \/ EpochRefused(r) \/ EpochClosed(r) \/ ReserveRefused(r)
           \/ Reserved(r)
  <2>1. Leaves(r) /\ Return(r, Outcome(r))
    BY <1>1, ReturnsLocal
  <2>2. pc'[r] = "idle"
    BY <2>1 DEF Return, Goto, TypeOK
  <2> QED BY <2>1, <2>2
<1>2. CASE Begin(r)
  <2>1. pc[r] = "idle" /\ pc'[r] = "begin" /\ verdict'[r] = verdict[r]
    BY <1>2 DEF Begin, Goto, Ask, TypeOK
  <2>2. verdict[r] = None
    BY <2>1 DEF Local, Seated, Ballot, None
  <2> QED BY <1>2, <2>1, <2>2 DEF Leaves
<1>3. CASE EnterEpoch(r) \/ Reserve(r)
  <2>1. pc[r] = "idle" /\ Round(r) \in {"epoch", "reserve"}
    BY <1>3 DEF EnterEpoch, Reserve
  <2>2. Target(r) \in {"enter", "reserve"}
    BY <2>1, RoundType DEF Target, Log, Leaves, Opening, None
  <2> QED BY <1>3, <2>2
<1>4. CASE \/ Start(r) \/ Opened(r) \/ StartFailed(r) \/ Reenter(r) \/ Finish(r)
           \/ Wait(r) \/ WaitFailed(r) \/ EpochEntered(r) \/ BeginPrepared(r)
           \/ FinishPrepared(r) \/ EndEpoch(r)
  <2>1. /\ pc[r] \in {"begin", "start", "open", "preflight", "wait", "enter", "ready", "flying"}
        /\ pc[r] \in {"begin", "enter"} => verdict[r] = "ok"
        /\ pc[r] = "wait" => verdict[r] # "ok"
        /\ pc'[r] \in {"start", "open", "restart", "preflight", "wait", "recover",
                       "ready", "flying", "close"}
        /\ pc'[r] = "restart" \/ pc'[r] = "recover" \/ pc'[r] = "wait" => verdict'[r] = None
        /\ pc'[r] = "close" => verdict'[r] = verdict[r] /\ pc[r] = "ready"
    <3>1. CASE Start(r) \/ Opened(r) \/ Reenter(r) \/ Finish(r) \/ Wait(r)
      BY <3>1 DEF Start, Opened, Reenter, Finish, Wait, AnswerAndAsk, Answer, Goto,
         TypeOK
    <3>2. CASE StartFailed(r) \/ WaitFailed(r)
      <4>1. PICK s : Recreate(r, s)
        BY <3>2 DEF StartFailed, WaitFailed
      <4>2. verdict'[r] = None
        BY <4>1 DEF Recreate, AnswerAndAsk, Answer, TypeOK
      <4>3. pc[r] = "wait" => verdict[r] = "completion"
        BY <3>2 DEF StartFailed, WaitFailed
      <4> QED BY <3>2, <4>2, <4>3, RecreateParts
    <3>3. CASE EpochEntered(r) \/ BeginPrepared(r) \/ FinishPrepared(r) \/ EndEpoch(r)
      BY <3>3 DEF EpochEntered, BeginPrepared, FinishPrepared, EndEpoch, Ask, Goto,
         TypeOK
    <3> QED BY <1>4, <3>1, <3>2, <3>3
  <2>2. pc[r] = "ready" => verdict[r] = None
    BY DEF Local, Seated, Ballot, None
  <2>3. ~Begin(r)
    BY <2>1 DEF Begin
  <2> QED BY <2>1, <2>2, <2>3 DEF Leaves, None
<1>5. CASE NextStage(r)
  <2>1. /\ pc[r] = "reserve" /\ pc'[r] = "reserve" /\ verdict[r] = "ok"
        /\ stage[r] + 1 < ReserveStages /\ verdict'[r] = None
    BY <1>5 DEF NextStage, AnswerAndAsk, Answer, TypeOK
  <2>2. stage[r] + 1 # ReserveStages
    BY <2>1, HaloAssumption DEF TypeOK
  <2> QED BY <2>1, <2>2 DEF Leaves, Begin
<1> QED BY <1>1, <1>2, <1>3, <1>4, <1>5, StepKinds DEF Silent

LEMMA RevisedKept ==
  ASSUME IndInv, NEW r \in Ranks, RankStep(r), ~faults'.broken, NEW q \in Ranks
  PROVE  Revised(q)' = Revised(q)
<1>1. TypeOK /\ Local(r) /\ Target(q)' = Target(q) /\ Target(r)' = Target(r)
  BY TargetKept DEF IndInv
<1>2. CASE q # r
  <2>1. Still(q)
    BY <1>2, RankStill, <1>1
  <2>2. Leaves(q)' = Leaves(q) /\ Launched(q)' = Launched(q)
    BY <2>1 DEF Still, Steady, Leaves, Launched
  <2> QED BY <1>1, <2>1, <2>2 DEF Still, Steady, Revised
<1>3. CASE q = r /\ Target(r) = "close"
  <2>1. /\ pc[r] \in {"enter", "ready", "flying", "close"}
        /\ revision[r] \in Nat /\ stage[r] \in Nat
    BY <1>1, <1>3, Places DEF TypeOK
  <2>2. Revised(r) = revision[r] - Launched(r) /\ Revised(r)' = revision'[r] - Launched(r)'
    BY <1>1, <1>3 DEF Revised
  <2>3. CASE BeginPrepared(r)
    <3>1. pc[r] = "ready" /\ pc'[r] = "flying" /\ stage'[r] = stage[r]
      BY <1>1, <2>3 DEF BeginPrepared, Goto, TypeOK
    <3>2. revision'[r] = revision[r] + 1
      BY <1>1, <2>3 DEF BeginPrepared, TypeOK
    <3> QED BY <1>3, <2>1, <2>2, <3>1, <3>2 DEF Launched
  <2>4. CASE FinishPrepared(r)
    <3>1. pc[r] = "flying" /\ pc'[r] = "ready" /\ stage'[r] = stage[r] + 1
      BY <1>1, <2>4 DEF FinishPrepared, Goto, TypeOK
    <3>2. revision'[r] = revision[r]
      BY <2>4 DEF FinishPrepared
    <3> QED BY <1>3, <2>1, <2>2, <3>1, <3>2 DEF Launched
  <2>5. CASE Silent(r)
    <3>1. stage'[r] = stage[r] /\ pc[r] # "flying" /\ pc'[r] # "flying"
      BY <1>1, <1>3, <2>5, SilentPlace
    <3>2. ~Begin(r)
      BY <2>1 DEF Begin
    <3>3. ~BeginPrepared(r)
      <4>1. SUFFICES ASSUME BeginPrepared(r) PROVE FALSE
        OBVIOUS
      <4>2. pc'[r] = "flying"
        BY <1>1, <4>1 DEF BeginPrepared, Goto, TypeOK
      <4> QED BY <3>1, <4>2
    <3>4. revision'[r] = revision[r]
      BY <1>1, <3>2, <3>3, RevisionSteps
    <3> QED BY <1>3, <2>2, <3>1, <3>4 DEF Launched
  <2>6. ~Start(r) /\ ~StartFailed(r) /\ ~WaitFailed(r) /\ ~Wait(r)
    BY <2>1 DEF Start, StartFailed, WaitFailed, Wait
  <2>7. ~Reserved(r)
    BY <2>1 DEF Reserved
  <2> QED BY <2>3, <2>4, <2>5, <2>6, <2>7, StepKinds
<1>4. CASE q = r /\ Target(r) # "close"
  <2>1. ~BeginPrepared(r)
    BY <1>4 DEF BeginPrepared, Target, Leaves
  <2>2. CASE Begin(r)
    <3>1. pc[r] = "idle" /\ pc'[r] = "begin" /\ ~Leaves(r)'
      BY <1>1, <2>2, RoundSteps DEF Begin, EnterEpoch, Reserve, Leaves
    <3>2. Target(r) = "begin"
      BY <1>1, <2>2, <3>1, RoundType DEF Begin, Target, Log, Leaves, Opening, None
    <3>3. revision'[r] = revision[r] + 1
      BY <1>1, <2>2 DEF Begin, TypeOK
    <3> QED BY <1>1, <1>4, <3>1, <3>2, <3>3 DEF Revised
  <2>3. CASE ~Begin(r)
    <3>1. revision'[r] = revision[r]
      BY <1>1, <2>1, <2>3, RevisionSteps
    <3>2. \/ Target(r) # "begin"
          \/ (pc[r] = "idle" \/ Leaves(r)) /\ (pc'[r] = "idle" \/ Leaves(r)')
          \/ ~(pc[r] = "idle" \/ Leaves(r)) /\ ~(pc'[r] = "idle" \/ Leaves(r)')
      BY <1>1, <2>3, RoundSteps
    <3> QED BY <1>1, <1>4, <3>1, <3>2 DEF Revised
  <2> QED BY <2>2, <2>3
<1> QED BY <1>2, <1>3, <1>4

\* The ghosts and the certificate of a rank that publishes an exchange.
LEMMA PublishedCurrent ==
  ASSUME TypeOK, NEW r \in Ranks, Local(r), Current(r), Published(r)
  PROVE  \A p \in Peers[r] : ghost'[r][p] = impl'[r].cert
<1>1. /\ pc[r] = "wait" /\ Unpack(r)
      /\ impl'[r].cert = impl[r].pending
  BY DEF Published, FinishExchange, TypeOK, Impls
<1>2. impl[r].pending = revision[r]
  BY <1>1 DEF Local, Pending
<1>3. outbox[r] = revision[r] /\ \A p \in Links(r) : inbox[r][p] = revision[r]
  BY <1>1 DEF Current
<1>4. ASSUME NEW p \in Peers[r] PROVE ghost'[r][p] = revision[r]
  <2>1. p \in Ranks
    BY HaloAssumption
  <2>2. ghost'[r][p] = inbox'[r][p]
    BY <1>1, <2>1 DEF Unpack, TypeOK
  <2>3. inbox'[r][p] = IF p = r THEN outbox[r] ELSE inbox[r][p]
    BY <1>1, <2>1 DEF Unpack, TypeOK
  <2> QED BY <1>3, <2>2, <2>3 DEF Links
<1> QED BY <1>1, <1>2, <1>4

\* A certificate names the data in the ghosts.
LEMMA CertificateKept ==
  ASSUME IndInv, NEW r \in Ranks, RankStep(r), ~faults'.broken, Current(r)
  PROVE  impl'[r].cert # 0 => \A p \in Peers[r] : ghost'[r][p] = impl'[r].cert
<1>1. /\ TypeOK /\ Local(r)
      /\ impl'[r].cert # 0 => pc'[r] \in {"idle", "reserve"}
  BY TargetKept DEF IndInv, Local, Flagged
<1>2. CASE Published(r)
  BY <1>1, <1>2, PublishedCurrent
<1>3. CASE EpochClosed(r)
  <2>1. /\ pc[r] = "close" /\ ghost' = ghost
        /\ impl[r].cert = 0
    BY <1>1, <1>3 DEF EpochClosed, buffers, Local, Flagged
  <2>2. CASE verdict[r] = "ok"
    <3>1. impl'[r].cert = impl[r].pending \/ impl'[r].cert = 0
      BY <1>1, <1>3, <2>1 DEF EpochClosed, CloseEpoch, TypeOK, Impls
    <3>2. impl[r].pending = revision[r]
      BY <1>1, <2>1, <2>2 DEF Local, Pending, Says
    <3>3. \A p \in Peers[r] : ghost[r][p] = revision[r]
      BY <2>1, <2>2 DEF Current
    <3> QED BY <2>1, <3>1, <3>2, <3>3
  <2>3. CASE verdict[r] # "ok"
    <3>1. impl'[r].cert = 0
      BY <1>1, <1>3, <2>1, <2>3 DEF EpochClosed, CloseEpoch, TypeOK, Impls
    <3> QED BY <3>1
  <2> QED BY <2>2, <2>3
<1>4. CASE EpochRefused(r)
  <2>1. pc[r] = "enter" /\ impl[r].cert = 0
    BY <1>1, <1>4 DEF EpochRefused, Local, Flagged
  <2>2. impl'[r].cert = 0
    BY <1>1, <1>4, <2>1 DEF EpochRefused, CloseEpoch, TypeOK, Impls
  <2> QED BY <2>2
<1>5. CASE Reserved(r)
  BY <1>1, <1>5 DEF Reserved, NewImpl, TypeOK
<1>6. CASE BeginRefused(r) \/ ReserveRefused(r) \/ Reserve(r) \/ NextStage(r)
  BY <1>6 DEF BeginRefused, ReserveRefused, Reserve, NextStage, Current, buffers, caller
<1>7. CASE PreflightFailed(r) \/ StartReported(r) \/ WaitReported(r)
  <2>1. ghost' = ghost /\ impl'[r].cert = impl[r].cert
    BY <1>1, <1>7 DEF PreflightFailed, StartReported, WaitReported, FinishExchange,
       buffers, TypeOK, Impls
  <2> QED BY <2>1 DEF Current
<1>8. CASE \/ Begin(r) \/ Start(r) \/ Opened(r) \/ StartFailed(r) \/ Reenter(r)
           \/ Finish(r) \/ Wait(r) \/ WaitFailed(r) \/ EnterEpoch(r) \/ EpochEntered(r)
           \/ BeginPrepared(r) \/ FinishPrepared(r) \/ EndEpoch(r)
  <2>1. pc'[r] \notin {"idle", "reserve"}
    BY <1>1, <1>8 DEF Begin, Start, Opened, StartFailed, Reenter, Finish, Wait,
       WaitFailed, EnterEpoch, EpochEntered, BeginPrepared, FinishPrepared, EndEpoch,
       Goto, TypeOK
  <2> QED BY <1>1, <2>1
<1> QED BY <1>2, <1>3, <1>4, <1>5, <1>6, <1>7, <1>8, StepKinds DEF Silent

\* What BeginPrepared and FinishPrepared do when no failure was deferred.
LEMMA PreparedGood ==
  ASSUME TypeOK, NEW r \in Ranks, BeginPrepared(r), deferred'[r] = "ok"
  PROVE  /\ deferred[r] = "ok" /\ outbox'[r] = revision'[r] /\ impl'[r].valid
<1>1. PICK s \in {"ok", "state", "field"} :
        /\ Retain(r, s)
        /\ outbox' = [outbox EXCEPT ![r] = IF s = "ok" THEN revision'[r] ELSE @]
        /\ impl' = [impl EXCEPT
             ![r].pending = IF s = "ok" THEN revision'[r] ELSE @,
             ![r].valid = (s = "ok"), ![r].active = TRUE,
             ![r].started = (Links(r) # {})]
  BY DEF BeginPrepared
<1>2. deferred[r] = "ok" /\ s = "ok"
  BY <1>1 DEF Retain, TypeOK
<1>3. outbox'[r] = revision'[r]
  BY <1>1, <1>2 DEF TypeOK
<1>4. impl'[r].valid
  <2> DEFINE l == Links(r) # {}
             n == revision'[r]
  <2>1. impl' = [impl EXCEPT ![r].pending = n,
             ![r].valid = TRUE, ![r].active = TRUE, ![r].started = l]
    BY <1>1, <1>2
  <2> HIDE DEF l, n
  <2> QED BY <2>1 DEF TypeOK, Impls
<1> QED BY <1>2, <1>3, <1>4

LEMMA FinishedGood ==
  ASSUME TypeOK, NEW r \in Ranks, FinishPrepared(r), deferred'[r] = "ok", Current(r)
  PROVE  deferred[r] = "ok" /\ Unpack(r) /\ outbox[r] = revision[r]
<1>1. PICK s \in {"ok", "state", "field"} :
        /\ Retain(r, s)
        /\ IF impl[r].valid /\ s = "ok" THEN Unpack(r)
                                        ELSE UNCHANGED <<inbox, ghost>>
  BY DEF FinishPrepared
<1>2. deferred[r] = "ok" /\ s = "ok"
  BY <1>1 DEF Retain, TypeOK
<1>3. impl[r].valid /\ outbox[r] = revision[r]
  BY <1>2 DEF Current, FinishPrepared
<1> QED BY <1>1, <1>2, <1>3

\* A rank stays up to date in its own steps, with what its peers have sent it.
LEMMA CurrentKept ==
  ASSUME IndInv, NEW r \in Ranks, RankStep(r), ~faults'.broken, Current(r),
         \A p \in Ranks : Fresh(p, r)
  PROVE  Current(r)'
<1>1. TypeOK /\ Local(r)
  BY DEF IndInv
<1>2. \/ pc'[r] \in {"start", "open", "preflight", "wait"}
      \/ pc'[r] = "begin" /\ Says(r, "ok")'
      => outbox'[r] = revision'[r]
  <2>1. CASE Begin(r)
    <3>1. /\ pc'[r] = "begin" /\ verdict'[r] = None
          /\ vote'[r] = "ok" => outbox'[r] = revision'[r]
      <4>1. pc'[r] = "begin" /\ verdict'[r] = verdict[r] /\ pc[r] = "idle"
        BY <1>1, <2>1 DEF Begin, Goto, Ask, TypeOK
      <4>2. verdict[r] = None
        BY <1>1, <4>1 DEF Local, Seated, Ballot, None
      <4>3. PICK s \in {"ok", "field", "request"} :
              /\ outbox' = [outbox EXCEPT ![r] = IF s = "ok" THEN revision'[r] ELSE @]
              /\ vote' = [vote EXCEPT ![r] = s]
        BY <2>1 DEF Begin, Ask
      <4>4. vote'[r] = "ok" => outbox'[r] = revision'[r]
        BY <1>1, <4>3 DEF TypeOK
      <4> QED BY <4>1, <4>2, <4>4
    <3> QED BY <3>1 DEF Says, None
  <2>2. CASE \/ Start(r) \/ Opened(r) \/ Reenter(r) \/ Finish(r) \/ Wait(r)
    <3>1. /\ pc[r] \in {"begin", "start", "open", "preflight"}
          /\ pc[r] = "begin" => verdict[r] = "ok"
          /\ outbox' = outbox
      BY <2>2 DEF Start, Opened, Reenter, Finish, Wait, buffers
    <3>2. revision'[r] = revision[r]
      BY <2>2 DEF Start, Opened, Reenter, Finish, Wait, caller
    <3> QED BY <3>1, <3>2 DEF Current, Says
  <2>3. CASE \/ BeginRefused(r) \/ StartReported(r) \/ Published(r) \/ PreflightFailed(r)
             \/ WaitReported(r) \/ EpochRefused(r) \/ EpochClosed(r) \/ ReserveRefused(r)
             \/ Reserved(r) \/ StartFailed(r) \/ WaitFailed(r) \/ EnterEpoch(r)
             \/ EpochEntered(r) \/ BeginPrepared(r) \/ FinishPrepared(r) \/ EndEpoch(r)
             \/ Reserve(r) \/ NextStage(r)
    <3>1. pc'[r] \notin {"begin", "start", "open", "preflight", "wait"}
      <4>1. CASE \/ BeginRefused(r) \/ StartReported(r) \/ Published(r)
                 \/ PreflightFailed(r) \/ WaitReported(r) \/ EpochRefused(r)
                 \/ EpochClosed(r) \/ ReserveRefused(r) \/ Reserved(r)
        <5>1. Goto(r, "idle")
          BY <4>1 DEF BeginRefused, StartReported, Published, PreflightFailed,
             WaitReported, EpochRefused, EpochClosed, ReserveRefused, Reserved, Return
        <5> QED BY <1>1, <5>1 DEF Goto, TypeOK
      <4>2. CASE \/ StartFailed(r) \/ WaitFailed(r) \/ EnterEpoch(r) \/ EpochEntered(r)
                 \/ BeginPrepared(r) \/ FinishPrepared(r) \/ EndEpoch(r) \/ Reserve(r)
        <5>1. \/ Goto(r, "restart") \/ Goto(r, "recover") \/ Goto(r, "enter")
              \/ Goto(r, "ready") \/ Goto(r, "flying") \/ Goto(r, "close")
              \/ Goto(r, "reserve")
          BY <4>2 DEF StartFailed, WaitFailed, EnterEpoch, EpochEntered, BeginPrepared,
             FinishPrepared, EndEpoch, Reserve
        <5> QED BY <1>1, <5>1 DEF Goto, TypeOK
      <4>3. CASE NextStage(r)
        BY <1>1, <4>3 DEF NextStage
      <4> QED BY <2>3, <4>1, <4>2, <4>3
    <3> QED BY <3>1
  <2> QED BY <2>1, <2>2, <2>3, StepKinds DEF Silent
<1>3. pc'[r] = "flying" /\ deferred'[r] = "ok" =>
        outbox'[r] = revision'[r] /\ impl'[r].valid
  <2> SUFFICES ASSUME pc'[r] = "flying", deferred'[r] = "ok"
               PROVE  outbox'[r] = revision'[r] /\ impl'[r].valid
    OBVIOUS
  <2>1. BeginPrepared(r)
    <3>1. ~Silent(r)
      BY <1>1, SilentPlace
    <3>2. ~Start(r) /\ ~Wait(r) /\ ~FinishPrepared(r) /\ ~Reserved(r)
      BY <1>1 DEF Start, Wait, FinishPrepared, Reserved, Return, Goto, TypeOK
    <3>3. ~StartFailed(r) /\ ~WaitFailed(r)
      BY <1>1, RecreateParts
    <3> QED BY <3>1, <3>2, <3>3, StepKinds
  <2> QED BY <1>1, <2>1, PreparedGood
<1>4. pc'[r] = "close" => vote'[r] = deferred'[r] /\ verdict'[r] = None
  <2> SUFFICES ASSUME pc'[r] = "close"
               PROVE  vote'[r] = deferred'[r] /\ verdict'[r] = None
    OBVIOUS
  <2>1. EndEpoch(r)
    <3>1. CASE Silent(r)
      <4>1. pc[r] = "ready"
        BY <1>1, <3>1, SilentPlace
      <4> QED BY <3>1, <4>1 DEF Silent, Begin, BeginRefused, Opened, StartReported,
             Reenter, Finish, Published, PreflightFailed, WaitReported, EnterEpoch,
             EpochEntered, EpochRefused, EpochClosed, Reserve, NextStage, ReserveRefused
    <3>2. ~Start(r) /\ ~BeginPrepared(r) /\ ~Wait(r) /\ ~FinishPrepared(r) /\ ~Reserved(r)
      BY <1>1 DEF Start, BeginPrepared, Wait, FinishPrepared, Reserved, Return, Goto,
         TypeOK
    <3>3. ~StartFailed(r) /\ ~WaitFailed(r)
      BY <1>1, RecreateParts
    <3> QED BY <3>1, <3>2, <3>3, StepKinds
  <2>2. vote'[r] = deferred'[r] /\ verdict'[r] = None
    <3>1. vote'[r] = deferred'[r] /\ verdict'[r] = verdict[r] /\ pc[r] = "ready"
      BY <1>1, <2>1 DEF EndEpoch, Ask, TypeOK, caller
    <3> QED BY <1>1, <3>1 DEF Local, Seated, Ballot, None
  <2> QED BY <2>2
<1>5. pc'[r] = "wait" => \A p \in Links(r) : inbox'[r][p] = revision'[r]
  <2> SUFFICES ASSUME pc'[r] = "wait"
               PROVE  \A p \in Links(r) : inbox'[r][p] = revision'[r]
    OBVIOUS
  <2>1. Wait(r)
    <3>1. ~Silent(r)
      <4>1. SUFFICES ASSUME Silent(r) PROVE FALSE
        OBVIOUS
      <4> QED BY <1>1, <4>1 DEF Silent, Begin, BeginRefused, Opened, StartReported,
             Reenter, Finish, Published, PreflightFailed, WaitReported, EnterEpoch,
             EpochEntered, EpochRefused, EndEpoch, EpochClosed, Reserve, NextStage,
             ReserveRefused, Return, Goto, TypeOK
    <3>2. ~Start(r) /\ ~BeginPrepared(r) /\ ~FinishPrepared(r) /\ ~Reserved(r)
      BY <1>1 DEF Start, BeginPrepared, FinishPrepared, Reserved, Return, Goto,
         TypeOK
    <3>3. ~StartFailed(r) /\ ~WaitFailed(r)
      BY <1>1, RecreateParts
    <3> QED BY <3>1, <3>2, <3>3, StepKinds
  <2>2. Complete(r) /\ Target(r) = "wait"
    <3>1. pc[r] = "preflight" /\ verdict[r] # None
      BY <2>1 DEF Wait, AnswerAndAsk, Answer
    <3> QED BY <1>1, <2>1, <3>1, Completed DEF Target, Leaves
  <2>3. inbox' = inbox /\ revision' = revision
    BY <2>1 DEF Wait, buffers, caller
  <2>4. ASSUME NEW p \in Links(r) PROVE inbox'[r][p] = revision'[r]
    <3>1. p \in Ranks /\ receiving[r][p] = "done"
      BY <2>2, HaloAssumption DEF Complete, Links
    <3>2. Good(p)
      BY <2>2, <3>1, SameTarget DEF Good
    <3> QED BY <2>3, <3>1, <3>2 DEF Fresh
  <2> QED BY <2>4
<1>6. impl'[r].cert # 0 => \A p \in Peers[r] : ghost'[r][p] = impl'[r].cert
  BY CertificateKept
<1> QED BY <1>2, <1>3, <1>4, <1>5, <1>6 DEF Current, Links, None

\* A failure that is deferred in an epoch stays deferred until it is reported.
LEMMA GoodKept ==
  ASSUME IndInv, NEW r \in Ranks, RankStep(r), ~faults'.broken, NEW p \in Ranks,
         Good(p)'
  PROVE  Good(p)
<1>1. TypeOK /\ Target(p)' = Target(p)
  BY TargetKept DEF IndInv
<1> SUFFICES ASSUME Target(p) = "close", deferred'[p] = "ok" PROVE deferred[p] = "ok"
  BY <1>1 DEF Good
<1>2. CASE p # r
  BY <1>1, <1>2, RankStill DEF Still, Steady
<1>3. CASE p = r /\ EnterEpoch(r)
  <2>1. pc[r] = "idle"
    BY <1>3 DEF EnterEpoch
  <2> QED BY <1>3, <2>1 DEF Target, Opening, None
<1>4. CASE p = r /\ BeginPrepared(r)
  BY <1>1, <1>4, PreparedGood
<1>5. CASE p = r /\ FinishPrepared(r)
  <2>1. PICK s \in {"ok", "state", "field"} : Retain(r, s)
    BY <1>5 DEF FinishPrepared
  <2> QED BY <1>1, <1>5, <2>1 DEF Retain, TypeOK
<1>6. CASE ~EnterEpoch(r) /\ ~BeginPrepared(r) /\ ~FinishPrepared(r)
  <2>1. UNCHANGED deferred
    BY <1>6, StepKinds DEF Silent, Begin, BeginRefused, Opened, StartReported, Reenter,
       Finish, Published, PreflightFailed, WaitReported, EpochEntered, EpochRefused,
       EndEpoch, EpochClosed, Reserve, NextStage, ReserveRefused, Start, StartFailed,
       WaitFailed, Wait, Reserved, caller
  <2> QED BY <2>1
<1> QED BY <1>2, <1>3, <1>4, <1>5, <1>6

\* The messages of the rank that takes a step.
LEMMA SentFresh ==
  ASSUME IndInv, Linked, NEW r \in Ranks, RankStep(r), ~faults'.broken, Current(r),
         NEW q \in Ranks, Fresh(r, q), Good(r)'
  PROVE  \A i \in 1 .. Len(network'[r][q]) :
           network'[r][q][i] = revision'[r] - (Len(network'[r][q]) - i)
<1> DEFINE m == network[r][q]
<1>1. /\ TypeOK /\ Local(r) /\ Target(r)' = Target(r) /\ Good(r)
      /\ m \in Seq(Nat) /\ revision[r] \in Nat
  <2>1. TypeOK /\ Local(r) /\ Target(r)' = Target(r) /\ Good(r)
    BY TargetKept, GoodKept DEF IndInv
  <2>2. m \in Seq(Nat) /\ revision[r] \in Nat
    BY <2>1 DEF TypeOK
  <2> QED BY <2>1, <2>2
<1>2. Link(r, q)' /\ Wired(r)' /\ Link(r, q) /\ Wired(r)
  BY RankLinked, FaultsStep, Recovered DEF Linked
<1>3. \A i \in 1 .. Len(m) : m[i] = revision[r] - (Len(m) - i)
  BY <1>1 DEF Fresh
<1>4. CASE network'[r][q] = m /\ revision'[r] = revision[r]
  BY <1>3, <1>4
<1>5. CASE Len(network'[r][q]) = 0
  BY <1>5
<1>6. CASE Begin(r)
  <2>1. pc[r] = "idle"
    BY <1>6 DEF Begin
  <2>2. Target(r)' \in {None, "enter", "reserve", "begin"}
    BY <1>1, <2>1 DEF Target, Opening
  <2>3. Len(network'[r][q]) = 0
    BY <1>2, <2>2 DEF Link, None
  <2> QED BY <1>5, <2>3
<1>7. CASE Silent(r) /\ ~Begin(r)
  <2>1. ~BeginPrepared(r)
    <3>1. SUFFICES ASSUME BeginPrepared(r) PROVE FALSE
      OBVIOUS
    <3>2. pc[r] = "ready" /\ pc'[r] = "flying"
      BY <1>1, <3>1 DEF BeginPrepared, Goto, TypeOK
    <3> QED BY <1>1, <1>7, <3>2, SilentPlace
  <2> QED BY <1>1, <1>4, <1>7, <2>1, RevisionSteps, SilentWires
<1>8. CASE Start(r)
  <2>1. PICK To \in SUBSET Links(r), From \in SUBSET Links(r) :
          Startall(r, To, From, outbox'[r])
    BY <1>1, <1>8, Launch
  <2>2. /\ pc[r] = "begin" /\ verdict[r] = "ok" /\ outbox' = outbox
        /\ revision' = revision
    BY <1>8 DEF Start, buffers, caller
  <2>3. outbox'[r] = revision[r]
    BY <2>2 DEF Current, Says
  <2>4. network'[r][q] = IF q \in To THEN Append(m, outbox'[r]) ELSE m
    BY <1>1, <2>1, StartallEffect
  <2>5. CASE q \in To
    <3>1. Target(r) = "start"
      BY <2>2 DEF Target, Leaves, None
    <3>2. ~Open(r, q) /\ q \in Links(r)
      BY <1>2, <2>2, <2>5 DEF Wired, Open
    <3>3. Len(m) = 0
      BY <1>2, <3>1, <3>2 DEF Link, Bit
    <3>4. network'[r][q] = Append(m, revision[r])
      BY <2>3, <2>4, <2>5
    <3>5. Len(network'[r][q]) = 1 /\ network'[r][q][1] = revision[r]
      BY <1>1, <3>3, <3>4
    <3> QED BY <1>1, <2>2, <3>5
  <2>6. CASE q \notin To
    BY <1>4, <2>2, <2>4, <2>6
  <2> QED BY <2>5, <2>6
<1>9. CASE BeginPrepared(r)
  <2>1. Startall(r, Links(r), Links(r), outbox'[r])
    BY <1>9 DEF BeginPrepared
  <2>2. network'[r][q] = IF q \in Links(r) THEN Append(m, outbox'[r]) ELSE m
    BY <1>1, <2>1, StartallEffect
  <2>3. CASE q \in Links(r)
    <3>1. pc[r] = "ready" /\ revision'[r] = revision[r] + 1
      BY <1>1, <1>9 DEF BeginPrepared, TypeOK
    <3>2. Target(r) = "close"
      BY <3>1 DEF Target, Leaves
    <3>3. outbox'[r] = revision[r] + 1
      BY <1>1, <1>9, <3>1, <3>2, PreparedGood DEF Good
    <3>4. network'[r][q] = Append(m, revision[r] + 1)
      BY <2>2, <2>3, <3>3
    <3>5. /\ Len(network'[r][q]) = Len(m) + 1
          /\ network'[r][q][Len(m) + 1] = revision[r] + 1
          /\ \A i \in 1 .. Len(m) : network'[r][q][i] = m[i]
      BY <1>1, <3>4, AppendProperties
    <3>6. ASSUME NEW i \in 1 .. Len(network'[r][q])
          PROVE  network'[r][q][i] = revision'[r] - (Len(network'[r][q]) - i)
      <4>1. Len(m) \in Nat
        BY <1>1
      <4>2. i \in 1 .. Len(m) \/ i = Len(m) + 1
        BY <3>5, <4>1
      <4>3. CASE i \in 1 .. Len(m)
        <5>1. network'[r][q][i] = revision[r] - (Len(m) - i)
          BY <1>3, <3>5, <4>3
        <5>2. /\ revision'[r] = revision[r] + 1 /\ revision[r] \in Nat
              /\ Len(network'[r][q]) = Len(m) + 1 /\ i \in Nat
          BY <1>1, <3>1, <3>5, <4>3
        <5> HIDE DEF m
        <5> QED BY <4>1, <5>1, <5>2
      <4>4. CASE i = Len(m) + 1
        BY <1>1, <3>1, <3>5, <4>1, <4>4
      <4> QED BY <4>2, <4>3, <4>4
    <3> QED BY <3>6
  <2>4. CASE q \notin Links(r)
    <3>1. network'[r][q] = <<>>
      BY <1>2, <2>4 DEF Link, Links
    <3> QED BY <1>5, <3>1
  <2> QED BY <2>3, <2>4
<1>10. CASE StartFailed(r) \/ WaitFailed(r)
  <2>1. pc'[r] \in {"restart", "recover"} /\ verdict'[r] = None
    <3>1. PICK s \in {"ok", "request"} : Recreate(r, s)
      BY <1>10 DEF StartFailed, WaitFailed
    <3> QED BY <1>1, <1>10, <3>1, RecreateEffect, RecreateParts
  <2>2. Target(r)' = pc'[r]
    BY <2>1 DEF Target, Leaves
  <2>3. ~Open(r, q)'
    BY <1>2, <2>1 DEF Wired, Open
  <2>4. Len(network'[r][q]) = 0
    BY <1>2, <2>1, <2>2, <2>3 DEF Link, Bit
  <2> QED BY <1>5, <2>4
<1>11. CASE Wait(r) \/ FinishPrepared(r)
  <2>1. network'[r][q] = m
    BY <1>1, <1>11, Completed, WaitallEffect
  <2>2. revision'[r] = revision[r]
    BY <1>11 DEF Wait, FinishPrepared, caller
  <2> QED BY <1>4, <2>1, <2>2
<1>12. CASE Reserved(r)
  BY <1>1, <1>5, <1>12, ReservedEffect
<1> QED BY <1>6, <1>7, <1>8, <1>9, <1>10, <1>11, <1>12, StepKinds

\* What the rank that takes a step has received.
LEMMA ReceivedFresh ==
  ASSUME IndInv, Linked, NEW r \in Ranks, RankStep(r), ~faults'.broken,
         NEW p \in Ranks, Fresh(p, r), Good(p)', receiving'[r][p] = "done"
  PROVE  inbox'[r][p] = revision'[r]
<1>1. TypeOK /\ Local(r) /\ Good(p)
  BY GoodKept DEF IndInv
<1>2. Wired(r) /\ Wired(r)'
  BY RankLinked, FaultsStep, Recovered DEF Linked
<1>3. /\ pc'[r] \in {"start", "open", "preflight", "flying"}
      /\ p \in Links(r)
  BY <1>2 DEF Wired, Links
<1>4. CASE Start(r) \/ BeginPrepared(r)
  <2>1. PICK To \in SUBSET Links(r), From \in SUBSET Links(r) :
          Startall(r, To, From, outbox'[r])
    BY <1>1, <1>4, Launch
  <2>2. receiving[r][p] = "done"
    BY <1>1, <2>1, StartallEffect
  <2>3. pc[r] \in {"begin", "ready"}
    BY <1>4 DEF Start, BeginPrepared
  <2> QED BY <1>2, <2>2, <2>3 DEF Wired
<1>5. CASE StartFailed(r) \/ WaitFailed(r)
  BY <1>1, <1>3, <1>5, RecreateParts
<1>6. CASE Wait(r) \/ FinishPrepared(r) \/ Reserved(r)
  BY <1>1, <1>3, <1>6 DEF Wait, FinishPrepared, Reserved, Return, Goto, TypeOK
<1>7. CASE Silent(r)
  <2>1. receiving[r][p] = "done"
    BY <1>7, SilentWires
  <2>2. pc[r] \in {"start", "open", "preflight", "flying"}
    BY <1>2, <2>1 DEF Wired
  <2>3. Opened(r) \/ Reenter(r) \/ Finish(r)
    <3>1. pc[r] \notin {"idle", "begin", "restart", "wait", "recover", "enter", "close",
                        "reserve", "ready"}
      BY <2>2
    <3> QED BY <1>7, <3>1 DEF Silent, Begin, BeginRefused, StartReported, Published,
               PreflightFailed, WaitReported, EnterEpoch, EpochEntered, EpochRefused,
               EndEpoch, EpochClosed, Reserve, NextStage, ReserveRefused
  <2>4. inbox' = inbox /\ revision' = revision
    BY <2>3 DEF Opened, Reenter, Finish, buffers, caller
  <2> QED BY <1>1, <2>1, <2>4 DEF Fresh
<1> QED BY <1>4, <1>5, <1>6, <1>7, StepKinds

\* What the rank that takes a step has unpacked in an epoch.
LEMMA UnpackedFresh ==
  ASSUME IndInv, NEW r \in Ranks, RankStep(r), ~faults'.broken, Current(r),
         NEW p \in Ranks, Fresh(p, r), p \in Peers[r], Unpacked(r)',
         deferred'[p] = "ok", deferred'[r] = "ok"
  PROVE  ghost'[r][p] = revision'[r]
<1>1. TypeOK /\ Local(r) /\ Local(r)'
  BY TargetKept DEF IndInv
<1>2. pc'[r] \in {"ready", "close"}
  BY DEF Unpacked
<1>3. CASE FinishPrepared(r)
  <2>1. deferred[r] = "ok" /\ Unpack(r) /\ outbox[r] = revision[r]
    BY <1>1, <1>3, FinishedGood
  <2>2. pc[r] = "flying" /\ Complete(r) /\ revision' = revision
    BY <1>3 DEF FinishPrepared
  <2>3. /\ ghost'[r][p] = inbox'[r][p]
        /\ inbox'[r][p] = IF p = r THEN outbox[r] ELSE inbox[r][p]
    BY <1>1, <2>1 DEF Unpack, TypeOK
  <2>4. CASE p = r
    BY <2>1, <2>2, <2>3, <2>4
  <2>5. CASE p # r
    <3>1. receiving[r][p] = "done"
      BY <2>2, <2>5 DEF Complete, Links
    <3>2. deferred[p] = "ok"
      BY <2>5, RankStill, <1>1 DEF Still, Steady
    <3>3. inbox[r][p] = revision[r]
      BY <3>1, <3>2 DEF Fresh, Good
    <3> QED BY <2>2, <2>3, <2>5, <3>3
  <2> QED BY <2>4, <2>5
<1>4. CASE EndEpoch(r)
  <2>1. /\ pc[r] = "ready" /\ stage[r] = EpochExchanges
        /\ deferred' = deferred /\ revision' = revision /\ ghost' = ghost
    BY <1>4 DEF EndEpoch, caller, buffers
  <2>2. Unpacked(r)
    BY <2>1, HaloAssumption DEF Unpacked
  <2> QED BY <2>1, <2>2 DEF Fresh
<1>5. CASE EpochEntered(r)
  <2>1. pc[r] = "enter" /\ pc'[r] = "ready" /\ stage' = stage
    BY <1>1, <1>5 DEF EpochEntered, Goto, TypeOK
  <2>2. stage'[r] = 0
    BY <1>1, <2>1 DEF Local, Counted
  <2> QED BY <2>1, <2>2 DEF Unpacked
<1>6. CASE Start(r) \/ BeginPrepared(r) \/ Wait(r) \/ Reserved(r)
  BY <1>1, <1>2, <1>6 DEF Start, BeginPrepared, Wait, Reserved, Return, Goto, TypeOK
<1>7. CASE StartFailed(r) \/ WaitFailed(r)
  BY <1>1, <1>2, <1>7, RecreateParts
<1>8. CASE Silent(r) /\ ~EndEpoch(r) /\ ~EpochEntered(r)
  <2>1. pc'[r] \notin {"ready", "close"}
    BY <1>1, <1>8 DEF Silent, Begin, BeginRefused, Opened, StartReported, Reenter,
       Finish, Published, PreflightFailed, WaitReported, EnterEpoch, EpochRefused,
       EpochClosed, Reserve, NextStage, ReserveRefused, Return, Goto, TypeOK
  <2> QED BY <1>2, <2>1
<1> QED BY <1>3, <1>4, <1>5, <1>6, <1>7, <1>8, StepKinds

LEMMA RankFresh ==
  ASSUME IndInv, Linked, NEW r \in Ranks, RankStep(r), ~faults'.broken,
         \A x \in Ranks : Current(x), NEW p \in Ranks, NEW q \in Ranks, Fresh(p, q)
  PROVE  Fresh(p, q)'
<1>1. TypeOK /\ Target(p)' = Target(p) /\ Target(q) = Target(p)
  BY TargetKept, SameTarget DEF IndInv
<1>2. Good(p)' => \A i \in 1 .. Len(network'[p][q]) :
                    network'[p][q][i] = revision'[p] - (Len(network'[p][q]) - i)
  <2>1. CASE p = r
    BY <2>1, SentFresh
  <2>2. CASE p # r
    <3>1. revision'[p] = revision[p]
      BY <1>1, <2>2, RankStill DEF Still, Steady
    <3>2. network'[p][q] = network[p][q] \/ network'[p][q] = <<>>
      <4>1. CASE Silent(r)
        BY <4>1, SilentWires
      <4>2. CASE Start(r) \/ BeginPrepared(r)
        BY <1>1, <2>2, <4>2, Launch, StartallEffect
      <4>3. CASE StartFailed(r) \/ WaitFailed(r)
        BY <1>1, <2>2, <4>3, RecreateParts, CancelEffect
      <4>4. CASE Wait(r) \/ FinishPrepared(r)
        BY <1>1, <4>4, Completed, WaitallEffect
      <4>5. CASE Reserved(r)
        BY <1>1, <4>5, ReservedEffect
      <4> QED BY <4>1, <4>2, <4>3, <4>4, <4>5, StepKinds
    <3>3. CASE network'[p][q] = network[p][q]
      BY <3>1, <3>3, GoodKept DEF Fresh
    <3>4. CASE network'[p][q] = <<>>
      BY <3>4
    <3> QED BY <3>2, <3>3, <3>4
  <2> QED BY <2>1, <2>2
<1>3. Good(p)' /\ receiving'[q][p] = "done" => inbox'[q][p] = revision'[q]
  <2>1. CASE q = r
    BY <2>1, ReceivedFresh
  <2>2. CASE q # r
    BY <1>1, <2>2, RankStill, GoodKept DEF Still, Steady, Fresh
  <2> QED BY <2>1, <2>2
<1>4. p \in Peers[q] /\ Unpacked(q)' /\ deferred'[p] = "ok" /\ deferred'[q] = "ok" =>
        ghost'[q][p] = revision'[q]
  <2> SUFFICES ASSUME p \in Peers[q], Unpacked(q)', deferred'[p] = "ok",
                      deferred'[q] = "ok"
               PROVE  ghost'[q][p] = revision'[q]
    OBVIOUS
  <2>1. CASE q = r
    BY <2>1, UnpackedFresh
  <2>2. CASE q # r
    <3>1. Still(q)
      BY <1>1, <2>2, RankStill
    <3>2. Unpacked(q) /\ deferred[q] = "ok"
      BY <3>1 DEF Still, Steady, Unpacked
    <3>3. Target(q) = "close"
      BY <3>2 DEF Unpacked, Target, Leaves
    <3>4. deferred[p] = "ok"
      BY <1>1, <3>3, GoodKept DEF Good
    <3> QED BY <3>1, <3>2, <3>4 DEF Fresh, Still, Steady
  <2> QED BY <2>1, <2>2
<1> QED BY <1>2, <1>3, <1>4 DEF Fresh

LEMMA RankDated ==
  ASSUME IndInv, Linked, Dated, NEW r \in Ranks, RankStep(r)
  PROVE  Dated'
<1> SUFFICES ASSUME ~faults'.broken
             PROVE  /\ \A x \in Ranks : Current(x)'
                    /\ \A p, q \in Ranks : Fresh(p, q)' /\ Revised(p)' = Revised(q)'
  BY DEF Dated
<1>1. /\ \A x \in Ranks : Current(x)
      /\ \A p, q \in Ranks : Fresh(p, q) /\ Revised(p) = Revised(q)
  BY FaultsStep, Recovered DEF Dated
<1>2. ASSUME NEW x \in Ranks PROVE Current(x)'
  <2>1. CASE x = r
    BY <1>1, <2>1, CurrentKept
  <2>2. CASE x # r
    <3>1. Still(x) /\ Current(x)
      BY <1>1, <2>2, RankStill DEF IndInv
    <3>2. Says(x, "ok")' = Says(x, "ok")
      BY <3>1 DEF Says, Still, Steady
    <3> QED BY <3>1, <3>2 DEF Current, Still, Steady, Links
  <2> QED BY <2>1, <2>2
<1>3. ASSUME NEW p \in Ranks, NEW q \in Ranks
      PROVE  Fresh(p, q)' /\ Revised(p)' = Revised(q)'
  BY <1>1, RankFresh, RevisedKept
<1> QED BY <1>2, <1>3

\* A message that is received is of the receiver's last revision.
LEMMA HeadFresh ==
  ASSUME IndInv, NEW p \in Ranks, NEW q \in Ranks, Wired(q), Link(p, q), Fresh(p, q),
         Revised(p) = Revised(q), Good(p), receiving[q][p] = "active",
         network[p][q] # <<>>
  PROVE  Head(network[p][q]) = revision[q]
<1> DEFINE n == Len(network[p][q])
<1>1. /\ TypeOK /\ Local(p) /\ Local(q) /\ Target(q) = Target(p)
  BY SameTarget DEF IndInv
<1>2. /\ p \in Links(q) /\ q \in Links(p)
      /\ pc[q] \in {"start", "open", "preflight", "flying"}
  BY HaloAssumption DEF Wired, Links
<1>3. /\ n \in Nat \ {0} /\ Head(network[p][q]) = network[p][q][1]
      /\ revision[p] \in Nat /\ revision[q] \in Nat
      /\ stage[p] \in Nat /\ stage[q] \in Nat
  <2>1. network[p][q] \in Seq(Nat)
    BY <1>1 DEF TypeOK
  <2>2. /\ revision[p] \in Nat /\ revision[q] \in Nat
        /\ stage[p] \in Nat /\ stage[q] \in Nat
    BY <1>1 DEF TypeOK
  <2> QED BY <2>1, <2>2
<1>4. Head(network[p][q]) = revision[p] - (n - 1)
  BY <1>3 DEF Fresh
<1> HIDE DEF n
<1>5. CASE Target(p) = "close"
  <2>1. n + Taken(q, p) = Launched(p)
    BY <1>2, <1>5 DEF Link, n
  <2>2. pc[q] = "flying"
    BY <1>1, <1>2, <1>5, Places
  <2>3. Taken(q, p) = stage[q] /\ Launched(q) = stage[q] + 1
    BY <1>3, <2>2 DEF Taken, Launched
  <2>4. revision[p] - Launched(p) = revision[q] - Launched(q)
    BY <1>1, <1>5 DEF Revised
  <2>5. Launched(p) \in Nat
    BY <1>3 DEF Launched
  <2>6. n + stage[q] = Launched(p)
    BY <2>1, <2>3
  <2>7. revision[p] - Launched(p) = revision[q] - (stage[q] + 1)
    BY <2>3, <2>4
  <2>8. revision[p] - (n - 1) = revision[q]
    <3> DEFINE l == Launched(p)  a == revision[p]  b == revision[q]  s == stage[q]
    <3>1. /\ l \in Nat /\ a \in Nat /\ b \in Nat /\ s \in Nat /\ n \in Nat
          /\ n + s = l /\ a - l = b - (s + 1)
      BY <1>3, <2>5, <2>6, <2>7
    <3> HIDE DEF l, a, b, s
    <3>2. a - (n - 1) = b
      BY <3>1
    <3> QED BY <3>2 DEF a, b
  <2> QED BY <1>4, <2>8
<1>6. CASE Target(p) # "close"
  <2>1. Target(p) \in {"start", "open", "preflight", "restart", "wait"}
    BY <1>2, <1>3, <1>6 DEF Link, n
  <2>2. n = 1
    BY <1>2, <1>3, <2>1 DEF Link, n, Bit
  <2>3. Revised(p) = revision[p] /\ Revised(q) = revision[q]
    BY <1>1, <2>1 DEF Revised
  <2>4. revision[p] - (n - 1) = revision[p]
    BY <1>3, <2>2
  <2> QED BY <1>4, <2>3, <2>4
<1> QED BY <1>5, <1>6

LEMMA MessageFresh ==
  ASSUME IndInv, NEW a \in Ranks, NEW b \in Ranks, Match(a, b) \/ Buffer(a, b),
         NEW p \in Ranks, NEW q \in Ranks, Wired(q), Link(p, q), Fresh(p, q),
         Revised(p) = Revised(q)
  PROVE  Fresh(p, q)'
<1>1. /\ TypeOK /\ Steady(p) /\ Steady(q) /\ Target(p)' = Target(p)
  BY MessageSteady DEF IndInv
<1>2. /\ Good(p)' = Good(p) /\ Unpacked(q)' = Unpacked(q) /\ ghost' = ghost
  BY <1>1 DEF Steady, Good, Unpacked, Match, Buffer, buffers
<1>3. CASE Match(a, b) /\ p = a /\ q = b
  <2> DEFINE m == network[p][q]
  <2>1. /\ receiving[q][p] = "active" /\ m # <<>>
        /\ network'[p][q] = Tail(m) /\ inbox'[q][p] = Head(m)
    BY <1>1, <1>3, MatchEffect
  <2>2. Good(p) => inbox'[q][p] = revision'[q]
    BY <1>1, <2>1, HeadFresh DEF Steady
  <2>3. ASSUME Good(p), NEW i \in 1 .. Len(network'[p][q])
        PROVE  network'[p][q][i] = revision'[p] - (Len(network'[p][q]) - i)
    <3>1. m \in Seq(Nat) /\ revision[p] \in Nat
      BY <1>1 DEF TypeOK
    <3>2. /\ Len(m) \in Nat /\ Len(network'[p][q]) = Len(m) - 1
          /\ i + 1 \in 1 .. Len(m) /\ network'[p][q][i] = m[i + 1] /\ i \in Nat
      <4>1. network'[p][q] = Tail(m) /\ m # <<>> /\ i \in 1 .. Len(Tail(m))
        BY <2>1
      <4> HIDE DEF m
      <4>2. Len(m) \in Nat /\ Len(m) # 0 /\ Len(Tail(m)) = Len(m) - 1
        BY <3>1, <4>1
      <4> QED BY <3>1, <4>1, <4>2
    <3>3. m[i + 1] = revision[p] - (Len(m) - (i + 1))
      BY <2>3, <3>2 DEF Fresh
    <3>4. revision'[p] = revision[p]
      BY <1>1 DEF Steady
    <3> HIDE DEF m
    <3> QED BY <3>1, <3>2, <3>3, <3>4
  <2> QED BY <1>1, <1>2, <2>2, <2>3 DEF Fresh, Steady
<1>4. CASE Match(a, b) /\ ~(p = a /\ q = b)
  <2>1. /\ network'[p][q] = network[p][q] /\ receiving'[q][p] = receiving[q][p]
        /\ inbox'[q][p] = inbox[q][p]
    BY <1>1, <1>4, MatchEffect
  <2> QED BY <1>1, <1>2, <2>1 DEF Fresh, Steady
<1>5. CASE Buffer(a, b)
  <2>1. network' = network /\ receiving' = receiving /\ inbox' = inbox
    BY <1>5 DEF Buffer, buffers
  <2> QED BY <1>1, <1>2, <2>1 DEF Fresh, Steady
<1> QED BY <1>3, <1>4, <1>5

LEMMA SteadyRevised ==
  ASSUME NEW r \in Ranks, Steady(r), Target(r)' = Target(r)
  PROVE  Revised(r)' = Revised(r)
<1>1. Leaves(r)' = Leaves(r) /\ Launched(r)' = Launched(r)
  BY DEF Steady, Leaves, Launched
<1> QED BY <1>1 DEF Steady, Revised

LEMMA MessageDated ==
  ASSUME IndInv, Linked, Dated, NEW a \in Ranks, NEW b \in Ranks,
         Match(a, b) \/ Buffer(a, b)
  PROVE  Dated'
<1> SUFFICES ASSUME ~faults'.broken
             PROVE  /\ \A x \in Ranks : Current(x)'
                    /\ \A p, q \in Ranks : Fresh(p, q)' /\ Revised(p)' = Revised(q)'
  BY DEF Dated
<1>1. /\ \A x \in Ranks : Current(x) /\ Wired(x)
      /\ \A p, q \in Ranks : Link(p, q) /\ Fresh(p, q) /\ Revised(p) = Revised(q)
  BY DEF Dated, Linked, Match, Buffer
<1>2. TypeOK
  BY DEF IndInv
<1>3. ASSUME NEW x \in Ranks PROVE Current(x)'
  <2>1. Steady(x) /\ Current(x)
    BY <1>1, MessageSteady
  <2>2. outbox' = outbox /\ ghost' = ghost
    BY DEF Match, Buffer, buffers
  <2>3. pc[x] = "wait" => \A p \in Ranks : inbox'[x][p] = inbox[x][p]
    <3> SUFFICES ASSUME pc[x] = "wait", NEW p \in Ranks PROVE inbox'[x][p] = inbox[x][p]
      OBVIOUS
    <3>1. receiving[x][p] = "inactive"
      BY <1>1 DEF Wired
    <3>2. CASE Match(a, b)
      BY <1>2, <3>1, <3>2, MatchEffect
    <3>3. CASE Buffer(a, b)
      BY <3>3 DEF Buffer, buffers
    <3> QED BY <3>2, <3>3
  <2>4. Says(x, "ok")' = Says(x, "ok")
    BY <2>1 DEF Says, Steady
  <2>5. \A p \in Links(x) : p \in Ranks
    BY HaloAssumption DEF Links
  <2> QED BY <2>1, <2>2, <2>3, <2>4, <2>5 DEF Current, Steady, Links
<1>4. ASSUME NEW p \in Ranks, NEW q \in Ranks
      PROVE  Fresh(p, q)' /\ Revised(p)' = Revised(q)'
  BY <1>1, MessageFresh, MessageSteady, SteadyRevised
<1> QED BY <1>3, <1>4

-----------------------------------------------------------------------------
\* A consensus.
LEMMA AgreeRevised ==
  ASSUME IndInv, Agree, NEW r \in Ranks, Wired(r)
  PROVE  /\ Revised(r) = revision[r] - (IF pc[r] = "close" THEN EpochExchanges ELSE 0)
         /\ Revised(r)' = revision[r] + (IF Target(r)' = "begin" THEN 1 ELSE 0)
<1>1. /\ TypeOK /\ Local(r) /\ ~Leaves(r) /\ pc[r] \notin {"idle", "ready", "flying"}
      /\ Target(r) = pc[r] /\ pc'[r] = pc[r] /\ stage'[r] = stage[r]
      /\ revision'[r] = revision[r] /\ revision[r] \in Nat /\ stage[r] \in Nat
  <2>1. ~Leaves(r)
    BY AgreeTarget DEF Leaves
  <2>2. revision[r] \in Nat /\ stage[r] \in Nat
    BY DEF IndInv, TypeOK
  <2> QED BY <2>1, <2>2, AgreeTarget DEF IndInv
<1>2. Launched(r) = stage[r] /\ Launched(r)' = stage[r]
  BY <1>1 DEF Launched
<1>3. Revised(r) = revision[r] - (IF pc[r] = "close" THEN EpochExchanges ELSE 0)
  BY <1>1, <1>2 DEF Revised, Wired
<1>4. Target(r)' = "begin" => Leaves(r)'
  BY <1>1, AgreeTarget DEF Target
<1>5. Target(r)' = "close" => stage[r] = 0
  BY <1>1, AgreeTarget DEF Local, Counted, TypeOK, Pcs, None
<1>6. Revised(r)' = revision[r] + (IF Target(r)' = "begin" THEN 1 ELSE 0)
  BY <1>1, <1>2, <1>4, <1>5 DEF Revised
<1> QED BY <1>3, <1>6

LEMMA AgreeDated ==
  ASSUME IndInv, Linked, Dated, Agree
  PROVE  Dated'
<1> SUFFICES ASSUME ~faults'.broken
             PROVE  /\ \A x \in Ranks : Current(x)'
                    /\ \A p, q \in Ranks : Fresh(p, q)' /\ Revised(p)' = Revised(q)'
  BY DEF Dated
<1>1. /\ \A x \in Ranks : Current(x) /\ Wired(x)
      /\ \A p, q \in Ranks : Link(p, q) /\ Fresh(p, q) /\ Revised(p) = Revised(q)
  BY DEF Dated, Linked, Agree
<1>2. /\ network' = network /\ receiving' = receiving /\ inbox' = inbox
      /\ outbox' = outbox /\ ghost' = ghost
  BY DEF Agree, wires, buffers
<1>3. TypeOK /\ \A p, q \in Ranks : pc[p] = pc[q] /\ Target(p)' = Target(q)'
  <2>1. \A q \in Ranks : vote[q] # None
    BY AgreeTarget
  <2>2. \A p, q \in Ranks : pc[p] = pc[q]
    BY <2>1, Assembled
  <2>3. ASSUME NEW p \in Ranks, NEW q \in Ranks PROVE Target(p)' = Target(q)'
    <3>1. Destination(p)' = Destination(q)'
      BY AgreeInductive DEF IndInv, Synced
    <3>2. Destination(p)'[2] = Destination(q)'[2]
      BY <3>1
    <3> QED BY <3>2 DEF Destination
  <2> QED BY <2>2, <2>3 DEF IndInv
<1>4. ASSUME NEW x \in Ranks PROVE Current(x)'
  <2>1. /\ pc'[x] = pc[x] /\ revision'[x] = revision[x] /\ deferred'[x] = deferred[x]
        /\ impl'[x] = impl[x] /\ vote'[x] = None /\ verdict[x] = None
        /\ Says(x, "ok")' => Says(x, "ok")
    BY AgreeTarget DEF Says, None
  <2>2. pc[x] = "close" /\ verdict'[x] = "ok" =>
          \A p \in Peers[x] : ghost[x][p] = revision[x]
    <3> SUFFICES ASSUME pc[x] = "close", verdict'[x] = "ok", NEW p \in Peers[x]
                 PROVE  ghost[x][p] = revision[x]
      OBVIOUS
    <3>1. p \in Ranks
      BY HaloAssumption
    <3>2. verdict'[p] = "ok"
      <4>1. PICK v \in Statuses : verdict' = ForAll(v)
        BY Agreed DEF IndInv
      <4> QED BY <3>1, <4>1 DEF ForAll
    <3>3. ASSUME NEW y \in {x, p} PROVE deferred[y] = "ok"
      <4>1. y \in Ranks /\ pc[y] = "close" /\ vote[y] = "ok"
        BY <1>3, <3>1, <3>2, AgreeTarget
      <4> QED BY <1>1, <4>1 DEF Current, None
    <3>4. Unpacked(x)
      BY <2>1 DEF Unpacked
    <3> QED BY <1>1, <3>1, <3>3, <3>4 DEF Fresh
  <2>3. Current(x)
    BY <1>1
  <2> QED BY <1>2, <2>1, <2>2, <2>3 DEF Current, Links
<1>5. ASSUME NEW p \in Ranks, NEW q \in Ranks PROVE Fresh(p, q)'
  <2>1. /\ pc'[q] = pc[q] /\ pc[q] \notin {"idle", "ready", "flying"}
        /\ revision'[p] = revision[p] /\ revision'[q] = revision[q]
        /\ deferred'[p] = deferred[p] /\ verdict'[q] # None
        /\ Target(p) = pc[p] /\ pc[p] = pc[q]
    BY <1>3, AgreeTarget
  <2>2. ~Unpacked(q)'
    BY <2>1 DEF Unpacked
  <2>3. CASE Good(p)
    BY <1>1, <1>2, <2>1, <2>2, <2>3 DEF Fresh
  <2>4. CASE ~Good(p)
    <3>1. pc[p] = "close" /\ pc[q] = "close"
      BY <2>1, <2>4 DEF Good
    <3>2. Target(p)' \in {None, "enter", "reserve", "begin"}
      BY <3>1, AgreeTarget
    <3>3. Link(p, q)'
      BY <1>1, AgreeLink
    <3>4. Len(network'[p][q]) = 0
      BY <3>2, <3>3 DEF Link, None
    <3>5. receiving'[q][p] # "done"
      BY <1>1, <1>2, <3>1 DEF Wired
    <3> QED BY <2>2, <3>4, <3>5 DEF Fresh
  <2> QED BY <2>3, <2>4
<1>6. ASSUME NEW p \in Ranks, NEW q \in Ranks PROVE Revised(p)' = Revised(q)'
  <2>1. revision[p] = revision[q]
    <3>1. Revised(p) = Revised(q) /\ pc[p] = pc[q]
      BY <1>1, <1>3
    <3>2. revision[p] \in Nat /\ revision[q] \in Nat
      BY <1>3 DEF TypeOK
    <3> QED BY <1>1, <3>1, <3>2, AgreeRevised, HaloAssumption
  <2> QED BY <1>1, <1>3, <2>1, AgreeRevised
<1> QED BY <1>4, <1>5, <1>6

LEMMA InitDated == Init => Dated
<1> SUFFICES ASSUME Init
             PROVE  /\ \A x \in Ranks : Current(x)
                    /\ \A p, q \in Ranks : Fresh(p, q) /\ Revised(p) = Revised(q)
  BY DEF Dated
<1>1. ASSUME NEW x \in Ranks
      PROVE  /\ pc[x] = "idle" /\ impl[x].cert = 0 /\ outcomes[x] = <<>>
             /\ revision[x] = 0 /\ verdict[x] = None
  BY DEF Init, ForAll, NewImpl
<1>2. ASSUME NEW p \in Ranks, NEW q \in Ranks
      PROVE  network[p][q] = <<>> /\ receiving[q][p] = "inactive"
  BY DEF Init, ForAll
<1>3. \A x \in Ranks : Current(x)
  BY <1>1 DEF Current
<1>4. \A p, q \in Ranks : Fresh(p, q)
  BY <1>1, <1>2 DEF Fresh, Unpacked
<1>5. ASSUME NEW p \in Ranks, NEW q \in Ranks PROVE Revised(p) = Revised(q)
  <2>1. ASSUME NEW x \in Ranks
        PROVE  Target(x) = Opening(<<>>) /\ Target(x) # "close"
    BY <1>1 DEF Target, Log, Leaves, Opening, None
  <2> QED BY <1>1, <2>1 DEF Revised
<1> QED BY <1>3, <1>4, <1>5

LEMMA DatedInductive ==
  ASSUME IndInv, Linked, Dated, [Next]_vars
  PROVE  Dated'
<1>1. CASE UNCHANGED vars
  <2>1. \A p \in Ranks : Steady(p)
    BY <1>1 DEF vars, control, caller, Steady
  <2>2. \A p \in Ranks : Target(p)' = Target(p)
    <3> SUFFICES ASSUME NEW p \in Ranks PROVE Target(p)' = Target(p)
      OBVIOUS
    <3>1. Destination(p)' = Destination(p)
      BY <2>1, SteadyLocal
    <3>2. Destination(p)'[2] = Destination(p)[2]
      BY <3>1
    <3> QED BY <3>2 DEF Destination
  <2>3. /\ network' = network /\ receiving' = receiving /\ inbox' = inbox
        /\ outbox' = outbox /\ ghost' = ghost /\ faults' = faults
    BY <1>1 DEF vars, wires, buffers
  <2>4. \A x \in Ranks : Current(x) => Current(x)'
    BY <2>1, <2>3 DEF Steady, Current, Says, Links
  <2>5. \A p, q \in Ranks : Fresh(p, q) => Fresh(p, q)'
    BY <2>1, <2>2, <2>3 DEF Steady, Fresh, Good, Unpacked
  <2>6. \A p \in Ranks : Revised(p)' = Revised(p)
    BY <2>1, <2>2, SteadyRevised
  <2> QED BY <2>3, <2>4, <2>5, <2>6 DEF Dated
<1> QED BY <1>1, RankDated, MessageDated, AgreeDated DEF Next, Terminated

\* The messages on their way are the last revisions of the field, and all ranks
\* have revised it equally often when they come to the same place.
THEOREM MessagesDated == Spec => []Dated
<1>1. Init => Dated
  BY InitDated
<1>2. IndInv /\ Linked /\ Dated /\ [Next]_vars => Dated'
  BY DatedInductive
<1> QED BY <1>1, <1>2, Inductive, LinksCounted, PTL DEF Spec

\* A ghost certificate names the data in the ghosts: what each peer packed in the
\* same exchange, never an older message, unless a rank left a prepared epoch early
\* or was left with open requests (finish, close_prepared_epoch).
THEOREM GhostsFresh == Spec => []FreshGhosts
<1>1. Dated => FreshGhosts
  BY DEF Dated, Current, FreshGhosts, GhostsCertified
<1> QED BY <1>1, MessagesDated, PTL
=============================================================================
