----------------------------- MODULE HaloEngine -----------------------------
(***************************************************************************)
(* HaloEngine on every rank: persistent MPI requests to the ranks that     *)
(* share a face, used for one exchange at a time.                          *)
(*                                                                         *)
(* An ordinary exchange (begin, finish) agrees on every failure with a     *)
(* consensus.  A prepared epoch (enter, begin_prepared, finish_prepared,   *)
(* close) has none: every rank keeps its failures in "deferred", and the   *)
(* owner's collective decides at the end.  reserve builds a new engine and *)
(* replaces the old one.                                                   *)
(*                                                                         *)
(* All ranks run the same Plan of rounds.  The data of a field is the      *)
(* number of its last revision: the caller writes the field once before    *)
(* each exchange.  All chunks of a peer are one message.  A consensus does *)
(* not itself fail in MPI.                                                 *)
(***************************************************************************)
EXTENDS Integers, Sequences

CONSTANTS
  NumRanks,        \* size of the communicator
  Peers,           \* Impl::peers of each rank (itself if it is its own
                   \* periodic neighbour)
  Plan,            \* the rounds that every rank's caller runs
  EpochExchanges,  \* exchanges in a prepared epoch
  ReserveStages,   \* consensus points of reserve
  FaultKinds,      \* what may go wrong
  MaxFaults        \* bound on how often

Ranks == 0 .. NumRanks - 1
Rounds == {"exchange", "reenter", "epoch", "reserve"}

(***************************************************************************)
(*   reject    the prerequisite, the views or the packing fail in begin    *)
(*   rebind    the views given to finish are not those given to begin      *)
(*   start     MPI_Startall fails, having started any subset               *)
(*   wait      MPI_Waitall reports an error once all requests completed    *)
(*   pending   MPI_Waitall reports an error and leaves requests pending    *)
(*   requests  MPI_Send_init or MPI_Recv_init fails                        *)
(*   reserve   a stage of reserve fails                                    *)
(*   epoch...  the same failures inside a prepared epoch                   *)
(***************************************************************************)
Faults == {"reject", "rebind", "start", "wait", "pending", "requests",
           "reserve", "epochReject", "epochRebind", "epochStart", "epochWait"}

\* The engine has no recovery that spans all ranks for these.
Unrecovered == {"pending", "epochStart", "epochWait"}

ASSUME HaloAssumption ==
  /\ NumRanks \in Nat \ {0}
  /\ Peers \in [Ranks -> SUBSET Ranks]
  /\ \A p, q \in Ranks : p \in Peers[q] <=> q \in Peers[p]
  /\ Plan \in Seq(Rounds)
  /\ EpochExchanges \in Nat \ {0}
  /\ ReserveStages \in Nat \ {0}
  /\ FaultKinds \subseteq Faults
  /\ MaxFaults \in Nat

Failures == {"state", "field", "start", "completion", "request", "reserve"}
Statuses == {"ok"} \cup Failures
None == "none"
Links(r) == Peers[r] \ {r}     \* the peers that are not local

VARIABLES
  pc,         \* where the rank's caller is
  vote,       \* status the rank brought to the collective it is in
  verdict,    \* what that collective returned to it, until it is used
  kept,       \* a failure that is reported after a further consensus
  stage,      \* stages of a reserve, or exchanges of an epoch, done so far
  outcomes,   \* history: outcomes of the rounds the rank has left
  revision,   \* revision of the caller's field
  ticket,     \* HaloTicket::active_ of the caller's ticket
  deferred,   \* the caller's deferred status in a prepared epoch
  impl,       \* HaloImplData
  outbox,     \* send_storage
  inbox,      \* receive_storage, by peer
  ghost,      \* the ghost layers of the field, by peer
  sending,    \* persistent send requests, by peer
  receiving,  \* persistent receive requests, by peer
  network,    \* messages not yet received, by sender and receiver
  faults      \* faults so far: how many, and was one of them unrecovered?

control == <<pc, vote, verdict, kept, stage, outcomes>>
caller  == <<revision, ticket, deferred>>
buffers == <<outbox, inbox, ghost>>
wires   == <<sending, receiving, network>>
vars    == <<control, caller, impl, buffers, wires, faults>>

\* cert is ghost_revision and pending is pending_revision; active, started,
\* epoch and valid are exchange_active, requests_active,
\* prepared_epoch_active and prepared_exchange_views_valid.
Impls == [cert : Nat, pending : Nat, active : BOOLEAN, started : BOOLEAN,
          poisoned : BOOLEAN, epoch : BOOLEAN, valid : BOOLEAN]
NewImpl == [cert |-> 0, pending |-> 0, active |-> FALSE, started |-> FALSE,
            poisoned |-> FALSE, epoch |-> FALSE, valid |-> FALSE]

\* A buffered send has completed on its rank and waits in the network.
Requests == {"inactive", "active", "buffered", "done"}
Pcs == {"idle", "begin", "start", "restart", "open", "preflight", "wait",
        "recover", "enter", "ready", "flying", "close", "reserve"}

TypeOK ==
  /\ pc \in [Ranks -> Pcs]
  /\ vote \in [Ranks -> Statuses \cup {None}]
  /\ verdict \in [Ranks -> Statuses \cup {None}]
  /\ kept \in [Ranks -> Statuses]
  /\ stage \in [Ranks -> Nat]
  /\ outcomes \in [Ranks -> Seq(Failures \cup {"published", "reserved"})]
  /\ revision \in [Ranks -> Nat]
  /\ ticket \in [Ranks -> BOOLEAN]
  /\ deferred \in [Ranks -> Statuses]
  /\ impl \in [Ranks -> Impls]
  /\ outbox \in [Ranks -> Nat]
  /\ inbox \in [Ranks -> [Ranks -> Nat]]
  /\ ghost \in [Ranks -> [Ranks -> Nat]]
  /\ sending \in [Ranks -> [Ranks -> Requests]]
  /\ receiving \in [Ranks -> [Ranks -> Requests \ {"buffered"}]]
  /\ network \in [Ranks -> [Ranks -> Seq(Nat)]]
  /\ faults \in [count : 0 .. MaxFaults, broken : BOOLEAN]

ForAll(v) == [r \in Ranks |-> v]

Init ==
  /\ pc = ForAll("idle") /\ vote = ForAll(None) /\ verdict = ForAll(None)
  /\ kept = ForAll("ok") /\ stage = ForAll(0) /\ outcomes = ForAll(<<>>)
  /\ revision = ForAll(0) /\ ticket = ForAll(FALSE) /\ deferred = ForAll("ok")
  /\ impl = ForAll(NewImpl)
  /\ outbox = ForAll(0) /\ inbox = ForAll(ForAll(0)) /\ ghost = ForAll(ForAll(0))
  /\ sending = ForAll(ForAll("inactive"))
  /\ receiving = ForAll(ForAll("inactive"))
  /\ network = ForAll(ForAll(<<>>))
  /\ faults = [count |-> 0, broken |-> FALSE]

-----------------------------------------------------------------------------
(***************************************************************************)
(* Parts of the steps.                                                     *)
(***************************************************************************)
Round(r) == IF Len(outcomes[r]) < Len(Plan) THEN Plan[Len(outcomes[r]) + 1]
                                            ELSE None

Fault(kind) ==
  /\ kind \in FaultKinds /\ faults.count < MaxFaults
  /\ faults' = [count  |-> faults.count + 1,
                broken |-> faults.broken \/ kind \in Unrecovered]

\* A local status: ok, or a failure if a fault of the kind happens.
Try(status, kind, failure) ==
  \/ status = "ok" /\ UNCHANGED faults
  \/ status = failure /\ Fault(kind)

Goto(r, place) == pc' = [pc EXCEPT ![r] = place]

\* The rank enters a collective with its local status.
Ask(r, status) == vote' = [vote EXCEPT ![r] = status] /\ UNCHANGED verdict

\* The rank leaves the collective.
Answer(r) ==
  /\ verdict[r] # None
  /\ verdict' = [verdict EXCEPT ![r] = None]

\* It may enter the next one in the same step.
AnswerAndAsk(r, status) ==
  /\ Answer(r)
  /\ vote' = [vote EXCEPT ![r] = status]

Return(r, outcome) ==
  /\ Goto(r, "idle")
  /\ outcomes' = [outcomes EXCEPT ![r] = Append(@, outcome)]
  /\ stage' = [stage EXCEPT ![r] = 0]
  /\ kept' = [kept EXCEPT ![r] = "ok"]

\* MPI_Startall on the sends of data to To and the receives from From.
Startall(r, To, From, data) ==
  /\ sending' = [sending EXCEPT ![r] =
       [q \in Ranks |-> IF q \in To THEN "active" ELSE @[q]]]
  /\ receiving' = [receiving EXCEPT ![r] =
       [q \in Ranks |-> IF q \in From THEN "active" ELSE @[q]]]
  /\ network' = [network EXCEPT ![r] =
       [q \in Ranks |-> IF q \in To THEN Append(@[q], data) ELSE @[q]]]

Complete(r) ==
  \A q \in Links(r) : /\ sending[r][q] \in {"buffered", "done"}
                      /\ receiving[r][q] = "done"

\* MPI_Waitall makes the completed requests inactive.
Waitall(r) ==
  /\ sending' = [sending EXCEPT ![r] = [q \in Ranks |->
       IF @[q] \in {"buffered", "done"} THEN "inactive" ELSE @[q]]]
  /\ receiving' = [receiving EXCEPT ![r] = [q \in Ranks |->
       IF @[q] = "done" THEN "inactive" ELSE @[q]]]
  /\ UNCHANGED network

\* Mutant of CancelAndDrain: the receives are cancelled and the sends are not.
CancelReceives(r) ==
  /\ sending' = [sending EXCEPT ![r] = ForAll("inactive")]
  /\ receiving' = [receiving EXCEPT ![r] = ForAll("inactive")]
  /\ UNCHANGED network

\* cancel_and_drain: of a request that is still open, either the message has
\* been received or MPI_Cancel withdraws it.
CancelAndDrain(r) ==
  IF impl[r].started
  THEN /\ sending' = [sending EXCEPT ![r] = ForAll("inactive")]
       /\ receiving' = [receiving EXCEPT ![r] = ForAll("inactive")]
       /\ network' = [network EXCEPT ![r] = [q \in Ranks |->
            IF sending[r][q] \in {"active", "buffered"}
            THEN SubSeq(@[q], 1, Len(@[q]) - 1) ELSE @[q]]]
  ELSE UNCHANGED wires

\* copy_local_peers and unpack_section.
Unpack(r) ==
  /\ inbox' = [inbox EXCEPT ![r] = [q \in Ranks |->
       IF q = r /\ r \in Peers[r] THEN outbox[r] ELSE @[q]]]
  /\ ghost' = [ghost EXCEPT ![r] = [q \in Ranks |->
       IF q \in Peers[r] THEN inbox'[r][q] ELSE @[q]]]

-----------------------------------------------------------------------------
(***************************************************************************)
(* MPI.                                                                    *)
(***************************************************************************)
\* raw_collective_status: the lowest failing rank's status on every rank.
Agree ==
  LET failing == {r \in Ranks : vote[r] # "ok"}
      lowest  == CHOOSE r \in failing : \A q \in failing : r <= q
  IN  /\ \A r \in Ranks : vote[r] # None
      /\ verdict' = ForAll(IF failing = {} THEN "ok" ELSE vote[lowest])
      /\ vote' = ForAll(None)
      /\ UNCHANGED <<pc, kept, stage, outcomes, caller, impl, buffers, wires,
                     faults>>

\* A receive takes the first message; the message of an open send is the last.
Match(p, q) ==
  /\ receiving[q][p] = "active" /\ network[p][q] # <<>>
  /\ inbox' = [inbox EXCEPT ![q][p] = Head(network[p][q])]
  /\ receiving' = [receiving EXCEPT ![q][p] = "done"]
  /\ sending' = [sending EXCEPT ![p][q] =
       IF Len(network[p][q]) = 1 /\ @ # "inactive" THEN "done" ELSE @]
  /\ network' = [network EXCEPT ![p][q] = Tail(@)]
  /\ UNCHANGED <<control, caller, impl, outbox, ghost, faults>>

\* MPI may buffer a small message and complete the send at once.
Buffer(p, q) ==
  /\ sending[p][q] = "active"
  /\ sending' = [sending EXCEPT ![p][q] = "buffered"]
  /\ UNCHANGED <<control, caller, impl, buffers, receiving, network, faults>>

-----------------------------------------------------------------------------
(***************************************************************************)
(* begin.                                                                  *)
(***************************************************************************)
\* A new attempt invalidates the certificate even if it fails at once.  A
\* poisoned engine builds its requests anew before the views are checked.
Begin(r) ==
  /\ pc[r] = "idle" /\ Round(r) \in {"exchange", "reenter"}
  /\ revision' = [revision EXCEPT ![r] = @ + 1]
  /\ \E s \in {"ok", "field", "request"}, again \in BOOLEAN :
       /\ s = "ok" => UNCHANGED faults /\ again
       /\ s = "field" => Fault("reject")
       /\ s = "request" => impl[r].poisoned /\ Fault("requests") /\ ~again
       /\ impl' = [impl EXCEPT ![r].cert = 0,
                               ![r].poisoned = @ /\ ~again]
       /\ outbox' = [outbox EXCEPT ![r] = IF s = "ok" THEN revision'[r] ELSE @]
       /\ Ask(r, s)
  /\ Goto(r, "begin")
  /\ UNCHANGED <<kept, stage, outcomes, ticket, deferred, inbox, ghost, wires>>

BeginRefused(r) ==
  /\ pc[r] = "begin" /\ verdict[r] # "ok" /\ Answer(r)
  /\ Return(r, verdict[r])
  /\ UNCHANGED <<vote, caller, impl, buffers, wires, faults>>

Start(r) ==
  /\ pc[r] = "begin" /\ verdict[r] = "ok"
  /\ impl' = [impl EXCEPT ![r].started = Links(r) # {}]
  /\ \/ /\ Startall(r, Links(r), Links(r), outbox[r])
        /\ AnswerAndAsk(r, "ok")
        /\ UNCHANGED faults
     \/ /\ Links(r) # {} /\ Fault("start")
        /\ \E To, From \in SUBSET Links(r) : Startall(r, To, From, outbox[r])
        /\ AnswerAndAsk(r, "start")
  /\ Goto(r, "start")
  /\ UNCHANGED <<kept, stage, outcomes, caller, buffers>>

\* publish_begin_views, and the ticket.
Opened(r) ==
  /\ pc[r] = "start" /\ verdict[r] = "ok" /\ Answer(r)
  /\ impl' = [impl EXCEPT ![r].pending = revision[r], ![r].active = TRUE]
  /\ ticket' = [ticket EXCEPT ![r] = TRUE]
  /\ Goto(r, "open")
  /\ UNCHANGED <<vote, kept, stage, outcomes, revision, deferred, buffers,
                 wires, faults>>

\* cancel_and_drain, recreate_requests.
Recreate(r, s) ==
  /\ CancelAndDrain(r)
  /\ Try(s, "requests", "request")
  /\ impl' = [impl EXCEPT ![r].started = FALSE, ![r].poisoned = s # "ok"]
  /\ AnswerAndAsk(r, s)

StartFailed(r) ==
  /\ pc[r] = "start" /\ verdict[r] # "ok"
  /\ \E s \in {"ok", "request"} : Recreate(r, s)
  /\ kept' = [kept EXCEPT ![r] = verdict[r]]
  /\ Goto(r, "restart")
  /\ UNCHANGED <<stage, outcomes, caller, buffers>>

\* Mutant of StartReported: the consensus on the recreation is ignored.
StartReportedLocally(r) ==
  /\ pc[r] = "restart" /\ Answer(r)
  /\ impl' = [impl EXCEPT ![r].active = FALSE]
  /\ ticket' = [ticket EXCEPT ![r] = FALSE]
  /\ Return(r, kept[r])
  /\ UNCHANGED <<vote, revision, deferred, buffers, wires, faults>>

\* The consensus on the recreation poisons all engines or none.
StartReported(r) ==
  /\ pc[r] = "restart" /\ Answer(r)
  /\ impl' = [impl EXCEPT ![r].poisoned = @ \/ verdict[r] # "ok",
                          ![r].active = FALSE]
  /\ ticket' = [ticket EXCEPT ![r] = FALSE]
  /\ Return(r, kept[r])
  /\ UNCHANGED <<vote, revision, deferred, buffers, wires, faults>>

\* The caller calls begin again, with the ticket of the open exchange.
Reenter(r) ==
  /\ pc[r] = "open" /\ Round(r) = "reenter" /\ ticket[r]
  /\ \/ vote[r] = None /\ verdict[r] = None /\ Ask(r, "state")
        /\ UNCHANGED ticket
     \/ Answer(r) /\ ticket' = [ticket EXCEPT ![r] = FALSE] /\ UNCHANGED vote
  /\ UNCHANGED <<pc, kept, stage, outcomes, revision, deferred, impl, buffers,
                 wires, faults>>

-----------------------------------------------------------------------------
(***************************************************************************)
(* finish.                                                                 *)
(***************************************************************************)
Finish(r) ==
  /\ pc[r] = "open" /\ (Round(r) = "reenter" => ~ticket[r])
  /\ \E s \in {"ok", "state", "field"} :
       /\ IF ~impl[r].active \/ impl[r].poisoned \/ ~ticket[r]
          THEN s = "state" /\ UNCHANGED faults
          ELSE Try(s, "rebind", "field")
       /\ Ask(r, s)
  /\ Goto(r, "preflight")
  /\ UNCHANGED <<kept, stage, outcomes, caller, impl, buffers, wires>>

\* Mutant of Wait: a rank whose preflight failed does not wait.
WaitIfSound(r) ==
  /\ pc[r] = "preflight"
  /\ kept' = [kept EXCEPT ![r] = verdict[r]]
  /\ \E s \in {"ok", "completion"} :
       /\ \/ verdict[r] # "ok" /\ s = "ok" /\ UNCHANGED faults
          \/ Complete(r) /\ Try(s, "wait", "completion")
       /\ impl' = [impl EXCEPT ![r].started = @ /\ s # "ok"]
       /\ AnswerAndAsk(r, s)
  /\ Waitall(r)
  /\ Goto(r, "wait")
  /\ UNCHANGED <<stage, outcomes, caller, buffers>>

\* The rank waits whatever the preflight said.
Wait(r) ==
  /\ pc[r] = "preflight"
  /\ kept' = [kept EXCEPT ![r] = verdict[r]]
  /\ \E s \in {"ok", "completion"} :
       /\ \/ Complete(r) /\ Try(s, "wait", "completion")
          \/ ~Complete(r) /\ s = "completion" /\ Fault("pending")
       /\ s = "completion" => impl[r].started
       /\ impl' = [impl EXCEPT ![r].started = @ /\ s # "ok"]
       /\ AnswerAndAsk(r, s)
  /\ Waitall(r)
  /\ Goto(r, "wait")
  /\ UNCHANGED <<stage, outcomes, caller, buffers>>

\* finish_exchange_state, and the ticket is spent.
FinishExchange(r, cert) ==
  /\ impl' = [impl EXCEPT ![r].active = FALSE, ![r].started = FALSE,
                          ![r].cert = cert]
  /\ ticket' = [ticket EXCEPT ![r] = FALSE]

Published(r) ==
  /\ pc[r] = "wait" /\ verdict[r] = "ok" /\ kept[r] = "ok" /\ Answer(r)
  /\ Unpack(r)
  /\ FinishExchange(r, impl[r].pending)
  /\ Return(r, "published")
  /\ UNCHANGED <<vote, revision, deferred, outbox, wires, faults>>

PreflightFailed(r) ==
  /\ pc[r] = "wait" /\ verdict[r] = "ok" /\ kept[r] # "ok" /\ Answer(r)
  /\ FinishExchange(r, impl[r].cert)
  /\ Return(r, kept[r])
  /\ UNCHANGED <<vote, revision, deferred, buffers, wires, faults>>

WaitFailed(r) ==
  /\ pc[r] = "wait" /\ verdict[r] = "completion"
  /\ \E s \in {"ok", "request"} : Recreate(r, s)
  /\ kept' = [kept EXCEPT ![r] = IF @ = "ok" THEN verdict[r] ELSE @]
  /\ Goto(r, "recover")
  /\ UNCHANGED <<stage, outcomes, caller, buffers>>

WaitReported(r) ==
  /\ pc[r] = "recover" /\ Answer(r)
  /\ impl' = [impl EXCEPT ![r].poisoned = @ \/ verdict[r] # "ok",
                          ![r].active = FALSE, ![r].started = FALSE]
  /\ ticket' = [ticket EXCEPT ![r] = FALSE]
  /\ Return(r, kept[r])
  /\ UNCHANGED <<vote, revision, deferred, buffers, wires, faults>>

-----------------------------------------------------------------------------
(***************************************************************************)
(* A prepared epoch, as its owner runs it: enter and agree that all ranks  *)
(* entered; exchange without agreement; one collective that carries what   *)
(* the ranks deferred; close with its result.                              *)
(***************************************************************************)
EnterEpoch(r) ==
  /\ pc[r] = "idle" /\ Round(r) = "epoch"
  /\ LET refused == \/ impl[r].epoch \/ impl[r].active
                    \/ impl[r].started \/ impl[r].poisoned
     IN  /\ impl' = [impl EXCEPT ![r].cert = 0, ![r].pending = 0,
                                 ![r].epoch = @ \/ ~refused,
                                 ![r].valid = @ /\ refused]
         /\ \E s \in {"ok", "state", "field"} :
              /\ IF refused THEN s = "state" /\ UNCHANGED faults
                            ELSE Try(s, "epochReject", "field")
              /\ Ask(r, s)
  /\ deferred' = [deferred EXCEPT ![r] = "ok"]
  /\ Goto(r, "enter")
  /\ UNCHANGED <<kept, stage, outcomes, revision, ticket, buffers, wires>>

EpochEntered(r) ==
  /\ pc[r] = "enter" /\ verdict[r] = "ok" /\ Answer(r)
  /\ Goto(r, "ready")
  /\ UNCHANGED <<vote, kept, stage, outcomes, caller, impl, buffers, wires,
                 faults>>

\* close_prepared_epoch, which does nothing if the rank did not enter.
CloseEpoch(r, publish) ==
  LET clean == ~impl[r].active /\ ~impl[r].started /\ ~impl[r].poisoned
  IN  impl' = IF impl[r].epoch
              THEN [impl EXCEPT
                     ![r].cert = IF publish /\ clean THEN impl[r].pending ELSE 0,
                     ![r].epoch = FALSE, ![r].valid = FALSE]
              ELSE impl

EpochRefused(r) ==
  /\ pc[r] = "enter" /\ verdict[r] # "ok" /\ Answer(r)
  /\ CloseEpoch(r, FALSE)
  /\ Return(r, verdict[r])
  /\ UNCHANGED <<vote, caller, buffers, wires, faults>>

Retain(r, s) ==
  deferred' = [deferred EXCEPT ![r] = IF @ = "ok" THEN s ELSE @]

\* Mutant of BeginPrepared: a rank whose views are rejected returns at once.
BeginPreparedEarly(r) ==
  /\ pc[r] = "ready" /\ stage[r] < EpochExchanges
  /\ revision' = [revision EXCEPT ![r] = @ + 1]
  /\ \/ /\ UNCHANGED faults
        /\ outbox' = [outbox EXCEPT ![r] = revision'[r]]
        /\ impl' = [impl EXCEPT
             ![r].pending = revision'[r], ![r].valid = TRUE,
             ![r].active = TRUE, ![r].started = Links(r) # {}]
        /\ Startall(r, Links(r), Links(r), outbox'[r])
        /\ ticket' = [ticket EXCEPT ![r] = TRUE]
        /\ Goto(r, "flying")
        /\ UNCHANGED vote
     \/ /\ Fault("epochReject")
        /\ Ask(r, "field")
        /\ Goto(r, "close")
        /\ UNCHANGED <<ticket, impl, wires, outbox>>
  /\ UNCHANGED <<verdict, kept, stage, outcomes, deferred, inbox, ghost>>

\* A rank whose views are rejected still starts its requests.
BeginPrepared(r) ==
  /\ pc[r] = "ready" /\ stage[r] < EpochExchanges
  /\ revision' = [revision EXCEPT ![r] = @ + 1]
  /\ \E s \in {"ok", "state", "field"} :
       /\ IF ~impl[r].epoch \/ impl[r].active \/ ticket[r] \/ impl[r].poisoned
          THEN s = "state" /\ UNCHANGED faults
          ELSE Try(s, "epochReject", "field")
       /\ Retain(r, s)
       /\ outbox' = [outbox EXCEPT ![r] = IF s = "ok" THEN revision'[r] ELSE @]
       /\ impl' = [impl EXCEPT
            ![r].pending = IF s = "ok" THEN revision'[r] ELSE @,
            ![r].valid = s = "ok", ![r].active = TRUE,
            ![r].started = Links(r) # {}]
       /\ Startall(r, Links(r), Links(r), outbox'[r])
  /\ ticket' = [ticket EXCEPT ![r] = TRUE]
  /\ Goto(r, "flying")
  /\ UNCHANGED <<vote, verdict, kept, stage, outcomes, inbox, ghost>>

\* MPI_Startall fails: the rank cancels what it started and returns at once.
\* Its owner goes on to the collective that ends the epoch.
StartPreparedFailed(r) ==
  /\ pc[r] = "ready" /\ stage[r] < EpochExchanges
  /\ Links(r) # {} /\ Fault("epochStart")
  /\ revision' = [revision EXCEPT ![r] = @ + 1]
  /\ impl' = [impl EXCEPT ![r].poisoned = TRUE, ![r].active = FALSE,
                          ![r].started = FALSE, ![r].valid = FALSE]
  /\ ticket' = [ticket EXCEPT ![r] = FALSE]
  /\ Ask(r, "start")
  /\ Goto(r, "close")
  /\ UNCHANGED <<kept, stage, outcomes, deferred, buffers, wires>>

\* The ghosts are written only if the views of both calls were valid.
FinishPrepared(r) ==
  /\ pc[r] = "flying" /\ Complete(r)
  /\ \E s \in {"ok", "state", "field"} :
       /\ IF ~impl[r].epoch \/ ~impl[r].active \/ impl[r].poisoned \/ ~ticket[r]
          THEN s = "state" /\ UNCHANGED faults
          ELSE IF impl[r].valid THEN Try(s, "epochRebind", "field")
                                ELSE s = "ok" /\ UNCHANGED faults
       /\ Retain(r, s)
       /\ IF impl[r].valid /\ s = "ok" THEN Unpack(r)
                                       ELSE UNCHANGED <<inbox, ghost>>
  /\ Waitall(r)
  /\ impl' = [impl EXCEPT ![r].active = FALSE, ![r].started = FALSE,
                          ![r].valid = FALSE]
  /\ ticket' = [ticket EXCEPT ![r] = FALSE]
  /\ stage' = [stage EXCEPT ![r] = @ + 1]
  /\ Goto(r, "ready")
  /\ UNCHANGED <<vote, verdict, kept, outcomes, revision, outbox>>

\* MPI_Waitall fails: the same early return.
WaitPreparedFailed(r) ==
  /\ pc[r] = "flying" /\ impl[r].started /\ Fault("epochWait")
  /\ CancelAndDrain(r)
  /\ impl' = [impl EXCEPT ![r].poisoned = TRUE, ![r].active = FALSE,
                          ![r].started = FALSE, ![r].valid = FALSE]
  /\ ticket' = [ticket EXCEPT ![r] = FALSE]
  /\ Ask(r, "completion")
  /\ Goto(r, "close")
  /\ UNCHANGED <<kept, stage, outcomes, revision, deferred, buffers>>

EndEpoch(r) ==
  /\ pc[r] = "ready" /\ stage[r] = EpochExchanges
  /\ Ask(r, deferred[r])
  /\ Goto(r, "close")
  /\ UNCHANGED <<kept, stage, outcomes, caller, impl, buffers, wires, faults>>

\* Mutant of EpochClosed: the owner uses its own deferred status.
EpochClosedLocally(r) ==
  /\ pc[r] = "close" /\ Answer(r)
  /\ CloseEpoch(r, deferred[r] = "ok")
  /\ Return(r, IF deferred[r] = "ok" THEN "published" ELSE deferred[r])
  /\ UNCHANGED <<vote, caller, buffers, wires, faults>>

\* Mutant of EpochClosed: it is closed as if it had succeeded.
EpochClosedPublished(r) ==
  /\ pc[r] = "close" /\ Answer(r)
  /\ CloseEpoch(r, TRUE)
  /\ Return(r, IF verdict[r] = "ok" THEN "published" ELSE verdict[r])
  /\ UNCHANGED <<vote, caller, buffers, wires, faults>>

EpochClosed(r) ==
  /\ pc[r] = "close" /\ Answer(r)
  /\ CloseEpoch(r, verdict[r] = "ok")
  /\ Return(r, IF verdict[r] = "ok" THEN "published" ELSE verdict[r])
  /\ UNCHANGED <<vote, caller, buffers, wires, faults>>

-----------------------------------------------------------------------------
(***************************************************************************)
(* reserve: every stage of building the candidate ends in a consensus.     *)
(***************************************************************************)
Reserve(r) ==
  /\ pc[r] = "idle" /\ Round(r) = "reserve"
  /\ \E s \in {"ok", "state", "reserve"} :
       /\ IF impl[r].active THEN s = "state" /\ UNCHANGED faults
                            ELSE Try(s, "reserve", "reserve")
       /\ Ask(r, s)
  /\ Goto(r, "reserve")
  /\ UNCHANGED <<kept, stage, outcomes, caller, impl, buffers, wires>>

NextStage(r) ==
  /\ pc[r] = "reserve" /\ verdict[r] = "ok" /\ stage[r] + 1 < ReserveStages
  /\ stage' = [stage EXCEPT ![r] = @ + 1]
  /\ \E s \in {"ok", "reserve"} :
       /\ Try(s, "reserve", "reserve")
       /\ AnswerAndAsk(r, s)
  /\ UNCHANGED <<pc, kept, outcomes, caller, impl, buffers, wires>>

\* The old engine stays in use.
ReserveRefused(r) ==
  /\ pc[r] = "reserve" /\ verdict[r] # "ok" /\ Answer(r)
  /\ Return(r, verdict[r])
  /\ UNCHANGED <<vote, caller, impl, buffers, wires, faults>>

\* The candidate has buffers, requests and communicators of its own: what is
\* left on the old transport is never received.
Reserved(r) ==
  /\ pc[r] = "reserve" /\ verdict[r] = "ok" /\ stage[r] + 1 = ReserveStages
  /\ Answer(r)
  /\ impl' = [impl EXCEPT ![r] = NewImpl]
  /\ outbox' = [outbox EXCEPT ![r] = 0]
  /\ inbox' = [inbox EXCEPT ![r] = ForAll(0)]
  /\ sending' = [sending EXCEPT ![r] = ForAll("inactive")]
  /\ receiving' = [receiving EXCEPT ![r] = ForAll("inactive")]
  /\ network' = [p \in Ranks |-> [q \in Ranks |->
       IF r \in {p, q} THEN <<>> ELSE network[p][q]]]
  /\ Return(r, "reserved")
  /\ UNCHANGED <<vote, caller, ghost, faults>>

-----------------------------------------------------------------------------
Terminated ==
  /\ \A r \in Ranks : pc[r] = "idle" /\ Round(r) = None
  /\ UNCHANGED vars

BeginStep(r) == \/ Begin(r) \/ BeginRefused(r) \/ Start(r) \/ Opened(r)
                \/ StartFailed(r) \/ StartReported(r) \/ Reenter(r)
FinishStep(r) == \/ Finish(r) \/ Wait(r) \/ Published(r) \/ PreflightFailed(r)
                 \/ WaitFailed(r) \/ WaitReported(r)
EpochStep(r) == \/ EnterEpoch(r) \/ EpochEntered(r) \/ EpochRefused(r)
                \/ BeginPrepared(r) \/ StartPreparedFailed(r)
                \/ FinishPrepared(r) \/ WaitPreparedFailed(r)
                \/ EndEpoch(r) \/ EpochClosed(r)
ReserveStep(r) == \/ Reserve(r) \/ NextStage(r) \/ ReserveRefused(r)
                  \/ Reserved(r)
RankStep(r) == BeginStep(r) \/ FinishStep(r) \/ EpochStep(r) \/ ReserveStep(r)

Next ==
  \/ \E r \in Ranks : RankStep(r)
  \/ Agree
  \/ \E p, q \in Ranks : Match(p, q) \/ Buffer(p, q)
  \/ Terminated

Spec == Init /\ [][Next]_vars

\* A rank that can go on does, MPI completes a collective that all ranks have
\* entered and delivers a message to a receive that waits for it.
FairSpec ==
  /\ Spec
  /\ \A r \in Ranks : WF_vars(RankStep(r))
  /\ WF_vars(Agree)
  /\ \A p, q \in Ranks : WF_vars(Match(p, q))

-----------------------------------------------------------------------------
(***************************************************************************)
(* Properties.                                                             *)
(***************************************************************************)
\* A ghost certificate names the data in the ghosts: what each peer packed in
\* the same exchange, never an older message (finish, close_prepared_epoch).
GhostsCertified ==
  \A r \in Ranks : impl[r].cert # 0 =>
    \A p \in Peers[r] : ghost[r][p] = impl[r].cert

\* It does whatever the engine recovers from.
FreshGhosts == ~faults.broken => GhostsCertified

\* All ranks leave a round with the same outcome, so that no rank goes on
\* with ghosts that another refused (begin, finish, close_prepared_epoch).
AgreedOutcomes ==
  \A p, q \in Ranks : \A i \in 1 .. Len(outcomes[p]) :
    i <= Len(outcomes[q]) => outcomes[p][i] = outcomes[q][i]

\* Between rounds no request is open and no message is on its way that a
\* later exchange could take for its own (cancel_and_drain).
QuietBetweenRounds ==
  (~faults.broken /\ \A r \in Ranks : pc[r] = "idle") =>
    /\ \A p, q \in Ranks : /\ network[p][q] = <<>>
                           /\ sending[p][q] = "inactive"
                           /\ receiving[p][q] = "inactive"
    /\ \A r \in Ranks : ~impl[r].active /\ ~impl[r].started /\ ~ticket[r]
                        /\ ~impl[r].epoch

\* The consensus on a recreation leaves all engines poisoned or none, and no
\* rank gets as far as an exchange while the engine of another is poisoned:
\* begin builds poisoned requests anew, perhaps not on all ranks, and then
\* refuses on all of them.
PoisonedTogether ==
  ~faults.broken => \A p, q \in Ranks :
    /\ pc[q] \in {"open", "preflight", "ready", "flying"} => ~impl[p].poisoned
    /\ /\ pc[p] = "idle" /\ pc[q] = "idle"
       /\ outcomes[p] # <<>> /\ Len(outcomes[p]) = Len(outcomes[q])
       /\ outcomes[p][Len(outcomes[p])] \in {"start", "completion"}
       => impl[p].poisoned = impl[q].poisoned

\* Every round that a rank begins ends on that rank, whatever fails.
EveryRoundReturns == \A r \in Ranks : pc[r] # "idle" ~> pc[r] = "idle"

\* It does whatever the engine recovers from: no rank waits for a message or a
\* consensus that its peers have given up (begin, finish, finish_prepared).
RoundsReturn ==
  \A r \in Ranks : pc[r] # "idle" ~> (pc[r] = "idle" \/ faults.broken)

Abstract == INSTANCE BulkExchange WITH
  inside <- [r \in Ranks |-> pc[r] # "idle"],
  certified <- [r \in Ranks |-> impl[r].cert # 0]

\* The engine implements bulk-synchronous rounds, whatever fails.
ImplementsRounds == Abstract!Spec
=============================================================================
