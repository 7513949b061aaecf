------------------------- MODULE CollectiveProgram --------------------------
(***************************************************************************)
(* Ranks that run one program of collective calls.  Code gives the program *)
(* as a control-flow graph: a function from labels to instructions.        *)
(*                                                                         *)
(* Between two collective calls a rank is deterministic: it depends on the *)
(* results of the calls, which are the same on all ranks, and on its own   *)
(* pending status.  A step takes a rank from one place where it computes   *)
(* or communicates to the next, or ends a call on all ranks.  A call does  *)
(* not itself fail in MPI.                                                 *)
(***************************************************************************)
EXTENDS ReductionPackets, Sequences, FiniteSets

CONSTANTS
  Code,       \* the instruction at each label
  Entries,    \* the programs: what each runs, and the callbacks it is given
  MaxIterations,  \* iterations allowed to a solve
  MaxFaults,  \* bound on the ranks' own failures
  Fuel        \* bound on the local instructions between two places

Channels == {"reduction", "exchange", "prepared"}

ASSUME FuelAssumption == Fuel \in Nat

\* A definition of its own, which TLC evaluates once.
Instructions == Code

ASSUME CodeAssumption ==
  \A label \in DOMAIN Instructions :
    Instructions[label].op = "collective" =>
      /\ Instructions[label].channel \in Channels
      /\ Instructions[label].count \in [Ranks -> Nat]

-----------------------------------------------------------------------------
(***************************************************************************)
(* Instructions.  The labels "ok", "fail" and "pass" return from a call: a *)
(* success, a failure, and a status that the caller carries along.         *)
(***************************************************************************)

\* Rank-local work, which may fail; the status is pending.
Work(next) == [op |-> "work", next |-> next]

\* A call of all ranks, on a number of scalars.  Its verdict replaces the
\* pending status; outcomes is what the caller tells apart of the result.
Collective(call, channel, count, outcomes, ok, fail) ==
  [op |-> "collective", call |-> call, channel |-> channel,
   count |-> [r \in Ranks |-> count], outcomes |-> outcomes,
   ok |-> ok, fail |-> fail]
Consensus(ok, fail) == Collective("consensus", "reduction", 0, 1, ok, fail)
CheckedSum(count, outcomes, ok, fail) ==
  Collective("sum", "reduction", count, outcomes, ok, fail)
CheckedMax(count, outcomes, ok, fail) ==
  Collective("max", "reduction", count, outcomes, ok, fail)
Exchange(ok, fail) == Collective("exchange", "exchange", 0, 1, ok, fail)

\* An exchange inside a prepared epoch leaves the pending status alone.
PreparedExchange(next) ==
  Collective("prepared", "prepared", 0, 1, next, next)

Branch(to) == [op |-> "branch", to |-> to]        \* on the global value
Test(ok, fail) == [op |-> "test", ok |-> ok, fail |-> fail] \* on the status
Given(option, yes, no) ==
  [op |-> "given", option |-> option, yes |-> yes, no |-> no]
Take(option, next) == [op |-> "take", option |-> option, next |-> next]
Drop(option, next) == [op |-> "drop", option |-> option, next |-> next]
Call(callee, ok, fail) ==
  [op |-> "call", callee |-> callee, ok |-> ok, fail |-> fail]
Fields == {"failed", "value", "iterations", "termination", "solution"}
Set(field, value, next) ==
  [op |-> "set", field |-> field, value |-> value, next |-> next]

\* The operator forgets the failure it has agreed on (failure_provenance).
Forget(next) == [op |-> "forget", next |-> next]

\* The iterations of a solve: one more, is it the last, has there been one?
Iterate(next) == [op |-> "iterate", next |-> next]
Limit(reached, below) == [op |-> "limit", yes |-> reached, no |-> below]
Iterated(yes, no) == [op |-> "iterated", yes |-> yes, no |-> no]

\* A status that is set aside during a call, and taken up again.
Defer(next) == [op |-> "defer", next |-> next]
Carry(next) == [op |-> "carry", next |-> next]

\* An epoch of prepared exchanges, whose ghosts are published when it closes.
Open(epoch, next) == [op |-> "open", epoch |-> epoch, next |-> next]
Close(epoch, publish, next) ==
  [op |-> "close", epoch |-> epoch, publish |-> publish, next |-> next]

\* Which failing rank the result of a solve names: the operator's own, if it
\* has agreed on its failure, and else that of the ReductionEngine.
FromOperator(agreed, own) ==
  [op |-> "operator", agreed |-> agreed, own |-> own]
KeepRank(next) == [op |-> "keep", next |-> next]
NewSolve(next) == [op |-> "new", next |-> next]
End == [op |-> "end"]

-----------------------------------------------------------------------------
VARIABLES
  entry,  \* the program all ranks run
  frame,  \* where each rank is, and what it knows
  pool,   \* packets of each channel, not yet combined into one
  faulty  \* the ranks that have failed by themselves

vars == <<entry, frame, pool, faulty>>

\* at is the instruction the rank has stopped at, of those that local ones do
\* not pass.  failed is the pending status; value the last global value; engine and
\* scope the failing rank known to the ReductionEngine and to the operator
\* (failure_provenance), -1 for none; lowest is result.lowest_failing_rank.
\* named and spoiled are history: the rank the first failed call of the solve
\* named, and the epochs in which the rank has failed.
Running == [op |-> "none"]
NewFrame(e) ==
  [pc |-> "main", at |-> Running, stack |-> <<>>, options |-> e.options, failed |-> FALSE,
   deferred |-> FALSE, value |-> 1, engine |-> -1, scope |-> -1,
   lowest |-> -1, iterations |-> 0, termination |-> "none",
   solution |-> "old", open |-> {}, published |-> {}, named |-> -1,
   spoiled |-> {}]

\* A callback's label stands for the function the program is given.
Callbacks == {"main", "solver", "operator", "preconditioner", "audit"}
At(e, f) == Instructions[IF f.pc \in Callbacks THEN e[f.pc] ELSE f.pc]

Return(f, status) ==
  LET top == f.stack[Len(f.stack)] IN
  [f EXCEPT !.stack = SubSeq(@, 1, Len(@) - 1),
            !.failed = IF status = "pass" THEN @ ELSE status = "fail",
            !.pc = IF status = "fail" THEN top.fail ELSE top.ok]

Choose(f, yes, i) == [f EXCEPT !.pc = IF yes THEN i.yes ELSE i.no]

\* What an instruction changes besides the program counter.
Effect(f, i) ==
  CASE i.op = "set" /\ i.field \in Fields -> [f EXCEPT ![i.field] = i.value]
    [] i.op = "forget" -> [f EXCEPT !.scope = -1]
    [] i.op = "take" -> [f EXCEPT !.options = @ \cup {i.option}]
    [] i.op = "drop" -> [f EXCEPT !.options = @ \ {i.option}]
    [] i.op = "iterate" -> [f EXCEPT !.iterations = @ + 1]
    [] i.op = "defer" ->
         [f EXCEPT !.deferred = @ \/ f.failed, !.failed = FALSE]
    [] i.op = "carry" ->
         [f EXCEPT !.failed = @ \/ f.deferred, !.deferred = FALSE]
    [] i.op = "open" ->
         [f EXCEPT !.open = @ \cup {i.epoch},
                   !.published = @ \ {i.epoch}, !.spoiled = @ \ {i.epoch}]
    [] i.op = "close" ->
         [f EXCEPT !.open = @ \ {i.epoch},
                   !.published = IF i.publish /\ i.epoch \in f.open
                                 THEN @ \cup {i.epoch}
                                 ELSE @ \ {i.epoch}]
    [] i.op = "keep" -> [f EXCEPT !.lowest = IF @ # -1 THEN @ ELSE f.engine]
    [] i.op = "new" ->
         [f EXCEPT !.failed = FALSE, !.lowest = -1, !.named = -1,
                   !.iterations = 0, !.termination = "none",
                   !.solution = "old"]
    [] OTHER -> f

\* One local instruction, i.
Execute(f, i) ==
  CASE i.op \in {"work", "collective", "end"} -> [f EXCEPT !.at = i]
    [] i.op = "branch" -> [f EXCEPT !.pc =
         i.to[IF f.value > Len(i.to) THEN Len(i.to) ELSE f.value]]
    [] i.op = "test" -> [f EXCEPT !.pc = IF f.failed THEN i.fail ELSE i.ok]
    [] i.op = "given" -> Choose(f, i.option \in f.options, i)
    [] i.op = "limit" -> Choose(f, f.iterations = MaxIterations, i)
    [] i.op = "iterated" -> Choose(f, f.iterations # 0, i)
    [] i.op = "call" ->
         [f EXCEPT !.pc = i.callee,
                   !.stack = Append(@, [ok |-> i.ok, fail |-> i.fail])]
    [] i.op = "operator" ->
         IF f.failed /\ f.scope # -1
         THEN [f EXCEPT !.lowest = f.scope, !.pc = i.agreed]
         ELSE [f EXCEPT !.pc = i.own]
    [] OTHER -> [Effect(f, i) EXCEPT !.pc = i.next]

Local(e, f) == IF f.pc \in {"ok", "fail", "pass"} THEN Return(f, f.pc)
               ELSE Execute(f, At(e, f))

\* A step taken Fuel times.  (A bound variable is evaluated once.)
Repeat(Step(_), start) ==
  LET after[n \in 0 .. Fuel] ==
        IF n = 0 THEN {start} ELSE {Step(x) : x \in after[n - 1]}
  IN  CHOOSE x \in after[Fuel] : TRUE

\* The place a rank that runs e stops at.
Advance(e, f) == IF f.at = Running THEN Local(e, f) ELSE f
Settle(e, f) ==
  LET Step(g) == Advance(e, g) IN Repeat(Step, [f EXCEPT !.at = Running])

\* What a rank brings to a call.
Waits(f, channel) == f.at.op = "collective" /\ f.at.channel = channel
Contribution(r, f) == [count |-> f[r].at.count[r],
                       code  |-> IF f[r].failed THEN 1 ELSE 0]
Packet(r, f) ==
  InitialPacket(r, Contribution(r, f).count, Contribution(r, f).code)

\* The packets of the ranks of S that wait on the channel.
Entering(S, f, channel) ==
  {Packet(r, f) : r \in {q \in S : Waits(f[q], channel)}}

Init ==
  /\ entry \in Entries
  /\ frame = [r \in Ranks |-> Settle(entry, NewFrame(entry))]
  /\ pool = [c \in Channels |-> Entering(Ranks, frame, c)]
  /\ faulty = {}

-----------------------------------------------------------------------------
\* The ranks that have moved to a call enter it.
Move(Moved, used) ==
  /\ pool' = [c \in Channels |->
       (pool[c] \ used) \cup Entering(Moved, frame', c)]
  /\ UNCHANGED entry

\* Rank-local work, which fails or not.
Worked(f, fault) ==
  [f EXCEPT !.pc = f.at.next, !.failed = @ \/ fault,
            !.spoiled = IF fault THEN @ \cup f.open ELSE @]

Compute(r) ==
  /\ frame[r].at.op = "work"
  /\ \E fault \in BOOLEAN :
       /\ faulty' = IF fault THEN faulty \cup {r} ELSE faulty
       /\ Cardinality(faulty') <= MaxFaults
       /\ frame' = [frame EXCEPT ![r] = Settle(entry, Worked(@, fault))]
       /\ Move({r}, {})

\* Two packets of a call meet.
Combine(channel) ==
  /\ \E p, q \in pool[channel] :
       /\ p # q
       /\ pool' = [pool EXCEPT ![channel] =
                     (@ \ {p, q}) \cup {CombinePackets(p, q)}]
  /\ UNCHANGED <<entry, frame, faulty>>

\* packet_collective returns the packet's status on every rank.  A prepared call
\* leaves the status alone, and its result is the last outcome if a rank that
\* has failed has taken part.
Receive(f, channel, failure, value) ==
  CASE channel = "prepared" ->
         [f EXCEPT !.pc = f.at.ok,
                   !.value = IF f.at.outcomes = 1 THEN @
                             ELSE IF failure = NoFailure THEN value
                             ELSE f.at.outcomes]
    [] channel # "prepared" /\ failure = NoFailure ->
         [f EXCEPT !.pc = f.at.ok, !.failed = FALSE,
                   !.value = IF f.at.outcomes = 1 THEN @ ELSE value,
                   !.engine = IF channel = "reduction" THEN -1 ELSE @]
    [] OTHER ->
         [f EXCEPT !.pc = f.at.fail, !.failed = TRUE,
                   !.engine = IF channel = "reduction" THEN failure.rank ELSE @,
                   !.scope  = IF channel = "exchange" THEN failure.rank ELSE @,
                   !.named  = IF @ = -1 THEN failure.rank ELSE @]

Deliver(channel) ==
  /\ \E p \in {q \in pool[channel] : q.ranks = Ranks} :
       \E value \in 1 .. frame[p.reference].at.outcomes :
         /\ frame' = [r \in Ranks |->
              Settle(entry, Receive(frame[r], channel, p.failure, value))]
         /\ Move(Ranks, {p})
  /\ UNCHANGED faulty

Ended(r) == frame[r].at = End
Terminated == (\A r \in Ranks : Ended(r)) /\ UNCHANGED vars

Next ==
  \/ \E r \in Ranks : Compute(r)
  \/ \E c \in Channels : Combine(c) \/ Deliver(c)
  \/ Terminated

Spec == Init /\ [][Next]_vars

\* Every rank goes on computing, and every call that all have entered ends.
FairSpec == Spec /\ WF_vars(Next)

-----------------------------------------------------------------------------
\* Every packet names the first failure of the ranks it stands for, in the
\* order of their numbers, whatever the order in which packets have met.
PacketsExact ==
  \A c \in Channels : \A p \in pool[c] :
    Exact([r \in p.ranks |-> Contribution(r, frame)], p)

\* Ranks that wait at the same time wait in the same call, on as many scalars,
\* and no rank has ended while another waits for it.  (This, and what follows, is
\* false of a program in which a rank that fails returns alone: LoneCheck.)
OneSchedule ==
  LET places == {frame[r].at : r \in Ranks}
      calls  == {i \in places : i.op = "collective"}
  IN  /\ \A i, j \in calls : i.call = j.call /\ i.count = j.count
      /\ calls = {} \/ End \notin places

\* The ranks end with the same result: solved or not, for the same reason,
\* with the same failing rank, the same solution and the same ghosts.
Outcome(f) == <<f.failed, f.termination, f.lowest, f.solution, f.published>>
SolveAgrees ==
  \A q, r \in {p \in Ranks : Ended(p)} : Outcome(frame[q]) = Outcome(frame[r])

\* A solve that a rank's failure ends names the first rank that the failed
\* call named, and that rank has failed; any other solve names none.  (The
\* agreement that ends a projection names rank 0 if the projection has failed
\* on a global value that is not finite.)
FailureNamesRank ==
  \A r \in Ranks :
    frame[r].termination # "none" /\ entry.main # "couple" /\ Ended(r) =>
      /\ frame[r].lowest = frame[r].named
      /\ frame[r].named \in faulty \cup {-1} \/ "projection" \in entry.options

\* No rank publishes the ghosts of an epoch in which another has failed, and
\* no epoch stays open.
PublishedTogether ==
  \A r \in Ranks :
    /\ frame[r].open # {} => ~Ended(r)
    /\ \A q \in Ranks : frame[q].published \cap frame[r].spoiled = {}

\* Every solve ends on all ranks, whichever of them fail.
SolveReturns == <>(\A r \in Ranks : Ended(r))
=============================================================================
