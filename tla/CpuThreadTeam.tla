--------------------------- MODULE CpuThreadTeam ----------------------------
(***************************************************************************)
(* CpuThreadTeam: the owner creates a fixed team of worker threads, any    *)
(* number of callers run tasks on it, the owner releases it.               *)
(*                                                                         *)
(* All shared state is accessed under Impl::mutex, so a critical section   *)
(* is one step.  Waiting on a condition variable is a state of the thread; *)
(* a notification moves waiting threads on to test their predicate again,  *)
(* and so does, at any time, a spurious wakeup.  Impl::dispatch_mutex is   *)
(* held by the one caller that is not idle.  Inline mode, which has no     *)
(* worker threads, is not modelled.                                        *)
(***************************************************************************)
EXTENDS Integers, FiniteSets

CONSTANTS
  Workers,   \* core_ids_ of the execution plan
  Callers,   \* threads that call run
  NoJob,
  Modulus    \* generation is a uint64_t: it counts modulo this number

ASSUME TeamAssumption ==
  /\ Workers # {} /\ IsFiniteSet(Workers)
  /\ NoJob \notin Callers
  /\ Modulus \in Nat /\ 2 <= Modulus

VARIABLES
  owner,       \* where the owner is in create or release
  worker,      \* where each worker thread is
  caller,      \* where each caller is in run
  generation,  \* generation
  observed,    \* observed_generation of each worker
  completed,   \* completed
  started,     \* startup_count
  bound,       \* startup_status is ok
  stopping     \* stopping

vars == <<owner, worker, caller, generation, observed, completed, started,
          bound, stopping>>

OwnerPlaces  == {"launch", "startup", "asleep", "live", "stop", "notify",
                 "join", "deleted"}
WorkerPlaces == {"new", "binding", "announce", "ready", "asleep", "task",
                 "ended"}
CallerPlaces == {"idle", "dispatch", "asleep", "woken"}

Size == Cardinality(Workers)

Init ==
  /\ owner = "launch"
  /\ worker = [w \in Workers |-> "new"]
  /\ caller = [c \in Callers |-> "idle"]
  /\ generation = 0
  /\ observed = [w \in Workers |-> 0]
  /\ completed = 0
  /\ started = 0
  /\ bound = TRUE
  /\ stopping = FALSE

-----------------------------------------------------------------------------
(***************************************************************************)
(* The owner: create, release.                                             *)
(***************************************************************************)
\* std::thread of one worker; the launch may throw, which stops the team.
Launch(w) ==
  /\ owner = "launch" /\ worker[w] = "new"
  /\ \/ worker' = [worker EXCEPT ![w] = "binding"] /\ UNCHANGED owner
     \/ owner' = "stop" /\ UNCHANGED worker
  /\ UNCHANGED <<caller, generation, observed, completed, started, bound,
                 stopping>>

LaunchedAll ==
  /\ owner = "launch" /\ \A w \in Workers : worker[w] # "new"
  /\ owner' = "startup"
  /\ UNCHANGED <<worker, caller, generation, observed, completed, started,
                 bound, stopping>>

\* Mutant of AwaitStartup: a failed binding is ignored.
AwaitStartupUnbound ==
  /\ owner = "startup"
  /\ owner' = IF started # Size THEN "asleep" ELSE "live"
  /\ UNCHANGED <<worker, caller, generation, observed, completed, started,
                 bound, stopping>>

\* startup_complete.wait; a failed binding stops the team.
AwaitStartup ==
  /\ owner = "startup"
  /\ owner' = IF started # Size THEN "asleep"
              ELSE IF bound THEN "live" ELSE "stop"
  /\ UNCHANGED <<worker, caller, generation, observed, completed, started,
                 bound, stopping>>

\* ~CpuThreadTeam or an assignment to it.  A team is not destroyed while a
\* caller is inside run.
Release ==
  /\ owner = "live" /\ \A c \in Callers : caller[c] = "idle"
  /\ owner' = "stop"
  /\ UNCHANGED <<worker, caller, generation, observed, completed, started,
                 bound, stopping>>

\* stop_and_join, which also ends a create that failed.
Stop ==
  /\ owner = "stop"
  /\ stopping' = TRUE
  /\ owner' = "notify"
  /\ UNCHANGED <<worker, caller, generation, observed, completed, started,
                 bound>>

\* Mutant of WorkReady: notify_one.
WorkReadyOne ==
  \/ \E w \in Workers : /\ worker[w] = "asleep"
                        /\ worker' = [worker EXCEPT ![w] = "ready"]
  \/ (\A w \in Workers : worker[w] # "asleep") /\ UNCHANGED worker

\* work_ready.notify_all
WorkReady ==
  worker' = [w \in Workers |-> IF worker[w] = "asleep" THEN "ready"
                               ELSE worker[w]]

\* Mutant of NotifyStop: stop_and_join wakes nobody.
NotifyStopNobody ==
  /\ owner = "notify"
  /\ owner' = "join"
  /\ UNCHANGED <<worker, caller, generation, observed, completed, started,
                 bound, stopping>>

NotifyStop ==
  /\ owner = "notify"
  /\ WorkReady
  /\ owner' = "join"
  /\ UNCHANGED <<caller, generation, observed, completed, started, bound,
                 stopping>>

\* Every thread that was launched is joined, then the team is deleted.
Join ==
  /\ owner = "join" /\ \A w \in Workers : worker[w] \in {"new", "ended"}
  /\ owner' = "deleted"
  /\ UNCHANGED <<worker, caller, generation, observed, completed, started,
                 bound, stopping>>

-----------------------------------------------------------------------------
(***************************************************************************)
(* A worker: worker_loop.                                                  *)
(***************************************************************************)
Bind(w, ok) ==
  /\ worker[w] = "binding"
  /\ bound' = (bound /\ ok)
  /\ started' = started + 1
  /\ worker' = [worker EXCEPT ![w] = "announce"]
  /\ UNCHANGED <<owner, caller, generation, observed, completed, stopping>>

\* startup_complete.notify_one, after the mutex was released.
Announce(w) ==
  /\ worker[w] = "announce"
  /\ worker' = [worker EXCEPT ![w] = "ready"]
  /\ owner' = IF owner = "asleep" THEN "startup" ELSE owner
  /\ UNCHANGED <<caller, generation, observed, completed, started, bound,
                 stopping>>

\* work_ready.wait: the loop ends, takes the published task, or sleeps.
TestWork(w) ==
  /\ worker' = [worker EXCEPT ![w] =
                  IF stopping THEN "ended"
                  ELSE IF observed[w] # generation THEN "task" ELSE "asleep"]
  /\ observed' = [observed EXCEPT ![w] = IF stopping THEN @ ELSE generation]

AwaitWork(w) ==
  /\ worker[w] = "ready"
  /\ TestWork(w)
  /\ UNCHANGED <<owner, caller, generation, completed, started, bound,
                 stopping>>

\* The task has returned.  The last worker notifies work_complete; the mutex
\* is kept until the loop tests its predicate again.
FinishTask(w) ==
  /\ worker[w] = "task"
  /\ completed' = completed + 1
  /\ caller' = IF completed' = Size
               THEN [c \in Callers |-> IF caller[c] = "asleep" THEN "woken"
                                       ELSE caller[c]]
               ELSE caller
  /\ TestWork(w)
  /\ UNCHANGED <<owner, generation, started, bound, stopping>>

-----------------------------------------------------------------------------
(***************************************************************************)
(* A caller: run.                                                          *)
(***************************************************************************)
LockDispatch(c) ==
  /\ owner = "live" /\ \A d \in Callers : caller[d] = "idle"
  /\ caller' = [caller EXCEPT ![c] = "dispatch"]
  /\ UNCHANGED <<owner, worker, generation, observed, completed, started,
                 bound, stopping>>

\* The task is published, every worker is notified and run goes to sleep
\* until completed reaches the size of the team.
Dispatch(c) ==
  /\ caller[c] = "dispatch"
  /\ generation' = (generation + 1) % Modulus
  /\ completed' = 0
  /\ WorkReady
  /\ caller' = [caller EXCEPT ![c] = "asleep"]
  /\ UNCHANGED <<owner, observed, started, bound, stopping>>

AwaitCompletion(c) ==
  /\ caller[c] = "woken"
  /\ caller' = [caller EXCEPT ![c] = IF completed = Size THEN "idle"
                                     ELSE "asleep"]
  /\ UNCHANGED <<owner, worker, generation, observed, completed, started,
                 bound, stopping>>

-----------------------------------------------------------------------------
\* A thread that sleeps on a condition variable may wake up by itself.
Spurious ==
  /\ \/ \E w \in Workers : /\ worker[w] = "asleep"
                           /\ worker' = [worker EXCEPT ![w] = "ready"]
                           /\ UNCHANGED <<owner, caller>>
     \/ \E c \in Callers : /\ caller[c] = "asleep"
                           /\ caller' = [caller EXCEPT ![c] = "woken"]
                           /\ UNCHANGED <<owner, worker>>
     \/ owner = "asleep" /\ owner' = "startup" /\ UNCHANGED <<worker, caller>>
  /\ UNCHANGED <<generation, observed, completed, started, bound, stopping>>

OwnerStep ==
  \/ \E w \in Workers : Launch(w)
  \/ LaunchedAll \/ AwaitStartup \/ Stop \/ NotifyStop \/ Join

WorkerStep(w) ==
  \/ \E ok \in BOOLEAN : Bind(w, ok)
  \/ Announce(w) \/ AwaitWork(w) \/ FinishTask(w)

CallerStep(c) == Dispatch(c) \/ AwaitCompletion(c)

Next ==
  \/ OwnerStep \/ Release
  \/ \E w \in Workers : WorkerStep(w)
  \/ \E c \in Callers : LockDispatch(c) \/ CallerStep(c)
  \/ Spurious

Spec == Init /\ [][Next]_vars

\* Threads keep running and tasks return.  Nobody is obliged to call run or
\* to release the team, and no wakeup is owed but by a notification.
FairSpec ==
  /\ Spec
  /\ WF_vars(OwnerStep)
  /\ \A w \in Workers : WF_vars(WorkerStep(w))
  /\ \A c \in Callers : WF_vars(CallerStep(c))

-----------------------------------------------------------------------------
(***************************************************************************)
(* Properties.                                                             *)
(***************************************************************************)
\* The variables have their types; the counts stay within the team.
TypeOK ==
  /\ owner \in OwnerPlaces
  /\ worker \in [Workers -> WorkerPlaces]
  /\ caller \in [Callers -> CallerPlaces]
  /\ generation \in 0 .. Modulus - 1
  /\ observed \in [Workers -> 0 .. Modulus - 1]
  /\ completed \in 0 .. Size
  /\ started \in 0 .. Size
  /\ bound \in BOOLEAN
  /\ stopping \in BOOLEAN

Running(c) == caller[c] \in {"asleep", "woken"}

Job == IF \E c \in Callers : Running(c)
       THEN CHOOSE c \in Callers : Running(c) ELSE NoJob

Stage == [w \in Workers |->
            CASE worker[w] = "task" -> "running"
              [] worker[w] # "task" /\ observed[w] # generation -> "todo"
              [] OTHER -> "done"]

FO == INSTANCE FanOut WITH job <- Job, stage <- Stage

\* The generation counter, the completion count and the condition variables
\* implement the abstract team: concurrent callers take turns, each worker
\* executes each task exactly once while its caller is inside run, no wakeup
\* is lost, and every run that has published its task returns.
ImplementsFanOut == FO!FairSpec

\* A live team is complete: every worker has been launched and bound.
LiveComplete ==
  owner = "live" => bound /\ \A w \in Workers :
                      worker[w] \in {"announce", "ready", "asleep", "task"}

\* create and release return, whatever notification arrives before the thread
\* it is meant for has gone to sleep.
OwnerReturns == owner \notin {"live", "deleted"} ~> owner \in {"live", "deleted"}
=============================================================================
