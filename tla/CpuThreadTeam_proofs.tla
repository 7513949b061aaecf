------------------------ MODULE CpuThreadTeam_proofs ------------------------
(***************************************************************************)
(* Proofs about CpuThreadTeam: its invariants, and that every step of the  *)
(* team is a step of the abstract FanOut or a stutter.                     *)
(***************************************************************************)
EXTENDS CpuThreadTeam, FiniteSetTheorems, TLAPS

(***************************************************************************)
(* The invariant.                                                          *)
(***************************************************************************)
\* The workers that have nothing left to do for the current job.
DoneWorkers == {w \in Workers : Stage[w] = "done"}

\* The workers that have counted themselves in startup_count.
StartedWorkers == {w \in Workers : worker[w] \notin {"new", "binding"}}

PlacesOK ==
  /\ owner \in OwnerPlaces
  /\ worker \in [Workers -> WorkerPlaces]
  /\ caller \in [Callers -> CallerPlaces]
  /\ generation \in 0 .. Modulus - 1
  /\ observed \in [Workers -> 0 .. Modulus - 1]
  /\ bound \in BOOLEAN
  /\ stopping \in BOOLEAN

\* Which threads there are at which point of the owner's life.
OwnerInv ==
  /\ stopping <=> owner \in {"notify", "join", "deleted"}
  /\ owner \in {"startup", "asleep"} => \A w \in Workers : worker[w] # "new"
  /\ owner = "live" => /\ bound
                       /\ \A w \in Workers : worker[w] \notin {"new", "binding"}
  /\ owner = "deleted" => \A w \in Workers : worker[w] \in {"new", "ended"}
  /\ ~stopping => \A w \in Workers : worker[w] # "ended"
  /\ started = Cardinality(StartedWorkers)

\* One caller at a time, and only while the team is live.
CallerInv ==
  /\ \A c \in Callers : caller[c] # "idle" => owner = "live"
  /\ \A c, d \in Callers : caller[c] # "idle" /\ caller[d] # "idle" => c = d

\* completed counts the workers that are done with the current job; between
\* two jobs every worker has seen the last generation.
JobInv ==
  /\ \A w \in Workers : worker[w] = "task" => observed[w] = generation
  /\ (\A c \in Callers : ~Running(c)) =>
       /\ \A w \in Workers : worker[w] # "task" /\ observed[w] = generation
       /\ completed \in 0 .. Size
  /\ (\E c \in Callers : Running(c)) => completed = Cardinality(DoneWorkers)

IndInv == PlacesOK /\ OwnerInv /\ CallerInv /\ JobInv

-----------------------------------------------------------------------------
(***************************************************************************)
(* Facts about counting.                                                   *)
(***************************************************************************)
LEMMA Counts ==
  /\ Size \in Nat
  /\ \A S \in SUBSET Workers :
       /\ IsFiniteSet(S)
       /\ Cardinality(S) \in 0 .. Size
       /\ Cardinality(S) = Size => S = Workers
       /\ \A w \in Workers \ S : Cardinality(S \cup {w}) = Cardinality(S) + 1
<1>1. IsFiniteSet(Workers)
  BY TeamAssumption
<1>2. Size \in Nat
  BY <1>1, FS_CardinalityType DEF Size
<1> SUFFICES ASSUME NEW S \in SUBSET Workers
             PROVE  /\ IsFiniteSet(S)
                    /\ Cardinality(S) \in 0 .. Size
                    /\ Cardinality(S) = Size => S = Workers
                    /\ \A w \in Workers \ S :
                         Cardinality(S \cup {w}) = Cardinality(S) + 1
  BY <1>2
<1>3. /\ IsFiniteSet(S) /\ Cardinality(S) <= Size
      /\ Cardinality(S) = Size => S = Workers
  BY <1>1, FS_Subset DEF Size
<1>4. Cardinality(S) \in Nat
  BY <1>3, FS_CardinalityType
<1>5. ASSUME NEW w \in Workers \ S
      PROVE  Cardinality(S \cup {w}) = Cardinality(S) + 1
  BY <1>3, FS_AddElement
<1> QED BY <1>2, <1>3, <1>4, <1>5

\* The generation a job publishes differs from the one before it.
LEMMA GenerationMoves ==
  ASSUME NEW g \in 0 .. Modulus - 1
  PROVE  (g + 1) % Modulus \in 0 .. Modulus - 1 /\ (g + 1) % Modulus # g
<1>1. CASE g + 1 < Modulus
  <2>1. (g + 1) % Modulus = g + 1
    BY <1>1, TeamAssumption
  <2> QED BY <2>1, <1>1, TeamAssumption
<1>2. CASE g + 1 = Modulus
  <2>1. (g + 1) % Modulus = 0
    BY <1>2, TeamAssumption
  <2> QED BY <2>1, <1>2, TeamAssumption
<1> QED BY <1>1, <1>2, TeamAssumption

-----------------------------------------------------------------------------
(***************************************************************************)
(* The invariant holds initially and is kept by every step.                *)
(***************************************************************************)
LEMMA IndInit == Init => IndInv
<1> SUFFICES ASSUME Init PROVE IndInv
  OBVIOUS
<1>1. PlacesOK
  <2>1. 0 \in 0 .. Modulus - 1
    BY TeamAssumption
  <2> QED BY <2>1 DEF Init, PlacesOK, OwnerPlaces, WorkerPlaces,
     CallerPlaces
<1>2. StartedWorkers = {}
  BY DEF Init, StartedWorkers
<1>3. OwnerInv
  BY <1>2, FS_EmptySet DEF Init, OwnerInv
<1>4. CallerInv
  BY DEF Init, CallerInv
<1>5. JobInv
  BY Counts DEF Init, JobInv, Running
<1> QED BY <1>1, <1>3, <1>4, <1>5 DEF IndInv

\* Every step keeps every thread at one of its places.
LEMMA PlacesStep == IndInv /\ [Next]_vars => PlacesOK'
<1> SUFFICES ASSUME IndInv, [Next]_vars PROVE PlacesOK'
  OBVIOUS
<1> USE DEF IndInv, PlacesOK, OwnerPlaces, WorkerPlaces, CallerPlaces
<1>1. ASSUME NEW w \in Workers, Launch(w) PROVE PlacesOK'
  BY <1>1 DEF Launch
<1>2. ASSUME LaunchedAll PROVE PlacesOK'
  BY <1>2 DEF LaunchedAll
<1>3. ASSUME AwaitStartup PROVE PlacesOK'
  BY <1>3 DEF AwaitStartup
<1>4. ASSUME Stop PROVE PlacesOK'
  BY <1>4 DEF Stop
<1>5. ASSUME NotifyStop PROVE PlacesOK'
  BY <1>5 DEF NotifyStop, WorkReady
<1>6. ASSUME Join PROVE PlacesOK'
  BY <1>6 DEF Join
<1>7. ASSUME Release PROVE PlacesOK'
  BY <1>7 DEF Release
<1>8. ASSUME NEW w \in Workers, NEW ok \in BOOLEAN, Bind(w, ok)
      PROVE PlacesOK'
  BY <1>8 DEF Bind
<1>9. ASSUME NEW w \in Workers, Announce(w) PROVE PlacesOK'
  BY <1>9 DEF Announce
<1>10. ASSUME NEW w \in Workers, AwaitWork(w) PROVE PlacesOK'
  BY <1>10 DEF AwaitWork, TestWork
<1>11. ASSUME NEW w \in Workers, FinishTask(w) PROVE PlacesOK'
  BY <1>11 DEF FinishTask, TestWork
<1>12. ASSUME NEW c \in Callers, LockDispatch(c) PROVE PlacesOK'
  BY <1>12 DEF LockDispatch
<1>13. ASSUME NEW c \in Callers, Dispatch(c) PROVE PlacesOK'
  BY <1>13, GenerationMoves DEF Dispatch, WorkReady
<1>14. ASSUME NEW c \in Callers, AwaitCompletion(c) PROVE PlacesOK'
  BY <1>14 DEF AwaitCompletion
<1>15. ASSUME Spurious PROVE PlacesOK'
  BY <1>15 DEF Spurious
<1>16. ASSUME UNCHANGED vars PROVE PlacesOK'
  BY <1>16 DEF vars
<1> QED BY <1>1, <1>2, <1>3, <1>4, <1>5, <1>6, <1>7, <1>8, <1>9, <1>10,
           <1>11, <1>12, <1>13, <1>14, <1>15, <1>16
        DEF Next, OwnerStep, WorkerStep, CallerStep

\* A step that moves workers only between places of started workers leaves
\* the startup count alone.
LEMMA StartedSame ==
  ASSUME \A w \in Workers : worker[w] \in {"new", "binding"}
                              <=> worker'[w] \in {"new", "binding"}
  PROVE  StartedWorkers' = StartedWorkers
BY DEF StartedWorkers

LEMMA OwnerKept == IndInv /\ [Next]_vars => OwnerInv'
<1> SUFFICES ASSUME IndInv, [Next]_vars PROVE OwnerInv'
  OBVIOUS
<1> USE DEF IndInv, PlacesOK, OwnerInv
<1>1. ASSUME NEW w \in Workers, Launch(w) PROVE OwnerInv'
  <2>1. StartedWorkers' = StartedWorkers
    BY <1>1, StartedSame DEF Launch
  <2> QED BY <1>1, <2>1 DEF Launch
<1>2. ASSUME LaunchedAll PROVE OwnerInv'
  <2>1. StartedWorkers' = StartedWorkers
    BY <1>2, StartedSame DEF LaunchedAll
  <2> QED BY <1>2, <2>1 DEF LaunchedAll
<1>3. ASSUME AwaitStartup PROVE OwnerInv'
  <2>1. StartedWorkers' = StartedWorkers
    BY <1>3, StartedSame DEF AwaitStartup
  <2>2. started = Size => StartedWorkers = Workers
    BY Counts DEF StartedWorkers
  <2>3. started = Size
          => \A w \in Workers : worker[w] \notin {"new", "binding"}
    BY <2>2 DEF StartedWorkers
  <2> QED BY <1>3, <2>1, <2>3 DEF AwaitStartup
<1>4. ASSUME Stop PROVE OwnerInv'
  <2>1. StartedWorkers' = StartedWorkers
    BY <1>4, StartedSame DEF Stop
  <2> QED BY <1>4, <2>1 DEF Stop
<1>5. ASSUME NotifyStop PROVE OwnerInv'
  <2>1. StartedWorkers' = StartedWorkers
    BY <1>5, StartedSame DEF NotifyStop, WorkReady
  <2> QED BY <1>5, <2>1 DEF NotifyStop
<1>6. ASSUME Join PROVE OwnerInv'
  <2>1. StartedWorkers' = StartedWorkers
    BY <1>6, StartedSame DEF Join
  <2> QED BY <1>6, <2>1 DEF Join
<1>7. ASSUME Release PROVE OwnerInv'
  <2>1. StartedWorkers' = StartedWorkers
    BY <1>7, StartedSame DEF Release
  <2> QED BY <1>7, <2>1 DEF Release
<1>8. ASSUME NEW w \in Workers, NEW ok \in BOOLEAN, Bind(w, ok)
      PROVE OwnerInv'
  <2>1. w \notin StartedWorkers /\ StartedWorkers' = StartedWorkers \cup {w}
    BY <1>8 DEF Bind, StartedWorkers
  <2>2. started' = Cardinality(StartedWorkers')
    BY <1>8, <2>1, Counts DEF Bind, StartedWorkers
  <2> QED BY <1>8, <2>2 DEF Bind
<1>9. ASSUME NEW w \in Workers, Announce(w) PROVE OwnerInv'
  <2>1. StartedWorkers' = StartedWorkers
    BY <1>9, StartedSame DEF Announce
  <2> QED BY <1>9, <2>1 DEF Announce
<1>10. ASSUME NEW w \in Workers, AwaitWork(w) PROVE OwnerInv'
  <2>1. StartedWorkers' = StartedWorkers
    BY <1>10, StartedSame DEF AwaitWork, TestWork
  <2> QED BY <1>10, <2>1 DEF AwaitWork, TestWork
<1>11. ASSUME NEW w \in Workers, FinishTask(w) PROVE OwnerInv'
  <2>1. StartedWorkers' = StartedWorkers
    BY <1>11, StartedSame DEF FinishTask, TestWork
  <2> QED BY <1>11, <2>1 DEF FinishTask, TestWork
<1>12. ASSUME NEW c \in Callers, LockDispatch(c) PROVE OwnerInv'
  <2>1. StartedWorkers' = StartedWorkers
    BY <1>12, StartedSame DEF LockDispatch
  <2> QED BY <1>12, <2>1 DEF LockDispatch
<1>13. ASSUME NEW c \in Callers, Dispatch(c) PROVE OwnerInv'
  <2>1. StartedWorkers' = StartedWorkers
    BY <1>13, StartedSame DEF Dispatch, WorkReady
  <2>2. owner = "live"
    BY <1>13 DEF Dispatch, CallerInv
  <2> QED BY <1>13, <2>1, <2>2 DEF Dispatch, WorkReady
<1>14. ASSUME NEW c \in Callers, AwaitCompletion(c) PROVE OwnerInv'
  <2>1. StartedWorkers' = StartedWorkers
    BY <1>14, StartedSame DEF AwaitCompletion
  <2> QED BY <1>14, <2>1 DEF AwaitCompletion
<1>15. ASSUME Spurious PROVE OwnerInv'
  <2>1. StartedWorkers' = StartedWorkers
    BY <1>15, StartedSame DEF Spurious
  <2> QED BY <1>15, <2>1 DEF Spurious
<1>16. ASSUME UNCHANGED vars PROVE OwnerInv'
  <2>1. StartedWorkers' = StartedWorkers
    BY <1>16 DEF vars, StartedWorkers
  <2> QED BY <1>16, <2>1 DEF vars
<1> QED BY <1>1, <1>2, <1>3, <1>4, <1>5, <1>6, <1>7, <1>8, <1>9, <1>10,
           <1>11, <1>12, <1>13, <1>14, <1>15, <1>16
        DEF Next, OwnerStep, WorkerStep, CallerStep

LEMMA CallerKept == IndInv /\ [Next]_vars => CallerInv'
<1> SUFFICES ASSUME IndInv, [Next]_vars PROVE CallerInv'
  OBVIOUS
<1> USE DEF IndInv, PlacesOK, CallerInv
<1>1. ASSUME caller' = caller, owner' = owner \/ owner # "live"
      PROVE CallerInv'
  BY <1>1
<1>2. ASSUME Release PROVE CallerInv'
  BY <1>2 DEF Release
<1>3. ASSUME NEW w \in Workers, FinishTask(w) PROVE CallerInv'
  BY <1>3 DEF FinishTask
<1>4. ASSUME NEW c \in Callers, LockDispatch(c) PROVE CallerInv'
  BY <1>4 DEF LockDispatch
<1>5. ASSUME NEW c \in Callers, Dispatch(c) PROVE CallerInv'
  BY <1>5 DEF Dispatch
<1>6. ASSUME NEW c \in Callers, AwaitCompletion(c) PROVE CallerInv'
  BY <1>6 DEF AwaitCompletion
<1>7. ASSUME Spurious PROVE CallerInv'
  BY <1>7 DEF Spurious
<1>8. ASSUME OwnerStep PROVE CallerInv'
  BY <1>1, <1>8 DEF OwnerStep, Launch, LaunchedAll, AwaitStartup, Stop,
     NotifyStop, Join
<1>9. ASSUME NEW w \in Workers, WorkerStep(w), ~FinishTask(w)
      PROVE CallerInv'
  <2>1. caller' = caller
    BY <1>9 DEF WorkerStep, Bind, Announce, AwaitWork
  <2>2. owner' = owner \/ owner # "live"
    BY <1>9 DEF WorkerStep, Bind, Announce, AwaitWork
  <2> QED BY <1>1, <2>1, <2>2
<1>10. ASSUME UNCHANGED vars PROVE CallerInv'
  BY <1>1, <1>10 DEF vars
<1> QED BY <1>2, <1>3, <1>4, <1>5, <1>6, <1>7, <1>8, <1>9, <1>10
        DEF Next, CallerStep

(***************************************************************************)
(* The effect of a step on the current job and on the stages of the        *)
(* workers.  Each lemma gives the abstract step it is.                     *)
(***************************************************************************)
\* The running caller, if there is one, is the job.
LEMMA JobIs ==
  ASSUME IndInv
  PROVE  /\ \A c \in Callers : Running(c) => Job = c
         /\ (\A c \in Callers : ~Running(c)) => Job = NoJob
<1>1. ASSUME NEW c \in Callers, Running(c) PROVE Job = c
  <2>1. \A d \in Callers : Running(d) => d = c
    BY <1>1 DEF IndInv, CallerInv, Running
  <2> QED BY <1>1, <2>1 DEF Job
<1> QED BY <1>1 DEF Job

\* Stages and callers that nobody moves.
LEMMA Frame ==
  ASSUME IndInv, completed' = completed,
         \A c \in Callers : Running(c) <=> Running(c)',
         generation' = generation, observed' = observed,
         \A w \in Workers : worker[w] = "task" <=> worker'[w] = "task"
  PROVE  /\ JobInv'
         /\ Stage' = Stage
         /\ Job' = Job
<1>1. Stage' = Stage
  BY DEF Stage
<1>2. DoneWorkers' = DoneWorkers
  BY <1>1 DEF DoneWorkers
<1>3. JobInv'
  BY <1>2 DEF IndInv, JobInv
<1>4. Job' = Job
  BY DEF Job
<1> QED BY <1>1, <1>3, <1>4

\* Testing the predicate of work_ready.
LEMMA AwaitWorkEffect ==
  ASSUME IndInv, NEW w \in Workers, AwaitWork(w)
  PROVE  /\ JobInv'
         /\ Job' = Job
         /\ FO!Begin(w) \/ Stage' = Stage
<1> USE DEF AwaitWork, TestWork, IndInv, PlacesOK
<1>1. Job' = Job /\ \A c \in Callers : Running(c) <=> Running(c)'
  BY DEF Job, Running
<1>2. CASE stopping \/ observed[w] = generation
  <2>1. observed' = observed
    BY <1>2
  <2>2. \A v \in Workers : worker[v] = "task" <=> worker'[v] = "task"
    BY <1>2
  <2> QED BY <1>1, <2>1, <2>2, Frame
<1>3. CASE ~stopping /\ observed[w] # generation
  <2>1. /\ worker' = [worker EXCEPT ![w] = "task"]
        /\ observed' = [observed EXCEPT ![w] = generation]
    BY <1>3
  <2>2. Stage[w] = "todo" /\ Stage' = [Stage EXCEPT ![w] = "running"]
    BY <1>3, <2>1 DEF Stage
  <2>3. DoneWorkers' = DoneWorkers
    BY <2>2 DEF DoneWorkers, Stage
  <2>4. \E c \in Callers : Running(c)
    BY <1>3 DEF JobInv
  <2>5. JobInv'
    BY <1>1, <2>1, <2>3, <2>4 DEF JobInv
  <2> QED BY <1>1, <2>2, <2>5 DEF FO!Begin
<1> QED BY <1>2, <1>3

\* Finishing a task.
LEMMA FinishTaskEffect ==
  ASSUME IndInv, NEW w \in Workers, FinishTask(w)
  PROVE  /\ JobInv'
         /\ Job' = Job
         /\ FO!End(w)
<1> USE DEF FinishTask, TestWork, IndInv, PlacesOK
<1>1. \A c \in Callers : Running(c) <=> Running(c)'
  BY DEF Running
<1>2. Job' = Job
  BY <1>1 DEF Job
<1>3. \E c \in Callers : Running(c)
  BY DEF JobInv
<1>4. observed[w] = generation /\ observed' = observed
  BY DEF JobInv
<1>5. worker' = [worker EXCEPT ![w] = IF stopping THEN "ended" ELSE "asleep"]
  BY <1>4
<1>6. Stage[w] = "running" /\ Stage' = [Stage EXCEPT ![w] = "done"]
  BY <1>4, <1>5 DEF Stage
<1>7. w \notin DoneWorkers /\ DoneWorkers' = DoneWorkers \cup {w}
  BY <1>6 DEF DoneWorkers, Stage
<1>8. completed' = Cardinality(DoneWorkers')
  BY <1>3, <1>7, Counts DEF JobInv, DoneWorkers
<1>9. JobInv'
  BY <1>1, <1>3, <1>4, <1>5, <1>8 DEF JobInv
<1> QED BY <1>2, <1>6, <1>9 DEF FO!End

\* Publishing a task.
LEMMA DispatchEffect ==
  ASSUME IndInv, NEW c \in Callers, Dispatch(c)
  PROVE  JobInv' /\ FO!Start(c)
<1> USE DEF Dispatch, WorkReady, IndInv, PlacesOK
<1>1. \A d \in Callers : ~Running(d)
  BY DEF CallerInv, Running
<1>2. Running(c)' /\ \A d \in Callers : Running(d)' => d = c
  BY <1>1 DEF Running
<1>3. \A w \in Workers : observed[w] = generation /\ worker[w] # "task"
  BY <1>1 DEF JobInv
<1>4. generation' # generation
  BY GenerationMoves
<1>5. \A w \in Workers : observed'[w] # generation' /\ worker'[w] # "task"
  BY <1>3, <1>4
<1>6. Stage' = [w \in Workers |-> "todo"]
  BY <1>5 DEF Stage
<1>7. DoneWorkers' = {}
  BY <1>6 DEF DoneWorkers
<1>8. JobInv'
  BY <1>2, <1>5, <1>7, FS_EmptySet DEF JobInv
<1>9. Job = NoJob
  BY <1>1, JobIs
<1>10. Job' = c
  BY <1>2 DEF Job
<1> QED BY <1>6, <1>8, <1>9, <1>10 DEF FO!Start

\* Testing the predicate of work_complete.
LEMMA AwaitCompletionEffect ==
  ASSUME IndInv, NEW c \in Callers, AwaitCompletion(c)
  PROVE  /\ JobInv'
         /\ FO!Finish \/ (Stage' = Stage /\ Job' = Job)
<1> USE DEF AwaitCompletion, IndInv, PlacesOK
<1>1. Stage' = Stage
  BY DEF Stage
<1>2. CASE completed # Size
  <2>1. \A d \in Callers : Running(d) <=> Running(d)'
    BY <1>2 DEF Running
  <2> QED BY <2>1, Frame
<1>3. CASE completed = Size
  <2>1. Running(c) /\ \A d \in Callers : ~Running(d)'
    BY <1>3 DEF Running, CallerInv
  <2>2. Cardinality(DoneWorkers) = Size
    BY <1>3, <2>1 DEF JobInv
  <2>3. DoneWorkers = Workers
    BY <2>2, Counts DEF DoneWorkers
  <2>4. \A w \in Workers : Stage[w] = "done"
    BY <2>3 DEF DoneWorkers
  <2>5. \A w \in Workers : worker[w] # "task" /\ observed[w] = generation
    BY <2>4 DEF Stage
  <2>6. JobInv'
    BY <1>3, <2>1, <2>5, Counts DEF JobInv
  <2>7. Job = c /\ Job' = NoJob
    BY <2>1, JobIs DEF Job
  <2>8. Job # NoJob
    BY <2>7, TeamAssumption
  <2> QED BY <1>1, <2>4, <2>6, <2>7, <2>8 DEF FO!Finish
<1> QED BY <1>2, <1>3

\* A step of the team is a step of the abstract team or a stutter.
LEMMA JobStep ==
  ASSUME IndInv, [Next]_vars
  PROVE  /\ JobInv'
         /\ FO!Next \/ (Job' = Job /\ Stage' = Stage)
<1> USE DEF IndInv, PlacesOK
<1>1. ASSUME OwnerStep \/ Release
      PROVE JobInv' /\ Job' = Job /\ Stage' = Stage
  <2>1. ASSUME NEW w \in Workers, Launch(w)
        PROVE JobInv' /\ Job' = Job /\ Stage' = Stage
    BY <2>1, Frame DEF Launch, Running
  <2>2. ASSUME NotifyStop PROVE JobInv' /\ Job' = Job /\ Stage' = Stage
    BY <2>2, Frame DEF NotifyStop, WorkReady, Running
  <2> QED BY <1>1, <2>1, <2>2, Frame
          DEF OwnerStep, LaunchedAll, AwaitStartup, Stop, Join, Release,
              Running
<1>2. ASSUME NEW w \in Workers, NEW ok \in BOOLEAN, Bind(w, ok)
      PROVE JobInv' /\ Job' = Job /\ Stage' = Stage
  BY <1>2, Frame DEF Bind, Running
<1>3. ASSUME NEW w \in Workers, Announce(w)
      PROVE JobInv' /\ Job' = Job /\ Stage' = Stage
  BY <1>3, Frame DEF Announce, Running
<1>4. ASSUME NEW c \in Callers, LockDispatch(c)
      PROVE JobInv' /\ Job' = Job /\ Stage' = Stage
  BY <1>4, Frame DEF LockDispatch, Running
<1>5. ASSUME Spurious PROVE JobInv' /\ Job' = Job /\ Stage' = Stage
  <2>1. completed' = completed /\ generation' = generation /\ observed' = observed
    BY <1>5 DEF Spurious
  <2>2. \A c \in Callers : Running(c) <=> Running(c)'
    BY <1>5 DEF Spurious, Running
  <2>3. \A w \in Workers : worker[w] = "task" <=> worker'[w] = "task"
    BY <1>5 DEF Spurious
  <2> QED BY <2>1, <2>2, <2>3, Frame
<1>6. ASSUME UNCHANGED vars PROVE JobInv' /\ Job' = Job /\ Stage' = Stage
  BY <1>6, Frame DEF vars, Running
<1> QED BY <1>1, <1>2, <1>3, <1>4, <1>5, <1>6, AwaitWorkEffect,
           FinishTaskEffect, DispatchEffect, AwaitCompletionEffect
        DEF Next, WorkerStep, CallerStep, FO!Next

-----------------------------------------------------------------------------
(***************************************************************************)
(* The theorems.                                                           *)
(***************************************************************************)
\* The invariant holds in every reachable state of a team of any size.
THEOREM Invariance == Spec => []IndInv
<1>1. IndInv /\ [Next]_vars => IndInv'
  BY PlacesStep, OwnerKept, CallerKept, JobStep DEF IndInv
<1> QED BY IndInit, <1>1, PTL DEF Spec

\* The counts of the startup and of the completed tasks never exceed the team.
THEOREM TypeCorrect == Spec => []TypeOK
<1>1. IndInv => TypeOK
  <2> SUFFICES ASSUME IndInv PROVE TypeOK
    OBVIOUS
  <2>1. started \in 0 .. Size
    BY Counts DEF IndInv, OwnerInv, StartedWorkers
  <2>2. completed \in 0 .. Size
    BY Counts DEF IndInv, JobInv, DoneWorkers
  <2> QED BY <2>1, <2>2 DEF IndInv, PlacesOK, TypeOK
<1> QED BY <1>1, Invariance, PTL

\* create returns a team only when every worker was launched and bound.
THEOREM LiveTeamComplete == Spec => []LiveComplete
<1>1. IndInv => LiveComplete
  BY DEF IndInv, PlacesOK, WorkerPlaces, OwnerInv, LiveComplete
<1> QED BY <1>1, Invariance, PTL

\* Whatever the interleaving of callers, workers and wakeups, each job is
\* begun and ended once by each worker before its run returns.
THEOREM TeamImplementsFanOut == Spec => FO!Spec
<1>1. Init => FO!Init
  <2> SUFFICES ASSUME Init PROVE FO!Init
    OBVIOUS
  <2>1. Job = NoJob
    BY DEF Init, Job, Running
  <2>2. Stage = [w \in Workers |-> "done"]
    BY DEF Init, Stage
  <2> QED BY <2>1, <2>2 DEF FO!Init
<1>2. IndInv /\ [Next]_vars => [FO!Next]_<<Job, Stage>>
  BY JobStep
<1> QED BY <1>1, <1>2, Invariance, PTL DEF Spec, FO!Spec
=============================================================================
