---------------------- MODULE RestartPublication_proofs ----------------------
(***************************************************************************)
(* Proofs about RestartPublication, for any number of ranks and writes,    *)
(* any steps and any number of generations to keep.                        *)
(***************************************************************************)
EXTENDS RestartPublication, FiniteSetTheorems, TLAPS

(***************************************************************************)
(* The restart directory alone.                                            *)
(***************************************************************************)
DirectoryOK ==
  /\ place \in [Gens -> PlaceNames]
  /\ places \in [Gens -> SUBSET PlaceNames]
  /\ current \in 0 .. MaxWrites
  /\ currents \in SUBSET (0 .. MaxWrites)
  /\ \A g \in Gens : place[g] \in places[g]
  /\ current \in currents

\* The invariant covers the restart directory.
LEMMA IndInvDirectory == IndInv => DirectoryOK
BY DEF IndInv, TypeOK, DiskOK, DirectoryOK

\* What a change of the restart directory makes of it: entries that the
\* change leaves alone can only become more certain.
LEMMA DirectoryStep ==
  ASSUME DirectoryOK, NEW p \in [Gens -> PlaceNames],
         NEW c \in 0 .. MaxWrites, NEW synced \in BOOLEAN,
         Directory(p, c, synced)
  PROVE  /\ DirectoryOK'
         /\ place' = p /\ current' = c
         /\ currents' \subseteq currents \cup {c}
         /\ synced => currents' = {c}
         /\ synced => \A g \in Gens : places'[g] = {p[g]}
         /\ \A g \in Gens, x \in PlaceNames :
              p[g] = x /\ places[g] = {x} => places'[g] = {x}
<1> USE DEF Directory
<1>1. CASE synced
  <2>1. /\ place' = p /\ current' = c
        /\ places' = [g \in Gens |-> {p[g]}] /\ currents' = {c}
    BY <1>1
  <2>2. DirectoryOK'
    BY <2>1 DEF DirectoryOK
  <2> QED BY <1>1, <2>1, <2>2
<1>2. CASE ~synced
  <2>1. /\ place' = p /\ current' = c
        /\ places' = [g \in Gens |-> places[g] \cup {p[g]}]
        /\ currents' = currents \cup {c}
    BY <1>2
  <2>2. DirectoryOK'
    BY <2>1 DEF DirectoryOK
  <2> QED BY <1>2, <2>1, <2>2
<1> QED BY <1>1, <1>2

\* A generation that nothing in current's future names may be moved at will.
LEMMA CurrentsKept ==
  ASSUME IndInv, NEW p \in [Gens -> PlaceNames], NEW synced \in BOOLEAN,
         Directory(p, current, synced), gen' >= gen, gen' \in 0 .. MaxWrites,
         \A c \in currents \ {0} : p[c] = place[c] /\ sure'[c] = sure[c]
  PROVE  /\ CurrentsComplete'
         /\ currents' \subseteq currents
<1> USE RestartAssumption
<1>1. /\ DirectoryOK /\ current \in 0 .. MaxWrites
  BY IndInvDirectory DEF DirectoryOK
<1>2. /\ currents' \subseteq currents
      /\ \A g \in Gens, x \in PlaceNames :
           p[g] = x /\ places[g] = {x} => places'[g] = {x}
  BY <1>1, DirectoryStep DEF DirectoryOK
<1> SUFFICES ASSUME NEW c \in currents', c # 0
             PROVE  c <= gen' /\ places'[c] = {"final"} /\ sure'[c] = Files
  BY <1>2 DEF CurrentsComplete
<1>3. c \in currents \ {0} /\ c \in Gens
  BY <1>1, <1>2 DEF DirectoryOK, Gens
<1>4. c <= gen /\ places[c] = {"final"} /\ sure[c] = Files
  BY <1>3 DEF IndInv, CurrentsComplete
<1>5. place[c] = "final"
  BY <1>1, <1>3, <1>4 DEF DirectoryOK
<1>6. places'[c] = {"final"}
  BY <1>2, <1>3, <1>4, <1>5 DEF PlaceNames
<1> QED BY <1>3, <1>4, <1>6 DEF IndInv, TypeOK

-----------------------------------------------------------------------------
(***************************************************************************)
(* IndInv is inductive: one lemma for each action.                         *)
(***************************************************************************)
\* An empty restart directory, synced or new.
LEMMA IndInit == Init => IndInv
<1> SUFFICES ASSUME Init PROVE IndInv
  OBVIOUS
<1> USE RestartAssumption DEF Init
<1>1. TypeOK
  <2>1. root \in BOOLEAN
    OBVIOUS
  <2> QED BY <2>1 DEF TypeOK, Gens, StageNames, PlaceNames
<1>2. DiskOK /\ CurrentsComplete /\ GenerationSecured /\ PendingOwned
  BY DEF DiskOK, CurrentsComplete, GenerationSecured, PendingOwned
<1>3. DurableReached
  <2>1. ~Fresh => root
    OBVIOUS
  <2>2. durable <= gen /\ \A c \in currents : durable <= c
    OBVIOUS
  <2> QED BY <2>1, <2>2 DEF DurableReached
<1> QED BY <1>1, <1>2, <1>3 DEF IndInv

\* Removing what failed writes left behind touches nothing that current names.
LEMMA SweepStep == IndInv /\ Sweep => IndInv'
<1> SUFFICES ASSUME IndInv, Sweep PROVE IndInv'
  OBVIOUS
<1> USE RestartAssumption DEF IndInv
<1>1. PICK swept \in SUBSET Pending, left \in SUBSET pointers,
           synced \in BOOLEAN :
        /\ synced => swept = Pending /\ left = {}
        /\ Directory([g \in Gens |-> IF g \in swept THEN "absent"
                                     ELSE place[g]], current, synced)
        /\ pointers' = left
        /\ Continue(synced, "create")
  BY DEF Sweep
<1> DEFINE p == [g \in Gens |-> IF g \in swept THEN "absent" ELSE place[g]]
<1>2. p \in [Gens -> PlaceNames] /\ current \in 0 .. MaxWrites
  BY DEF TypeOK, PlaceNames
<1>3. /\ DirectoryOK' /\ place' = p /\ current' = current
      /\ \A g \in Gens, x \in PlaceNames :
           p[g] = x /\ places[g] = {x} => places'[g] = {x}
  BY <1>1, <1>2, DirectoryStep, IndInvDirectory
<1>4. /\ gen < MaxWrites /\ gen' = gen + 1
      /\ stage' = (IF synced THEN "create" ELSE "idle")
      /\ UNCHANGED <<step, voted, files, sure, root, durable>>
  BY <1>1 DEF Sweep, Continue
<1>5. gen' \in Gens /\ gen' \in 0 .. MaxWrites /\ gen <= gen'
  BY <1>4 DEF TypeOK, Gens
<1>6. \A g \in Gens : p[g] = place[g] \/ place[g] = "pending"
  BY DEF Pending
<1>7. CurrentsComplete' /\ currents' \subseteq currents
  <2>1. \A c \in currents \ {0} : place[c] = "final" /\ c \in Gens
    BY DEF CurrentsComplete, DiskOK, TypeOK, Gens
  <2>2. \A c \in currents \ {0} : p[c] = place[c] /\ sure'[c] = sure[c]
    BY <1>4, <1>6, <2>1
  <2> QED BY <1>1, <1>2, <1>5, <2>2, CurrentsKept
<1>8. TypeOK'
  BY <1>1, <1>3, <1>4, <1>5 DEF TypeOK, DirectoryOK, StageNames
<1>9. DiskOK'
  BY <1>3, <1>4 DEF DiskOK, DirectoryOK
<1>10. GenerationSecured'
  <2>1. \A g \in Gens : gen' < g => places'[g] = {"absent"}
    <3> SUFFICES ASSUME NEW g \in Gens, gen' < g
                 PROVE  places'[g] = {"absent"}
      OBVIOUS
    <3>1. gen < g
      BY <1>4 DEF TypeOK, Gens
    <3>2. places[g] = {"absent"} /\ place[g] = "absent"
      BY <3>1 DEF GenerationSecured, DiskOK
    <3> QED BY <1>3, <1>6, <3>2 DEF PlaceNames
  <2>2. \A c \in currents' : c < gen'
    BY <1>4, <1>7 DEF CurrentsComplete, TypeOK
  <2> QED BY <1>4, <1>5, <2>1, <2>2 DEF GenerationSecured
<1>11. PendingOwned'
  <2>1. CASE synced
    <3>1. swept = Pending /\ pointers' = {}
      BY <1>1, <2>1
    <3>2. Pending' = {}
      BY <1>3, <3>1 DEF Pending
    <3> QED BY <1>4, <2>1, <3>1, <3>2 DEF PendingOwned
  <2>2. CASE ~synced
    BY <1>4, <2>2 DEF PendingOwned
  <2> QED BY <2>1, <2>2
<1>12. DurableReached'
  BY <1>4, <1>7 DEF DurableReached, TypeOK
<1>13. stage' # "clean"
  BY <1>4
<1> QED BY <1>7, <1>8, <1>9, <1>10, <1>11, <1>12, <1>13

\* The pending directory of a write has a name of its own.
LEMMA CreatePendingStep == IndInv /\ CreatePending => IndInv'
<1> SUFFICES ASSUME IndInv, CreatePending PROVE IndInv'
  OBVIOUS
<1> USE RestartAssumption DEF IndInv
<1>1. PICK made \in BOOLEAN, synced \in BOOLEAN :
        /\ synced => made
        /\ Directory(IF made THEN [place EXCEPT ![gen] = "pending"] ELSE place,
                     current, synced)
        /\ Continue(synced, "files")
  BY DEF CreatePending
<1> DEFINE p == IF made THEN [place EXCEPT ![gen] = "pending"] ELSE place
<1>2. /\ stage = "create" /\ gen \in Gens
      /\ stage' = (IF synced THEN "files" ELSE "idle")
      /\ voted' = [r \in Ranks |-> "none"]
      /\ UNCHANGED <<gen, step, files, sure, pointers, root, durable>>
  BY <1>1 DEF CreatePending, Continue, GenerationSecured
<1>3. p \in [Gens -> PlaceNames] /\ current \in 0 .. MaxWrites
  BY DEF TypeOK, PlaceNames
<1>4. /\ DirectoryOK' /\ place' = p /\ current' = current
      /\ synced => \A g \in Gens : places'[g] = {p[g]}
      /\ \A g \in Gens, x \in PlaceNames :
           p[g] = x /\ places[g] = {x} => places'[g] = {x}
  BY <1>1, <1>3, DirectoryStep, IndInvDirectory
<1>5. \A g \in Gens : g # gen => p[g] = place[g]
  BY <1>2 DEF TypeOK
<1>6. CurrentsComplete' /\ currents' \subseteq currents
  <2>1. \A c \in currents \ {0} : c \in Gens /\ c # gen
    BY <1>2 DEF GenerationSecured, TypeOK, Gens
  <2>2. \A c \in currents \ {0} : p[c] = place[c] /\ sure'[c] = sure[c]
    BY <1>2, <1>5, <2>1
  <2>3. gen' >= gen /\ gen' \in 0 .. MaxWrites
    BY <1>2 DEF TypeOK
  <2> QED BY <1>1, <1>3, <2>2, <2>3, CurrentsKept
<1>7. TypeOK'
  BY <1>2, <1>4 DEF TypeOK, DirectoryOK, StageNames
<1>8. DiskOK'
  BY <1>2, <1>4 DEF DiskOK, DirectoryOK
<1>9. GenerationSecured'
  <2>1. \A g \in Gens : gen' < g => places'[g] = {"absent"}
    <3> SUFFICES ASSUME NEW g \in Gens, gen < g
                 PROVE  places'[g] = {"absent"}
      BY <1>2
    <3>1. places[g] = {"absent"} /\ place[g] = "absent" /\ g # gen
      BY DEF GenerationSecured, DiskOK, TypeOK, Gens
    <3> QED BY <1>4, <1>5, <3>1 DEF PlaceNames
  <2>2. \A c \in currents' : c < gen'
    BY <1>2, <1>6 DEF GenerationSecured
  <2>3. synced => places'[gen] = {"pending"}
    BY <1>1, <1>2, <1>4 DEF TypeOK
  <2> QED BY <1>2, <2>1, <2>2, <2>3 DEF GenerationSecured
<1>10. PendingOwned'
  <2>1. CASE synced
    <3>1. Pending = {} /\ pointers = {}
      BY <1>2 DEF PendingOwned
    <3>2. Pending' = {gen}
      BY <1>1, <1>2, <1>4, <2>1, <3>1 DEF Pending, TypeOK
    <3> QED BY <1>2, <2>1, <3>1, <3>2 DEF PendingOwned
  <2>2. CASE ~synced
    BY <1>2, <2>2 DEF PendingOwned
  <2> QED BY <2>1, <2>2
<1>11. DurableReached'
  BY <1>2, <1>6 DEF DurableReached
<1>12. stage' # "clean"
  BY <1>2
<1> QED BY <1>6, <1>7, <1>8, <1>9, <1>10, <1>11, <1>12

\* A rank's file goes into the pending directory only.
LEMMA WriteRankFileStep ==
  ASSUME IndInv, NEW r \in Ranks, WriteRankFile(r)
  PROVE  IndInv'
<1> USE RestartAssumption DEF IndInv
<1>1. PICK stored \in BOOLEAN, ok \in BOOLEAN :
        /\ ok => stored
        /\ files' = IF stored THEN [files EXCEPT ![gen] = @ \cup {r}] ELSE files
        /\ voted' = [voted EXCEPT ![r] = IF ok THEN "ok" ELSE "failed"]
  BY DEF WriteRankFile
<1>2. /\ stage = "files" /\ gen \in Gens
      /\ UNCHANGED <<stage, gen, step, place, places, sure, current, currents,
                     pointers, root, durable>>
  BY DEF WriteRankFile, GenerationSecured
<1>3. files' \in [Gens -> SUBSET Files] /\ \A g \in Gens : files[g] \subseteq files'[g]
  BY <1>1, <1>2 DEF TypeOK, Files
<1>4. TypeOK'
  <2>1. voted' \in [Ranks -> {"none", "ok", "failed"}]
    BY <1>1 DEF TypeOK
  <2> QED BY <1>2, <1>3, <2>1 DEF TypeOK
<1>5. DiskOK' /\ CurrentsComplete' /\ DurableReached' /\ PendingOwned'
  BY <1>2, <1>3 DEF DiskOK, CurrentsComplete, DurableReached, PendingOwned,
                    Pending, TypeOK
<1>6. GenerationSecured'
  <2>1. \A s \in Ranks : voted'[s] = "ok" => s \in files'[gen]
    <3> SUFFICES ASSUME NEW s \in Ranks, voted'[s] = "ok"
                 PROVE  s \in files'[gen]
      OBVIOUS
    <3>1. CASE s = r
      BY <1>1, <1>2, <3>1 DEF TypeOK
    <3>2. CASE s # r
      BY <1>1, <1>2, <1>3, <3>2 DEF TypeOK, GenerationSecured
    <3> QED BY <3>1, <3>2
  <2> QED BY <1>2, <2>1 DEF GenerationSecured
<1> QED BY <1>2, <1>4, <1>5, <1>6

\* The write goes on only when every rank file is there.
LEMMA RankFilesDoneStep == IndInv /\ RankFilesDone => IndInv'
<1> SUFFICES ASSUME IndInv, RankFilesDone PROVE IndInv'
  OBVIOUS
<1> USE RestartAssumption DEF IndInv
<1>1. /\ stage = "files" /\ gen \in Gens
      /\ stage' = (IF \A r \in Ranks : voted[r] = "ok" THEN "manifest" ELSE "idle")
      /\ UNCHANGED <<gen, step, voted, place, places, files, sure, current,
                     currents, pointers, root, durable>>
  BY DEF RankFilesDone, Continue, GenerationSecured
<1>2. TypeOK' /\ DiskOK' /\ CurrentsComplete' /\ DurableReached'
  BY <1>1 DEF TypeOK, StageNames, DiskOK, CurrentsComplete, DurableReached
<1>3. GenerationSecured'
  BY <1>1 DEF GenerationSecured
<1>4. PendingOwned'
  BY <1>1 DEF PendingOwned, Pending
<1>5. stage' # "clean"
  BY <1>1
<1> QED BY <1>2, <1>3, <1>4, <1>5

\* After the manifest and the sync the pending generation is complete for good.
LEMMA WriteManifestStep == IndInv /\ WriteManifest => IndInv'
<1> SUFFICES ASSUME IndInv, WriteManifest PROVE IndInv'
  OBVIOUS
<1> USE RestartAssumption DEF IndInv
<1>1. PICK stored \in BOOLEAN, synced \in BOOLEAN :
        /\ synced => stored
        /\ files' = IF stored THEN [files EXCEPT ![gen] = @ \cup {Manifest}]
                    ELSE files
        /\ sure' = IF synced THEN [sure EXCEPT ![gen] = files'[gen]] ELSE sure
        /\ Continue(synced, "publish")
  BY DEF WriteManifest
<1>2. /\ stage = "manifest" /\ gen \in Gens
      /\ stage' = (IF synced THEN "publish" ELSE "idle")
      /\ UNCHANGED <<gen, step, voted, place, places, current, currents,
                     pointers, root, durable>>
  BY <1>1 DEF WriteManifest, Continue, GenerationSecured
<1>3. files' \in [Gens -> SUBSET Files] /\ \A g \in Gens : files[g] \subseteq files'[g]
  BY <1>1, <1>2 DEF TypeOK, Files
<1>4. /\ sure' \in [Gens -> SUBSET Files]
      /\ \A g \in Gens : g # gen => sure'[g] = sure[g]
      /\ \A g \in Gens : sure'[g] \subseteq files'[g]
  BY <1>1, <1>2, <1>3 DEF TypeOK, DiskOK
<1>5. TypeOK' /\ DiskOK' /\ DurableReached'
  <2>1. TypeOK'
    BY <1>2, <1>3, <1>4 DEF TypeOK, StageNames
  <2>2. DiskOK' /\ DurableReached'
    BY <1>2, <1>4 DEF DiskOK, DurableReached
  <2> QED BY <2>1, <2>2
<1>6. CurrentsComplete'
  <2>1. \A c \in currents \ {0} : c \in Gens /\ c # gen
    BY <1>2 DEF GenerationSecured, TypeOK, Gens
  <2> QED BY <1>2, <1>4, <2>1 DEF CurrentsComplete
<1>7. GenerationSecured'
  <2>1. synced => sure'[gen] = Files
    <3>1. Ranks \subseteq files[gen]
      BY <1>2 DEF GenerationSecured
    <3>2. synced => files'[gen] = Files
      BY <1>1, <1>2, <3>1 DEF TypeOK, Files
    <3> QED BY <1>1, <1>2, <3>2 DEF TypeOK
  <2> QED BY <1>2, <2>1 DEF GenerationSecured
<1>8. PendingOwned'
  BY <1>2 DEF PendingOwned, Pending
<1> QED BY <1>2, <1>5, <1>6, <1>7, <1>8

\* The rename takes a complete generation to its final name.
LEMMA PublishGenerationStep == IndInv /\ PublishGeneration => IndInv'
<1> SUFFICES ASSUME IndInv, PublishGeneration PROVE IndInv'
  OBVIOUS
<1> USE RestartAssumption DEF IndInv
<1>1. PICK moved \in BOOLEAN, synced \in BOOLEAN :
        /\ synced => moved
        /\ Directory(IF moved THEN [place EXCEPT ![gen] = "final"] ELSE place,
                     current, synced)
        /\ Continue(synced, "switch")
  BY DEF PublishGeneration
<1> DEFINE p == IF moved THEN [place EXCEPT ![gen] = "final"] ELSE place
<1>2. /\ stage = "publish" /\ gen \in Gens
      /\ stage' = (IF synced THEN "switch" ELSE "idle")
      /\ UNCHANGED <<gen, step, voted, files, sure, pointers, root, durable>>
  BY <1>1 DEF PublishGeneration, Continue, GenerationSecured
<1>3. p \in [Gens -> PlaceNames] /\ current \in 0 .. MaxWrites
  BY DEF TypeOK, PlaceNames
<1>4. /\ DirectoryOK' /\ place' = p /\ current' = current
      /\ synced => \A g \in Gens : places'[g] = {p[g]}
      /\ \A g \in Gens, x \in PlaceNames :
           p[g] = x /\ places[g] = {x} => places'[g] = {x}
  BY <1>1, <1>3, DirectoryStep, IndInvDirectory
<1>5. \A g \in Gens : g # gen => p[g] = place[g]
  BY <1>2 DEF TypeOK
<1>6. CurrentsComplete' /\ currents' \subseteq currents
  <2>1. \A c \in currents \ {0} : c \in Gens /\ c # gen
    BY <1>2 DEF GenerationSecured, TypeOK, Gens
  <2>2. \A c \in currents \ {0} : p[c] = place[c] /\ sure'[c] = sure[c]
    BY <1>2, <1>5, <2>1
  <2>3. gen' >= gen /\ gen' \in 0 .. MaxWrites
    BY <1>2 DEF TypeOK
  <2> QED BY <1>1, <1>3, <2>2, <2>3, CurrentsKept
<1>7. TypeOK'
  BY <1>2, <1>4 DEF TypeOK, DirectoryOK, StageNames
<1>8. DiskOK'
  BY <1>2, <1>4 DEF DiskOK, DirectoryOK
<1>9. GenerationSecured'
  <2>1. \A g \in Gens : gen' < g => places'[g] = {"absent"}
    <3> SUFFICES ASSUME NEW g \in Gens, gen < g
                 PROVE  places'[g] = {"absent"}
      BY <1>2
    <3>1. places[g] = {"absent"} /\ place[g] = "absent" /\ g # gen
      BY DEF GenerationSecured, DiskOK, TypeOK, Gens
    <3> QED BY <1>4, <1>5, <3>1 DEF PlaceNames
  <2>2. \A c \in currents' : c < gen'
    BY <1>2, <1>6 DEF GenerationSecured
  <2>3. synced => places'[gen] = {"final"}
    BY <1>1, <1>2, <1>4 DEF TypeOK
  <2> QED BY <1>2, <2>1, <2>2, <2>3 DEF GenerationSecured
<1>10. PendingOwned'
  <2>1. CASE synced
    <3>1. Pending = {gen} /\ pointers = {}
      BY <1>2 DEF PendingOwned
    <3>2. Pending' = {}
      BY <1>1, <1>2, <1>4, <2>1, <3>1 DEF Pending, TypeOK
    <3> QED BY <1>2, <2>1, <3>1, <3>2 DEF PendingOwned
  <2>2. CASE ~synced
    BY <1>2, <2>2 DEF PendingOwned
  <2> QED BY <2>1, <2>2
<1>11. DurableReached'
  BY <1>2, <1>6 DEF DurableReached
<1>12. stage' # "clean"
  BY <1>2
<1> QED BY <1>6, <1>7, <1>8, <1>9, <1>10, <1>11, <1>12

\* Here current changes: to a generation that is complete for good.
LEMMA SwitchCurrentStep == IndInv /\ SwitchCurrent => IndInv'
<1> SUFFICES ASSUME IndInv, SwitchCurrent PROVE IndInv'
  OBVIOUS
<1> USE RestartAssumption DEF IndInv
<1>1. PICK written \in BOOLEAN, renamed \in BOOLEAN, synced \in BOOLEAN :
        /\ renamed => written
        /\ synced => renamed
        /\ pointers' = IF written /\ ~renamed THEN pointers \cup {gen}
                       ELSE pointers
        /\ Directory(place, IF renamed THEN gen ELSE current, synced)
        /\ durable' = IF synced THEN gen ELSE durable
        /\ Continue(synced, "prune")
  BY DEF SwitchCurrent
<1> DEFINE c == IF renamed THEN gen ELSE current
<1>2. /\ stage = "switch" /\ gen \in Gens
      /\ stage' = (IF synced THEN "prune" ELSE "idle")
      /\ UNCHANGED <<gen, step, voted, files, sure, root>>
  BY <1>1 DEF SwitchCurrent, Continue, GenerationSecured
<1>3. place \in [Gens -> PlaceNames] /\ c \in 0 .. MaxWrites
  BY <1>2 DEF TypeOK, Gens
<1>4. /\ DirectoryOK' /\ place' = place /\ current' = c
      /\ currents' \subseteq currents \cup {c}
      /\ synced => currents' = {c}
      /\ \A g \in Gens, x \in PlaceNames :
           place[g] = x /\ places[g] = {x} => places'[g] = {x}
  BY <1>1, <1>3, DirectoryStep, IndInvDirectory
<1>5. \A g \in Gens, x \in PlaceNames : places[g] = {x} => places'[g] = {x}
  BY <1>4 DEF DiskOK
<1>6. \A d \in currents' : d \in currents \/ d = gen
  BY <1>4 DEF DiskOK
<1>7. CurrentsComplete'
  <2> SUFFICES ASSUME NEW d \in currents', d # 0
               PROVE  d <= gen /\ places'[d] = {"final"} /\ sure[d] = Files
    BY <1>2 DEF CurrentsComplete
  <2>1. d \in Gens /\ d <= gen /\ places[d] = {"final"} /\ sure[d] = Files
    <3>1. CASE d = gen
      BY <1>2, <3>1 DEF GenerationSecured, TypeOK
    <3>2. CASE d # gen
      <4>1. d \in currents \ {0}
        BY <1>6, <3>2
      <4> QED BY <4>1 DEF CurrentsComplete, TypeOK, Gens
    <3> QED BY <3>1, <3>2
  <2> QED BY <1>5, <2>1 DEF PlaceNames
<1>8. TypeOK'
  <2>1. durable' \in 0 .. MaxWrites /\ pointers' \in SUBSET Gens
    BY <1>1, <1>2 DEF TypeOK, Gens
  <2> QED BY <1>2, <1>4, <2>1 DEF TypeOK, DirectoryOK, StageNames
<1>9. DiskOK'
  BY <1>2, <1>4 DEF DiskOK, DirectoryOK
<1>10. GenerationSecured'
  <2>1. \A g \in Gens : gen' < g => places'[g] = {"absent"}
    BY <1>2, <1>5 DEF GenerationSecured, PlaceNames
  <2>2. synced => currents' = {gen}
    BY <1>1, <1>4
  <2> QED BY <1>2, <2>1, <2>2 DEF GenerationSecured
<1>11. PendingOwned'
  <2>1. Pending' = Pending
    BY <1>4 DEF Pending
  <2> QED BY <1>1, <1>2, <2>1 DEF PendingOwned
<1>12. DurableReached'
  <2>1. durable' <= gen'
    BY <1>1, <1>2 DEF DurableReached, TypeOK, Gens
  <2>2. ~Fresh => \A d \in currents' : durable' <= d
    BY <1>1, <1>2, <1>4, <1>6 DEF DurableReached, TypeOK, Gens
  <2> QED BY <1>2, <2>1, <2>2 DEF DurableReached
<1>13. stage' # "clean"
  BY <1>2
<1> QED BY <1>7, <1>8, <1>9, <1>10, <1>11, <1>12, <1>13

\* A directory that is being pruned keeps the generation of the current write,
\* the only one that current can still name.
LEMMA PruneOneStep ==
  ASSUME IndInv, NEW g \in Gens, PruneOne(g)
  PROVE  IndInv'
<1> USE RestartAssumption DEF IndInv
<1>1. PICK removed \in BOOLEAN, left \in SUBSET files[g] :
        /\ removed => left = {}
        /\ files' = [files EXCEPT ![g] = left]
        /\ sure' = [sure EXCEPT ![g] = @ \cap left]
        /\ Directory(IF removed THEN [place EXCEPT ![g] = "absent"] ELSE place,
                     current, FALSE)
        /\ Continue(removed, "prune")
  BY DEF PruneOne
<1> DEFINE p == IF removed THEN [place EXCEPT ![g] = "absent"] ELSE place
<1>2. /\ stage = "prune" /\ gen \in Gens /\ currents = {gen}
      /\ g # gen /\ place[g] = "final"
      /\ stage' = (IF removed THEN "prune" ELSE "idle")
      /\ UNCHANGED <<gen, step, voted, pointers, root, durable>>
  BY <1>1 DEF PruneOne, Continue, GenerationSecured, Superfluous, Finals
<1>3. p \in [Gens -> PlaceNames] /\ current \in 0 .. MaxWrites
  BY DEF TypeOK, PlaceNames
<1>4. /\ DirectoryOK' /\ place' = p /\ current' = current
      /\ \A h \in Gens, x \in PlaceNames :
           p[h] = x /\ places[h] = {x} => places'[h] = {x}
  <2>1. FALSE \in BOOLEAN
    OBVIOUS
  <2> QED BY <1>1, <1>3, <2>1, DirectoryStep, IndInvDirectory
<1>5. \A h \in Gens : h # g => p[h] = place[h] /\ sure'[h] = sure[h]
  BY <1>1 DEF TypeOK
<1>6. CurrentsComplete' /\ currents' \subseteq currents
  <2>1. \A c \in currents \ {0} : p[c] = place[c] /\ sure'[c] = sure[c]
    BY <1>2, <1>5
  <2>2. gen' >= gen /\ gen' \in 0 .. MaxWrites
    BY <1>2 DEF TypeOK
  <2>3. FALSE \in BOOLEAN
    OBVIOUS
  <2> QED BY <1>1, <1>3, <2>1, <2>2, <2>3, CurrentsKept
<1>7. /\ files' \in [Gens -> SUBSET Files] /\ sure' \in [Gens -> SUBSET Files]
      /\ \A h \in Gens : sure'[h] \subseteq files'[h]
  <2>1. \A h \in Gens : /\ files'[h] = IF h = g THEN left ELSE files[h]
                        /\ sure'[h] = IF h = g THEN sure[h] \cap left ELSE sure[h]
    BY <1>1 DEF TypeOK
  <2>2. \A h \in Gens : /\ files'[h] \subseteq files[h]
                        /\ sure'[h] \subseteq files'[h]
                        /\ sure'[h] \subseteq sure[h]
    BY <2>1 DEF DiskOK
  <2> QED BY <1>1, <2>2 DEF TypeOK
<1>8. TypeOK'
  BY <1>2, <1>4, <1>7 DEF TypeOK, DirectoryOK, StageNames
<1>9. DiskOK'
  BY <1>4, <1>7 DEF DiskOK, DirectoryOK
<1>10. GenerationSecured'
  <2>1. \A h \in Gens : gen' < h => places'[h] = {"absent"}
    <3> SUFFICES ASSUME NEW h \in Gens, gen < h
                 PROVE  places'[h] = {"absent"}
      BY <1>2
    <3>1. places[h] = {"absent"} /\ place[h] = "absent"
      BY DEF GenerationSecured, DiskOK
    <3>2. h # g
      BY <1>2, <3>1
    <3> QED BY <1>4, <1>5, <3>1, <3>2 DEF PlaceNames
  <2>2. currents' = {gen}
    <3>1. current' \in currents'
      BY <1>4 DEF DirectoryOK
    <3> QED BY <1>2, <1>6, <3>1
  <2> QED BY <1>2, <2>1, <2>2 DEF GenerationSecured
<1>11. PendingOwned'
  <2>1. CASE removed
    <3>1. Pending = {} /\ pointers = {}
      BY <1>2 DEF PendingOwned
    <3>2. \A h \in Gens : place'[h] # "pending"
      BY <1>2, <1>4, <2>1, <3>1 DEF Pending, TypeOK
    <3>3. Pending' = {}
      BY <3>2 DEF Pending
    <3> QED BY <1>2, <2>1, <3>1, <3>3 DEF PendingOwned
  <2>2. CASE ~removed
    BY <1>2, <2>2 DEF PendingOwned
  <2> QED BY <2>1, <2>2
<1>12. DurableReached'
  BY <1>2, <1>6 DEF DurableReached
<1>13. stage' # "clean"
  BY <1>2
<1> QED BY <1>6, <1>8, <1>9, <1>10, <1>11, <1>12, <1>13

\* Pruning ends with at most KeepLast generations, the new one among them.
LEMMA PruneDoneStep == IndInv /\ PruneDone => IndInv'
<1> SUFFICES ASSUME IndInv, PruneDone PROVE IndInv'
  OBVIOUS
<1> USE RestartAssumption DEF IndInv
<1>1. PICK synced \in BOOLEAN : /\ Directory(place, current, synced)
                                /\ Continue(synced, "clean")
  BY DEF PruneDone
<1>2. /\ stage = "prune" /\ gen \in Gens /\ currents = {gen}
      /\ stage' = (IF synced THEN "clean" ELSE "idle")
      /\ UNCHANGED <<gen, step, voted, files, sure, pointers, root, durable>>
  BY <1>1 DEF PruneDone, Continue, GenerationSecured
<1>3. place \in [Gens -> PlaceNames] /\ current \in 0 .. MaxWrites
  BY DEF TypeOK
<1>4. /\ DirectoryOK' /\ place' = place /\ current' = current
      /\ \A g \in Gens, x \in PlaceNames :
           place[g] = x /\ places[g] = {x} => places'[g] = {x}
  BY <1>1, <1>3, DirectoryStep, IndInvDirectory
<1>5. CurrentsComplete' /\ currents' \subseteq currents
  <2>1. \A c \in currents \ {0} : place[c] = place[c] /\ sure'[c] = sure[c]
    BY <1>2
  <2>2. gen' >= gen /\ gen' \in 0 .. MaxWrites
    BY <1>2 DEF TypeOK
  <2> QED BY <1>1, <1>3, <2>1, <2>2, CurrentsKept
<1>6. TypeOK' /\ DiskOK' /\ DurableReached'
  <2>1. TypeOK'
    BY <1>2, <1>4 DEF TypeOK, DirectoryOK, StageNames
  <2>2. DiskOK' /\ DurableReached'
    BY <1>2, <1>4, <1>5 DEF DiskOK, DirectoryOK, DurableReached
  <2> QED BY <2>1, <2>2
<1>7. GenerationSecured'
  <2>1. \A g \in Gens : gen' < g => places'[g] = {"absent"}
    BY <1>2, <1>4 DEF GenerationSecured, DiskOK, PlaceNames
  <2>2. currents' = {gen}
    BY <1>2, <1>4, <1>5 DEF DirectoryOK
  <2> QED BY <1>2, <2>1, <2>2 DEF GenerationSecured
<1>8. PendingOwned'
  BY <1>2, <1>4 DEF PendingOwned, Pending
<1>9. Cardinality(Finals') <= KeepLast
  <2>1. Finals' = Finals
    BY <1>4 DEF Finals
  <2>2. CASE Superfluous = {}
    <3>1. Finals \subseteq {gen}
      BY <2>2 DEF Superfluous
    <3>2. IsFiniteSet({gen}) /\ Cardinality({gen}) = 1
      BY FS_Singleton
    <3>3. Cardinality(Finals) \in Nat /\ Cardinality(Finals) <= 1
      BY <3>1, <3>2, FS_Subset, FS_CardinalityType
    <3> QED BY <2>1, <3>3
  <2> QED BY <2>1, <2>2 DEF PruneDone
<1> QED BY <1>5, <1>6, <1>7, <1>8, <1>9 DEF Finals

\* A kill changes nothing on the disk.
LEMMA KillStep == IndInv /\ Kill => IndInv'
<1> SUFFICES ASSUME IndInv, Kill PROVE IndInv'
  OBVIOUS
<1> USE RestartAssumption DEF IndInv
<1>1. /\ stage' = "idle"
      /\ UNCHANGED <<gen, step, voted, place, places, files, sure, current,
                     currents, pointers, root, durable>>
  BY DEF Kill
<1>2. TypeOK' /\ DiskOK' /\ CurrentsComplete' /\ DurableReached'
  BY <1>1 DEF TypeOK, StageNames, DiskOK, CurrentsComplete, DurableReached
<1>3. GenerationSecured' /\ PendingOwned'
  BY <1>1 DEF GenerationSecured, PendingOwned
<1> QED BY <1>1, <1>2, <1>3

\* A power loss picks one of the disks that may be left.
LEMMA PowerLossStep == IndInv /\ PowerLoss => IndInv'
<1> SUFFICES ASSUME IndInv, PowerLoss PROVE IndInv'
  OBVIOUS
<1> USE RestartAssumption DEF IndInv
<1>1. stage' = "idle" /\ UNCHANGED <<gen, step, voted, durable>>
  BY DEF PowerLoss
<1>2. ASSUME NEW p \in [Gens -> PlaceNames], NEW f \in [Gens -> SUBSET Files],
             NEW c \in 0 .. MaxWrites, Restored(p, c, f),
             pointers' \in SUBSET pointers, root' \in BOOLEAN,
             c # 0 => c \in Gens /\ c <= gen /\ p[c] = "final" /\ f[c] = Files,
             \A g \in Gens : gen < g => p[g] = "absent",
             ~Fresh => root' /\ durable <= c
      PROVE  IndInv'
  <2>1. /\ place' = p /\ places' = [g \in Gens |-> {p[g]}]
        /\ current' = c /\ currents' = {c} /\ files' = f /\ sure' = f
    BY <1>2 DEF Restored
  <2>2. \A g \in Gens : places'[g] = {p[g]}
    BY <2>1
  <2>3. TypeOK'
    <3>1. places' \in [Gens -> SUBSET PlaceNames]
      BY <1>2, <2>1
    <3> QED BY <1>1, <1>2, <2>1, <3>1 DEF TypeOK, StageNames
  <2>4. DiskOK' /\ CurrentsComplete'
    BY <1>1, <1>2, <2>1, <2>2 DEF DiskOK, CurrentsComplete
  <2>5. GenerationSecured' /\ PendingOwned'
    <3>1. \A g \in Gens : gen' < g => places'[g] = {"absent"}
      BY <1>1, <1>2, <2>2
    <3> QED BY <1>1, <3>1 DEF GenerationSecured, PendingOwned
  <2>6. DurableReached'
    BY <1>1, <1>2, <2>1 DEF DurableReached
  <2> QED BY <1>1, <2>3, <2>4, <2>5, <2>6
<1>3. CASE \E p \in {q \in [Gens -> PlaceNames] :
                       \A g \in Gens : q[g] \in places[g]},
             f \in {h \in [Gens -> SUBSET Files] :
                       \A g \in Gens : sure[g] \subseteq h[g] /\ h[g] \subseteq files[g]},
             c \in currents :
            Restored(p, c, f) /\ pointers' \in SUBSET pointers /\ root' = TRUE
  <2>1. PICK p \in [Gens -> PlaceNames], f \in [Gens -> SUBSET Files],
             c \in currents :
          /\ \A g \in Gens : p[g] \in places[g]
          /\ \A g \in Gens : sure[g] \subseteq f[g]
          /\ Restored(p, c, f) /\ pointers' \in SUBSET pointers /\ root' = TRUE
    BY <1>3
  <2>2. c \in 0 .. MaxWrites
    BY DEF TypeOK
  <2>3. c # 0 => c \in Gens /\ c <= gen /\ p[c] = "final" /\ f[c] = Files
    <3> SUFFICES ASSUME c # 0
                 PROVE  c \in Gens /\ c <= gen /\ p[c] = "final" /\ f[c] = Files
      OBVIOUS
    <3>1. c \in Gens
      BY <2>2 DEF Gens
    <3>2. c <= gen /\ places[c] = {"final"} /\ sure[c] = Files
      BY DEF CurrentsComplete
    <3> QED BY <2>1, <3>1, <3>2
  <2>4. \A g \in Gens : gen < g => p[g] = "absent"
    BY <2>1 DEF GenerationSecured
  <2>5. ~Fresh => root' /\ durable <= c
    BY <2>1 DEF DurableReached
  <2> QED BY <1>2, <2>1, <2>2, <2>3, <2>4, <2>5
<1>4. CASE /\ ~root
           /\ Restored([g \in Gens |-> "absent"], 0, [g \in Gens |-> {}])
           /\ pointers' = {}
           /\ root' = root
  <2> DEFINE p == [g \in Gens |-> "absent"]
             f == [g \in Gens |-> {}]
  <2>1. p \in [Gens -> PlaceNames] /\ f \in [Gens -> SUBSET Files]
    BY DEF PlaceNames
  <2>2. 0 \in 0 .. MaxWrites /\ pointers' \in SUBSET pointers /\ root' \in BOOLEAN
    BY <1>4 DEF TypeOK
  <2>3. \A g \in Gens : gen < g => p[g] = "absent"
    OBVIOUS
  <2>4. Fresh
    BY <1>4 DEF DurableReached
  <2>5. Restored(p, 0, f)
    BY <1>4
  <2> HIDE DEF p, f
  <2> QED BY <1>2, <2>1, <2>2, <2>3, <2>4, <2>5
<1> QED BY <1>3, <1>4 DEF PowerLoss

\* No action, and no step that changes nothing, leaves the invariant.
LEMMA Step == IndInv /\ [Next]_vars => IndInv'
<1> SUFFICES ASSUME IndInv, [Next]_vars PROVE IndInv'
  OBVIOUS
<1>1. CASE Sweep            BY <1>1, SweepStep
<1>2. CASE CreatePending    BY <1>2, CreatePendingStep
<1>3. ASSUME NEW r \in Ranks, WriteRankFile(r) PROVE IndInv'
  BY <1>3, WriteRankFileStep
<1>4. CASE RankFilesDone    BY <1>4, RankFilesDoneStep
<1>5. CASE WriteManifest    BY <1>5, WriteManifestStep
<1>6. CASE PublishGeneration BY <1>6, PublishGenerationStep
<1>7. CASE SwitchCurrent    BY <1>7, SwitchCurrentStep
<1>8. ASSUME NEW g \in Gens, PruneOne(g) PROVE IndInv'
  BY <1>8, PruneOneStep
<1>9. CASE PruneDone        BY <1>9, PruneDoneStep
<1>10. CASE Kill            BY <1>10, KillStep
<1>11. CASE PowerLoss       BY <1>11, PowerLossStep
<1>12. CASE UNCHANGED vars
  BY <1>12 DEF vars, IndInv, TypeOK, DiskOK, CurrentsComplete,
               GenerationSecured, PendingOwned, DurableReached, Pending, Finals
<1> QED BY <1>1, <1>2, <1>3, <1>4, <1>5, <1>6, <1>7, <1>8, <1>9, <1>10,
           <1>11, <1>12 DEF Next

-----------------------------------------------------------------------------
\* IndInv holds at every point of every write, whatever fails or crashes.
THEOREM Invariance == Spec => []IndInv
<1>1. Init => IndInv
  BY IndInit
<1>2. IndInv /\ [Next]_vars => IndInv'
  BY Step
<1> QED BY <1>1, <1>2, PTL DEF Spec

\* load never meets a damaged checkpoint, before or after a power loss.
LoadsWhole ==
  /\ Loaded = current
  /\ Fallback = currents \cup (IF root THEN {} ELSE {0})

LEMMA Loads == IndInv => LoadsWhole
<1> SUFFICES ASSUME IndInv
             PROVE  /\ Loaded = current
                    /\ Fallback = currents \cup (IF root THEN {} ELSE {0})
  BY DEF LoadsWhole
<1> USE DEF IndInv
<1>1. \A c \in currents \ {0} : /\ c \in Gens
                                /\ places[c] = {"final"} /\ sure[c] = Files
                                /\ place[c] = "final" /\ files[c] = Files
  <2> SUFFICES ASSUME NEW c \in currents \ {0}
               PROVE  /\ c \in Gens
                      /\ places[c] = {"final"} /\ sure[c] = Files
                      /\ place[c] = "final" /\ files[c] = Files
    OBVIOUS
  <2>1. c \in Gens
    BY RestartAssumption DEF TypeOK, Gens
  <2>2. places[c] = {"final"} /\ sure[c] = Files
    BY DEF CurrentsComplete
  <2> QED BY <2>1, <2>2 DEF DiskOK, TypeOK
<1>2. Loaded = current
  BY <1>1 DEF Loaded, DiskOK
<1>3. \A c \in currents : Surviving(c) = c
  BY <1>1 DEF Surviving
<1>4. {Surviving(c) : c \in currents} = currents
  BY <1>3
<1> QED BY <1>2, <1>4 DEF Fallback

\* ... nor after a step.
LEMMA LoadsNext == IndInv' => LoadsWhole'
BY Loads, PTL

\* What write reported durable stays available, if the restart directory was
\* there before the first write.
THEOREM DurableSafe == ASSUME ~Fresh PROVE Spec => []DurableKept
<1>1. IndInv => DurableKept
  <2> SUFFICES ASSUME IndInv PROVE durable <= Loaded
    BY DEF DurableKept
  <2> QED BY Loads DEF LoadsWhole, IndInv, DurableReached, DiskOK
<1> QED BY <1>1, Invariance, PTL

\* A write without a warning leaves at most KeepLast generations, its own
\* among them, and no leftovers.
THEOREM RetentionHolds == Spec => []Retention
<1>1. IndInv => Retention
  <2> SUFFICES ASSUME IndInv, stage = "clean"
               PROVE  /\ Cardinality(Finals) <= KeepLast
                      /\ gen \in Finals /\ Loaded = gen
                      /\ Pending = {} /\ pointers = {}
    BY DEF Retention
  <2>1. gen \in Gens /\ currents = {gen} /\ current = gen
    BY DEF IndInv, GenerationSecured, DiskOK
  <2>2. places[gen] = {"final"}
    BY <2>1, RestartAssumption DEF IndInv, CurrentsComplete, Gens
  <2>3. gen \in Finals
    BY <2>1, <2>2 DEF Finals, IndInv, DiskOK
  <2>4. Pending = {} /\ pointers = {}
    BY DEF IndInv, PendingOwned
  <2> QED BY <2>1, <2>3, <2>4, Loads DEF LoadsWhole, IndInv
<1> QED BY <1>1, Invariance, PTL

-----------------------------------------------------------------------------
(***************************************************************************)
(* The steps of write are steps of CheckpointStore.                        *)
(***************************************************************************)
\* As long as current is not changed, the store can only harden.
LEMMA Hardens ==
  ASSUME IndInv, IndInv', current' = current, root' = root,
         currents' \subseteq currents
  PROVE  CS!Harden
<1>1. /\ Loaded = current
      /\ Fallback = currents \cup (IF root THEN {} ELSE {0})
  BY Loads DEF LoadsWhole
<1>2. IndInv' => /\ Loaded' = current'
                 /\ Fallback' = currents' \cup (IF root' THEN {} ELSE {0})
  BY LoadsNext DEF LoadsWhole
<1>3. Loaded' = Loaded
  BY <1>1, <1>2
<1>4. Fallback' \in SUBSET Fallback /\ Loaded \in Fallback'
  <2>1. current' \in currents'
    BY DEF IndInv, DiskOK
  <2> QED BY <1>1, <1>2, <2>1
<1> QED BY <1>3, <1>4 DEF CS!Harden

\* A change of the restart directory that is not one of current.
LEMMA DirectoryHardens ==
  ASSUME IndInv, IndInv', NEW p, NEW synced \in BOOLEAN,
         Directory(p, current, synced), root' = root
  PROVE  CS!Harden
<1>1. current' = current /\ currents' \subseteq currents
  BY DEF Directory, IndInv, DiskOK
<1> QED BY <1>1, Hardens

\* The rename of current publishes the generation of the write.
LEMMA SwitchPublishes ==
  ASSUME IndInv, IndInv', SwitchCurrent
  PROVE  CS!Harden \/ (CS!Publish(gen) /\ gen \in Gens)
<1>1. PICK written \in BOOLEAN, renamed \in BOOLEAN, synced \in BOOLEAN :
        /\ synced => renamed
        /\ Directory(place, IF renamed THEN gen ELSE current, synced)
  BY DEF SwitchCurrent
<1>2. root' = root /\ gen \in Gens /\ \A c \in currents : c < gen
  BY DEF SwitchCurrent, IndInv, GenerationSecured
<1>3. CASE ~renamed
  BY <1>1, <1>2, <1>3, DirectoryHardens
<1>4. CASE renamed
  <2>1. current' = gen /\ currents' \subseteq currents \cup {gen}
    BY <1>1, <1>4 DEF Directory
  <2>2. /\ Loaded = current
        /\ Fallback = currents \cup (IF root THEN {} ELSE {0})
    BY Loads DEF LoadsWhole
  <2>3. IndInv' => /\ Loaded' = current'
                   /\ Fallback' = currents' \cup (IF root' THEN {} ELSE {0})
    BY LoadsNext DEF LoadsWhole
  <2>4. Loaded' = gen /\ gen \in Fallback'
    <3>1. current' \in currents'
      BY DEF IndInv, DiskOK
    <3> QED BY <2>1, <2>3, <3>1
  <2>5. Loaded < gen /\ \A f \in Fallback : f < gen
    <3>1. current \in currents /\ 0 < gen
      BY <1>2, RestartAssumption DEF IndInv, DiskOK, Gens
    <3> QED BY <1>2, <2>2, <3>1
  <2>6. Fallback' = (Fallback' \ {gen}) \cup {gen}
    BY <2>4
  <2>7. Fallback' \ {gen} \in SUBSET Fallback
    BY <1>2, <2>1, <2>2, <2>3
  <2>8. \E old \in SUBSET Fallback : Fallback' = old \cup {gen}
    BY <2>6, <2>7
  <2> QED BY <1>2, <2>4, <2>5, <2>8 DEF CS!Publish
<1> QED BY <1>3, <1>4

\* A power loss falls back to something that is there for good.
LEMMA PowerLossCrashes ==
  ASSUME IndInv, IndInv', PowerLoss
  PROVE  CS!Crash
<1>1. Fallback = currents \cup (IF root THEN {} ELSE {0})
  BY Loads DEF LoadsWhole
<1>2. IndInv' => /\ Loaded' = current'
                 /\ Fallback' = currents' \cup (IF root' THEN {} ELSE {0})
  BY LoadsNext DEF LoadsWhole
<1>3. CASE \E p \in {q \in [Gens -> PlaceNames] :
                       \A g \in Gens : q[g] \in places[g]},
             f \in {h \in [Gens -> SUBSET Files] :
                       \A g \in Gens : sure[g] \subseteq h[g] /\ h[g] \subseteq files[g]},
             c \in currents :
            Restored(p, c, f) /\ pointers' \in SUBSET pointers /\ root' = TRUE
  <2>1. PICK c \in currents : current' = c /\ currents' = {c} /\ root' = TRUE
    BY <1>3 DEF Restored
  <2> QED BY <1>1, <1>2, <2>1 DEF CS!Crash
<1>4. CASE ~root /\ root' = root /\ current' = 0 /\ currents' = {0}
  BY <1>1, <1>2, <1>4 DEF CS!Crash
<1> QED BY <1>3, <1>4 DEF PowerLoss, Restored

\* Every behaviour of the writer, with every kill and power loss, is one of
\* the checkpoint store.
THEOREM RestartImplementsStore == Spec => ImplementsCheckpointStore
<1>1. Init => CS!Init
  <2> SUFFICES ASSUME Init PROVE Loaded = 0 /\ Fallback = {0}
    BY DEF CS!Init
  <2>1. current = 0 /\ currents = {0}
    BY DEF Init
  <2> QED BY <2>1, IndInit, Loads DEF LoadsWhole
<1>2. IndInv /\ IndInv' /\ [Next]_vars => [CS!Next]_<<Loaded, Fallback>>
  <2> SUFFICES ASSUME IndInv, IndInv', [Next]_vars
               PROVE  CS!Harden \/ CS!Crash \/ \E c \in Gens : CS!Publish(c)
    BY DEF CS!Next
  <2>1. CASE Sweep
    BY <2>1, DirectoryHardens DEF Sweep
  <2>2. CASE CreatePending
    BY <2>2, DirectoryHardens DEF CreatePending
  <2>3. CASE PublishGeneration
    BY <2>3, DirectoryHardens DEF PublishGeneration
  <2>4. CASE SwitchCurrent
    BY <2>4, SwitchPublishes
  <2>5. CASE \E g \in Gens : PruneOne(g)
    <3>1. FALSE \in BOOLEAN
      OBVIOUS
    <3> QED BY <2>5, <3>1, DirectoryHardens DEF PruneOne
  <2>6. CASE PruneDone
    BY <2>6, DirectoryHardens DEF PruneDone
  <2>7. CASE PowerLoss
    BY <2>7, PowerLossCrashes
  <2>8. CASE UNCHANGED <<current, currents, root>>
    BY <2>8, Hardens
  <2>9. CASE \/ \E r \in Ranks : WriteRankFile(r)
             \/ RankFilesDone \/ WriteManifest \/ Kill \/ UNCHANGED vars
    <3>1. UNCHANGED <<current, currents, root>>
      BY <2>9 DEF WriteRankFile, RankFilesDone, WriteManifest, Kill, vars
    <3> QED BY <2>8, <3>1
  <2> QED BY <2>1, <2>2, <2>3, <2>4, <2>5, <2>6, <2>7, <2>9 DEF Next
<1> QED BY <1>1, <1>2, Invariance, PTL DEF Spec, ImplementsCheckpointStore, CS!Spec
=============================================================================
