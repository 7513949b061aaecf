------------------------- MODULE RestartPublication --------------------------
(***************************************************************************)
(* RestartWriter::write on one restart directory, with I/O errors, killed  *)
(* jobs and power losses.                                                  *)
(*                                                                         *)
(* The ranks go through the stages of write together: each stage ends in a *)
(* collective that all ranks leave with the same status.  Only rank files  *)
(* are written by every rank; all other work is done by rank 0.            *)
(*                                                                         *)
(* The disk is what is visible now and what a power loss may leave of it.  *)
(* A change of a directory entry may or may not survive until the          *)
(* directory is synced; a rename is atomic.  A call and the sync that      *)
(* follows it are one action with the outcomes not done, done and not      *)
(* synced, done and synced: stopping between the two is the second outcome.*)
(***************************************************************************)
EXTENDS Integers, FiniteSets

CONSTANTS
  Ranks,
  Manifest,   \* the file manifest.bin
  MaxWrites,  \* bound on the calls of write
  Steps,      \* accepted steps of the snapshots
  KeepLast,   \* options.keep_last
  Fresh       \* the first write creates the restart directory

ASSUME RestartAssumption ==
  /\ IsFiniteSet(Ranks) /\ Manifest \notin Ranks
  /\ MaxWrites \in Nat
  /\ Steps \subseteq Nat
  /\ KeepLast \in Nat \ {0}
  /\ Fresh \in BOOLEAN

Gens  == 1 .. MaxWrites           \* generation names, by time of writing
Files == Ranks \cup {Manifest}    \* files of a complete generation

VARIABLES
  stage,     \* how far the current call of write has come
  gen,       \* the generation it writes
  step,      \* accepted step in the name of a generation
  voted,     \* what each rank brings to the collective of the rank files
  place,     \* under which name a generation's directory is visible
  places,    \* ... and may be found after a power loss
  files,     \* the files in it
  sure,      \* ... that certainly survive a power loss
  current,   \* the generation that the file current names, 0 if none
  currents,  \* ... and may name after a power loss
  pointers,  \* generations with a file current-...-pending
  root,      \* the restart directory itself survives a power loss
  durable    \* the last generation that write reported durable

vars == <<stage, gen, step, voted, place, places, files, sure, current,
          currents, pointers, root, durable>>

StageNames == {"idle", "create", "files", "manifest", "publish", "switch",
               "prune", "clean"}
PlaceNames == {"absent", "pending", "final"}

Pending == {g \in Gens : place[g] = "pending"}
Finals  == {g \in Gens : place[g] = "final"}

Init ==
  /\ stage = "idle"
  /\ gen = 0
  /\ step \in [Gens -> Steps]
  /\ voted = [r \in Ranks |-> "none"]
  /\ place = [g \in Gens |-> "absent"]
  /\ places = [g \in Gens |-> {"absent"}]
  /\ files = [g \in Gens |-> {}]
  /\ sure = [g \in Gens |-> {}]
  /\ current = 0
  /\ currents = {0}
  /\ pointers = {}
  /\ root = ~Fresh
  /\ durable = 0

\* The restart directory shows p and c, and was synced or not.
Directory(p, c, synced) ==
  /\ place' = p
  /\ current' = c
  /\ IF synced
     THEN /\ places' = [g \in Gens |-> {p[g]}]
          /\ currents' = {c}
     ELSE /\ places' = [g \in Gens |-> places[g] \cup {p[g]}]
          /\ currents' = currents \cup {c}

Continue(ok, next) == stage' = IF ok THEN next ELSE "idle"

-----------------------------------------------------------------------------
(***************************************************************************)
(* The stages of write.  A write that fails leaves the disk as it is.      *)
(***************************************************************************)
\* Mutant of Sweep: what is left of failed writes stays.
SweepNothing ==
  /\ stage \in {"idle", "clean"} /\ gen < MaxWrites
  /\ gen' = gen + 1
  /\ Directory(place, current, TRUE)
  /\ Continue(TRUE, "create")
  /\ UNCHANGED <<step, voted, files, sure, pointers, root, durable>>

\* create_directories, which syncs no parent, and remove_stale_pending.  A
\* pending directory that stays is never renamed: what is in it is not told.
Sweep ==
  /\ stage \in {"idle", "clean"} /\ gen < MaxWrites
  /\ gen' = gen + 1
  /\ \E swept \in SUBSET Pending, left \in SUBSET pointers,
        synced \in BOOLEAN :
       /\ synced => swept = Pending /\ left = {}
       /\ Directory([g \in Gens |-> IF g \in swept THEN "absent"
                                    ELSE place[g]], current, synced)
       /\ pointers' = left
       /\ Continue(synced, "create")
  /\ UNCHANGED <<step, voted, files, sure, root, durable>>

CreatePending ==
  /\ stage = "create"
  /\ \E made, synced \in BOOLEAN :
       /\ synced => made
       /\ Directory(IF made THEN [place EXCEPT ![gen] = "pending"] ELSE place,
                    current, synced)
       /\ Continue(synced, "files")
  /\ voted' = [r \in Ranks |-> "none"]
  /\ UNCHANGED <<gen, step, files, sure, pointers, root, durable>>

\* write_file_sync of a rank's block and its readback.
WriteRankFile(r) ==
  /\ stage = "files" /\ voted[r] = "none"
  /\ \E stored, ok \in BOOLEAN :
       /\ ok => stored
       /\ files' = IF stored THEN [files EXCEPT ![gen] = @ \cup {r}] ELSE files
       /\ voted' = [voted EXCEPT ![r] = IF ok THEN "ok" ELSE "failed"]
  /\ UNCHANGED <<stage, gen, step, place, places, sure, current, currents,
                 pointers, root, durable>>

\* The collective that ends the stage of the rank files.
RankFilesDone ==
  /\ stage = "files" /\ \A r \in Ranks : voted[r] # "none"
  /\ Continue(\A r \in Ranks : voted[r] = "ok", "manifest")
  /\ UNCHANGED <<gen, step, voted, place, places, files, sure, current,
                 currents, pointers, root, durable>>

\* Mutant of WriteManifest: the pending directory is not synced.
WriteManifestUnsynced ==
  /\ stage = "manifest"
  /\ files' = [files EXCEPT ![gen] = @ \cup {Manifest}]
  /\ Continue(TRUE, "publish")
  /\ UNCHANGED <<gen, step, voted, place, places, sure, current, currents,
                 pointers, root, durable>>

\* write_file_sync of manifest.bin and sync_directory of the pending
\* directory, which also fixes the entries of the rank files.
WriteManifest ==
  /\ stage = "manifest"
  /\ \E stored, synced \in BOOLEAN :
       /\ synced => stored
       /\ files' = IF stored THEN [files EXCEPT ![gen] = @ \cup {Manifest}]
                   ELSE files
       /\ sure' = IF synced THEN [sure EXCEPT ![gen] = files'[gen]] ELSE sure
       /\ Continue(synced, "publish")
  /\ UNCHANGED <<gen, step, voted, place, places, current, currents, pointers,
                 root, durable>>

\* publish_generation: the rename of the pending directory.
PublishGeneration ==
  /\ stage = "publish"
  /\ \E moved, synced \in BOOLEAN :
       /\ synced => moved
       /\ Directory(IF moved THEN [place EXCEPT ![gen] = "final"] ELSE place,
                    current, synced)
       /\ Continue(synced, "switch")
  /\ UNCHANGED <<gen, step, voted, files, sure, pointers, root, durable>>

\* Mutant of SwitchCurrent: a failed sync after the rename is ignored.
SwitchCurrentUnsynced ==
  /\ stage = "switch"
  /\ \E synced \in BOOLEAN : Directory(place, gen, synced)
  /\ durable' = gen
  /\ Continue(TRUE, "prune")
  /\ UNCHANGED <<gen, step, voted, files, sure, pointers, root>>

\* publish_generation: current-...-pending is written and renamed to current.
SwitchCurrent ==
  /\ stage = "switch"
  /\ \E written, renamed, synced \in BOOLEAN :
       /\ renamed => written
       /\ synced => renamed
       /\ pointers' = IF written /\ ~renamed THEN pointers \cup {gen}
                      ELSE pointers
       /\ Directory(place, IF renamed THEN gen ELSE current, synced)
       /\ durable' = IF synced THEN gen ELSE durable
       /\ Continue(synced, "prune")
  /\ UNCHANGED <<gen, step, voted, files, sure, root>>

Superfluous == Finals \ {gen}

\* Mutant of PruneOne: the generation that current names is not spared.
PruneOneAny(g) ==
  /\ stage = "prune" /\ Cardinality(Finals) > KeepLast
  /\ g \in Finals /\ \A h \in Finals : step[g] <= step[h]
  /\ files' = [files EXCEPT ![g] = {}]
  /\ sure' = [sure EXCEPT ![g] = {}]
  /\ Directory([place EXCEPT ![g] = "absent"], current, FALSE)
  /\ UNCHANGED <<stage, gen, step, voted, pointers, root, durable>>

\* prune_generations: one of the generations of the lowest step goes, file by
\* file; generations of one step are ranked by a clock that a reboot resets.
PruneOne(g) ==
  /\ stage = "prune" /\ Cardinality(Finals) > KeepLast
  /\ g \in Superfluous /\ \A h \in Superfluous : step[g] <= step[h]
  /\ \E removed \in BOOLEAN, left \in SUBSET files[g] :
       /\ removed => left = {}
       /\ files' = [files EXCEPT ![g] = left]
       /\ sure' = [sure EXCEPT ![g] = @ \cap left]
       /\ Directory(IF removed THEN [place EXCEPT ![g] = "absent"] ELSE place,
                    current, FALSE)
       /\ Continue(removed, "prune")
  /\ UNCHANGED <<gen, step, voted, pointers, root, durable>>

\* prune_generations returns; a failed sync is only a warning.
PruneDone ==
  /\ stage = "prune"
  /\ Cardinality(Finals) <= KeepLast \/ Superfluous = {}
  /\ \E synced \in BOOLEAN : /\ Directory(place, current, synced)
                             /\ Continue(synced, "clean")
  /\ UNCHANGED <<gen, step, voted, files, sure, pointers, root, durable>>

-----------------------------------------------------------------------------
\* The job is killed, a rank loses a collective and the run ends, or the
\* directory cannot be listed for pruning.
Kill ==
  /\ stage \notin {"idle", "clean"}
  /\ stage' = "idle"
  /\ UNCHANGED <<gen, step, voted, place, places, files, sure, current,
                 currents, pointers, root, durable>>

\* What is on the disk when the machine is back is durable.
Restored(p, c, f) ==
  /\ place' = p /\ places' = [g \in Gens |-> {p[g]}]
  /\ current' = c /\ currents' = {c}
  /\ files' = f /\ sure' = f

PowerLoss ==
  /\ stage' = "idle"
  /\ \/ \E p \in {q \in [Gens -> PlaceNames] :
                     \A g \in Gens : q[g] \in places[g]},
           f \in {h \in [Gens -> SUBSET Files] :
                     \A g \in Gens : sure[g] \subseteq h[g] /\ h[g] \subseteq files[g]},
           c \in currents :
          /\ Restored(p, c, f)
          /\ pointers' \in SUBSET pointers
          /\ root' = TRUE
     \/ /\ ~root
        /\ Restored([g \in Gens |-> "absent"], 0, [g \in Gens |-> {}])
        /\ pointers' = {}
        /\ root' = root
  /\ UNCHANGED <<gen, step, voted, durable>>

Next ==
  \/ Sweep \/ CreatePending
  \/ \E r \in Ranks : WriteRankFile(r)
  \/ RankFilesDone \/ WriteManifest \/ PublishGeneration \/ SwitchCurrent
  \/ \E g \in Gens : PruneOne(g)
  \/ PruneDone \/ Kill \/ PowerLoss

Spec == Init /\ [][Next]_vars

-----------------------------------------------------------------------------
(***************************************************************************)
(* RestartReader::load.                                                    *)
(***************************************************************************)
Corrupt == -1

\* What load returns now, and what it returns after a power loss that leaves
\* the name c in current.
Loaded ==
  IF current = 0 THEN 0
  ELSE IF place[current] = "final" /\ files[current] = Files THEN current
  ELSE Corrupt

Surviving(c) ==
  IF c = 0 THEN 0
  ELSE IF places[c] = {"final"} /\ sure[c] = Files THEN c
  ELSE Corrupt

Fallback == {Surviving(c) : c \in currents} \cup (IF root THEN {} ELSE {0})

CS == INSTANCE CheckpointStore WITH
        Checkpoints <- Gens, held <- Loaded, fallback <- Fallback

-----------------------------------------------------------------------------
(***************************************************************************)
(* Properties.                                                             *)
(***************************************************************************)
\* The variables have their types.
TypeOK ==
  /\ stage \in StageNames
  /\ gen \in 0 .. MaxWrites
  /\ step \in [Gens -> Steps]
  /\ voted \in [Ranks -> {"none", "ok", "failed"}]
  /\ place \in [Gens -> PlaceNames]
  /\ places \in [Gens -> SUBSET PlaceNames]
  /\ files \in [Gens -> SUBSET Files]
  /\ sure \in [Gens -> SUBSET Files]
  /\ current \in 0 .. MaxWrites
  /\ currents \in SUBSET (0 .. MaxWrites)
  /\ pointers \in SUBSET Gens
  /\ root \in BOOLEAN
  /\ durable \in 0 .. MaxWrites

\* What is visible now may also be found after a power loss.
DiskOK ==
  /\ \A g \in Gens : place[g] \in places[g] /\ sure[g] \subseteq files[g]
  /\ current \in currents

\* Whatever current may name is complete on the disk for good.
CurrentsComplete ==
  \A c \in currents \ {0} : /\ c <= gen
                            /\ places[c] = {"final"}
                            /\ sure[c] = Files

\* How much of its generation a write has secured at each stage.
GenerationSecured ==
  /\ \A g \in Gens : gen < g => places[g] = {"absent"}
  /\ stage # "idle" => gen \in Gens
  /\ stage \in {"create", "files", "manifest", "publish", "switch"} =>
       \A c \in currents : c < gen
  /\ stage \in {"files", "manifest", "publish"} => places[gen] = {"pending"}
  /\ stage = "files" => \A r \in Ranks : voted[r] = "ok" => r \in files[gen]
  /\ stage = "manifest" => Ranks \subseteq files[gen]
  /\ stage = "publish" => sure[gen] = Files
  /\ stage = "switch" => places[gen] = {"final"} /\ sure[gen] = Files
  /\ stage \in {"prune", "clean"} => currents = {gen}

\* Only the current write has a pending directory.
PendingOwned ==
  stage # "idle" =>
    /\ pointers = {}
    /\ Pending = IF stage \in {"files", "manifest", "publish"} THEN {gen}
                 ELSE {}

\* A generation that was reported durable is never behind current.
DurableReached ==
  /\ durable <= gen
  /\ ~Fresh => root /\ \A c \in currents : durable <= c

\* The conjunction is inductive.
IndInv ==
  /\ TypeOK /\ DiskOK /\ CurrentsComplete /\ GenerationSecured
  /\ PendingOwned /\ DurableReached
  /\ stage = "clean" => Cardinality(Finals) <= KeepLast

\* At any time, and after any kill or power loss at any point of any write,
\* load returns a complete checkpoint, and never one older than the last that
\* is secured.
ImplementsCheckpointStore == CS!Spec

\* RestartPublicationState::durable is true: from then on load returns this
\* checkpoint or a later one.
DurableKept == durable # 0 => durable <= Loaded

\* A write that ended without a warning leaves the generations it was asked
\* to keep, its own among them, and nothing of any failed write.
Retention ==
  stage = "clean" =>
    /\ Cardinality(Finals) <= KeepLast
    /\ gen \in Finals /\ Loaded = gen
    /\ Pending = {} /\ pointers = {}
=============================================================================
