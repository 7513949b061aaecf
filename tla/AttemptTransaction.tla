------------------------- MODULE AttemptTransaction -------------------------
(***************************************************************************)
(* The two-phase finish of one time-step attempt: class AttemptTransaction *)
(* with the StateLayers it revises and the FinalFaceFluxWriter it is bound *)
(* to, on every MPI rank.  Rank-local calls interleave freely; the only    *)
(* synchronisation is the MPI_Allreduce / MPI_Bcast of collective_prepare. *)
(*                                                                         *)
(* Data are abstracted to revisions.  A cache is represented by the        *)
(* dependency certificate it was published with: a function giving the     *)
(* revision of each source it was computed from, 0 where it does not       *)
(* depend on the source (the code refuses revision 0 and an empty list).   *)
(***************************************************************************)
EXTENDS Integers, FiniteSets

CONSTANTS
  NumRanks,        \* size of the communicator
  NumFields,       \* state_layer fields, identified 1..NumFields
  NumSources,      \* revision sources: the fields, then external ones
  SourceCapacity,  \* revision_source_capacity of the dependency catalog
  Slots,           \* revision slots of the pending caches
  FluxSlot,        \* the slot claimed by the final face-flux writer
  MaxRevision,     \* numeric_limits<RevisionToken>::max()
  ExternalBound,   \* bound on the revisions of external sources
  AttemptBound,    \* bound on the attempts of one rank
  MutationBound    \* bound on the mutations of one attempt

ASSUME ConstantsAssumption ==
  /\ NumRanks \in Nat \ {0}
  /\ NumFields \in Nat \ {0}
  /\ NumSources \in Nat /\ NumFields <= NumSources
  /\ SourceCapacity \in Nat /\ NumFields <= SourceCapacity
  /\ FluxSlot \in Slots
  /\ MaxRevision \in Nat /\ 3 * NumFields < MaxRevision
  /\ ExternalBound \in Nat
  /\ AttemptBound \in Nat
  /\ MutationBound \in Nat

Ranks    == 0 .. NumRanks - 1
Fields   == 1 .. NumFields
Sources  == 1 .. NumSources
Replicas == 0 .. 2
Roles    == {"accepted", "previous", "trial"}

(***************************************************************************)
(* StatusCode, reduced to what the finish distinguishes: numerical_failure *)
(* and rejected_step may be retried, every other failure is fatal.         *)
(***************************************************************************)
Codes    == {"ok", "retry", "fatal"}

NoCache  == [s \in Sources |-> 0]
Published(c) == \E s \in Sources : c[s] # 0

VARIABLES
  \* StateLayers
  handle,     \* role_handles_: the replica that plays each role
  rev,        \* revisions_: revision of each field in each replica
  nextRev,    \* next_revision_
  \* AttemptTransaction
  active,     \* active_
  finish,     \* finished_ / committed_: "open", "committed", "discarded"
  status,     \* attempt_status_
  attempt,    \* attempt_identity_
  mutation,   \* mutation_revision_
  catalog,    \* dependency_catalog_: bound revision per source, 0 if unbound
  revised,    \* revised_fields_
  pending,    \* pending_caches_ with their recorded dependencies
  cache,      \* active_caches_
  \* FinalFaceFluxWriter
  writer,     \* "none" (never claimed), "attached", "lost" (destroyed)
  lease,      \* "none", "open", "published", "dead" (its storage is gone)
  \* PreparedAttemptFinish
  cert,
  \* the collective
  contrib,    \* status contributed by each rank that is in the collective
  arrived,    \* ranks waiting in the collective
  released,   \* ranks whose collective is complete but has not returned yet
  votes,      \* contributions of the last complete collective
  verdict     \* its result: selected status and rank

layerVars  == <<handle, rev, nextRev>>
dataVars   == <<catalog, revised, pending>>
writerVars == <<writer, lease>>
mpiVars    == <<contrib, arrived, released, votes, verdict>>
vars == <<handle, rev, nextRev, active, finish, status, attempt, mutation,
          catalog, revised, pending, cache, writer, lease, cert,
          contrib, arrived, released, votes, verdict>>

NoCert == [live |-> FALSE, accept |-> FALSE, attempt |-> 0, mutation |-> 0,
           writer |-> "none", active |-> FALSE]

Certificates == [live : BOOLEAN, accept : BOOLEAN, attempt : Nat,
                 mutation : Nat, writer : {"none", "attached", "lost"},
                 active : BOOLEAN]

\* StateLayers::allocate numbers the three replicas of each field in turn and
\* starts with replicas 0, 1, 2 as accepted, previous and trial.
Init ==
  /\ handle = [r \in Ranks |-> [o \in Roles |->
                CASE o = "accepted" -> 0 [] o = "previous" -> 1
                  [] o = "trial" -> 2]]
  /\ rev = [r \in Ranks |-> [p \in Replicas |->
                [f \in Fields |-> 3 * (f - 1) + p + 1]]]
  /\ nextRev = [r \in Ranks |-> 3 * NumFields + 1]
  /\ active = [r \in Ranks |-> FALSE]
  /\ finish = [r \in Ranks |-> "open"]
  /\ status = [r \in Ranks |-> "ok"]
  /\ attempt = [r \in Ranks |-> 0]
  /\ mutation = [r \in Ranks |-> 0]
  /\ catalog = [r \in Ranks |-> NoCache]
  /\ revised = [r \in Ranks |-> {}]
  /\ pending = [r \in Ranks |-> [s \in Slots |-> NoCache]]
  /\ cache = [r \in Ranks |-> [s \in Slots |-> NoCache]]
  /\ writer = [r \in Ranks |-> "none"]
  /\ lease = [r \in Ranks |-> "none"]
  /\ cert = [r \in Ranks |-> NoCert]
  /\ contrib = [r \in Ranks |-> "ok"]
  /\ arrived = {}
  /\ released = {}
  /\ votes = [r \in Ranks |-> "ok"]
  /\ verdict = [code |-> "ok", rank |-> 0]

-----------------------------------------------------------------------------
(***************************************************************************)
(* Helpers.                                                                *)
(***************************************************************************)
\* A rank inside a blocking MPI call executes nothing else.
Running(r) == r \notin arrived \cup released

\* advance_mutation_revision
Advance(r, n) == mutation' = [mutation EXCEPT ![r] = @ + n]

\* Mutant of Poison: the failure is latched without advancing the mutation
\* revision.
PoisonUncounted(r) ==
  /\ status' = [status EXCEPT ![r] = "fatal"]
  /\ UNCHANGED mutation

\* A failure latched into the attempt: every later call returns it and the
\* collective reports it.
Poison(r) ==
  /\ status' = [status EXCEPT ![r] = "fatal"]
  /\ Advance(r, 1)

\* Calls that check "active and not yet failed" before they do anything.
Usable(r) == Running(r) /\ active[r] /\ status[r] = "ok"
             /\ mutation[r] < MutationBound

\* Mutant of Trial: the previous level is written instead of the trial one.
TrialOnPrevious(r) == handle[r]["previous"]

Trial(r)    == handle[r]["trial"]
Accepted(r) == handle[r]["accepted"]

\* Mutant of Matches: the mutation revision is not compared.
MatchesAttempt(r) ==
  /\ cert[r].live
  /\ cert[r].attempt = attempt[r]
  /\ cert[r].writer = writer[r]
  /\ cert[r].active = active[r]

\* matches_prepared
Matches(r) ==
  /\ cert[r].live
  /\ cert[r].attempt = attempt[r]
  /\ cert[r].mutation = mutation[r]
  /\ cert[r].writer = writer[r]
  /\ cert[r].active = active[r]

\* Every recorded dependency is still the revision bound in the catalog.
Fresh(r, slot) ==
  \A s \in Sources : pending[r][slot][s] # 0
                       => pending[r][slot][s] = catalog[r][s]

\* required_pending_caches_: only a claimed flux slot is required.
RequiredPublished(r) ==
  writer[r] # "none" => Published(pending[r][FluxSlot])

\* FinalFaceFluxWriter::ready_for_collective
WriterReady(r) == lease[r] = "published" /\ Published(pending[r][FluxSlot])

-----------------------------------------------------------------------------
(***************************************************************************)
(* AttemptTransaction::begin.                                              *)
(***************************************************************************)
\* Begin while an attempt is active fails that attempt.
BeginActive(r) ==
  /\ Running(r) /\ active[r] /\ mutation[r] < MutationBound
  /\ Poison(r)
  /\ UNCHANGED <<layerVars, active, finish, attempt, dataVars, cache,
                 writerVars, cert, mpiVars>>

\* A new attempt.  sameLayers says whether the caller passed the layers this
\* transaction is bound to.  A failed check leaves the attempt ACTIVE and
\* failed; otherwise every state field of the trial layer gets a new revision
\* which is bound in the catalog.
Begin(r, sameLayers) ==
  /\ Running(r) /\ ~active[r] /\ attempt[r] < AttemptBound
  /\ attempt' = [attempt EXCEPT ![r] = @ + 1]
  /\ active' = [active EXCEPT ![r] = TRUE]
  /\ finish' = [finish EXCEPT ![r] = "open"]
  /\ revised' = [revised EXCEPT ![r] = {}]
  /\ pending' = [pending EXCEPT ![r] = [s \in Slots |-> NoCache]]
  /\ \/ /\ sameLayers /\ NumFields <= MaxRevision - nextRev[r]
        /\ status' = [status EXCEPT ![r] = "ok"]
        /\ mutation' = [mutation EXCEPT ![r] = 1 + NumFields]
        /\ rev' = [rev EXCEPT ![r][Trial(r)] =
                     [f \in Fields |-> nextRev[r] + f - 1]]
        /\ nextRev' = [nextRev EXCEPT ![r] = @ + NumFields]
        /\ catalog' = [catalog EXCEPT ![r] =
                         [s \in Sources |-> IF s \in Fields
                            THEN nextRev[r] + s - 1 ELSE 0]]
     \/ /\ ~(sameLayers /\ NumFields <= MaxRevision - nextRev[r])
        /\ status' = [status EXCEPT ![r] = "fatal"]
        /\ mutation' = [mutation EXCEPT ![r] = 1]
        /\ catalog' = [catalog EXCEPT ![r] = NoCache]
        /\ UNCHANGED <<rev, nextRev>>
  /\ UNCHANGED <<handle, cache, writerVars, cert, mpiVars>>

-----------------------------------------------------------------------------
(***************************************************************************)
(* Mutations of an active attempt.                                         *)
(***************************************************************************)
\* revise_trial: a new revision of one trial field; an id that is no state
\* field, or an exhausted revision counter, fails the attempt.
ReviseTrial(r, f) ==
  /\ Usable(r)
  /\ \/ /\ f \in Fields /\ nextRev[r] < MaxRevision
        /\ rev' = [rev EXCEPT ![r][Trial(r)][f] = nextRev[r]]
        /\ nextRev' = [nextRev EXCEPT ![r] = @ + 1]
        /\ revised' = [revised EXCEPT ![r] = @ \cup {f}]
        /\ catalog' = [catalog EXCEPT ![r][f] = nextRev[r]]
        /\ Advance(r, 1)
        /\ UNCHANGED status
     \/ /\ ~(f \in Fields /\ nextRev[r] < MaxRevision)
        /\ Poison(r)
        /\ UNCHANGED <<rev, nextRev, revised, catalog>>
  /\ UNCHANGED <<handle, active, finish, attempt, pending, cache, writerVars,
                 cert, mpiVars>>

\* Mutant of BindDependency: off by one in the test for a full catalog.
BindDependencyOneMore(r, s, v) ==
  /\ Usable(r) /\ s \in Sources \ Fields
  /\ LET full == Cardinality({q \in Sources : catalog[r][q] # 0})
                   > SourceCapacity
         valid == v # 0 /\ (catalog[r][s] # 0 \/ ~full)
     IN \/ /\ valid
           /\ catalog' = [catalog EXCEPT ![r][s] = v]
           /\ Advance(r, 1)
           /\ UNCHANGED status
        \/ ~valid /\ Poison(r) /\ UNCHANGED catalog
  /\ UNCHANGED <<layerVars, active, finish, attempt, revised, pending, cache,
                 writerVars, cert, mpiVars>>

\* bind_dependency on a source that is not a state field: rebind it, append
\* it, or fail the attempt when the catalog is full or the revision is 0.
BindDependency(r, s, v) ==
  /\ Usable(r) /\ s \in Sources \ Fields
  /\ LET full == Cardinality({q \in Sources : catalog[r][q] # 0})
                   >= SourceCapacity
         valid == v # 0 /\ (catalog[r][s] # 0 \/ ~full)
     IN \/ /\ valid
           /\ catalog' = [catalog EXCEPT ![r][s] = v]
           /\ Advance(r, 1)
           /\ UNCHANGED status
        \/ ~valid /\ Poison(r) /\ UNCHANGED catalog
  /\ UNCHANGED <<layerVars, active, finish, attempt, revised, pending, cache,
                 writerVars, cert, mpiVars>>

\* preflight_pending_cache_impl: the slot is not published yet and every
\* dependency quotes the revision now bound in the catalog.
Publishable(r, slot, deps) ==
  /\ Published(deps)
  /\ ~Published(pending[r][slot])
  /\ \A s \in Sources : deps[s] # 0 => deps[s] = catalog[r][s]

\* publish_pending_cache: a generic publisher has writer identity 0, which a
\* claimed flux slot refuses.  A refused publication fails the attempt.
PublishPendingCache(r, slot, deps) ==
  /\ Usable(r)
  /\ LET valid == /\ slot # FluxSlot \/ writer[r] = "none"
                  /\ Publishable(r, slot, deps)
     IN \/ /\ valid
           /\ pending' = [pending EXCEPT ![r][slot] = deps]
           /\ Advance(r, 1)
           /\ UNCHANGED status
        \/ ~valid /\ Poison(r) /\ UNCHANGED pending
  /\ UNCHANGED <<layerVars, active, finish, attempt, catalog, revised, cache,
                 writerVars, cert, mpiVars>>

-----------------------------------------------------------------------------
(***************************************************************************)
(* The final face-flux writer.                                             *)
(***************************************************************************)
\* claim_final_face_flux_writer: once, outside an attempt.
ClaimWriter(r) ==
  /\ Running(r) /\ ~active[r] /\ writer[r] = "none"
  /\ writer' = [writer EXCEPT ![r] = "attached"]
  /\ UNCHANGED <<layerVars, active, finish, status, attempt, mutation,
                 dataVars, cache, lease, cert, mpiVars>>

\* FinalFaceFluxWriter::begin_pending tests that the attempt is active, not
\* that it is unfailed.
BeginPendingFlux(r) ==
  /\ Running(r) /\ active[r] /\ writer[r] = "attached" /\ lease[r] = "none"
  /\ lease' = [lease EXCEPT ![r] = "open"]
  /\ UNCHANGED <<layerVars, active, finish, status, attempt, mutation,
                 dataVars, cache, writer, cert, mpiVars>>

\* FinalFaceFluxWriter::publish_pending with a valid lease.
PublishFlux(r, deps) ==
  /\ Usable(r) /\ writer[r] = "attached" /\ lease[r] = "open"
  /\ \/ /\ Publishable(r, FluxSlot, deps)
        /\ pending' = [pending EXCEPT ![r][FluxSlot] = deps]
        /\ lease' = [lease EXCEPT ![r] = "published"]
        /\ Advance(r, 1)
        /\ UNCHANGED status
     \/ /\ ~Publishable(r, FluxSlot, deps)
        /\ Poison(r)
        /\ UNCHANGED <<pending, lease>>
  /\ UNCHANGED <<layerVars, active, finish, attempt, catalog, revised, cache,
                 writer, cert, mpiVars>>

\* invalidate_final_face_flux_writer: fails an attempt that has not failed.
Invalidate(r) ==
  \/ active[r] /\ status[r] = "ok" /\ Poison(r)
  \/ ~(active[r] /\ status[r] = "ok") /\ UNCHANGED <<status, mutation>>

\* abandon_pending_view: the pending view is destroyed before publication.
AbandonView(r) ==
  /\ Running(r) /\ lease[r] = "open" /\ mutation[r] < MutationBound
  /\ lease' = [lease EXCEPT ![r] = "none"]
  /\ Invalidate(r)
  /\ UNCHANGED <<layerVars, active, finish, attempt, dataVars, cache, writer,
                 cert, mpiVars>>

\* detach_from_storage: the flux storage is destroyed under a lease.  The
\* writer stays bound to that storage, so begin_pending refuses any other.
DetachStorage(r) ==
  /\ Running(r) /\ lease[r] \in {"open", "published"}
  /\ mutation[r] < MutationBound
  /\ lease' = [lease EXCEPT ![r] = "dead"]
  /\ Invalidate(r)
  /\ UNCHANGED <<layerVars, active, finish, attempt, dataVars, cache, writer,
                 cert, mpiVars>>

\* Mutant of DestroyWriter: the active attempt is not failed.
DestroyWriterQuietly(r) ==
  /\ Running(r) /\ writer[r] = "attached" /\ mutation[r] < MutationBound
  /\ writer' = [writer EXCEPT ![r] = "lost"]
  /\ lease' = [lease EXCEPT ![r] = "none"]
  /\ UNCHANGED <<layerVars, active, finish, status, attempt, mutation,
                 dataVars, cache, cert, mpiVars>>

\* ~FinalFaceFluxWriter through detach_final_face_flux_writer(writer, true):
\* the required slot and the writer identity survive the writer.
DestroyWriter(r) ==
  /\ Running(r) /\ writer[r] = "attached" /\ mutation[r] < MutationBound
  /\ writer' = [writer EXCEPT ![r] = "lost"]
  /\ lease' = [lease EXCEPT ![r] = "none"]
  /\ \/ active[r] /\ Poison(r)
     \/ ~active[r] /\ UNCHANGED <<status, mutation>>
  /\ UNCHANGED <<layerVars, active, finish, attempt, dataVars, cache, cert,
                 mpiVars>>

-----------------------------------------------------------------------------
(***************************************************************************)
(* collective_prepare.                                                     *)
(***************************************************************************)
\* Mutant of LocalVote: dependencies are not compared again at the finish.
LocalVoteStale(r, code) ==
  CASE ~active[r] -> "fatal"
    [] active[r] /\ status[r] # "ok" -> status[r]
    [] active[r] /\ status[r] = "ok" /\ code # "ok" -> code
    [] OTHER ->
         IF /\ writer[r] = "attached" => WriterReady(r)
            /\ RequiredPublished(r)
            /\ revised[r] = Fields
         THEN "ok" ELSE "fatal"

\* The status a rank contributes: the caller's status, overridden by the
\* failure latched in the attempt and by the completeness checks.
LocalVote(r, code) ==
  CASE ~active[r] -> "fatal"
    [] active[r] /\ status[r] # "ok" -> status[r]
    [] active[r] /\ status[r] = "ok" /\ code # "ok" -> code
    [] OTHER ->
         IF /\ writer[r] = "attached" => WriterReady(r)
            /\ RequiredPublished(r)
            /\ revised[r] = Fields
            /\ \A slot \in Slots : Fresh(r, slot)
         THEN "ok" ELSE "fatal"

\* Mutant of Severity: every failure is equally grave.
SeverityFlat(code) == IF code = "ok" THEN 1 ELSE 0

\* failure_selection_key: fatal before retryable, then the lowest rank.
Severity(code) == CASE code = "fatal" -> 0 [] code = "retry" -> 1
                    [] code = "ok" -> 2
FailureSelectionKey(r, code) == Severity(code) * NumRanks + r

Selected(v) ==
  CHOOSE q \in Ranks : \A p \in Ranks :
    FailureSelectionKey(q, v[q]) <= FailureSelectionKey(p, v[p])

\* A rank enters the reduction.  The last one to enter determines the result,
\* which every rank collects when its own call returns.
EnterPrepare(r, code) ==
  /\ Running(r) /\ ~cert[r].live
  /\ contrib' = [contrib EXCEPT ![r] = LocalVote(r, code)]
  /\ \/ /\ arrived \cup {r} = Ranks
        /\ arrived' = {}
        /\ released' = Ranks
        /\ votes' = contrib'
        /\ verdict' = [rank |-> Selected(contrib'),
                       code |-> contrib'[Selected(contrib')]]
     \/ /\ arrived \cup {r} # Ranks
        /\ arrived' = arrived \cup {r}
        /\ UNCHANGED <<released, votes, verdict>>
  /\ UNCHANGED <<layerVars, active, finish, status, attempt, mutation,
                 dataVars, cache, writerVars, cert>>

\* The certificate records the attempt as it was prepared.
LeavePrepare(r) ==
  /\ r \in released
  /\ released' = released \ {r}
  /\ cert' = [cert EXCEPT ![r] =
                [live |-> TRUE, accept |-> verdict.code = "ok",
                 attempt |-> attempt[r], mutation |-> mutation[r],
                 writer |-> writer[r], active |-> active[r]]]
  /\ UNCHANGED <<layerVars, active, finish, status, attempt, mutation,
                 dataVars, cache, writerVars, contrib, arrived, votes,
                 verdict>>

\* discard_attempt; a writer whose storage is gone stays bound to it.
Discard(r) ==
  /\ active' = [active EXCEPT ![r] = FALSE]
  /\ finish' = [finish EXCEPT ![r] = "discarded"]
  /\ pending' = [pending EXCEPT ![r] = [s \in Slots |-> NoCache]]
  /\ lease' = [lease EXCEPT ![r] = IF @ = "dead" THEN "dead" ELSE "none"]

\* An MPI call reports an error on this rank only: fail_prepare discards the
\* attempt here while other ranks may already hold their certificate.
FailPrepare(r) ==
  /\ r \in released
  /\ released' = released \ {r}
  /\ Discard(r)
  /\ UNCHANGED <<layerVars, status, attempt, mutation, catalog, revised,
                 cache, writer, cert, contrib, arrived, votes, verdict>>

-----------------------------------------------------------------------------
(***************************************************************************)
(* The rank-local second phase.  With a certificate that does not match    *)
(* both calls assert and return without changing anything.                 *)
(***************************************************************************)
\* Mutant of Rotate: the previous level is lost.
RotateSwap(h) == [h EXCEPT !["accepted"] = h["trial"],
                           !["trial"] = h["accepted"]]

\* StateLayers::rotate_commit
Rotate(h) == [h EXCEPT !["previous"] = h["accepted"],
                       !["accepted"] = h["trial"],
                       !["trial"] = h["previous"]]

CommitAccept(r) ==
  /\ Running(r) /\ Matches(r) /\ cert[r].accept /\ active[r]
  /\ cert' = [cert EXCEPT ![r] = NoCert]
  /\ cache' = [cache EXCEPT ![r] = pending[r]]
  /\ lease' = [lease EXCEPT ![r] = "none"]
  /\ handle' = [handle EXCEPT ![r] = Rotate(@)]
  /\ active' = [active EXCEPT ![r] = FALSE]
  /\ finish' = [finish EXCEPT ![r] = "committed"]
  /\ UNCHANGED <<rev, nextRev, status, attempt, mutation, dataVars, writer,
                 mpiVars>>

\* Legal for either decision: the driver also rejects an accepted attempt
\* when its time controller could not finish.
CommitReject(r) ==
  /\ Running(r) /\ Matches(r)
  /\ cert' = [cert EXCEPT ![r] = NoCert]
  /\ Discard(r)
  /\ UNCHANGED <<layerVars, status, attempt, mutation, catalog, revised,
                 cache, writer, mpiVars>>

\* The caller's PreparedAttemptFinish goes out of scope unconsumed.
DropCertificate(r) ==
  /\ Running(r) /\ cert[r].live
  /\ cert' = [cert EXCEPT ![r] = NoCert]
  /\ UNCHANGED <<layerVars, active, finish, status, attempt, mutation,
                 dataVars, cache, writerVars, mpiVars>>

-----------------------------------------------------------------------------
\* What a publisher may quote: any revision of a field, any revision that an
\* external source has had, 0 where it does not depend on the source.
Dependencies ==
  {d \in [Sources -> 0 .. MaxRevision] :
     \A s \in Sources \ Fields : d[s] <= ExternalBound}

RankNext(r) ==
  \/ BeginActive(r)
  \/ \E same \in BOOLEAN : Begin(r, same)
  \/ \E f \in 0 .. NumFields : ReviseTrial(r, f)
  \/ \E s \in Sources \ Fields, v \in 0 .. ExternalBound :
       BindDependency(r, s, v)
  \/ \E slot \in Slots, deps \in Dependencies :
       PublishPendingCache(r, slot, deps)
  \/ ClaimWriter(r)
  \/ BeginPendingFlux(r)
  \/ \E deps \in Dependencies : PublishFlux(r, deps)
  \/ AbandonView(r)
  \/ DetachStorage(r)
  \/ DestroyWriter(r)
  \/ \E code \in Codes : EnterPrepare(r, code)
  \/ LeavePrepare(r)
  \/ FailPrepare(r)
  \/ CommitAccept(r)
  \/ CommitReject(r)
  \/ DropCertificate(r)

Next == \E r \in Ranks : RankNext(r)

Spec == Init /\ [][Next]_vars

-----------------------------------------------------------------------------
(***************************************************************************)
(* Properties.                                                             *)
(***************************************************************************)
\* The variables have their types.
TypeOK ==
  /\ handle \in [Ranks -> [Roles -> Replicas]]
  /\ rev \in [Ranks -> [Replicas -> [Fields -> Nat]]]
  /\ nextRev \in [Ranks -> Nat]
  /\ active \in [Ranks -> BOOLEAN]
  /\ finish \in [Ranks -> {"open", "committed", "discarded"}]
  /\ status \in [Ranks -> {"ok", "fatal"}]
  /\ attempt \in [Ranks -> Nat]
  /\ mutation \in [Ranks -> Nat]
  /\ catalog \in [Ranks -> [Sources -> Nat]]
  /\ revised \in [Ranks -> SUBSET Fields]
  /\ pending \in [Ranks -> [Slots -> [Sources -> Nat]]]
  /\ cache \in [Ranks -> [Slots -> [Sources -> Nat]]]
  /\ writer \in [Ranks -> {"none", "attached", "lost"}]
  /\ lease \in [Ranks -> {"none", "open", "published", "dead"}]
  /\ cert \in [Ranks -> Certificates]
  /\ contrib \in [Ranks -> Codes]
  /\ arrived \in SUBSET Ranks
  /\ released \in SUBSET Ranks
  /\ votes \in [Ranks -> Codes]
  /\ verdict \in [code : Codes, rank : Ranks]

\* An attempt that may be accepted: unfailed, every state field rewritten,
\* the final face flux published, and no cache computed from a revision that
\* has been replaced since.
Complete(r) ==
  /\ active[r] /\ status[r] = "ok"
  /\ revised[r] = Fields
  /\ \A slot \in Slots : Fresh(r, slot)
  /\ RequiredPublished(r)
  /\ writer[r] = "attached" => lease[r] = "published"

\* An accept certificate that still matches its transaction certifies a
\* complete attempt, whatever the rank did between prepare and commit: every
\* call that could spoil the attempt also invalidates the certificate.
AcceptCertificateComplete ==
  \A r \in Ranks : Matches(r) /\ cert[r].accept => Complete(r)

\* A committed cache was computed from exactly the field revisions that are
\* now accepted: no sequence of revisions, publications, rejected attempts
\* and later attempts leaves a stale cache beside the accepted state.
CommittedCachesCurrent ==
  \A r \in Ranks, slot \in Slots, f \in Fields :
    cache[r][slot][f] # 0 => cache[r][slot][f] = rev[r][Accepted(r)][f]

\* The catalog never holds more sources than the vector allocated for it,
\* whatever is bound, rebound and appended within an attempt.
CatalogWithinCapacity ==
  \A r \in Ranks :
    Cardinality({q \in Sources : catalog[r][q] # 0}) <= SourceCapacity

\* The collective accepts only what every rank voted for, and a failure any
\* rank may not retry is never hidden behind a retryable one: the reported
\* failure is of the lowest rank among the gravest.
FatalFailureWins ==
  /\ verdict.code = "ok" <=> \A q \in Ranks : votes[q] = "ok"
  /\ votes[verdict.rank] = verdict.code
  /\ (\E q \in Ranks : votes[q] = "fatal") => verdict.code = "fatal"
  /\ \A q \in Ranks : q < verdict.rank => votes[q] # verdict.code

\* The step in which rank r publishes its attempt as the accepted state.
Committing(r) == finish'[r] = "committed" /\ finish[r] # "committed"

\* A destroyed face-flux writer fails closed: its rank never commits again,
\* not even an attempt whose certificate was issued before the destruction.
NoCommitAfterWriterLost ==
  [][\A r \in Ranks : Committing(r) => writer[r] # "lost"]_vars

(***************************************************************************)
(* The inductive invariant behind the safety properties.                   *)
(***************************************************************************)
\* The three roles are played by three different replicas.
RolesDistinct ==
  \A r \in Ranks, a, b \in Roles : a # b => handle[r][a] # handle[r][b]

\* Revisions in use were issued before.
RevisionsIssued ==
  \A r \in Ranks, p \in Replicas, f \in Fields : rev[r][p][f] < nextRev[r]

\* While an attempt is unfailed, the catalog quotes its trial layer, which is
\* newer than the accepted one.
TrialTracked ==
  \A r \in Ranks : active[r] /\ status[r] = "ok" =>
    \A f \in Fields : /\ catalog[r][f] = rev[r][Trial(r)][f]
                      /\ rev[r][Accepted(r)][f] < rev[r][Trial(r)][f]

\* After the writer is lost no unfailed attempt has a final face flux.
LostWriterClosed ==
  \A r \in Ranks : active[r] /\ status[r] = "ok" /\ writer[r] = "lost" =>
    ~Published(pending[r][FluxSlot])

\* A certificate is never ahead of its transaction.
CertificatesPast ==
  \A r \in Ranks : cert[r].live =>
    /\ cert[r].attempt <= attempt[r]
    /\ cert[r].attempt = attempt[r] => cert[r].mutation <= mutation[r]
    /\ cert[r].accept => cert[r].active

\* A rank that voted ok stays complete while it is blocked in the collective.
BlockedComplete ==
  /\ arrived \cap released = {}
  /\ \A r \in arrived : contrib[r] = "ok" => Complete(r)
  /\ \A r \in released : verdict.code = "ok" => Complete(r)

IndInv ==
  /\ TypeOK
  /\ RolesDistinct
  /\ RevisionsIssued
  /\ TrialTracked
  /\ LostWriterClosed
  /\ CertificatesPast
  /\ BlockedComplete
  /\ AcceptCertificateComplete
  /\ CommittedCachesCurrent

\* The committed levels move only as TimeLevels says.
Newest == [r \in Ranks |-> rev[r][handle[r]["accepted"]]]
Older  == [r \in Ranks |-> rev[r][handle[r]["previous"]]]

TL == INSTANCE TimeLevels WITH newest <- Newest, older <- Older

\* Committed time levels change only on acceptance, shift by one and are
\* strictly newer: the rotation of role_handles_ and the revision counter of
\* StateLayers implement the abstract time levels.
ImplementsTimeLevels == TL!Spec
=============================================================================
