--------------------- MODULE AttemptTransaction_proofs ----------------------
(***************************************************************************)
(* Proofs about AttemptTransaction, for every number of ranks, fields,     *)
(* sources and slots and every bound.                                      *)
(***************************************************************************)
EXTENDS AttemptTransaction, FiniteSetTheorems, WellFoundedInduction, TLAPS

USE ConstantsAssumption

(***************************************************************************)
(* The type invariant.                                                     *)
(***************************************************************************)
\* The initial state built by AttemptTransaction::create and
\* StateLayers::allocate is well typed.
LEMMA TypeInit == Init => TypeOK
<1> SUFFICES ASSUME Init PROVE TypeOK
  OBVIOUS
<1>1. handle \in [Ranks -> [Roles -> Replicas]]
  BY DEF Init, Roles, Replicas
<1>2. rev \in [Ranks -> [Replicas -> [Fields -> Nat]]]
  <2>1. \A p \in Replicas, f \in Fields : 3 * (f - 1) + p + 1 \in Nat
    BY DEF Replicas, Fields
  <2> QED BY <2>1 DEF Init
<1>3. nextRev \in [Ranks -> Nat]
  BY DEF Init
<1>4. NoCache \in [Sources -> Nat]
  BY DEF NoCache
<1>5. NoCert \in Certificates
  BY DEF NoCert, Certificates
<1>6. verdict \in [code : Codes, rank : Ranks]
  BY DEF Init, Codes, Ranks
<1> QED
  BY <1>1, <1>2, <1>3, <1>4, <1>5, <1>6 DEF Init, TypeOK, Codes

\* Every vote is a status code.
LEMMA VoteType ==
  ASSUME TypeOK, NEW r \in Ranks, NEW code \in Codes
  PROVE  LocalVote(r, code) \in Codes
BY DEF LocalVote, TypeOK, Codes

(***************************************************************************)
(* The failure selection of collective_prepare.                            *)
(***************************************************************************)
\* MPI_MIN over the selection keys has a minimiser, which is a rank.
LEMMA SelectedRank ==
  ASSUME NEW v \in [Ranks -> Codes]
  PROVE  /\ Selected(v) \in Ranks
         /\ \A p \in Ranks : FailureSelectionKey(Selected(v), v[Selected(v)])
                              <= FailureSelectionKey(p, v[p])
<1> DEFINE K(q) == FailureSelectionKey(q, v[q])
           T == {K(q) : q \in Ranks}
<1>1. \A q \in Ranks : K(q) \in Nat
  <2>1. \A q \in Ranks : Severity(v[q]) \in 0 .. 2
    BY DEF Severity, Codes
  <2> SUFFICES ASSUME NEW q \in Ranks PROVE K(q) \in Nat
    OBVIOUS
  <2>2. q \in Nat /\ Severity(v[q]) \in Nat
    BY <2>1 DEF Ranks
  <2>3. Severity(v[q]) * NumRanks \in Nat
    BY <2>2
  <2> QED BY <2>2, <2>3 DEF FailureSelectionKey
<1>2. T \subseteq Nat /\ T # {}
  BY <1>1 DEF Ranks
<1>3. PICK k \in T : \A m \in T : ~(<<m, k>> \in OpToRel(<, Nat))
  <2> HIDE DEF T
  <2> QED BY <1>2, NatLessThanWellFounded, WFMin
<1>4. \A m \in T : k <= m
  <2> SUFFICES ASSUME NEW m \in T, m < k PROVE FALSE
    BY <1>2
  <2>1. <<m, k>> \in OpToRel(<, Nat)
    <3> HIDE DEF T
    <3> QED BY <1>2, Z3 DEF OpToRel
  <2> QED BY <2>1, <1>3
<1>5. \E q \in Ranks : \A p \in Ranks : K(q) <= K(p)
  BY <1>4
<1> QED BY <1>5 DEF Selected

\* One step of one rank keeps the types.
LEMMA TypeStep == TypeOK /\ Next => TypeOK'
<1> SUFFICES ASSUME TypeOK, NEW r \in Ranks, RankNext(r) PROVE TypeOK'
  BY DEF Next
<1>0. NoCache \in [Sources -> Nat] /\ Dependencies \subseteq [Sources -> Nat]
  BY DEF NoCache, Dependencies
<1>handle. handle \in [Ranks -> [Roles -> Replicas]]
  BY DEF TypeOK
<1>rev. rev \in [Ranks -> [Replicas -> [Fields -> Nat]]]
  BY DEF TypeOK
<1>nextRev. nextRev \in [Ranks -> Nat]
  BY DEF TypeOK
<1>active. active \in [Ranks -> BOOLEAN]
  BY DEF TypeOK
<1>finish. finish \in [Ranks -> {"open", "committed", "discarded"}]
  BY DEF TypeOK
<1>status. status \in [Ranks -> {"ok", "fatal"}]
  BY DEF TypeOK
<1>attempt. attempt \in [Ranks -> Nat]
  BY DEF TypeOK
<1>mutation. mutation \in [Ranks -> Nat]
  BY DEF TypeOK
<1>catalog. catalog \in [Ranks -> [Sources -> Nat]]
  BY DEF TypeOK
<1>revised. revised \in [Ranks -> SUBSET Fields]
  BY DEF TypeOK
<1>pending. pending \in [Ranks -> [Slots -> [Sources -> Nat]]]
  BY DEF TypeOK
<1>cache. cache \in [Ranks -> [Slots -> [Sources -> Nat]]]
  BY DEF TypeOK
<1>writer. writer \in [Ranks -> {"none", "attached", "lost"}]
  BY DEF TypeOK
<1>lease. lease \in [Ranks -> {"none", "open", "published", "dead"}]
  BY DEF TypeOK
<1>cert. cert \in [Ranks -> Certificates]
  BY DEF TypeOK
<1>contrib. contrib \in [Ranks -> Codes]
  BY DEF TypeOK
<1>arrived. arrived \in SUBSET Ranks
  BY DEF TypeOK
<1>released. released \in SUBSET Ranks
  BY DEF TypeOK
<1>votes. votes \in [Ranks -> Codes]
  BY DEF TypeOK
<1>verdict. verdict \in [code : Codes, rank : Ranks]
  BY DEF TypeOK
<1>1. CASE BeginActive(r)
  <2>status. status' \in [Ranks -> {"ok", "fatal"}]
    BY <1>1, <1>status DEF BeginActive, Poison, Advance
  <2>mutation. mutation' \in [Ranks -> Nat]
    BY <1>1, <1>mutation DEF BeginActive, Poison, Advance
  <2> QED
    BY <1>1, <2>status, <2>mutation
    DEF TypeOK, BeginActive, layerVars, dataVars, writerVars, mpiVars
<1>2. CASE \E same \in BOOLEAN : Begin(r, same)
  <2>0. PICK same \in BOOLEAN : Begin(r, same)
    BY <1>2
  <2>b. \A f \in Fields : nextRev[r] + f - 1 \in Nat
    BY <1>nextRev DEF Fields
  <2>attempt. attempt' \in [Ranks -> Nat]
    BY <2>0, <1>attempt DEF Begin
  <2>active. active' \in [Ranks -> BOOLEAN]
    BY <2>0, <1>active DEF Begin
  <2>finish. finish' \in [Ranks -> {"open", "committed", "discarded"}]
    BY <2>0, <1>finish DEF Begin
  <2>revised. revised' \in [Ranks -> SUBSET Fields]
    BY <2>0, <1>revised DEF Begin
  <2>pending. pending' \in [Ranks -> [Slots -> [Sources -> Nat]]]
    BY <2>0, <1>pending, <1>0 DEF Begin
  <2>status. status' \in [Ranks -> {"ok", "fatal"}]
    BY <2>0, <1>status DEF Begin
  <2>mutation. mutation' \in [Ranks -> Nat]
    BY <2>0, <1>mutation DEF Begin
  <2>rev. rev' \in [Ranks -> [Replicas -> [Fields -> Nat]]]
    <3> DEFINE g == [f \in Fields |-> nextRev[r] + f - 1]
               layers == [rev[r] EXCEPT ![Trial(r)] = g]
    <3>1. g \in [Fields -> Nat]
      BY <2>b
    <3>2. layers \in [Replicas -> [Fields -> Nat]]
      BY <1>rev, <3>1
    <3>3. rev' = rev \/ rev' = [rev EXCEPT ![r] = layers]
      BY <2>0 DEF Begin
    <3> HIDE DEF layers
    <3> QED BY <1>rev, <3>2, <3>3
  <2>nextRev. nextRev' \in [Ranks -> Nat]
    BY <2>0, <1>nextRev DEF Begin
  <2>catalog. catalog' \in [Ranks -> [Sources -> Nat]]
    BY <2>0, <1>catalog, <1>0, <2>b DEF Begin
  <2> QED
    BY <2>0, <2>attempt, <2>active, <2>finish, <2>revised, <2>pending, <2>status, <2>mutation, <2>rev, <2>nextRev, <2>catalog
    DEF TypeOK, Begin, layerVars, dataVars, writerVars, mpiVars
<1>3. CASE \E f \in 0 .. NumFields : ReviseTrial(r, f)
  <2>0. PICK f \in 0 .. NumFields : ReviseTrial(r, f)
    BY <1>3
  <2>status. status' \in [Ranks -> {"ok", "fatal"}]
    BY <2>0, <1>status DEF ReviseTrial, Poison
  <2>mutation. mutation' \in [Ranks -> Nat]
    BY <2>0, <1>mutation DEF ReviseTrial, Poison, Advance
  <2>rev. rev' \in [Ranks -> [Replicas -> [Fields -> Nat]]]
    <3> DEFINE g == [rev[r][Trial(r)] EXCEPT ![f] = nextRev[r]]
               layers == [rev[r] EXCEPT ![Trial(r)] = g]
    <3>0. Trial(r) \in Replicas
      BY <1>handle DEF Trial, Roles
    <3>1. g \in [Fields -> Nat]
      BY <1>rev, <1>nextRev, <3>0
    <3>2. layers \in [Replicas -> [Fields -> Nat]]
      BY <1>rev, <3>1
    <3>3. rev' = rev \/ rev' = [rev EXCEPT ![r] = layers]
      BY <2>0 DEF ReviseTrial
    <3> HIDE DEF layers
    <3> QED BY <1>rev, <3>2, <3>3
  <2>nextRev. nextRev' \in [Ranks -> Nat]
    BY <2>0, <1>nextRev DEF ReviseTrial
  <2>revised. revised' \in [Ranks -> SUBSET Fields]
    BY <2>0, <1>revised DEF ReviseTrial
  <2>catalog. catalog' \in [Ranks -> [Sources -> Nat]]
    BY <2>0, <1>catalog, <1>nextRev DEF ReviseTrial
  <2> QED
    BY <2>0, <2>status, <2>mutation, <2>rev, <2>nextRev, <2>revised, <2>catalog
    DEF TypeOK, ReviseTrial, layerVars, dataVars, writerVars, mpiVars
<1>4. CASE \E s \in Sources \ Fields, v \in 0 .. ExternalBound :
              BindDependency(r, s, v)
  <2>0. PICK s \in Sources \ Fields, v \in 0 .. ExternalBound : BindDependency(r, s, v)
    BY <1>4
  <2>status. status' \in [Ranks -> {"ok", "fatal"}]
    BY <2>0, <1>status DEF BindDependency, Poison
  <2>mutation. mutation' \in [Ranks -> Nat]
    BY <2>0, <1>mutation DEF BindDependency, Poison, Advance
  <2>catalog. catalog' \in [Ranks -> [Sources -> Nat]]
    BY <2>0, <1>catalog DEF BindDependency
  <2> QED
    BY <2>0, <2>status, <2>mutation, <2>catalog
    DEF TypeOK, BindDependency, layerVars, dataVars, writerVars, mpiVars
<1>5. CASE \E slot \in Slots, deps \in Dependencies :
              PublishPendingCache(r, slot, deps)
  <2>0. PICK slot \in Slots, deps \in Dependencies : PublishPendingCache(r, slot, deps)
    BY <1>5
  <2>status. status' \in [Ranks -> {"ok", "fatal"}]
    BY <2>0, <1>status DEF PublishPendingCache, Poison
  <2>mutation. mutation' \in [Ranks -> Nat]
    BY <2>0, <1>mutation DEF PublishPendingCache, Poison, Advance
  <2>pending. pending' \in [Ranks -> [Slots -> [Sources -> Nat]]]
    <3> DEFINE caches == [pending[r] EXCEPT ![slot] = deps]
    <3>1. caches \in [Slots -> [Sources -> Nat]]
      BY <1>pending, <1>0
    <3>2. pending' = pending \/ pending' = [pending EXCEPT ![r] = caches]
      BY <2>0 DEF PublishPendingCache
    <3> HIDE DEF caches
    <3> QED BY <1>pending, <3>1, <3>2
  <2> QED
    BY <2>0, <2>status, <2>mutation, <2>pending
    DEF TypeOK, PublishPendingCache, layerVars, dataVars, writerVars, mpiVars
<1>6. CASE ClaimWriter(r)
  <2>writer. writer' \in [Ranks -> {"none", "attached", "lost"}]
    BY <1>6, <1>writer DEF ClaimWriter
  <2> QED
    BY <1>6, <2>writer
    DEF TypeOK, ClaimWriter, layerVars, dataVars, writerVars, mpiVars
<1>7. CASE BeginPendingFlux(r)
  <2>lease. lease' \in [Ranks -> {"none", "open", "published", "dead"}]
    BY <1>7, <1>lease DEF BeginPendingFlux
  <2> QED
    BY <1>7, <2>lease
    DEF TypeOK, BeginPendingFlux, layerVars, dataVars, writerVars, mpiVars
<1>8. CASE \E deps \in Dependencies : PublishFlux(r, deps)
  <2>0. PICK deps \in Dependencies : PublishFlux(r, deps)
    BY <1>8
  <2>status. status' \in [Ranks -> {"ok", "fatal"}]
    BY <2>0, <1>status DEF PublishFlux, Poison
  <2>mutation. mutation' \in [Ranks -> Nat]
    BY <2>0, <1>mutation DEF PublishFlux, Poison, Advance
  <2>pending. pending' \in [Ranks -> [Slots -> [Sources -> Nat]]]
    <3> DEFINE caches == [pending[r] EXCEPT ![FluxSlot] = deps]
    <3>1. caches \in [Slots -> [Sources -> Nat]]
      BY <1>pending, <1>0
    <3>2. pending' = pending \/ pending' = [pending EXCEPT ![r] = caches]
      BY <2>0 DEF PublishFlux
    <3> HIDE DEF caches
    <3> QED BY <1>pending, <3>1, <3>2
  <2>lease. lease' \in [Ranks -> {"none", "open", "published", "dead"}]
    BY <2>0, <1>lease DEF PublishFlux
  <2> QED
    BY <2>0, <2>status, <2>mutation, <2>pending, <2>lease
    DEF TypeOK, PublishFlux, layerVars, dataVars, writerVars, mpiVars
<1>9. CASE AbandonView(r)
  <2>status. status' \in [Ranks -> {"ok", "fatal"}]
    BY <1>9, <1>status DEF AbandonView, Invalidate, Poison
  <2>mutation. mutation' \in [Ranks -> Nat]
    BY <1>9, <1>mutation DEF AbandonView, Invalidate, Poison, Advance
  <2>lease. lease' \in [Ranks -> {"none", "open", "published", "dead"}]
    BY <1>9, <1>lease DEF AbandonView
  <2> QED
    BY <1>9, <2>status, <2>mutation, <2>lease
    DEF TypeOK, AbandonView, layerVars, dataVars, writerVars, mpiVars
<1>10. CASE DetachStorage(r)
  <2>status. status' \in [Ranks -> {"ok", "fatal"}]
    BY <1>10, <1>status DEF DetachStorage, Invalidate, Poison
  <2>mutation. mutation' \in [Ranks -> Nat]
    BY <1>10, <1>mutation DEF DetachStorage, Invalidate, Poison, Advance
  <2>lease. lease' \in [Ranks -> {"none", "open", "published", "dead"}]
    BY <1>10, <1>lease DEF DetachStorage
  <2> QED
    BY <1>10, <2>status, <2>mutation, <2>lease
    DEF TypeOK, DetachStorage, layerVars, dataVars, writerVars, mpiVars
<1>11. CASE DestroyWriter(r)
  <2>status. status' \in [Ranks -> {"ok", "fatal"}]
    BY <1>11, <1>status DEF DestroyWriter, Poison
  <2>mutation. mutation' \in [Ranks -> Nat]
    BY <1>11, <1>mutation DEF DestroyWriter, Poison, Advance
  <2>lease. lease' \in [Ranks -> {"none", "open", "published", "dead"}]
    BY <1>11, <1>lease DEF DestroyWriter
  <2>writer. writer' \in [Ranks -> {"none", "attached", "lost"}]
    BY <1>11, <1>writer DEF DestroyWriter
  <2> QED
    BY <1>11, <2>status, <2>mutation, <2>lease, <2>writer
    DEF TypeOK, DestroyWriter, layerVars, dataVars, writerVars, mpiVars
<1>12. CASE \E code \in Codes : EnterPrepare(r, code)
  <2>0. PICK code \in Codes : EnterPrepare(r, code)
    BY <1>12
  <2>contrib. contrib' \in [Ranks -> Codes]
    BY <2>0, <1>contrib, VoteType DEF EnterPrepare
  <2>arrived. arrived' \in SUBSET Ranks
    BY <2>0, <1>arrived DEF EnterPrepare
  <2>released. released' \in SUBSET Ranks
    BY <2>0, <1>released DEF EnterPrepare
  <2>votes. votes' \in [Ranks -> Codes]
    BY <2>0, <1>votes, <2>contrib DEF EnterPrepare
  <2>verdict. verdict' \in [code : Codes, rank : Ranks]
    <3>1. Selected(contrib') \in Ranks
      BY <2>contrib, SelectedRank
    <3>2. contrib'[Selected(contrib')] \in Codes
      BY <2>contrib, <3>1
    <3>3. \/ verdict' = verdict
          \/ verdict' = [rank |-> Selected(contrib'),
                         code |-> contrib'[Selected(contrib')]]
      BY <2>0 DEF EnterPrepare
    <3> QED BY <1>verdict, <3>1, <3>2, <3>3
  <2> QED
    BY <2>0, <2>contrib, <2>arrived, <2>released, <2>votes, <2>verdict
    DEF TypeOK, EnterPrepare, layerVars, dataVars, writerVars, mpiVars
<1>13. CASE LeavePrepare(r)
  <2>released. released' \in SUBSET Ranks
    BY <1>13, <1>released DEF LeavePrepare
  <2>cert. cert' \in [Ranks -> Certificates]
    BY <1>13, <1>cert, <1>attempt, <1>mutation, <1>writer, <1>active DEF LeavePrepare, Certificates
  <2> QED
    BY <1>13, <2>released, <2>cert
    DEF TypeOK, LeavePrepare, layerVars, dataVars, writerVars, mpiVars
<1>14. CASE FailPrepare(r)
  <2>released. released' \in SUBSET Ranks
    BY <1>14, <1>released DEF FailPrepare
  <2>active. active' \in [Ranks -> BOOLEAN]
    BY <1>14, <1>active DEF FailPrepare, Discard
  <2>finish. finish' \in [Ranks -> {"open", "committed", "discarded"}]
    BY <1>14, <1>finish DEF FailPrepare, Discard
  <2>pending. pending' \in [Ranks -> [Slots -> [Sources -> Nat]]]
    BY <1>14, <1>pending, <1>0 DEF FailPrepare, Discard
  <2>lease. lease' \in [Ranks -> {"none", "open", "published", "dead"}]
    BY <1>14, <1>lease DEF FailPrepare, Discard
  <2> QED
    BY <1>14, <2>released, <2>active, <2>finish, <2>pending, <2>lease
    DEF TypeOK, FailPrepare, layerVars, dataVars, writerVars, mpiVars
<1>15. CASE CommitAccept(r)
  <2>cert. cert' \in [Ranks -> Certificates]
    BY <1>15, <1>cert DEF CommitAccept, NoCert, Certificates
  <2>cache. cache' \in [Ranks -> [Slots -> [Sources -> Nat]]]
    BY <1>15, <1>cache, <1>pending DEF CommitAccept
  <2>lease. lease' \in [Ranks -> {"none", "open", "published", "dead"}]
    BY <1>15, <1>lease DEF CommitAccept
  <2>handle. handle' \in [Ranks -> [Roles -> Replicas]]
    BY <1>15, <1>handle DEF CommitAccept, Rotate, Roles
  <2>active. active' \in [Ranks -> BOOLEAN]
    BY <1>15, <1>active DEF CommitAccept
  <2>finish. finish' \in [Ranks -> {"open", "committed", "discarded"}]
    BY <1>15, <1>finish DEF CommitAccept
  <2> QED
    BY <1>15, <2>cert, <2>cache, <2>lease, <2>handle, <2>active, <2>finish
    DEF TypeOK, CommitAccept, layerVars, dataVars, writerVars, mpiVars
<1>16. CASE CommitReject(r)
  <2>cert. cert' \in [Ranks -> Certificates]
    BY <1>16, <1>cert DEF CommitReject, NoCert, Certificates
  <2>active. active' \in [Ranks -> BOOLEAN]
    BY <1>16, <1>active DEF CommitReject, Discard
  <2>finish. finish' \in [Ranks -> {"open", "committed", "discarded"}]
    BY <1>16, <1>finish DEF CommitReject, Discard
  <2>pending. pending' \in [Ranks -> [Slots -> [Sources -> Nat]]]
    BY <1>16, <1>pending, <1>0 DEF CommitReject, Discard
  <2>lease. lease' \in [Ranks -> {"none", "open", "published", "dead"}]
    BY <1>16, <1>lease DEF CommitReject, Discard
  <2> QED
    BY <1>16, <2>cert, <2>active, <2>finish, <2>pending, <2>lease
    DEF TypeOK, CommitReject, layerVars, dataVars, writerVars, mpiVars
<1>17. CASE DropCertificate(r)
  <2>cert. cert' \in [Ranks -> Certificates]
    BY <1>17, <1>cert DEF DropCertificate, NoCert, Certificates
  <2> QED
    BY <1>17, <2>cert
    DEF TypeOK, DropCertificate, layerVars, dataVars, writerVars, mpiVars
<1> QED
  BY <1>1, <1>2, <1>3, <1>4, <1>5, <1>6, <1>7, <1>8, <1>9, <1>10, <1>11, <1>12, <1>13, <1>14, <1>15, <1>16, <1>17 DEF RankNext

(***************************************************************************)
(* What a step leaves alone.                                               *)
(***************************************************************************)
\* The state of rank q is untouched.
Same(q) ==
  /\ handle'[q] = handle[q] /\ rev'[q] = rev[q] /\ nextRev'[q] = nextRev[q]
  /\ active'[q] = active[q] /\ status'[q] = status[q]
  /\ attempt'[q] = attempt[q] /\ mutation'[q] = mutation[q]
  /\ catalog'[q] = catalog[q] /\ revised'[q] = revised[q]
  /\ pending'[q] = pending[q] /\ cache'[q] = cache[q]
  /\ writer'[q] = writer[q] /\ lease'[q] = lease[q] /\ cert'[q] = cert[q]
  /\ finish'[q] = finish[q]

\* A rank's step changes the state of no other rank.
LEMMA OthersSame ==
  ASSUME TypeOK, NEW r \in Ranks, NEW q \in Ranks, q # r, RankNext(r)
  PROVE  Same(q)
<1> USE DEF Same, layerVars, dataVars, writerVars, mpiVars
<1>0. /\ handle \in [Ranks -> [Roles -> Replicas]]
      /\ rev \in [Ranks -> [Replicas -> [Fields -> Nat]]]
      /\ pending \in [Ranks -> [Slots -> [Sources -> Nat]]]
      /\ catalog \in [Ranks -> [Sources -> Nat]]
      /\ DOMAIN nextRev = Ranks /\ DOMAIN active = Ranks
      /\ DOMAIN status = Ranks /\ DOMAIN attempt = Ranks
      /\ DOMAIN mutation = Ranks /\ DOMAIN revised = Ranks
      /\ DOMAIN cache = Ranks /\ DOMAIN writer = Ranks
      /\ DOMAIN lease = Ranks /\ DOMAIN cert = Ranks
      /\ DOMAIN finish = Ranks
  BY DEF TypeOK
<1>1. CASE BeginActive(r)
  BY <1>1, <1>0 DEF BeginActive, Poison, Advance
<1>2. CASE \E same \in BOOLEAN : Begin(r, same)
  BY <1>2, <1>0 DEF Begin
<1>3. CASE \E f \in 0 .. NumFields : ReviseTrial(r, f)
  BY <1>3, <1>0 DEF ReviseTrial, Poison, Advance
<1>4. CASE \E s \in Sources \ Fields, v \in 0 .. ExternalBound :
              BindDependency(r, s, v)
  BY <1>4, <1>0 DEF BindDependency, Poison, Advance
<1>5. CASE \E slot \in Slots, deps \in Dependencies :
              PublishPendingCache(r, slot, deps)
  BY <1>5, <1>0 DEF PublishPendingCache, Poison, Advance
<1>6. CASE ClaimWriter(r)
  BY <1>6, <1>0 DEF ClaimWriter
<1>7. CASE BeginPendingFlux(r)
  BY <1>7, <1>0 DEF BeginPendingFlux
<1>8. CASE \E deps \in Dependencies : PublishFlux(r, deps)
  BY <1>8, <1>0 DEF PublishFlux, Poison, Advance
<1>9. CASE AbandonView(r)
  BY <1>9, <1>0 DEF AbandonView, Invalidate, Poison, Advance
<1>10. CASE DetachStorage(r)
  BY <1>10, <1>0 DEF DetachStorage, Invalidate, Poison, Advance
<1>11. CASE DestroyWriter(r)
  BY <1>11, <1>0 DEF DestroyWriter, Poison, Advance
<1>12. CASE \E code \in Codes : EnterPrepare(r, code)
  BY <1>12, <1>0 DEF EnterPrepare
<1>13. CASE LeavePrepare(r)
  BY <1>13, <1>0 DEF LeavePrepare
<1>14. CASE FailPrepare(r)
  BY <1>14, <1>0 DEF FailPrepare, Discard
<1>15. CASE CommitAccept(r)
  BY <1>15, <1>0 DEF CommitAccept
<1>16. CASE CommitReject(r)
  BY <1>16, <1>0 DEF CommitReject, Discard
<1>17. CASE DropCertificate(r)
  BY <1>17, <1>0 DEF DropCertificate
<1> QED
  BY <1>1, <1>2, <1>3, <1>4, <1>5, <1>6, <1>7, <1>8, <1>9, <1>10, <1>11, <1>12, <1>13, <1>14, <1>15, <1>16, <1>17 DEF RankNext

(***************************************************************************)
(* State layers: roles and revisions.                                      *)
(***************************************************************************)
\* Which calls touch the layers, the committed caches and the certificates.
LEMMA LayerFrame ==
  ASSUME NEW r \in Ranks, RankNext(r)
  PROVE  /\ handle' = handle \/ CommitAccept(r)
         /\ \/ rev' = rev /\ nextRev' = nextRev
            \/ \E same \in BOOLEAN : Begin(r, same)
            \/ \E f \in 0 .. NumFields : ReviseTrial(r, f)
         /\ cache' = cache \/ CommitAccept(r)
<1> USE DEF layerVars, dataVars, writerVars, mpiVars
<1>1. CASE BeginActive(r)
  BY <1>1 DEF BeginActive
<1>2. CASE \E same \in BOOLEAN : Begin(r, same)
  BY <1>2 DEF Begin
<1>3. CASE \E f \in 0 .. NumFields : ReviseTrial(r, f)
  BY <1>3 DEF ReviseTrial
<1>4. CASE \E s \in Sources \ Fields, v \in 0 .. ExternalBound :
              BindDependency(r, s, v)
  BY <1>4 DEF BindDependency
<1>5. CASE \E slot \in Slots, deps \in Dependencies :
              PublishPendingCache(r, slot, deps)
  BY <1>5 DEF PublishPendingCache
<1>6. CASE ClaimWriter(r)
  BY <1>6 DEF ClaimWriter
<1>7. CASE BeginPendingFlux(r)
  BY <1>7 DEF BeginPendingFlux
<1>8. CASE \E deps \in Dependencies : PublishFlux(r, deps)
  BY <1>8 DEF PublishFlux
<1>9. CASE AbandonView(r)
  BY <1>9 DEF AbandonView
<1>10. CASE DetachStorage(r)
  BY <1>10 DEF DetachStorage
<1>11. CASE DestroyWriter(r)
  BY <1>11 DEF DestroyWriter
<1>12. CASE \E code \in Codes : EnterPrepare(r, code)
  BY <1>12 DEF EnterPrepare
<1>13. CASE LeavePrepare(r)
  BY <1>13 DEF LeavePrepare
<1>14. CASE FailPrepare(r)
  BY <1>14 DEF FailPrepare, Discard
<1>15. CASE CommitAccept(r)
  BY <1>15 DEF CommitAccept
<1>16. CASE CommitReject(r)
  BY <1>16 DEF CommitReject, Discard
<1>17. CASE DropCertificate(r)
  BY <1>17 DEF DropCertificate
<1> QED
  BY <1>1, <1>2, <1>3, <1>4, <1>5, <1>6, <1>7, <1>8, <1>9, <1>10, <1>11, <1>12, <1>13, <1>14, <1>15, <1>16, <1>17 DEF RankNext

\* rotate_commit permutes the three replicas.
LEMMA RolesStep ==
  ASSUME TypeOK, RolesDistinct, NEW r \in Ranks, RankNext(r)
  PROVE  RolesDistinct'
<1>1. CASE handle' = handle
  BY <1>1 DEF RolesDistinct
<1>2. CASE CommitAccept(r)
  <2>1. handle \in [Ranks -> [Roles -> Replicas]]
    BY DEF TypeOK
  <2>2. handle' = [handle EXCEPT ![r] = Rotate(handle[r])]
    BY <1>2 DEF CommitAccept
  <2>3. /\ handle'[r]["previous"] = handle[r]["accepted"]
        /\ handle'[r]["accepted"] = handle[r]["trial"]
        /\ handle'[r]["trial"] = handle[r]["previous"]
    BY <2>1, <2>2 DEF Rotate, Roles
  <2>4. \A q \in Ranks : q # r => handle'[q] = handle[q]
    BY <2>1, <2>2
  <2> QED BY <2>3, <2>4 DEF RolesDistinct, Roles
<1> QED BY <1>1, <1>2, LayerFrame

\* What Begin does to the layers of its rank when it succeeds: every field of
\* the trial replica gets a revision newer than any in use.
LEMMA BeginEffect ==
  ASSUME TypeOK, RevisionsIssued, NEW r \in Ranks, NEW same \in BOOLEAN,
         Begin(r, same), status'[r] = "ok"
  PROVE  /\ \A p \in Replicas : p # Trial(r) => rev'[r][p] = rev[r][p]
         /\ \A f \in Fields : /\ nextRev[r] <= rev'[r][Trial(r)][f]
                              /\ rev'[r][Trial(r)][f] < nextRev'[r]
                              /\ catalog'[r][f] = rev'[r][Trial(r)][f]
         /\ nextRev[r] <= nextRev'[r]
<1>1. /\ rev \in [Ranks -> [Replicas -> [Fields -> Nat]]]
      /\ nextRev \in [Ranks -> Nat]
      /\ status \in [Ranks -> {"ok", "fatal"}]
      /\ handle[r]["trial"] \in Replicas
      /\ catalog \in [Ranks -> [Sources -> Nat]]
  BY DEF TypeOK, Roles
<1>2. /\ rev' = [rev EXCEPT ![r][Trial(r)] =
                   [f \in Fields |-> nextRev[r] + f - 1]]
      /\ nextRev' = [nextRev EXCEPT ![r] = @ + NumFields]
      /\ catalog' = [catalog EXCEPT ![r] =
                       [s \in Sources |-> IF s \in Fields
                          THEN nextRev[r] + s - 1 ELSE 0]]
  BY <1>1 DEF Begin
<1>3. /\ \A p \in Replicas : p # Trial(r) => rev'[r][p] = rev[r][p]
      /\ \A f \in Fields : rev'[r][Trial(r)][f] = nextRev[r] + f - 1
  BY <1>1, <1>2 DEF Trial
<1>4. \A f \in Fields : catalog'[r][f] = nextRev[r] + f - 1
  BY <1>1, <1>2 DEF Fields, Sources
<1>5. nextRev'[r] = nextRev[r] + NumFields
  BY <1>1, <1>2
<1>6. nextRev[r] \in Nat
  BY <1>1
<1>7. \A f \in Fields : /\ nextRev[r] <= nextRev[r] + f - 1
                        /\ nextRev[r] + f - 1 < nextRev[r] + NumFields
  BY <1>6 DEF Fields
<1>8. nextRev[r] <= nextRev[r] + NumFields
  BY <1>6
<1> QED BY <1>3, <1>4, <1>5, <1>7, <1>8

\* What revise_trial does to the layers of its rank when it succeeds.
LEMMA ReviseEffect ==
  ASSUME TypeOK, NEW r \in Ranks, NEW f \in 0 .. NumFields,
         ReviseTrial(r, f), status'[r] = "ok"
  PROVE  /\ f \in Fields
         /\ \A p \in Replicas : p # Trial(r) => rev'[r][p] = rev[r][p]
         /\ \A g \in Fields : g # f => /\ rev'[r][Trial(r)][g] = rev[r][Trial(r)][g]
                                       /\ catalog'[r][g] = catalog[r][g]
         /\ rev'[r][Trial(r)][f] = nextRev[r]
         /\ catalog'[r][f] = nextRev[r]
         /\ nextRev'[r] = nextRev[r] + 1
<1>1. /\ rev \in [Ranks -> [Replicas -> [Fields -> Nat]]]
      /\ nextRev \in [Ranks -> Nat]
      /\ status \in [Ranks -> {"ok", "fatal"}]
      /\ handle[r]["trial"] \in Replicas
      /\ catalog \in [Ranks -> [Sources -> Nat]]
  BY DEF TypeOK, Roles
<1>2. /\ f \in Fields
      /\ rev' = [rev EXCEPT ![r][Trial(r)][f] = nextRev[r]]
      /\ nextRev' = [nextRev EXCEPT ![r] = @ + 1]
      /\ catalog' = [catalog EXCEPT ![r][f] = nextRev[r]]
  BY <1>1 DEF ReviseTrial, Poison
<1>3. \A g \in Fields : g \in Sources
  BY DEF Fields, Sources
<1>4. /\ \A p \in Replicas : p # Trial(r) => rev'[r][p] = rev[r][p]
      /\ \A g \in Fields : g # f => rev'[r][Trial(r)][g] = rev[r][Trial(r)][g]
      /\ rev'[r][Trial(r)][f] = nextRev[r]
  BY <1>1, <1>2 DEF Trial
<1>5. /\ \A g \in Fields : g # f => catalog'[r][g] = catalog[r][g]
      /\ catalog'[r][f] = nextRev[r]
  BY <1>1, <1>2, <1>3
<1>6. nextRev'[r] = nextRev[r] + 1
  BY <1>1, <1>2
<1> QED BY <1>2, <1>4, <1>5, <1>6

\* A revision is issued once: those in use stay below the counter, which
\* never decreases.
LEMMA RevisionsStep ==
  ASSUME TypeOK, RevisionsIssued, NEW r \in Ranks, RankNext(r)
  PROVE  RevisionsIssued'
<1> SUFFICES ASSUME NEW q \in Ranks, NEW p \in Replicas, NEW g \in Fields
             PROVE  rev'[q][p][g] < nextRev'[q]
  BY DEF RevisionsIssued
<1>0. rev[q][p][g] < nextRev[q] /\ rev[q][p][g] \in Nat /\ nextRev[q] \in Nat
  BY DEF RevisionsIssued, TypeOK
<1>1. CASE q # r
  BY <1>0, <1>1, OthersSame DEF Same
<1>2. CASE q = r /\ rev' = rev /\ nextRev' = nextRev
  BY <1>0, <1>2
<1>3. CASE q = r /\ \E same \in BOOLEAN : Begin(r, same)
  <2>1. PICK same \in BOOLEAN : Begin(r, same)
    BY <1>3
  <2>2. CASE status'[r] = "ok"
    <3>1. /\ \A x \in Replicas : x # Trial(r) => rev'[r][x] = rev[r][x]
          /\ rev'[r][Trial(r)][g] < nextRev'[r]
          /\ nextRev[r] <= nextRev'[r]
      BY <2>1, <2>2, BeginEffect
    <3>2. nextRev'[r] \in Nat
      BY TypeStep DEF Next, TypeOK
    <3> QED BY <1>0, <1>3, <3>1, <3>2
  <2>3. CASE status'[r] # "ok"
    <3>1. rev' = rev /\ nextRev' = nextRev
      BY <2>1, <2>3 DEF Begin, TypeOK
    <3> QED BY <1>0, <3>1
  <2> QED BY <2>2, <2>3
<1>4. CASE q = r /\ \E f \in 0 .. NumFields : ReviseTrial(r, f)
  <2>1. PICK f \in 0 .. NumFields : ReviseTrial(r, f)
    BY <1>4
  <2>2. CASE status'[r] = "ok"
    <3>1. /\ \A x \in Replicas : x # Trial(r) => rev'[r][x] = rev[r][x]
          /\ g # f => rev'[r][Trial(r)][g] = rev[r][Trial(r)][g]
          /\ rev'[r][Trial(r)][f] = nextRev[r]
          /\ nextRev'[r] = nextRev[r] + 1
      BY <2>1, <2>2, ReviseEffect
    <3> QED BY <1>0, <1>4, <3>1
  <2>3. CASE status'[r] # "ok"
    <3>1. rev' = rev /\ nextRev' = nextRev
      BY <2>1, <2>3 DEF ReviseTrial, Usable
    <3> QED BY <1>0, <3>1
  <2> QED BY <2>2, <2>3
<1> QED BY <1>1, <1>2, <1>3, <1>4, LayerFrame

(***************************************************************************)
(* The attempt against its layers and its writer.                          *)
(***************************************************************************)
\* Only begin starts an attempt or clears its failure; only begin,
\* revise_trial and bind_dependency touch the catalog.
LEMMA AttemptFrame ==
  ASSUME TypeOK, NEW r \in Ranks, RankNext(r)
  PROVE  \/ \E same \in BOOLEAN : Begin(r, same)
         \/ /\ active'[r] => active[r]
            /\ status'[r] = "ok" => status[r] = "ok"
            /\ \/ catalog' = catalog
               \/ \E f \in 0 .. NumFields : ReviseTrial(r, f)
               \/ \E s \in Sources \ Fields, v \in 0 .. ExternalBound :
                    BindDependency(r, s, v)
<1> USE DEF layerVars, dataVars, writerVars, mpiVars
<1>0. active \in [Ranks -> BOOLEAN] /\ status \in [Ranks -> {"ok", "fatal"}]
  BY DEF TypeOK
<1>1. CASE BeginActive(r)
  BY <1>1, <1>0 DEF BeginActive, Poison
<1>2. CASE \E same \in BOOLEAN : Begin(r, same)
  BY <1>2, <1>0 DEF Begin
<1>3. CASE \E f \in 0 .. NumFields : ReviseTrial(r, f)
  BY <1>3, <1>0 DEF ReviseTrial, Poison
<1>4. CASE \E s \in Sources \ Fields, v \in 0 .. ExternalBound :
              BindDependency(r, s, v)
  BY <1>4, <1>0 DEF BindDependency, Poison
<1>5. CASE \E slot \in Slots, deps \in Dependencies :
              PublishPendingCache(r, slot, deps)
  BY <1>5, <1>0 DEF PublishPendingCache, Poison
<1>6. CASE ClaimWriter(r)
  BY <1>6, <1>0 DEF ClaimWriter
<1>7. CASE BeginPendingFlux(r)
  BY <1>7, <1>0 DEF BeginPendingFlux
<1>8. CASE \E deps \in Dependencies : PublishFlux(r, deps)
  BY <1>8, <1>0 DEF PublishFlux, Poison
<1>9. CASE AbandonView(r)
  BY <1>9, <1>0 DEF AbandonView, Invalidate, Poison
<1>10. CASE DetachStorage(r)
  BY <1>10, <1>0 DEF DetachStorage, Invalidate, Poison
<1>11. CASE DestroyWriter(r)
  BY <1>11, <1>0 DEF DestroyWriter, Poison
<1>12. CASE \E code \in Codes : EnterPrepare(r, code)
  BY <1>12, <1>0 DEF EnterPrepare
<1>13. CASE LeavePrepare(r)
  BY <1>13, <1>0 DEF LeavePrepare
<1>14. CASE FailPrepare(r)
  BY <1>14, <1>0 DEF FailPrepare, Discard
<1>15. CASE CommitAccept(r)
  BY <1>15, <1>0 DEF CommitAccept
<1>16. CASE CommitReject(r)
  BY <1>16, <1>0 DEF CommitReject, Discard
<1>17. CASE DropCertificate(r)
  BY <1>17, <1>0 DEF DropCertificate
<1> QED
  BY <1>1, <1>2, <1>3, <1>4, <1>5, <1>6, <1>7, <1>8, <1>9, <1>10, <1>11, <1>12, <1>13, <1>14, <1>15, <1>16, <1>17 DEF RankNext

\* An unfailed attempt quotes its trial layer, which is newer than the
\* accepted one.
LEMMA TrackedStep ==
  ASSUME TypeOK, RolesDistinct, RevisionsIssued, TrialTracked,
         NEW r \in Ranks, RankNext(r)
  PROVE  TrialTracked'
<1> SUFFICES ASSUME NEW q \in Ranks, active'[q], status'[q] = "ok",
                    NEW g \in Fields
             PROVE  /\ catalog'[q][g] = rev'[q][Trial(q)'][g]
                    /\ rev'[q][Accepted(q)'][g] < rev'[q][Trial(q)'][g]
  BY DEF TrialTracked, Trial, Accepted
<1>0. /\ Trial(r) \in Replicas /\ Accepted(r) \in Replicas
      /\ Trial(r) # Accepted(r)
  BY DEF Trial, Accepted, TypeOK, RolesDistinct, Roles
<1>1. CASE q # r
  BY <1>1, OthersSame DEF Same, TrialTracked, Trial, Accepted
<1>2. CASE q = r /\ CommitAccept(r)
  BY <1>2 DEF CommitAccept, TypeOK
<1>3. CASE q = r /\ handle' = handle /\ \E same \in BOOLEAN : Begin(r, same)
  <2>1. PICK same \in BOOLEAN : Begin(r, same)
    BY <1>3
  <2>2. Trial(q)' = Trial(r) /\ Accepted(q)' = Accepted(r)
    BY <1>3 DEF Trial, Accepted
  <2>3. /\ rev'[r][Accepted(r)] = rev[r][Accepted(r)]
        /\ nextRev[r] <= rev'[r][Trial(r)][g]
        /\ catalog'[r][g] = rev'[r][Trial(r)][g]
    BY <1>0, <1>3, <2>1, BeginEffect
  <2>4. /\ rev[r][Accepted(r)][g] < nextRev[r]
        /\ rev[r][Accepted(r)][g] \in Nat /\ nextRev[r] \in Nat
    BY <1>0 DEF RevisionsIssued, TypeOK
  <2>5. rev'[r][Trial(r)][g] \in Nat
    BY <1>0, TypeStep DEF TypeOK, Next
  <2> QED BY <1>3, <2>2, <2>3, <2>4, <2>5
<1>4. CASE /\ q = r /\ handle' = handle
           /\ \E f \in 0 .. NumFields : ReviseTrial(r, f)
  <2>1. PICK f \in 0 .. NumFields : ReviseTrial(r, f)
    BY <1>4
  <2>2. Trial(q)' = Trial(r) /\ Accepted(q)' = Accepted(r)
    BY <1>4 DEF Trial, Accepted
  <2>3. active[r] /\ status[r] = "ok"
    BY <2>1 DEF ReviseTrial, Usable
  <2>4. /\ catalog[r][g] = rev[r][Trial(r)][g]
        /\ rev[r][Accepted(r)][g] < rev[r][Trial(r)][g]
        /\ rev[r][Accepted(r)][g] < nextRev[r]
    BY <1>0, <2>3 DEF TrialTracked, RevisionsIssued
  <2>5. /\ rev'[r][Accepted(r)] = rev[r][Accepted(r)]
        /\ g # f => /\ rev'[r][Trial(r)][g] = rev[r][Trial(r)][g]
                    /\ catalog'[r][g] = catalog[r][g]
        /\ rev'[r][Trial(r)][f] = nextRev[r]
        /\ catalog'[r][f] = nextRev[r]
    BY <1>0, <1>4, <2>1, ReviseEffect
  <2> QED BY <1>4, <2>2, <2>4, <2>5
<1>5. CASE /\ q = r /\ handle' = handle /\ rev' = rev
           /\ active[r] /\ status[r] = "ok"
           /\ \E s \in Sources \ Fields, v \in 0 .. ExternalBound :
                BindDependency(r, s, v)
  <2>1. catalog'[r][g] = catalog[r][g]
    <3>1. PICK s \in Sources \ Fields, v \in 0 .. ExternalBound :
            BindDependency(r, s, v)
      BY <1>5
    <3>2. catalog' = catalog \/ catalog' = [catalog EXCEPT ![r][s] = v]
      BY <3>1 DEF BindDependency
    <3>3. s # g /\ g \in Sources
      BY DEF Fields, Sources
    <3>4. catalog \in [Ranks -> [Sources -> Nat]]
      BY DEF TypeOK
    <3> QED BY <3>2, <3>3, <3>4
  <2> QED BY <1>5, <2>1 DEF TrialTracked, Trial, Accepted
<1>6. CASE /\ q = r /\ handle' = handle /\ rev' = rev /\ catalog' = catalog
           /\ active[r] /\ status[r] = "ok"
  BY <1>6 DEF TrialTracked, Trial, Accepted
<1>7. \A s \in Sources \ Fields, v \in 0 .. ExternalBound :
        BindDependency(r, s, v) => rev' = rev
  BY DEF BindDependency, layerVars
<1> QED
  BY <1>1, <1>2, <1>3, <1>4, <1>5, <1>6, <1>7, LayerFrame, AttemptFrame

\* Nobody can publish into the slot of a destroyed writer.
LEMMA LostWriterStep ==
  ASSUME TypeOK, LostWriterClosed, NEW r \in Ranks, RankNext(r)
  PROVE  LostWriterClosed'
<1> SUFFICES ASSUME NEW q \in Ranks, active'[q], status'[q] = "ok",
                    writer'[q] = "lost"
             PROVE  ~Published(pending[q][FluxSlot])'
  BY DEF LostWriterClosed
<1>0. /\ active \in [Ranks -> BOOLEAN] /\ status \in [Ranks -> {"ok", "fatal"}]
      /\ writer \in [Ranks -> {"none", "attached", "lost"}]
      /\ pending \in [Ranks -> [Slots -> [Sources -> Nat]]]
  BY DEF TypeOK
<1>00. CASE q # r
  BY <1>00, OthersSame DEF Same, LostWriterClosed, Published
<1> SUFFICES ASSUME q = r PROVE ~Published(pending[r][FluxSlot])'
  BY <1>00
<1> USE DEF layerVars, dataVars, writerVars, mpiVars
<1>1. CASE BeginActive(r)
  BY <1>1, <1>0 DEF BeginActive, Poison, LostWriterClosed, Published
<1>2. CASE \E same \in BOOLEAN : Begin(r, same)
  BY <1>2, <1>0 DEF Begin, Published, NoCache
<1>3. CASE \E f \in 0 .. NumFields : ReviseTrial(r, f)
  BY <1>3, <1>0 DEF ReviseTrial, Poison, LostWriterClosed, Published
<1>4. CASE \E s \in Sources \ Fields, v \in 0 .. ExternalBound :
              BindDependency(r, s, v)
  BY <1>4, <1>0 DEF BindDependency, Poison, LostWriterClosed, Published
<1>5. CASE \E slot \in Slots, deps \in Dependencies :
              PublishPendingCache(r, slot, deps)
  BY <1>5, <1>0 DEF PublishPendingCache, Poison, LostWriterClosed, Published
<1>6. CASE ClaimWriter(r)
  BY <1>6, <1>0 DEF ClaimWriter
<1>7. CASE BeginPendingFlux(r)
  BY <1>7, <1>0 DEF BeginPendingFlux, LostWriterClosed, Published
<1>8. CASE \E deps \in Dependencies : PublishFlux(r, deps)
  BY <1>8, <1>0 DEF PublishFlux, Poison, LostWriterClosed, Published
<1>9. CASE AbandonView(r)
  BY <1>9, <1>0 DEF AbandonView, Invalidate, Poison, LostWriterClosed, Published
<1>10. CASE DetachStorage(r)
  BY <1>10, <1>0 DEF DetachStorage, Invalidate, Poison, LostWriterClosed, Published
<1>11. CASE DestroyWriter(r)
  BY <1>11, <1>0 DEF DestroyWriter, Poison
<1>12. CASE \E code \in Codes : EnterPrepare(r, code)
  BY <1>12, <1>0 DEF EnterPrepare, LostWriterClosed, Published
<1>13. CASE LeavePrepare(r)
  BY <1>13, <1>0 DEF LeavePrepare, LostWriterClosed, Published
<1>14. CASE FailPrepare(r)
  BY <1>14, <1>0 DEF FailPrepare, Discard
<1>15. CASE CommitAccept(r)
  BY <1>15, <1>0 DEF CommitAccept
<1>16. CASE CommitReject(r)
  BY <1>16, <1>0 DEF CommitReject, Discard
<1>17. CASE DropCertificate(r)
  BY <1>17, <1>0 DEF DropCertificate, LostWriterClosed, Published
<1> QED
  BY <1>1, <1>2, <1>3, <1>4, <1>5, <1>6, <1>7, <1>8, <1>9, <1>10, <1>11, <1>12, <1>13, <1>14, <1>15, <1>16, <1>17 DEF RankNext

(***************************************************************************)
(* Certificates.                                                           *)
(***************************************************************************)
\* Completeness is a property of one rank's state.
LEMMA CompleteSame ==
  ASSUME NEW q \in Ranks, Same(q), Complete(q)
  PROVE  Complete(q)'
BY DEF Same, Complete, Fresh, RequiredPublished, Published

\* An unfailed complete attempt whose every rank voted ok: the vote checks
\* completeness.
LEMMA VoteComplete ==
  ASSUME TypeOK, NEW r \in Ranks, NEW code \in Codes,
         LocalVote(r, code) = "ok"
  PROVE  Complete(r)
<1>1. active[r] \in BOOLEAN /\ status[r] \in {"ok", "fatal"}
  BY DEF TypeOK
<1>2. active[r] /\ status[r] = "ok"
  BY <1>1 DEF LocalVote
<1>3. code = "ok"
  BY <1>1, <1>2 DEF LocalVote
<1>4. /\ writer[r] = "attached" => WriterReady(r)
      /\ RequiredPublished(r)
      /\ revised[r] = Fields
      /\ \A slot \in Slots : Fresh(r, slot)
  BY <1>2, <1>3 DEF LocalVote
<1> QED BY <1>2, <1>4 DEF Complete, WriterReady

\* The reduction accepts only a unanimous vote.
LEMMA UnanimousSelection ==
  ASSUME NEW v \in [Ranks -> Codes], v[Selected(v)] = "ok", NEW q \in Ranks
  PROVE  v[q] = "ok"
<1>1. /\ Selected(v) \in Ranks
      /\ FailureSelectionKey(Selected(v), "ok") <= FailureSelectionKey(q, v[q])
  BY SelectedRank
<1>2. FailureSelectionKey(Selected(v), "ok") = 2 * NumRanks + Selected(v)
  BY DEF FailureSelectionKey, Severity
<1>3. CASE v[q] = "retry"
  <2>1. FailureSelectionKey(q, v[q]) = 1 * NumRanks + q
    BY <1>3 DEF FailureSelectionKey, Severity
  <2> QED BY <1>1, <1>2, <2>1 DEF Ranks
<1>4. CASE v[q] = "fatal"
  <2>1. FailureSelectionKey(q, v[q]) = 0 * NumRanks + q
    BY <1>4 DEF FailureSelectionKey, Severity
  <2> QED BY <1>1, <1>2, <2>1 DEF Ranks
<1> QED BY <1>3, <1>4 DEF Codes

\* Every call that changes the attempt moves it past its certificate.
LEMMA CertificatesPastStep ==
  ASSUME TypeOK, CertificatesPast, BlockedComplete, NEW r \in Ranks,
         RankNext(r)
  PROVE  CertificatesPast'
<1> SUFFICES ASSUME NEW q \in Ranks, cert'[q].live
             PROVE  /\ cert'[q].attempt <= attempt'[q]
                    /\ cert'[q].attempt = attempt'[q]
                         => cert'[q].mutation <= mutation'[q]
                    /\ cert'[q].accept => cert'[q].active
  BY DEF CertificatesPast
<1>0. /\ attempt \in [Ranks -> Nat] /\ mutation \in [Ranks -> Nat]
      /\ cert \in [Ranks -> Certificates] /\ cert[q].mutation \in Nat
      /\ cert[q].attempt \in Nat /\ attempt[q] \in Nat /\ mutation[q] \in Nat
  BY DEF TypeOK, Certificates
<1>00. CASE q # r
  BY <1>00, OthersSame DEF Same, CertificatesPast
<1> SUFFICES ASSUME q = r
             PROVE  /\ cert'[r].attempt <= attempt'[r]
                    /\ cert'[r].attempt = attempt'[r]
                         => cert'[r].mutation <= mutation'[r]
                    /\ cert'[r].accept => cert'[r].active
  BY <1>00
<1> USE DEF layerVars, dataVars, writerVars, mpiVars, CertificatesPast
<1>1. CASE BeginActive(r)
  BY <1>1, <1>0 DEF BeginActive, Poison, Advance
<1>2. CASE \E same \in BOOLEAN : Begin(r, same)
  BY <1>2, <1>0 DEF Begin
<1>3. CASE \E f \in 0 .. NumFields : ReviseTrial(r, f)
  BY <1>3, <1>0 DEF ReviseTrial, Poison, Advance
<1>4. CASE \E s \in Sources \ Fields, v \in 0 .. ExternalBound :
              BindDependency(r, s, v)
  BY <1>4, <1>0 DEF BindDependency, Poison, Advance
<1>5. CASE \E slot \in Slots, deps \in Dependencies :
              PublishPendingCache(r, slot, deps)
  BY <1>5, <1>0 DEF PublishPendingCache, Poison, Advance
<1>6. CASE ClaimWriter(r)
  BY <1>6, <1>0 DEF ClaimWriter
<1>7. CASE BeginPendingFlux(r)
  BY <1>7, <1>0 DEF BeginPendingFlux
<1>8. CASE \E deps \in Dependencies : PublishFlux(r, deps)
  BY <1>8, <1>0 DEF PublishFlux, Poison, Advance
<1>9. CASE AbandonView(r)
  BY <1>9, <1>0 DEF AbandonView, Invalidate, Poison, Advance
<1>10. CASE DetachStorage(r)
  BY <1>10, <1>0 DEF DetachStorage, Invalidate, Poison, Advance
<1>11. CASE DestroyWriter(r)
  BY <1>11, <1>0 DEF DestroyWriter, Poison, Advance
<1>12. CASE \E code \in Codes : EnterPrepare(r, code)
  BY <1>12, <1>0 DEF EnterPrepare
<1>13. CASE LeavePrepare(r)
  <2>1. cert'[r] = [live |-> TRUE, accept |-> verdict.code = "ok",
                    attempt |-> attempt[r], mutation |-> mutation[r],
                    writer |-> writer[r], active |-> active[r]]
    BY <1>13, <1>0 DEF LeavePrepare
  <2>2. attempt' = attempt /\ mutation' = mutation
    BY <1>13 DEF LeavePrepare
  <2>3. verdict.code = "ok" => active[r]
    BY <1>13 DEF LeavePrepare, BlockedComplete, Complete
  <2>4. /\ cert'[r].attempt = attempt'[r] /\ cert'[r].mutation = mutation'[r]
        /\ attempt'[r] \in Nat /\ mutation'[r] \in Nat
    BY <1>0, <2>1, <2>2
  <2>5. cert'[r].accept => cert'[r].active
    <3>1. cert'[r].accept = (verdict.code = "ok")
      BY <2>1
    <3>2. cert'[r].active = active[r]
      BY <2>1
    <3> QED BY <2>3, <3>1, <3>2
  <2> QED BY <2>4, <2>5
<1>14. CASE FailPrepare(r)
  BY <1>14, <1>0 DEF FailPrepare
<1>15. CASE CommitAccept(r)
  BY <1>15, <1>0 DEF CommitAccept, NoCert
<1>16. CASE CommitReject(r)
  BY <1>16, <1>0 DEF CommitReject, NoCert
<1>17. CASE DropCertificate(r)
  BY <1>17, <1>0 DEF DropCertificate, NoCert
<1> QED
  BY <1>1, <1>2, <1>3, <1>4, <1>5, <1>6, <1>7, <1>8, <1>9, <1>10, <1>11, <1>12, <1>13, <1>14, <1>15, <1>16, <1>17 DEF RankNext

\* A certificate that still matches certifies a complete attempt.
LEMMA AcceptCertificateStep ==
  ASSUME TypeOK, CertificatesPast, BlockedComplete,
         AcceptCertificateComplete, NEW r \in Ranks, RankNext(r)
  PROVE  AcceptCertificateComplete'
<1> SUFFICES ASSUME NEW q \in Ranks, Matches(q)', cert'[q].accept
             PROVE  Complete(q)'
  BY DEF AcceptCertificateComplete
<1>00. CASE q # r
  <2>1. Same(q)
    BY <1>00, OthersSame
  <2>2. Matches(q) /\ cert[q].accept
    BY <2>1 DEF Same, Matches
  <2> QED BY <2>1, <2>2, CompleteSame DEF AcceptCertificateComplete
<1> SUFFICES ASSUME q = r PROVE Complete(r)'
  BY <1>00
<1>0. /\ attempt \in [Ranks -> Nat] /\ mutation \in [Ranks -> Nat]
      /\ cert \in [Ranks -> Certificates] /\ cert[r].mutation \in Nat
      /\ cert[r].attempt \in Nat /\ attempt[r] \in Nat /\ mutation[r] \in Nat
      /\ active \in [Ranks -> BOOLEAN] /\ status \in [Ranks -> {"ok", "fatal"}]
      /\ writer \in [Ranks -> {"none", "attached", "lost"}]
      /\ lease \in [Ranks -> {"none", "open", "published", "dead"}]
  BY DEF TypeOK, Certificates
<1> USE DEF layerVars, dataVars, writerVars, mpiVars, CertificatesPast, Matches
<1>1. CASE BeginActive(r)
  BY <1>1, <1>0 DEF BeginActive, Poison, Advance
<1>2. CASE \E same \in BOOLEAN : Begin(r, same)
  BY <1>2, <1>0 DEF Begin
<1>3. CASE \E f \in 0 .. NumFields : ReviseTrial(r, f)
  BY <1>3, <1>0 DEF ReviseTrial, Poison, Advance
<1>4. CASE \E s \in Sources \ Fields, v \in 0 .. ExternalBound :
              BindDependency(r, s, v)
  BY <1>4, <1>0 DEF BindDependency, Poison, Advance
<1>5. CASE \E slot \in Slots, deps \in Dependencies :
              PublishPendingCache(r, slot, deps)
  BY <1>5, <1>0 DEF PublishPendingCache, Poison, Advance
<1>6. CASE ClaimWriter(r)
  BY <1>6, <1>0 DEF ClaimWriter
<1>7. CASE BeginPendingFlux(r)
  BY <1>7, <1>0 DEF BeginPendingFlux, Complete, AcceptCertificateComplete
<1>8. CASE \E deps \in Dependencies : PublishFlux(r, deps)
  BY <1>8, <1>0 DEF PublishFlux, Poison, Advance
<1>9. CASE AbandonView(r)
  BY <1>9, <1>0 DEF AbandonView, Invalidate, Poison, Advance, Complete, AcceptCertificateComplete
<1>10. CASE DetachStorage(r)
  BY <1>10, <1>0 DEF DetachStorage, Invalidate, Poison, Advance, Complete, AcceptCertificateComplete
<1>11. CASE DestroyWriter(r)
  BY <1>11, <1>0 DEF DestroyWriter, Poison, Advance
<1>12. CASE \E code \in Codes : EnterPrepare(r, code)
  BY <1>12, <1>0, CompleteSame DEF EnterPrepare, Same
<1>13. CASE LeavePrepare(r)
  <2>1. cert'[r].accept = (verdict.code = "ok")
    BY <1>13, <1>0 DEF LeavePrepare
  <2>2. Complete(r)
    BY <1>13, <2>1 DEF LeavePrepare, BlockedComplete
  <2>3. Complete(r)' = Complete(r)
    BY <1>13 DEF LeavePrepare, Complete, Fresh, RequiredPublished, Published
  <2> QED BY <2>2, <2>3
<1>14. CASE FailPrepare(r)
  BY <1>14, <1>0 DEF FailPrepare, Discard
<1>15. CASE CommitAccept(r)
  BY <1>15, <1>0 DEF CommitAccept, NoCert
<1>16. CASE CommitReject(r)
  BY <1>16, <1>0 DEF CommitReject, NoCert
<1>17. CASE DropCertificate(r)
  BY <1>17, <1>0 DEF DropCertificate, NoCert
<1> QED
  BY <1>1, <1>2, <1>3, <1>4, <1>5, <1>6, <1>7, <1>8, <1>9, <1>10, <1>11, <1>12, <1>13, <1>14, <1>15, <1>16, <1>17 DEF RankNext

\* A rank blocked in the collective keeps what it voted for.
LEMMA BlockedStep ==
  ASSUME TypeOK, BlockedComplete, NEW r \in Ranks, RankNext(r)
  PROVE  BlockedComplete'
<1>1. CASE \E code \in Codes : EnterPrepare(r, code)
  <2>1. PICK code \in Codes : EnterPrepare(r, code)
    BY <1>1
  <2>2. \A q \in Ranks : Complete(q) => Complete(q)'
    BY <2>1 DEF EnterPrepare, layerVars, dataVars, writerVars, Complete, Fresh,
                RequiredPublished, Published
  <2>3. /\ contrib' \in [Ranks -> Codes] /\ arrived \subseteq Ranks
        /\ contrib' = [contrib EXCEPT ![r] = LocalVote(r, code)]
        /\ r \notin arrived /\ r \notin released
        /\ contrib \in [Ranks -> Codes]
    BY <1>1, <2>1, TypeStep DEF EnterPrepare, Running, TypeOK, Next, RankNext
  <2>4. \A q \in arrived \cup {r} : contrib'[q] = "ok" => Complete(q)'
    <3>1. contrib'[r] = "ok" => Complete(r)
      BY <2>3, VoteComplete
    <3>2. \A q \in arrived : contrib'[q] = "ok" => Complete(q)
      BY <2>3 DEF BlockedComplete
    <3> QED BY <2>2, <2>3, <3>1, <3>2
  <2>5. CASE arrived \cup {r} = Ranks
    <3>1. arrived' = {} /\ released' = Ranks
          /\ verdict'.code = contrib'[Selected(contrib')]
      BY <2>1, <2>5 DEF EnterPrepare
    <3>2. verdict'.code = "ok" => \A q \in Ranks : contrib'[q] = "ok"
      BY <2>3, <3>1, UnanimousSelection
    <3> QED BY <2>4, <2>5, <3>1, <3>2 DEF BlockedComplete
  <2>6. CASE arrived \cup {r} # Ranks
    <3>1. arrived' = arrived \cup {r} /\ released' = released
          /\ verdict' = verdict
      BY <2>1, <2>6 DEF EnterPrepare
    <3>2. \A q \in released : q \in Ranks
      BY DEF TypeOK
    <3> QED BY <2>2, <2>3, <2>4, <3>1, <3>2 DEF BlockedComplete
  <2> QED BY <2>5, <2>6
<1>2. CASE LeavePrepare(r) \/ FailPrepare(r)
  <2>1. /\ arrived' = arrived /\ released' = released \ {r}
        /\ contrib' = contrib /\ verdict' = verdict /\ r \in released
    BY <1>2 DEF LeavePrepare, FailPrepare
  <2>2. \A q \in Ranks : q # r /\ Complete(q) => Complete(q)'
    BY OthersSame, CompleteSame
  <2>3. arrived \subseteq Ranks /\ released \subseteq Ranks
    BY DEF TypeOK
  <2> QED BY <2>1, <2>2, <2>3 DEF BlockedComplete
<1>3. CASE Running(r) /\ UNCHANGED mpiVars
  <2>1. \A q \in Ranks : q # r /\ Complete(q) => Complete(q)'
    BY OthersSame, CompleteSame
  <2>2. arrived \subseteq Ranks /\ released \subseteq Ranks
    BY DEF TypeOK
  <2> QED BY <1>3, <2>1, <2>2 DEF BlockedComplete, Running, mpiVars
<1> QED
  BY <1>1, <1>2, <1>3
  DEF RankNext, BeginActive, Begin, ReviseTrial, BindDependency, Usable,
      PublishPendingCache, ClaimWriter, BeginPendingFlux, PublishFlux,
      AbandonView, DetachStorage, DestroyWriter, CommitAccept, CommitReject,
      DropCertificate

(***************************************************************************)
(* Commit.                                                                 *)
(***************************************************************************)
\* What commit_accept publishes: a complete attempt, whose trial layer becomes
\* the newest level, strictly newer than the one that becomes the older.
LEMMA CommitEffect ==
  ASSUME IndInv, NEW r \in Ranks, CommitAccept(r)
  PROVE  /\ Complete(r) /\ writer[r] # "lost"
         /\ handle'[r]["accepted"] = Trial(r)
         /\ handle'[r]["previous"] = Accepted(r)
         /\ \A f \in Fields : /\ catalog[r][f] = rev[r][Trial(r)][f]
                              /\ rev[r][Accepted(r)][f] < rev[r][Trial(r)][f]
         /\ rev' = rev
         /\ cache' = [cache EXCEPT ![r] = pending[r]]
<1>1. Complete(r)
  BY DEF CommitAccept, IndInv, AcceptCertificateComplete
<1>2. writer[r] # "lost"
  BY <1>1 DEF Complete, RequiredPublished, IndInv, LostWriterClosed
<1>3. handle \in [Ranks -> [Roles -> Replicas]]
  BY DEF IndInv, TypeOK
<1>4. /\ handle'[r]["accepted"] = Trial(r)
      /\ handle'[r]["previous"] = Accepted(r)
  BY <1>3 DEF CommitAccept, Rotate, Trial, Accepted, Roles
<1>5. \A f \in Fields : /\ catalog[r][f] = rev[r][Trial(r)][f]
                        /\ rev[r][Accepted(r)][f] < rev[r][Trial(r)][f]
  BY <1>1 DEF Complete, IndInv, TrialTracked
<1> QED BY <1>1, <1>2, <1>4, <1>5 DEF CommitAccept

\* Steps other than commit_accept leave both committed levels alone: begin
\* and revise_trial write only the trial replica.
LEMMA CommittedUntouched ==
  ASSUME IndInv, NEW r \in Ranks, RankNext(r), ~CommitAccept(r),
         NEW q \in Ranks, NEW o \in {"accepted", "previous"}
  PROVE  rev'[q][handle'[q][o]] = rev[q][handle[q][o]]
<1>0. /\ handle' = handle
      /\ TypeOK /\ RevisionsIssued
  BY LayerFrame DEF IndInv
<1>1. handle[q][o] \in Replicas /\ handle[q][o] # Trial(q)
  BY DEF IndInv, TypeOK, RolesDistinct, Trial, Roles
<1>2. CASE q # r
  BY <1>2, <1>0, OthersSame DEF Same
<1>3. CASE rev' = rev
  BY <1>0, <1>3
<1>4. CASE q = r /\ \E same \in BOOLEAN : Begin(r, same)
  <2>1. PICK same \in BOOLEAN : Begin(r, same)
    BY <1>4
  <2>2. CASE status'[r] = "ok"
    BY <1>0, <1>1, <1>4, <2>1, <2>2, BeginEffect
  <2>3. CASE status'[r] # "ok"
    BY <1>0, <2>1, <2>3 DEF Begin, TypeOK
  <2> QED BY <2>2, <2>3
<1>5. CASE q = r /\ \E f \in 0 .. NumFields : ReviseTrial(r, f)
  <2>1. PICK f \in 0 .. NumFields : ReviseTrial(r, f)
    BY <1>5
  <2>2. CASE status'[r] = "ok"
    BY <1>0, <1>1, <1>5, <2>1, <2>2, ReviseEffect
  <2>3. CASE status'[r] # "ok"
    BY <1>0, <2>1, <2>3 DEF ReviseTrial, Usable
  <2> QED BY <2>2, <2>3
<1> QED BY <1>2, <1>3, <1>4, <1>5, LayerFrame

\* A committed cache stays the one computed from the accepted revisions.
LEMMA CachesStep ==
  ASSUME IndInv, NEW r \in Ranks, RankNext(r)
  PROVE  CommittedCachesCurrent'
<1> SUFFICES ASSUME NEW q \in Ranks, NEW slot \in Slots, NEW f \in Fields,
                    cache'[q][slot][f] # 0
             PROVE  cache'[q][slot][f] = rev'[q][handle'[q]["accepted"]][f]
  BY DEF CommittedCachesCurrent, Accepted
<1>0. TypeOK /\ cache \in [Ranks -> [Slots -> [Sources -> Nat]]]
  BY DEF IndInv, TypeOK
<1>1. CASE CommitAccept(r) /\ q = r
  <2>1. /\ Complete(r) /\ handle'[r]["accepted"] = Trial(r)
        /\ catalog[r][f] = rev[r][Trial(r)][f] /\ rev' = rev
        /\ cache' = [cache EXCEPT ![r] = pending[r]]
    BY <1>1, CommitEffect
  <2>2. cache'[r] = pending[r]
    BY <1>0, <2>1
  <2>3. f \in Sources
    BY DEF Fields, Sources
  <2> QED BY <1>1, <2>1, <2>2, <2>3 DEF Complete, Fresh
<1>2. CASE CommitAccept(r) /\ q # r
  BY <1>0, <1>2, OthersSame DEF Same, IndInv, CommittedCachesCurrent, Accepted
<1>3. CASE ~CommitAccept(r)
  <2>1. cache' = cache
    BY <1>3, LayerFrame
  <2>2. rev'[q][handle'[q]["accepted"]] = rev[q][handle[q]["accepted"]]
    BY <1>3, CommittedUntouched
  <2> QED BY <2>1, <2>2 DEF IndInv, CommittedCachesCurrent, Accepted
<1> QED BY <1>1, <1>2, <1>3

(***************************************************************************)
(* The theorems.                                                           *)
(***************************************************************************)
\* The state built by create and allocate satisfies the invariant.
LEMMA IndInit == Init => IndInv
<1> SUFFICES ASSUME Init PROVE IndInv
  OBVIOUS
<1>1. TypeOK
  BY TypeInit
<1>2. RolesDistinct
  BY DEF Init, RolesDistinct, Roles
<1>3. RevisionsIssued
  <2>1. \A p \in Replicas, f \in Fields : 3 * (f - 1) + p + 1 < 3 * NumFields + 1
    BY DEF Replicas, Fields
  <2> QED BY <2>1 DEF Init, RevisionsIssued
<1>4. TrialTracked /\ LostWriterClosed
  BY DEF Init, TrialTracked, LostWriterClosed
<1>5. CertificatesPast /\ AcceptCertificateComplete
  BY DEF Init, CertificatesPast, AcceptCertificateComplete, Matches, NoCert
<1>6. BlockedComplete
  BY DEF Init, BlockedComplete
<1>7. CommittedCachesCurrent
  <2>1. \A f \in Fields : f \in Sources
    BY DEF Fields, Sources
  <2> QED BY <2>1 DEF Init, CommittedCachesCurrent, NoCache
<1> QED BY <1>1, <1>2, <1>3, <1>4, <1>5, <1>6, <1>7 DEF IndInv

\* Every step preserves the invariant.
LEMMA IndStep == IndInv /\ [Next]_vars => IndInv'
<1> SUFFICES ASSUME IndInv, [Next]_vars PROVE IndInv'
  OBVIOUS
<1>1. CASE Next
  <2>1. PICK r \in Ranks : RankNext(r)
    BY <1>1 DEF Next
  <2>2. TypeOK' /\ RolesDistinct' /\ RevisionsIssued'
    BY <1>1, <2>1, TypeStep, RolesStep, RevisionsStep DEF IndInv
  <2>3. TrialTracked' /\ LostWriterClosed'
    BY <2>1, TrackedStep, LostWriterStep DEF IndInv
  <2>4. CertificatesPast' /\ BlockedComplete'
    BY <2>1, CertificatesPastStep, BlockedStep DEF IndInv
  <2>5. AcceptCertificateComplete' /\ CommittedCachesCurrent'
    BY <2>1, AcceptCertificateStep, CachesStep DEF IndInv
  <2> QED BY <2>2, <2>3, <2>4, <2>5 DEF IndInv
<1>2. CASE UNCHANGED vars
  BY <1>2
  DEF vars, IndInv, TypeOK, RolesDistinct, RevisionsIssued, TrialTracked,
      LostWriterClosed, CertificatesPast, BlockedComplete,
      AcceptCertificateComplete, CommittedCachesCurrent, Matches, Complete,
      Fresh, RequiredPublished, Published, Trial, Accepted
<1> QED BY <1>1, <1>2

\* The inductive invariant holds in every reachable state.
THEOREM Invariance == Spec => []IndInv
BY IndInit, IndStep, PTL DEF Spec

\* The variables keep their types.
THEOREM TypeCorrect == Spec => []TypeOK
<1>1. IndInv => TypeOK
  BY DEF IndInv
<1> QED BY <1>1, Invariance, PTL

\* Whatever a rank does between collective_prepare and commit_accept, a
\* certificate commit_accept would honour certifies a complete attempt.
THEOREM CertificatesSafe == Spec => []AcceptCertificateComplete
<1>1. IndInv => AcceptCertificateComplete
  BY DEF IndInv
<1> QED BY <1>1, Invariance, PTL

\* No committed cache is stale with respect to the accepted state.
THEOREM CachesSafe == Spec => []CommittedCachesCurrent
<1>1. IndInv => CommittedCachesCurrent
  BY DEF IndInv
<1> QED BY <1>1, Invariance, PTL

\* A rank whose face-flux writer was destroyed never commits again.
THEOREM LostWriterFailsClosed == Spec => NoCommitAfterWriterLost
<1>1. IndInv /\ [Next]_vars
        => [\A r \in Ranks : Committing(r) => writer[r] # "lost"]_vars
  <2> SUFFICES ASSUME IndInv, Next, NEW q \in Ranks, Committing(q)
               PROVE  writer[q] # "lost"
    OBVIOUS
  <2>1. PICK r \in Ranks : RankNext(r)
    BY DEF Next
  <2>2. TypeOK
    BY DEF IndInv
  <2>3. q = r
    BY <2>1, <2>2, OthersSame DEF Same, Committing
  <2>4. CommitAccept(r)
    <3>1. finish' = finish \/ \E same \in BOOLEAN : Begin(r, same)
            \/ FailPrepare(r) \/ CommitReject(r) \/ CommitAccept(r)
      BY <2>1
      DEF RankNext, BeginActive, ReviseTrial, BindDependency,
          PublishPendingCache, ClaimWriter, BeginPendingFlux, PublishFlux,
          AbandonView, DetachStorage, DestroyWriter, EnterPrepare,
          LeavePrepare, DropCertificate
    <3>2. finish \in [Ranks -> {"open", "committed", "discarded"}]
      BY <2>2 DEF TypeOK
    <3>3. CASE \E same \in BOOLEAN : Begin(r, same)
      BY <2>3, <3>2, <3>3 DEF Begin, Committing
    <3>4. CASE FailPrepare(r) \/ CommitReject(r)
      BY <2>3, <3>2, <3>4 DEF FailPrepare, CommitReject, Discard, Committing
    <3> QED BY <2>3, <3>1, <3>3, <3>4 DEF Committing
  <2> QED BY <2>3, <2>4, CommitEffect
<1> QED BY <1>1, Invariance, PTL DEF Spec, NoCommitAfterWriterLost

\* The layers implement the abstract time levels: committed data change only
\* by acceptance, shift by one level and are strictly newer.
THEOREM LayersRefineTimeLevels == Spec => ImplementsTimeLevels
<1>1. Init => TL!Init
  <2> SUFFICES ASSUME Init PROVE TL!Init
    OBVIOUS
  <2>1. TypeOK
    BY TypeInit
  <2> QED BY <2>1 DEF TL!Init, TL!Levels, Newest, Older, TypeOK, Accepted, Roles
<1>2. IndInv /\ [Next]_vars => [TL!Next]_<<Newest, Older>>
  <2> SUFFICES ASSUME IndInv, [Next]_vars PROVE [TL!Next]_<<Newest, Older>>
    OBVIOUS
  <2>1. CASE UNCHANGED vars
    BY <2>1 DEF vars, Newest, Older, Accepted
  <2>2. CASE Next
    <3>1. PICK r \in Ranks : RankNext(r)
      BY <2>2 DEF Next
    <3>2. CASE ~CommitAccept(r)
      <4>1. \A q \in Ranks : /\ Newest'[q] = Newest[q]
                             /\ Older'[q] = Older[q]
        BY <3>1, <3>2, CommittedUntouched DEF Newest, Older, Accepted
      <4> QED BY <4>1 DEF Newest, Older, Accepted
    <3>3. CASE CommitAccept(r)
      <4>1. /\ handle'[r]["accepted"] = Trial(r)
            /\ handle'[r]["previous"] = Accepted(r)
            /\ \A f \in Fields : rev[r][Accepted(r)][f] < rev[r][Trial(r)][f]
            /\ rev' = rev
        BY <3>3, CommitEffect
      <4>2. \A q \in Ranks : q # r => handle'[q] = handle[q]
        BY <3>1, OthersSame DEF IndInv, Same
      <4>3. Newest'[r] = rev[r][Trial(r)] /\ Older'[r] = Newest[r]
        BY <4>1 DEF Newest, Older, Accepted
      <4>4. Trial(r) \in Replicas /\ rev \in [Ranks -> [Replicas -> [Fields -> Nat]]]
        BY DEF IndInv, TypeOK, Trial, Roles
      <4>5. Newest'[r] \in TL!Levels
        BY <4>3, <4>4 DEF TL!Levels
      <4>6. \A f \in Fields : /\ Newest[r][f] < Newest'[r][f]
        BY <4>1, <4>3 DEF Newest, Accepted
      <4>7. /\ Newest' = [Newest EXCEPT ![r] = Newest'[r]]
            /\ Older' = [Older EXCEPT ![r] = Newest[r]]
        BY <4>1, <4>2, <4>3 DEF Newest, Older, Accepted
      <4>8. \A f \in Fields : Newest'[r][f] > Newest[r][f]
        BY <4>6
      <4>9. TL!Accept(r, Newest'[r])
        BY <4>7, <4>8 DEF TL!Accept
      <4> QED BY <4>5, <4>9 DEF TL!Next
    <3> QED BY <3>2, <3>3
  <2> QED BY <2>1, <2>2
<1> QED BY <1>1, <1>2, Invariance, PTL DEF Spec, ImplementsTimeLevels, TL!Spec

\* The minimum of the selection keys is a failure of the gravest kind on the
\* lowest rank that has one.
LEMMA SelectionSound ==
  ASSUME NEW v \in [Ranks -> Codes]
  PROVE  LET s == Selected(v)
         IN  /\ v[s] = "ok" <=> \A q \in Ranks : v[q] = "ok"
             /\ (\E q \in Ranks : v[q] = "fatal") => v[s] = "fatal"
             /\ \A q \in Ranks : q < s => v[q] # v[s]
<1> DEFINE s == Selected(v)
<1>1. s \in Ranks /\ s \in 0 .. NumRanks - 1 /\ v[s] \in Codes
  BY SelectedRank DEF Ranks
<1> HIDE DEF s
<1>2. \A q \in Ranks : FailureSelectionKey(s, v[s]) <= FailureSelectionKey(q, v[q])
  BY SelectedRank DEF s
<1>3. \A q \in Ranks : /\ FailureSelectionKey(q, "ok") = 2 * NumRanks + q
                       /\ FailureSelectionKey(q, "retry") = NumRanks + q
                       /\ FailureSelectionKey(q, "fatal") = q
  BY DEF FailureSelectionKey, Severity, Ranks
<1>4. v[s] = "ok" <=> \A q \in Ranks : v[q] = "ok"
  BY <1>1, UnanimousSelection DEF s
<1>5. ASSUME NEW q \in Ranks, v[q] = "fatal" PROVE v[s] = "fatal"
  <2>1. FailureSelectionKey(s, v[s]) <= q
    BY <1>2, <1>3, <1>5
  <2>2. q \in 0 .. NumRanks - 1
    BY DEF Ranks
  <2>3. v[s] # "ok" /\ v[s] # "retry"
    BY <1>1, <1>3, <2>1, <2>2
  <2> QED BY <1>1, <2>3 DEF Codes
<1>6. ASSUME NEW q \in Ranks, q < s, v[q] = v[s] PROVE FALSE
  <2>1. FailureSelectionKey(s, v[s]) <= FailureSelectionKey(q, v[s])
    BY <1>2, <1>6
  <2>2. q \in 0 .. NumRanks - 1
    BY DEF Ranks
  <2> QED BY <1>1, <1>3, <1>6, <2>1, <2>2 DEF Codes
<1> QED BY <1>4, <1>5, <1>6 DEF s

\* Only entering the collective can complete it.
LEMMA VoteFrame ==
  ASSUME NEW r \in Ranks, RankNext(r)
  PROVE  \/ votes' = votes /\ verdict' = verdict
         \/ \E code \in Codes : EnterPrepare(r, code)
<1> USE DEF mpiVars
<1>1. CASE BeginActive(r)
  BY <1>1 DEF BeginActive
<1>2. CASE \E same \in BOOLEAN : Begin(r, same)
  BY <1>2 DEF Begin
<1>3. CASE \E f \in 0 .. NumFields : ReviseTrial(r, f)
  BY <1>3 DEF ReviseTrial
<1>4. CASE \E s \in Sources \ Fields, v \in 0 .. ExternalBound :
              BindDependency(r, s, v)
  BY <1>4 DEF BindDependency
<1>5. CASE \E slot \in Slots, deps \in Dependencies :
              PublishPendingCache(r, slot, deps)
  BY <1>5 DEF PublishPendingCache
<1>6. CASE ClaimWriter(r)
  BY <1>6 DEF ClaimWriter
<1>7. CASE BeginPendingFlux(r)
  BY <1>7 DEF BeginPendingFlux
<1>8. CASE \E deps \in Dependencies : PublishFlux(r, deps)
  BY <1>8 DEF PublishFlux
<1>9. CASE AbandonView(r)
  BY <1>9 DEF AbandonView
<1>10. CASE DetachStorage(r)
  BY <1>10 DEF DetachStorage
<1>11. CASE DestroyWriter(r)
  BY <1>11 DEF DestroyWriter
<1>12. CASE \E code \in Codes : EnterPrepare(r, code)
  BY <1>12
<1>13. CASE LeavePrepare(r)
  BY <1>13 DEF LeavePrepare
<1>14. CASE FailPrepare(r)
  BY <1>14 DEF FailPrepare
<1>15. CASE CommitAccept(r)
  BY <1>15 DEF CommitAccept
<1>16. CASE CommitReject(r)
  BY <1>16 DEF CommitReject
<1>17. CASE DropCertificate(r)
  BY <1>17 DEF DropCertificate
<1> QED
  BY <1>1, <1>2, <1>3, <1>4, <1>5, <1>6, <1>7, <1>8, <1>9, <1>10, <1>11, <1>12, <1>13, <1>14, <1>15, <1>16, <1>17 DEF RankNext

\* The collective accepts only unanimously and never hides a fatal failure.
THEOREM FatalFailureReported == Spec => []FatalFailureWins
<1>1. Init => FatalFailureWins
  BY DEF Init, FatalFailureWins, Ranks
<1>2. IndInv /\ FatalFailureWins /\ [Next]_vars => FatalFailureWins'
  <2> SUFFICES ASSUME IndInv, FatalFailureWins, [Next]_vars
               PROVE  FatalFailureWins'
    OBVIOUS
  <2>1. CASE votes' = votes /\ verdict' = verdict
    BY <2>1 DEF FatalFailureWins
  <2>2. ASSUME NEW r \in Ranks, NEW code \in Codes, EnterPrepare(r, code)
        PROVE  FatalFailureWins'
    <3>1. CASE arrived \cup {r} = Ranks
      <4>1. votes' \in [Ranks -> Codes]
        <5>1. Next
          BY <2>2 DEF Next, RankNext
        <5> QED BY <5>1, TypeStep DEF IndInv, TypeOK
      <4>2. verdict' = [rank |-> Selected(votes'),
                        code |-> votes'[Selected(votes')]]
        BY <2>2, <3>1 DEF EnterPrepare
      <4>3. /\ verdict'.rank = Selected(votes')
            /\ verdict'.code = votes'[Selected(votes')]
        BY <4>2
      <4> QED BY <4>1, <4>3, SelectionSound DEF FatalFailureWins
    <3>2. CASE arrived \cup {r} # Ranks
      <4>1. votes' = votes /\ verdict' = verdict
        BY <2>2, <3>2 DEF EnterPrepare
      <4> QED BY <4>1, <2>1
    <3> QED BY <3>1, <3>2
  <2>3. \/ votes' = votes /\ verdict' = verdict
        \/ \E r \in Ranks, code \in Codes : EnterPrepare(r, code)
    <3>1. CASE UNCHANGED vars
      BY <3>1 DEF vars
    <3>2. CASE Next
      <4>1. PICK r \in Ranks : RankNext(r)
        BY <3>2 DEF Next
      <4> QED BY <4>1, VoteFrame
    <3> QED BY <3>1, <3>2
  <2> QED BY <2>1, <2>2, <2>3
<1> QED BY <1>1, <1>2, Invariance, PTL DEF Spec

(***************************************************************************)
(* The dependency catalog.                                                 *)
(***************************************************************************)
\* The sources that the catalog of a rank has bound.
Bound(c) == {q \in Sources : c[q] # 0}

LEMMA BoundFinite ==
  ASSUME NEW c
  PROVE  IsFiniteSet(Bound(c)) /\ Cardinality(Bound(c)) \in Nat
<1>1. IsFiniteSet(Sources)
  BY FS_Interval DEF Sources
<1>2. Bound(c) \subseteq Sources
  BY DEF Bound
<1> QED BY <1>1, <1>2, FS_Subset, FS_CardinalityType

\* A catalog that binds no other source is no larger.
LEMMA BoundShrinks ==
  ASSUME NEW c, NEW d, Bound(d) \subseteq Bound(c),
         Cardinality(Bound(c)) <= SourceCapacity
  PROVE  Cardinality(Bound(d)) <= SourceCapacity
<1>1. Cardinality(Bound(d)) <= Cardinality(Bound(c))
  BY BoundFinite, FS_Subset
<1> QED BY <1>1, BoundFinite

\* begin binds the state fields only, which the vector has room for.
LEMMA BoundFields ==
  ASSUME NEW c, Bound(c) \subseteq Fields
  PROVE  Cardinality(Bound(c)) <= SourceCapacity
<1>1. IsFiniteSet(Fields) /\ Cardinality(Fields) = NumFields
  BY FS_Interval DEF Fields
<1>2. Cardinality(Bound(c)) <= Cardinality(Fields)
  BY <1>1, FS_Subset
<1> QED BY <1>1, <1>2, BoundFinite

\* bind_dependency appends one source to a catalog that is not full.
LEMMA BoundGrows ==
  ASSUME NEW c, NEW d, NEW s, Bound(d) \subseteq Bound(c) \cup {s},
         Cardinality(Bound(c)) < SourceCapacity
  PROVE  Cardinality(Bound(d)) <= SourceCapacity
<1>1. /\ IsFiniteSet(Bound(c) \cup {s})
      /\ Cardinality(Bound(c) \cup {s}) \in {Cardinality(Bound(c)),
                                             Cardinality(Bound(c)) + 1}
  <2>1. CASE s \in Bound(c)
    <3>1. Bound(c) \cup {s} = Bound(c) BY <2>1
    <3> QED BY <3>1, BoundFinite
  <2>2. CASE s \notin Bound(c)
    BY <2>2, BoundFinite, FS_AddElement
  <2> QED BY <2>1, <2>2
<1>2. Cardinality(Bound(d)) <= Cardinality(Bound(c) \cup {s})
  BY <1>1, FS_Subset
<1> QED BY <1>1, <1>2, BoundFinite

LEMMA CatalogStep ==
  ASSUME IndInv, CatalogWithinCapacity, NEW r \in Ranks, RankNext(r)
  PROVE  CatalogWithinCapacity'
<1>0. TypeOK /\ catalog \in [Ranks -> [Sources -> Nat]]
  BY DEF IndInv, TypeOK
<1>1. \A q \in Ranks : Cardinality(Bound(catalog[q])) <= SourceCapacity
  BY DEF CatalogWithinCapacity, Bound
<1> SUFFICES ASSUME NEW q \in Ranks
             PROVE  Cardinality(Bound(catalog'[q])) <= SourceCapacity
  BY DEF CatalogWithinCapacity, Bound
<1>2. CASE q # r \/ catalog' = catalog
  BY <1>0, <1>1, <1>2, OthersSame DEF Same
<1>3. CASE q = r /\ \E same \in BOOLEAN : Begin(r, same)
  <2>1. \/ catalog'[r] = NoCache
        \/ \A s \in Sources \ Fields : catalog'[r][s] = 0
    BY <1>0, <1>3 DEF Begin
  <2>2. Bound(catalog'[r]) \subseteq Fields
    BY <2>1 DEF Bound, NoCache
  <2> QED BY <1>3, <2>2, BoundFields
<1>4. CASE q = r /\ \E f \in 0 .. NumFields : ReviseTrial(r, f)
  <2>1. PICK f \in 0 .. NumFields : ReviseTrial(r, f)
    BY <1>4
  <2>2. CASE catalog' = catalog
    BY <1>1, <2>2
  <2>3. CASE f \in Fields /\ catalog' = [catalog EXCEPT ![r][f] = nextRev[r]]
    <3>1. active[r] /\ status[r] = "ok"
      BY <2>1 DEF ReviseTrial, Usable
    <3>2. Trial(r) \in Replicas /\ Accepted(r) \in Replicas
      BY <1>0 DEF TypeOK, Trial, Accepted, Roles
    <3>3. /\ rev[r][Accepted(r)][f] < catalog[r][f]
          /\ rev[r][Accepted(r)][f] \in Nat /\ f \in Sources
      <4>1. /\ catalog[r][f] = rev[r][Trial(r)][f]
            /\ rev[r][Accepted(r)][f] < rev[r][Trial(r)][f]
        BY <2>3, <3>1 DEF IndInv, TrialTracked
      <4>2. rev[r][Accepted(r)][f] \in Nat
        BY <1>0, <2>3, <3>2 DEF TypeOK
      <4>3. f \in Sources
        BY <2>3 DEF Fields, Sources
      <4> QED BY <4>1, <4>2, <4>3
    <3>4. f \in Bound(catalog[r])
      BY <1>0, <3>3 DEF Bound
    <3>5. Bound(catalog'[r]) \subseteq Bound(catalog[r])
      BY <1>0, <2>3, <3>4 DEF Bound
    <3> QED BY <1>1, <1>4, <3>5, BoundShrinks
  <2> QED BY <2>1, <2>2, <2>3 DEF ReviseTrial
<1>5. CASE q = r /\ \E s \in Sources \ Fields, v \in 0 .. ExternalBound :
                      BindDependency(r, s, v)
  <2>1. PICK s \in Sources \ Fields, v \in 0 .. ExternalBound :
          BindDependency(r, s, v)
    BY <1>5
  <2>2. CASE catalog' = catalog
    BY <1>1, <2>2
  <2>3. CASE /\ catalog' = [catalog EXCEPT ![r][s] = v]
             /\ \/ catalog[r][s] # 0
                \/ ~(Cardinality(Bound(catalog[r])) >= SourceCapacity)
    <3>1. Bound(catalog'[r]) \subseteq Bound(catalog[r]) \cup {s}
      BY <1>0, <2>3 DEF Bound
    <3>2. CASE catalog[r][s] # 0
      <4>1. Bound(catalog'[r]) \subseteq Bound(catalog[r])
        BY <3>1, <3>2 DEF Bound
      <4> QED BY <1>1, <1>5, <4>1, BoundShrinks
    <3>3. CASE ~(Cardinality(Bound(catalog[r])) >= SourceCapacity)
      <4>1. Cardinality(Bound(catalog[r])) < SourceCapacity
        BY <3>3, BoundFinite
      <4> QED BY <1>5, <3>1, <4>1, BoundGrows
    <3> QED BY <2>3, <3>2, <3>3
  <2> QED BY <2>1, <2>2, <2>3 DEF BindDependency, Bound
<1> QED BY <1>0, <1>2, <1>3, <1>4, <1>5, AttemptFrame

\* The dependency catalog never outgrows the vector that create allocated for
\* it: rebinding and revising do not add sources, because an unfailed attempt
\* has every state field bound, and appending checks for room.
THEOREM CatalogFits == Spec => []CatalogWithinCapacity
<1>1. Init => CatalogWithinCapacity
  <2> SUFFICES ASSUME Init, NEW r \in Ranks
               PROVE  Cardinality(Bound(catalog[r])) <= SourceCapacity
    BY DEF CatalogWithinCapacity, Bound
  <2>1. Bound(catalog[r]) \subseteq Fields
    BY DEF Init, NoCache, Bound
  <2> QED BY <2>1, BoundFields
<1>2. IndInv /\ CatalogWithinCapacity /\ [Next]_vars => CatalogWithinCapacity'
  <2>1. UNCHANGED vars /\ CatalogWithinCapacity => CatalogWithinCapacity'
    BY DEF vars, CatalogWithinCapacity
  <2> QED BY <2>1, CatalogStep DEF Next
<1> QED BY <1>1, <1>2, Invariance, PTL DEF Spec

=============================================================================
