---------------------- MODULE CollectiveProgram_proofs ----------------------
(***************************************************************************)
(* First the failure packets: whatever the order in which packets meet,    *)
(* the result names the first failure, and it is the only packet that      *)
(* does.  This holds in every collective call of every program.            *)
(*                                                                         *)
(* Then the programs.  If every program is in step (LoneRank), then all    *)
(* ranks are in one phase of it, each in a state that a lone rank reaches, *)
(* and so they agree on their calls and on their results: for any number   *)
(* of ranks, whichever of them fail and however often.  A lone rank tells  *)
(* only two ranks from each other, so it stands for a rank up to their     *)
(* names; what it knows of each name follows by naming one rank apart.     *)
(***************************************************************************)
EXTENDS LoneRank, WellFoundedInduction, TLAPS

\* Packets whose combination is defined: no type is asked of the counts, which
\* are only compared.
Formed(p) ==
  /\ p = [ranks |-> p.ranks, reference |-> p.reference, count |-> p.count,
          failure |-> p.failure]
  /\ p.ranks \subseteq Ranks /\ p.reference \in Ranks /\ p.failure \in Failures

\* What the ranks contribute to a call.
Sendings(sent) == \A r \in Ranks : sent[r].code \in 0 .. MaxCode

\* The failures are ordered by rank and code (select_failure): the selected
\* one is one of the two and no later than either.
LEMMA SelectIsFirst ==
  ASSUME NEW f \in Failures, NEW g \in Failures
  PROVE  /\ SelectFailure(f, g) \in {f, g}
         /\ ~Precedes(f, SelectFailure(f, g))
         /\ ~Precedes(g, SelectFailure(f, g))
BY PacketAssumption DEF SelectFailure, Precedes, Failures, Codes, CountMismatch

\* Precedes is a strict order whose negation is transitive.
LEMMA NotPrecedesTransitive ==
  ASSUME NEW f \in Failures, NEW g \in Failures, NEW h \in Failures,
         ~Precedes(f, g), ~Precedes(g, h)
  PROVE  ~Precedes(f, h)
BY PacketAssumption DEF Precedes, Failures, Codes, CountMismatch

\* Two failures of which neither precedes the other are the same.
LEMMA PrecedesTotal ==
  ASSUME NEW f \in Failures, NEW g \in Failures,
         ~Precedes(f, g), ~Precedes(g, f)
  PROVE  f = g
BY PacketAssumption DEF Precedes, Failures, Codes, CountMismatch

\* A rank that fails, or whose count differs, is charged.
LEMMA ChargeCases ==
  ASSUME NEW sent, NEW S, NEW count, NEW f
  PROVE  f \in Charges(sent, S, count) <=>
           \/ \E r \in S : sent[r].code # 0 /\ f = [rank |-> r, code |-> sent[r].code]
           \/ \E r \in S : sent[r].count # count
                           /\ f = [rank |-> r, code |-> CountMismatch]
           \/ f = NoFailure
BY DEF Charges

\* The charges of a set of ranks are failures.
LEMMA ChargesAreFailures ==
  ASSUME NEW sent, Sendings(sent), NEW S \in SUBSET Ranks, NEW count
  PROVE  Charges(sent, S, count) \subseteq Failures
<1> SUFFICES ASSUME NEW f \in Charges(sent, S, count) PROVE f \in Failures
  OBVIOUS
<1>1. ASSUME NEW r \in S
      PROVE  [rank |-> r, code |-> sent[r].code] \in Failures
  BY PacketAssumption DEF Sendings, Failures, Codes, CountMismatch, Ranks
<1>2. ASSUME NEW r \in S
      PROVE  [rank |-> r, code |-> CountMismatch] \in Failures
  BY PacketAssumption DEF Failures, Codes, CountMismatch, Ranks
<1>3. NoFailure \in Failures
  BY PacketAssumption DEF NoFailure, Failures, Codes, CountMismatch
<1> QED BY <1>1, <1>2, <1>3, ChargeCases

\* combine_packets, with the packet of the lower reference first.
LEMMA CombineOrdered ==
  ASSUME NEW sent, Sendings(sent),
         NEW e, NEW l, Formed(e), Formed(l),
         Exact(sent, e), Exact(sent, l),
         e.ranks \cap l.ranks = {}, e.reference < l.reference,
         NEW selected \in {e.failure, l.failure},
         ~Precedes(e.failure, selected), ~Precedes(l.failure, selected),
         NEW failure,
         failure = IF e.count # l.count
                   THEN SelectFailure([rank |-> l.reference,
                                       code |-> CountMismatch], selected)
                   ELSE selected
  PROVE  Exact(sent, [ranks |-> e.ranks \cup l.ranks,
                      reference |-> e.reference, count |-> e.count,
                      failure |-> failure])
<1> DEFINE U == e.ranks \cup l.ranks
           mismatch == [rank |-> l.reference, code |-> CountMismatch]
<1>1. /\ e.reference \in U
      /\ \A r \in U : e.reference <= r
  BY DEF Exact, Formed, Ranks
<1>2. e.count = sent[e.reference].count /\ l.count = sent[l.reference].count
  BY DEF Exact
<1>3. selected \in Failures /\ mismatch \in Failures
  BY PacketAssumption DEF Formed, Failures, Codes, CountMismatch, Ranks
<1>4. U \in SUBSET Ranks /\ e.ranks \in SUBSET Ranks /\ l.ranks \in SUBSET Ranks
  BY DEF Formed
<1>5. Charges(sent, U, e.count) \subseteq Failures
  BY <1>4, ChargesAreFailures
<1>6. \A f \in Charges(sent, e.ranks, e.count) : ~Precedes(f, selected)
  <2> SUFFICES ASSUME NEW f \in Charges(sent, e.ranks, e.count)
               PROVE  ~Precedes(f, selected)
    OBVIOUS
  <2>1. f \in Failures BY <1>4, ChargesAreFailures
  <2>2. ~Precedes(f, e.failure) BY DEF Exact
  <2> QED BY <2>1, <2>2, <1>3, NotPrecedesTransitive DEF Formed
<1>7. \A f \in Charges(sent, l.ranks, l.count) : ~Precedes(f, selected)
  <2> SUFFICES ASSUME NEW f \in Charges(sent, l.ranks, l.count)
               PROVE  ~Precedes(f, selected)
    OBVIOUS
  <2>1. f \in Failures BY <1>4, ChargesAreFailures
  <2>2. ~Precedes(f, l.failure) BY DEF Exact
  <2> QED BY <2>1, <2>2, <1>3, NotPrecedesTransitive DEF Formed
<1>8. e.failure \in Charges(sent, U, e.count)
  BY ChargeCases DEF Exact
<1>9. CASE e.count = l.count
  <2>1. failure = selected BY <1>9
  <2>2. l.failure \in Charges(sent, U, e.count)
    BY <1>9, ChargeCases DEF Exact
  <2>3. \A f \in Charges(sent, U, e.count) :
          f \in Charges(sent, e.ranks, e.count) \cup Charges(sent, l.ranks, l.count)
    BY <1>9, ChargeCases
  <2> QED BY <1>1, <1>2, <1>6, <1>7, <1>8, <2>1, <2>2, <2>3 DEF Exact
<1>10. CASE e.count # l.count
  <2>1. failure = SelectFailure(mismatch, selected) BY <1>10
  <2>2. /\ failure \in {mismatch, selected}
        /\ ~Precedes(mismatch, failure) /\ ~Precedes(selected, failure)
    BY <1>3, <2>1, SelectIsFirst
  <2>3. mismatch \in Charges(sent, U, e.count)
    <3>1. l.reference \in U /\ sent[l.reference].count # e.count
      BY <1>2, <1>10 DEF Exact
    <3> QED BY <3>1, ChargeCases
  \* A mismatch within l comes after that of its reference rank.
  <2>4. ASSUME failure = l.failure
        PROVE  l.failure \in Charges(sent, U, e.count)
    <3>1. CASE \E r \in l.ranks :
                 sent[r].code # 0 /\ l.failure = [rank |-> r, code |-> sent[r].code]
      BY <3>1, ChargeCases
    <3>2. CASE l.failure = NoFailure
      BY <3>2, ChargeCases
    <3>3. CASE \E r \in l.ranks : sent[r].count # l.count
                 /\ l.failure = [rank |-> r, code |-> CountMismatch]
      <4>1. PICK r \in l.ranks : sent[r].count # l.count
                 /\ l.failure = [rank |-> r, code |-> CountMismatch]
        BY <3>3
      <4>2. r # l.reference /\ l.reference <= r BY <4>1, <1>2 DEF Exact
      <4>3. l.reference < r BY <4>2, <1>4 DEF Formed, Ranks
      <4>4. Precedes(mismatch, l.failure) BY <4>1, <4>3 DEF Precedes
      <4> QED BY <4>4, <2>2, <2>4
    <3> QED BY <3>1, <3>2, <3>3, ChargeCases DEF Exact
  <2>5. failure \in Charges(sent, U, e.count)
    BY <2>2, <2>3, <2>4, <1>8
  <2>6. failure \in Failures BY <2>2, <1>3
  <2>7. ASSUME NEW f \in Charges(sent, U, e.count)
        PROVE  ~Precedes(f, failure)
    <3>1. f \in Failures BY <1>5
    <3>2. CASE f \in Charges(sent, e.ranks, e.count) \cup Charges(sent, l.ranks, l.count)
      BY <3>1, <3>2, <1>3, <1>6, <1>7, <2>2, <2>6, NotPrecedesTransitive
    <3>3. CASE \E r \in l.ranks : f = [rank |-> r, code |-> CountMismatch]
      <4>1. PICK r \in l.ranks : f = [rank |-> r, code |-> CountMismatch]
        BY <3>3
      <4>2. l.reference <= r /\ r \in Int /\ l.reference \in Int
        BY <1>4 DEF Exact, Formed, Ranks
      <4>3. ~Precedes(f, mismatch)
        BY <4>1, <4>2, PacketAssumption DEF Precedes, CountMismatch
      <4> QED BY <4>3, <3>1, <1>3, <2>2, <2>6, NotPrecedesTransitive
    <3> QED BY <3>2, <3>3, ChargeCases
  <2> QED BY <1>1, <1>2, <2>5, <2>7 DEF Exact
<1> QED BY <1>9, <1>10

\* Packets of disjoint sets of ranks, each naming the first failure of its
\* ranks, combine to a packet that names the first failure of all of them
\* (combine_packets, whichever of the two MPI calls the input).
THEOREM CombinationExact ==
  ASSUME NEW sent, Sendings(sent),
         NEW p, NEW q, Formed(p), Formed(q),
         Exact(sent, p), Exact(sent, q), p.ranks \cap q.ranks = {}
  PROVE  /\ Exact(sent, CombinePackets(p, q))
         /\ Formed(CombinePackets(p, q))
         /\ CombinePackets(p, q).ranks = p.ranks \cup q.ranks
<1> DEFINE selected == SelectFailure(p.failure, q.failure)
<1>1. /\ selected \in {p.failure, q.failure}
      /\ ~Precedes(p.failure, selected) /\ ~Precedes(q.failure, selected)
  BY SelectIsFirst DEF Formed
<1>2. p.reference \in Int /\ q.reference \in Int /\ p.reference # q.reference
  BY DEF Formed, Exact, Ranks
<1>3. CASE p.reference < q.reference
  <2> DEFINE failure == IF p.count # q.count
                        THEN SelectFailure([rank |-> q.reference,
                                            code |-> CountMismatch], selected)
                        ELSE selected
  <2>1. CombinePackets(p, q) =
          [ranks |-> p.ranks \cup q.ranks, reference |-> p.reference,
           count |-> p.count, failure |-> failure]
    BY <1>3 DEF CombinePackets
  <2>2. Exact(sent, [ranks |-> p.ranks \cup q.ranks, reference |-> p.reference,
                     count |-> p.count, failure |-> failure])
    BY <1>1, <1>3, CombineOrdered
  <2>3. failure \in Failures
    BY <1>1, PacketAssumption
       DEF Formed, SelectFailure, Failures, Codes, CountMismatch, Ranks
  <2> HIDE DEF failure
  <2> QED BY <2>1, <2>2, <2>3 DEF Formed
<1>4. CASE q.reference < p.reference
  <2> DEFINE failure == IF q.count # p.count
                        THEN SelectFailure([rank |-> p.reference,
                                            code |-> CountMismatch], selected)
                        ELSE selected
  <2>1. CombinePackets(p, q) =
          [ranks |-> p.ranks \cup q.ranks, reference |-> q.reference,
           count |-> q.count, failure |-> failure]
    BY <1>2, <1>4 DEF CombinePackets
  <2>2. Exact(sent, [ranks |-> q.ranks \cup p.ranks, reference |-> q.reference,
                     count |-> q.count, failure |-> failure])
    BY <1>1, <1>4, CombineOrdered
  <2>3. failure \in Failures
    BY <1>1, PacketAssumption
       DEF Formed, SelectFailure, Failures, Codes, CountMismatch, Ranks
  <2>4. q.ranks \cup p.ranks = p.ranks \cup q.ranks OBVIOUS
  <2> HIDE DEF failure
  <2> QED BY <2>1, <2>2, <2>3, <2>4 DEF Formed
<1> QED BY <1>2, <1>3, <1>4

\* Whatever the order in which the packets of a call meet, the result is the
\* same: two exact packets of the same ranks are equal.
THEOREM PacketUnique ==
  ASSUME NEW sent, Sendings(sent),
         NEW p, NEW q, Formed(p), Formed(q),
         Exact(sent, p), Exact(sent, q), p.ranks = q.ranks
  PROVE  p = q
<1>1. p.reference = q.reference
  BY DEF Exact, Formed, Ranks
<1>2. p.count = q.count
  BY <1>1 DEF Exact
<1>3. p.failure = q.failure
  BY <1>2, PrecedesTotal DEF Exact, Formed
<1> QED BY <1>1, <1>2, <1>3 DEF Formed

-----------------------------------------------------------------------------
\* What every rank brings to the call it waits in.
Sent == [r \in Ranks |-> Contribution(r, frame)]

PoolFunction ==
  /\ frame = [r \in Ranks |-> frame[r]]
  /\ pool = [c \in Channels |-> pool[c]]

\* A packet stands for ranks that wait in the call, and names the first failure.
PacketSound(c, p) ==
  /\ Formed(p) /\ p.ranks # {}
  /\ \A r \in p.ranks : Waits(frame[r], c)
  /\ Exact(Sent, p)

PoolSound == \A c \in Channels : \A p \in pool[c] : PacketSound(c, p)
PoolDisjoint ==
  \A c \in Channels : \A p, q \in pool[c] : p # q => p.ranks \cap q.ranks = {}

IndInv == PoolFunction /\ PoolSound /\ PoolDisjoint

\* The status of a rank is a code (initialize_packet).
LEMMA SentCodes == Sendings(Sent)
BY PacketAssumption DEF Sendings, Sent, Contribution

\* What Exact says depends on the contributions of the packet's ranks only.
LEMMA ExactRestricted ==
  ASSUME NEW s, NEW t, NEW p, \A r \in p.ranks : s[r] = t[r], Exact(s, p)
  PROVE  Exact(t, p)
<1>1. p.count = t[p.reference].count /\ p.reference \in p.ranks
      /\ \A r \in p.ranks : p.reference <= r
  BY DEF Exact
<1>2. ASSUME NEW f
      PROVE  f \in Charges(s, p.ranks, p.count) <=> f \in Charges(t, p.ranks, p.count)
  BY ChargeCases
<1> QED BY <1>1, <1>2 DEF Exact

\* The packet of one rank names that rank, if it has failed (initialize_packet).
LEMMA FreshPacket ==
  ASSUME NEW r \in Ranks, NEW f, NEW s, s[r] = Contribution(r, f),
         NEW p, p = Packet(r, f)
  PROVE  Formed(p) /\ p.ranks = {r} /\ Exact(s, p)
<1> DEFINE c == Contribution(r, f)
<1>1. c.code \in {0, 1} BY DEF Contribution
<1>2. p = [ranks |-> {r}, reference |-> r, count |-> c.count,
           failure |-> IF c.code = 0 THEN NoFailure
                       ELSE [rank |-> r, code |-> c.code]]
  BY DEF Packet, InitialPacket
<1> HIDE DEF c
<1>3. s[r] = c BY DEF c
<1>4. p.failure \in Failures
  BY <1>1, <1>2, PacketAssumption
     DEF Failures, Codes, CountMismatch, NoFailure, Ranks
<1>5. Formed(p) /\ p.ranks = {r} BY <1>2, <1>4 DEF Formed
<1>6. /\ p.reference \in p.ranks /\ \A q \in p.ranks : p.reference <= q
      /\ p.count = s[p.reference].count
  BY <1>2, <1>3 DEF Ranks
<1>7. p.failure \in Charges(s, p.ranks, p.count)
  BY <1>1, <1>2, <1>3, ChargeCases
<1>8. ASSUME NEW g \in Charges(s, p.ranks, p.count)
      PROVE  ~Precedes(g, p.failure)
  <2>1. CASE g = NoFailure
    BY <1>1, <1>2, <2>1, PacketAssumption DEF Precedes, NoFailure, Ranks
  <2>2. CASE c.code # 0 /\ g = [rank |-> r, code |-> c.code]
    BY <1>1, <1>2, <2>2 DEF Precedes, Ranks
  <2>3. c.count = p.count BY <1>2
  <2> QED BY <1>2, <1>3, <2>1, <2>2, <2>3, ChargeCases
<1> QED BY <1>5, <1>6, <1>7, <1>8 DEF Exact

\* Where a rank waits, and what it brings, depends on its frame only.
LEMMA FrameOnly ==
  ASSUME NEW r, NEW c
  PROVE  /\ Waits(frame[r], c)' <=> Waits(frame'[r], c)
         /\ Contribution(r, frame)' = Contribution(r, frame')
         /\ frame'[r] = frame[r] =>
              /\ Waits(frame[r], c)' <=> Waits(frame[r], c)
              /\ Contribution(r, frame)' = Contribution(r, frame)
BY DEF Waits, Contribution

\* A packet of ranks that do not move stays sound.
LEMMA StillSound ==
  ASSUME NEW c, NEW p, PacketSound(c, p),
         \A r \in p.ranks : frame'[r] = frame[r]
  PROVE  PacketSound(c, p)'
<1>1. \A r \in p.ranks : r \in Ranks BY DEF PacketSound, Formed
<1>2. ASSUME NEW r \in p.ranks PROVE Waits(frame[r], c)'
  BY FrameOnly DEF PacketSound
<1>3. ASSUME NEW r \in p.ranks PROVE Sent[r] = Sent'[r]
  BY <1>1, FrameOnly DEF Sent
<1>4. Exact(Sent', p) BY <1>3, ExactRestricted DEF PacketSound
<1> QED BY <1>2, <1>4 DEF PacketSound, Formed

\* The packet of a rank that moves to a call is sound.
LEMMA EnteringSound ==
  ASSUME NEW c, NEW Moved \in SUBSET Ranks,
         NEW p \in Entering(Moved, frame', c)
  PROVE  PacketSound(c, p)' /\ \E r \in Moved : p.ranks = {r} /\ p = Packet(r, frame')
<1>1. PICK r \in Moved : Waits(frame'[r], c) /\ p = Packet(r, frame')
  BY DEF Entering
<1>2. Sent'[r] = Contribution(r, frame') BY FrameOnly DEF Sent
<1>3. Formed(p) /\ p.ranks = {r} /\ Exact(Sent', p)
  BY <1>1, <1>2, FreshPacket
<1>4. Waits(frame[r], c)' BY <1>1, FrameOnly
<1> QED BY <1>1, <1>3, <1>4 DEF PacketSound, Formed

\* The ranks that stay keep their packets, those that move bring new ones.
LEMMA MoveSound ==
  ASSUME IndInv, NEW Moved \in SUBSET Ranks, NEW used, Move(Moved, used),
         frame' = [r \in Ranks |-> frame'[r]],
         \A r \in Ranks \ Moved : frame'[r] = frame[r],
         \A c \in Channels : \A p \in pool[c] \ used : p.ranks \cap Moved = {}
  PROVE  IndInv'
<1>1. \A c \in Channels :
        pool'[c] = (pool[c] \ used) \cup Entering(Moved, frame', c)
  BY DEF Move
<1>2. PoolFunction' BY <1>1 DEF PoolFunction, Move
<1>3. ASSUME NEW c \in Channels, NEW p \in pool[c] \ used
      PROVE  PacketSound(c, p)' /\ p.ranks \cap Moved = {}
  <2>1. PacketSound(c, p) /\ p.ranks \cap Moved = {} BY DEF IndInv, PoolSound
  <2>2. \A r \in p.ranks : r \in Ranks \ Moved
    BY <2>1 DEF PacketSound, Formed
  <2>3. \A r \in p.ranks : frame'[r] = frame[r] BY <2>2
  <2> QED BY <1>1, <2>1, <2>3, StillSound
<1>4. PoolSound' BY <1>1, <1>3, EnteringSound DEF PoolSound
<1>5. PoolDisjoint'
  <2> SUFFICES ASSUME NEW c \in Channels, NEW p \in pool'[c], NEW q \in pool'[c],
                      p # q
               PROVE  p.ranks \cap q.ranks = {}
    BY DEF PoolDisjoint
  <2>1. CASE p \in pool[c] \ used /\ q \in pool[c] \ used
    BY <2>1 DEF IndInv, PoolDisjoint
  <2>2. CASE p \in pool[c] \ used /\ q \in Entering(Moved, frame', c)
    <3>1. PICK r \in Moved : q.ranks = {r} BY <1>1, <2>2, EnteringSound
    <3> QED BY <3>1, <2>2, <1>3
  <2>3. CASE q \in pool[c] \ used /\ p \in Entering(Moved, frame', c)
    <3>1. PICK r \in Moved : p.ranks = {r} BY <1>1, <2>3, EnteringSound
    <3> QED BY <3>1, <2>3, <1>3
  <2>4. CASE p \in Entering(Moved, frame', c) /\ q \in Entering(Moved, frame', c)
    <3>1. PICK r \in Moved : p.ranks = {r} /\ p = Packet(r, frame')
      BY <1>1, <2>4, EnteringSound
    <3>2. PICK t \in Moved : q.ranks = {t} /\ q = Packet(t, frame')
      BY <1>1, <2>4, EnteringSound
    <3> QED BY <3>1, <3>2
  <2> QED BY <1>1, <2>1, <2>2, <2>3, <2>4
<1> QED BY <1>2, <1>4, <1>5 DEF IndInv

-----------------------------------------------------------------------------
\* At the start the ranks that wait have each brought their packet.
LEMMA InitSound == Init => IndInv
<1> SUFFICES ASSUME Init PROVE IndInv
  OBVIOUS
<1>1. PoolFunction BY DEF Init, PoolFunction
<1>2. ASSUME NEW c \in Channels, NEW p \in pool[c]
      PROVE  PacketSound(c, p)
             /\ \E r \in Ranks : p.ranks = {r} /\ p = Packet(r, frame)
  <2>1. PICK r \in Ranks : Waits(frame[r], c) /\ p = Packet(r, frame)
    BY DEF Init, Entering
  <2>2. Sent[r] = Contribution(r, frame) BY DEF Sent
  <2>3. Formed(p) /\ p.ranks = {r} /\ Exact(Sent, p)
    BY <2>1, <2>2, FreshPacket
  <2> QED BY <2>1, <2>3 DEF PacketSound
<1>3. PoolSound BY <1>2 DEF PoolSound
<1>4. PoolDisjoint
  <2> SUFFICES ASSUME NEW c \in Channels, NEW p \in pool[c], NEW q \in pool[c],
                      p # q
               PROVE  p.ranks \cap q.ranks = {}
    BY DEF PoolDisjoint
  <2>1. PICK r \in Ranks : p.ranks = {r} /\ p = Packet(r, frame) BY <1>2
  <2>2. PICK t \in Ranks : q.ranks = {t} /\ q = Packet(t, frame) BY <1>2
  <2> QED BY <2>1, <2>2
<1> QED BY <1>1, <1>3, <1>4 DEF IndInv

\* A rank that computes waits in no call, so no packet stands for it.
LEMMA ComputeStep ==
  ASSUME IndInv, NEW r \in Ranks, Compute(r)
  PROVE  IndInv'
<1>1. PICK f : frame' = [frame EXCEPT ![r] = f]
  BY DEF Compute
<1>2. frame = [q \in Ranks |-> frame[q]] BY DEF IndInv, PoolFunction
<1>3. /\ frame' = [q \in Ranks |-> frame'[q]]
      /\ \A q \in Ranks \ {r} : frame'[q] = frame[q]
  BY <1>1, <1>2
<1>4. Move({r}, {}) BY DEF Compute
<1>5. \A c \in Channels : \A p \in pool[c] \ {} : p.ranks \cap {r} = {}
  <2> SUFFICES ASSUME NEW c \in Channels, NEW p \in pool[c], r \in p.ranks
               PROVE  FALSE
    OBVIOUS
  <2>1. Waits(frame[r], c) BY DEF IndInv, PoolSound, PacketSound
  <2> QED BY <2>1 DEF Waits, Compute
<1> QED BY <1>3, <1>4, <1>5, MoveSound

\* When packets meet, their combination names the first failure.
LEMMA CombineStep ==
  ASSUME IndInv, NEW channel \in Channels, Combine(channel)
  PROVE  IndInv'
<1>1. PICK p, q \in pool[channel] :
        /\ p # q
        /\ pool' = [pool EXCEPT ![channel] =
                      (@ \ {p, q}) \cup {CombinePackets(p, q)}]
  BY DEF Combine
<1> DEFINE new == CombinePackets(p, q)
<1>2. frame' = frame BY DEF Combine
<1>3. pool = [c \in Channels |-> pool[c]] BY DEF IndInv, PoolFunction
<1>4. /\ \A c \in Channels \ {channel} : pool'[c] = pool[c]
      /\ pool'[channel] = (pool[channel] \ {p, q}) \cup {new}
  BY <1>1, <1>3
<1>5. PacketSound(channel, p) /\ PacketSound(channel, q) /\ p.ranks \cap q.ranks = {}
  BY <1>1 DEF IndInv, PoolSound, PoolDisjoint
<1>6. /\ Exact(Sent, new) /\ Formed(new) /\ new.ranks = p.ranks \cup q.ranks
  BY <1>5, SentCodes, CombinationExact DEF PacketSound
<1> HIDE DEF new
<1>7. PacketSound(channel, new)
  BY <1>5, <1>6 DEF PacketSound
<1>8. ASSUME NEW c, NEW o, PacketSound(c, o) PROVE PacketSound(c, o)'
  BY <1>2, <1>8, StillSound
<1>9. PoolFunction' BY <1>1, <1>2, <1>3 DEF IndInv, PoolFunction
<1>10. PoolSound'
  BY <1>4, <1>7, <1>8 DEF IndInv, PoolSound
<1>11. PoolDisjoint'
  <2> SUFFICES ASSUME NEW c \in Channels, NEW a \in pool'[c], NEW b \in pool'[c],
                      a # b
               PROVE  a.ranks \cap b.ranks = {}
    BY DEF PoolDisjoint
  <2>1. \A o \in pool[channel] \ {p, q} : o.ranks \cap new.ranks = {}
    BY <1>1, <1>6 DEF IndInv, PoolDisjoint
  <2> QED BY <1>4, <2>1 DEF IndInv, PoolDisjoint
<1> QED BY <1>9, <1>10, <1>11 DEF IndInv

\* A call ends for all ranks at once, and no packet is left.
LEMMA DeliverStep ==
  ASSUME IndInv, NEW channel \in Channels, Deliver(channel)
  PROVE  IndInv'
<1>1. PICK p \in pool[channel] :
        /\ p.ranks = Ranks /\ Move(Ranks, {p})
        /\ \E value : frame' = [r \in Ranks |->
               Settle(entry, Receive(frame[r], channel, p.failure, value))]
  BY DEF Deliver
<1>2. frame' = [r \in Ranks |-> frame'[r]] BY <1>1
<1>3. ASSUME NEW c \in Channels, NEW q \in pool[c] \ {p}
      PROVE  FALSE
  <2>1. PacketSound(c, q) /\ PacketSound(channel, p)
    BY DEF IndInv, PoolSound
  <2>2. PICK r \in Ranks : r \in q.ranks
    BY <2>1 DEF PacketSound, Formed
  <2>3. Waits(frame[r], c) /\ Waits(frame[r], channel)
    BY <1>1, <2>1, <2>2 DEF PacketSound
  <2>4. c = channel BY <2>3 DEF Waits
  <2> QED BY <1>1, <2>2, <2>4 DEF IndInv, PoolDisjoint
<1> QED BY <1>1, <1>2, <1>3, MoveSound

\* Every step keeps the packets sound and disjoint.
LEMMA NextStep == IndInv /\ [Next]_vars => IndInv'
<1> SUFFICES ASSUME IndInv, [Next]_vars PROVE IndInv'
  OBVIOUS
<1>1. CASE UNCHANGED vars
  <2>1. \A c \in Channels : \A p \in pool[c] : PacketSound(c, p)'
    BY <1>1, StillSound DEF vars, IndInv, PoolSound
  <2> QED BY <1>1, <2>1 DEF vars, IndInv, PoolFunction, PoolSound, PoolDisjoint
<1>2. CASE Next
  BY <1>1, <1>2, ComputeStep, CombineStep, DeliverStep DEF Next, Terminated
<1> QED BY <1>1, <1>2

\* In every collective call of every program, whichever ranks fail and in
\* whatever order their packets meet, each packet names the first failure of
\* the ranks it stands for (combine_packets).
THEOREM PacketsAlwaysExact == Spec => []PacketsExact
<1>1. IndInv => PacketsExact
  <2> SUFFICES ASSUME IndInv, NEW c \in Channels, NEW p \in pool[c]
               PROVE  Exact([r \in p.ranks |-> Contribution(r, frame)], p)
    BY DEF PacketsExact
  <2>1. Exact(Sent, p) /\ p.ranks \subseteq Ranks
    BY DEF IndInv, PoolSound, PacketSound, Formed
  <2>2. \A r \in p.ranks : Sent[r] = [q \in p.ranks |-> Contribution(q, frame)][r]
    BY <2>1 DEF Sent
  <2> QED BY <2>1, <2>2, ExactRestricted
<1> QED BY <1>1, InitSound, NextStep, PTL DEF Spec

-----------------------------------------------------------------------------
\* A set of numbers with 0 and every successor is all of them.
LEMMA Induction ==
  ASSUME NEW S, 0 \in S, \A n \in Nat : n \in S => n + 1 \in S
  PROVE  Nat \subseteq S
<1> DEFINE T == {n \in Nat : n \notin S}
<1> SUFFICES ASSUME T # {} PROVE FALSE
  OBVIOUS
<1>1. PICK n \in T : \A k \in T : ~(<<k, n>> \in OpToRel(<, Nat))
  BY NatLessThanWellFounded, WFMin, Zenon
<1>2. n \in Nat /\ n # 0 /\ n \notin S /\ n - 1 \in Nat
  OBVIOUS
<1>3. n - 1 \in T
  BY <1>2
<1>4. <<n - 1, n>> \in OpToRel(<, Nat)
  BY <1>2 DEF OpToRel
<1> QED BY <1>1, <1>3, <1>4

\* h lists what Advance makes of f, one instruction after the other.
Listed(e, f, h, bound) ==
  h = [n \in 0 .. bound |->
         IF n = 0 THEN {f} ELSE {Advance(e, g) : g \in h[n - 1]}]

\* There is such a list, of any length.
LEMMA ListExists ==
  ASSUME NEW e, NEW f, NEW bound \in Nat
  PROVE  \E h : Listed(e, f, h, bound)
<1> DEFINE S == {n \in Nat : \E h : Listed(e, f, h, n)}
<1>1. 0 \in S
  <2>1. Listed(e, f, [n \in 0 .. 0 |-> {f}], 0) BY DEF Listed
  <2> QED BY <2>1
<1>2. ASSUME NEW n \in S PROVE n + 1 \in S
  <2>1. PICK h : Listed(e, f, h, n) OBVIOUS
  <2> DEFINE next == [k \in 0 .. n + 1 |->
                        IF k = n + 1 THEN {Advance(e, g) : g \in h[n]} ELSE h[k]]
  <2>2. \A k \in 0 .. n + 1 :
          next[k] = IF k = 0 THEN {f} ELSE {Advance(e, g) : g \in next[k - 1]}
    <3> SUFFICES ASSUME NEW k \in 0 .. n + 1
                 PROVE next[k] = IF k = 0 THEN {f} ELSE {Advance(e, g) : g \in next[k - 1]}
      OBVIOUS
    <3>1. CASE k = n + 1
      <4>1. next[k] = {Advance(e, g) : g \in h[n]} /\ next[k - 1] = h[n] /\ k # 0
        BY <3>1
      <4> QED BY <4>1
    <3>2. CASE k \in 1 .. n
      <4>1. next[k] = h[k] /\ next[k - 1] = h[k - 1] BY <3>2
      <4>2. h[k] = {Advance(e, g) : g \in h[k - 1]} /\ k # 0
        BY <2>1, <3>2 DEF Listed
      <4> HIDE DEF next
      <4> QED BY <4>1, <4>2
    <3>3. CASE k = 0
      <4>1. next[k] = h[0] BY <3>3
      <4>2. h[0] = {f} BY <2>1 DEF Listed
      <4> QED BY <4>1, <4>2, <3>3
    <3> QED BY <3>1, <3>2, <3>3
  <2>3. next = [k \in 0 .. n + 1 |-> next[k]] OBVIOUS
  <2> HIDE DEF next
  <2>4. Listed(e, f, next, n + 1) BY <2>2, <2>3 DEF Listed
  <2> QED BY <2>4
<1>3. Nat \subseteq S
  <2>1. \A n \in Nat : n \in S => n + 1 \in S BY <1>2
  <2> HIDE DEF S
  <2> QED BY <1>1, <2>1, Induction
<1> QED BY <1>3

\* A rank settles where its list of instructions ends.
LEMMA SettleLists ==
  ASSUME NEW e, NEW f
  PROVE  \E h : /\ Listed(e, [f EXCEPT !.at = Running], h, Fuel)
                /\ Settle(e, f) = CHOOSE g \in h[Fuel] : TRUE
<1> DEFINE start == [f EXCEPT !.at = Running]
           h == CHOOSE h : Listed(e, start, h, Fuel)
<1>1. Listed(e, start, h, Fuel) BY ListExists, FuelAssumption
<1>2. Settle(e, f) = CHOOSE g \in h[Fuel] : TRUE BY DEF Settle, Repeat, Listed
<1> QED BY <1>1, <1>2

-----------------------------------------------------------------------------
\* What a rank may know as a failing rank: -1 for none.
Known == Ranks \cup {-1}

\* Ways to tell two ranks from each other.
Namings ==
  {m \in [Known -> Names \cup {-1}] : \A n \in Known : m[n] = -1 <=> n = -1}

NameFields == {"engine", "scope", "lowest", "named"}
PlainFields == {"pc", "at", "stack", "options", "failed", "deferred", "value",
                "iterations", "termination", "solution", "open", "published",
                "spoiled"}

\* g is f with its ranks renamed.
Similar(m, f, g) ==
  /\ DOMAIN f = NameFields \cup PlainFields /\ DOMAIN g = DOMAIN f
  /\ \A k \in PlainFields : g[k] = f[k]
  /\ \A k \in NameFields : f[k] \in Known /\ g[k] = m[f[k]]

\* Field by field, what two similar frames share.
LEMMA SimilarFields ==
  ASSUME NEW m, NEW f, NEW g, Similar(m, f, g)
  PROVE  /\ g.pc = f.pc /\ g.at = f.at /\ g.stack = f.stack
         /\ g.options = f.options /\ g.failed = f.failed
         /\ g.deferred = f.deferred /\ g.value = f.value
         /\ g.iterations = f.iterations /\ g.termination = f.termination
         /\ g.solution = f.solution /\ g.open = f.open
         /\ g.published = f.published /\ g.spoiled = f.spoiled
         /\ f.engine \in Known /\ g.engine = m[f.engine]
         /\ f.scope \in Known /\ g.scope = m[f.scope]
         /\ f.lowest \in Known /\ g.lowest = m[f.lowest]
         /\ f.named \in Known /\ g.named = m[f.named]
BY DEF Similar, NameFields, PlainFields

\* They are similar, and f has named no rank since it had named b.
Keeps(m, b, f, g) == Similar(m, f, g) /\ f.named \in {b, -1}

\* No effect of an instruction tells two ranks from each other.
LEMMA EffectKept ==
  ASSUME NEW m \in Namings, NEW b, NEW f, NEW g, Keeps(m, b, f, g), NEW i
  PROVE  Keeps(m, b, Effect(f, i), Effect(g, i))
<1>0. /\ f.failed = g.failed /\ f.deferred = g.deferred /\ f.open = g.open
      /\ f.lowest \in Known /\ f.engine \in Known /\ g.lowest = m[f.lowest]
      /\ g.engine = m[f.engine] /\ (g.lowest = -1 <=> f.lowest = -1)
      /\ m[-1] = -1 /\ -1 \in Known
  BY DEF Namings, Known, Keeps, Similar, NameFields, PlainFields
<1>1. CASE i.op = "set" /\ i.field \in Fields
  <2>1. /\ Effect(f, i) = [f EXCEPT ![i.field] = i.value]
        /\ Effect(g, i) = [g EXCEPT ![i.field] = i.value]
    BY <1>1 DEF Effect
  <2>2. i.field \in PlainFields BY <1>1 DEF Fields, PlainFields
  <2> QED BY <2>1, <2>2 DEF Keeps, Similar, NameFields, PlainFields
<1>2. CASE i.op = "take"
  <2> DEFINE New(h) == [h EXCEPT !.options = @ \cup {i.option}]
  <2>1. Effect(f, i) = New(f) /\ Effect(g, i) = New(g)
    BY <1>2 DEF Effect
  <2> QED BY <2>1, <1>0 DEF Keeps, Similar, NameFields, PlainFields
<1>3. CASE i.op = "drop"
  <2> DEFINE New(h) == [h EXCEPT !.options = @ \ {i.option}]
  <2>1. Effect(f, i) = New(f) /\ Effect(g, i) = New(g)
    BY <1>3 DEF Effect
  <2> QED BY <2>1, <1>0 DEF Keeps, Similar, NameFields, PlainFields
<1>4. CASE i.op = "iterate"
  <2> DEFINE New(h) == [h EXCEPT !.iterations = @ + 1]
  <2>1. Effect(f, i) = New(f) /\ Effect(g, i) = New(g)
    BY <1>4 DEF Effect
  <2> QED BY <2>1, <1>0 DEF Keeps, Similar, NameFields, PlainFields
<1>5. CASE i.op = "defer"
  <2> DEFINE New(h) == 
             [h EXCEPT !.deferred = @ \/ h.failed, !.failed = FALSE]
  <2>1. Effect(f, i) = New(f) /\ Effect(g, i) = New(g)
    BY <1>5 DEF Effect
  <2> QED BY <2>1, <1>0 DEF Keeps, Similar, NameFields, PlainFields
<1>6. CASE i.op = "carry"
  <2> DEFINE New(h) == 
             [h EXCEPT !.failed = @ \/ h.deferred, !.deferred = FALSE]
  <2>1. Effect(f, i) = New(f) /\ Effect(g, i) = New(g)
    BY <1>6 DEF Effect
  <2> QED BY <2>1, <1>0 DEF Keeps, Similar, NameFields, PlainFields
<1>7. CASE i.op = "open"
  <2> DEFINE New(h) == 
             [h EXCEPT !.open = @ \cup {i.epoch},
                       !.published = @ \ {i.epoch}, !.spoiled = @ \ {i.epoch}]
  <2>1. Effect(f, i) = New(f) /\ Effect(g, i) = New(g)
    BY <1>7 DEF Effect
  <2> QED BY <2>1, <1>0 DEF Keeps, Similar, NameFields, PlainFields
<1>8. CASE i.op = "close"
  <2> DEFINE New(h) == 
             [h EXCEPT !.open = @ \ {i.epoch},
                       !.published = IF i.publish /\ i.epoch \in h.open
                                     THEN @ \cup {i.epoch}
                                     ELSE @ \ {i.epoch}]
  <2>1. Effect(f, i) = New(f) /\ Effect(g, i) = New(g)
    BY <1>8 DEF Effect
  <2> QED BY <2>1, <1>0 DEF Keeps, Similar, NameFields, PlainFields
<1>9. CASE i.op = "keep"
  <2> DEFINE New(h) == 
             [h EXCEPT !.lowest = IF @ # -1 THEN @ ELSE h.engine]
  <2>1. Effect(f, i) = New(f) /\ Effect(g, i) = New(g)
    BY <1>9 DEF Effect
  <2> QED BY <2>1, <1>0 DEF Keeps, Similar, NameFields, PlainFields
<1>10. CASE i.op = "new"
  <2> DEFINE New(h) == 
             [h EXCEPT !.failed = FALSE, !.lowest = -1, !.named = -1,
                       !.iterations = 0, !.termination = "none",
                       !.solution = "old"]
  <2>1. Effect(f, i) = New(f) /\ Effect(g, i) = New(g)
    BY <1>10 DEF Effect
  <2> QED BY <2>1, <1>0 DEF Keeps, Similar, NameFields, PlainFields
<1>11. CASE i.op = "forget"
  <2> DEFINE New(h) == [h EXCEPT !.scope = -1]
  <2>1. Effect(f, i) = New(f) /\ Effect(g, i) = New(g)
    BY <1>11 DEF Effect
  <2> QED BY <2>1, <1>0 DEF Keeps, Similar, NameFields, PlainFields
<1>12. CASE ~(\/ i.op = "set" /\ i.field \in Fields
              \/ i.op \in {"take", "drop", "iterate", "defer", "carry", "open",
                           "close", "keep", "new", "forget"})
  <2>1. Effect(f, i) = f /\ Effect(g, i) = g
    BY <1>12 DEF Effect
  <2> QED BY <2>1
<1> QED BY <1>1, <1>2, <1>3, <1>4, <1>5, <1>6, <1>7, <1>8, <1>9, <1>10, <1>11, <1>12

\* Nor does a local instruction: it follows the same path in both frames.
LEMMA LocalKept ==
  ASSUME NEW m \in Namings, NEW b, NEW f, NEW g, Keeps(m, b, f, g), NEW e
  PROVE  Keeps(m, b, Local(e, f), Local(e, g))
<1>0. /\ f.pc = g.pc /\ f.stack = g.stack /\ f.options = g.options
      /\ f.failed = g.failed /\ f.value = g.value /\ f.iterations = g.iterations
      /\ f.scope \in Known /\ g.scope = m[f.scope] /\ (g.scope = -1 <=> f.scope = -1)
  BY DEF Namings, Keeps, Similar, NameFields, PlainFields
<1> DEFINE i == At(e, f)
<1>1. At(e, g) = i BY <1>0 DEF At
<1>2. CASE f.pc \in {"ok", "fail", "pass"}
  <2> DEFINE New(h) ==
        [h EXCEPT !.stack = SubSeq(@, 1, Len(@) - 1),
                  !.failed = IF f.pc = "pass" THEN @ ELSE f.pc = "fail",
                  !.pc = IF f.pc = "fail" THEN f.stack[Len(f.stack)].fail
                         ELSE f.stack[Len(f.stack)].ok]
  <2>1. Local(e, f) = New(f) /\ Local(e, g) = New(g)
    BY <1>0, <1>2 DEF Local, Return
  <2> QED BY <2>1, <1>0 DEF Keeps, Similar, NameFields, PlainFields
<1>3. CASE f.pc \notin {"ok", "fail", "pass"}
  <2>1. Local(e, f) = Execute(f, i) /\ Local(e, g) = Execute(g, i)
    BY <1>0, <1>1, <1>3 DEF Local
  <2> HIDE DEF i
  <2>2. CASE i.op \in {"work", "collective", "end"}
    <3>1. /\ Execute(f, i) = [f EXCEPT !.at = i]
          /\ Execute(g, i) = [g EXCEPT !.at = i]
      BY <2>2 DEF Execute
    <3> QED BY <2>1, <3>1 DEF Keeps, Similar, NameFields, PlainFields
  <2>3. CASE i.op \in {"branch", "test", "given", "limit", "iterated"}
    <3>1. PICK pc : /\ Execute(f, i) = [f EXCEPT !.pc = pc]
                    /\ Execute(g, i) = [g EXCEPT !.pc = pc]
      BY <1>0, <2>3 DEF Execute, Choose
    <3> QED BY <2>1, <3>1 DEF Keeps, Similar, NameFields, PlainFields
  <2>4. CASE i.op = "call"
    <3> DEFINE New(h) ==
          [h EXCEPT !.pc = i.callee,
                    !.stack = Append(@, [ok |-> i.ok, fail |-> i.fail])]
    <3>1. Execute(f, i) = New(f) /\ Execute(g, i) = New(g)
      BY <2>4 DEF Execute
    <3> QED BY <2>1, <3>1, <1>0 DEF Keeps, Similar, NameFields, PlainFields
  <2>5. CASE i.op = "operator"
    <3>1. CASE f.failed /\ f.scope # -1
      <4>1. /\ Execute(f, i) = [f EXCEPT !.lowest = f.scope, !.pc = i.agreed]
            /\ Execute(g, i) = [g EXCEPT !.lowest = g.scope, !.pc = i.agreed]
        BY <1>0, <2>5, <3>1 DEF Execute
      <4> QED BY <2>1, <4>1, <1>0 DEF Keeps, Similar, NameFields, PlainFields
    <3>2. CASE ~(f.failed /\ f.scope # -1)
      <4>1. /\ Execute(f, i) = [f EXCEPT !.pc = i.own]
            /\ Execute(g, i) = [g EXCEPT !.pc = i.own]
        BY <1>0, <2>5, <3>2 DEF Execute
      <4> QED BY <2>1, <4>1 DEF Keeps, Similar, NameFields, PlainFields
    <3> QED BY <3>1, <3>2
  <2>6. CASE i.op \notin {"work", "collective", "end", "branch", "test", "given",
                          "limit", "iterated", "call", "operator"}
    <3>1. /\ Execute(f, i) = [Effect(f, i) EXCEPT !.pc = i.next]
          /\ Execute(g, i) = [Effect(g, i) EXCEPT !.pc = i.next]
      BY <2>6 DEF Execute
    <3>2. Keeps(m, b, Effect(f, i), Effect(g, i)) BY EffectKept
    <3> DEFINE ef == Effect(f, i)
               eg == Effect(g, i)
    <3> HIDE DEF ef, eg
    <3>3. Keeps(m, b, ef, eg) BY <3>2 DEF ef, eg
    <3>4. Keeps(m, b, [ef EXCEPT !.pc = i.next], [eg EXCEPT !.pc = i.next])
      BY <3>3 DEF Keeps, Similar, NameFields, PlainFields
    <3> QED BY <2>1, <3>1, <3>4 DEF ef, eg
  <2> QED BY <2>2, <2>3, <2>4, <2>5, <2>6
<1> QED BY <1>2, <1>3

\* Where a rank settles depends on the names it knows in its names only.
LEMMA SettleKept ==
  ASSUME NEW m \in Namings, NEW f, NEW g, Similar(m, f, g), NEW e
  PROVE  Keeps(m, f.named, Settle(e, f), Settle(e, g))
<1> DEFINE b == f.named
           sf == [f EXCEPT !.at = Running]
           sg == [g EXCEPT !.at = Running]
<1>1. Keeps(m, b, sf, sg)
  BY DEF Keeps, Similar, NameFields, PlainFields
<1> HIDE DEF sf, sg, b
<1>2. PICK hf : Listed(e, sf, hf, Fuel) /\ Settle(e, f) = CHOOSE x \in hf[Fuel] : TRUE
  BY SettleLists DEF sf
<1>3. PICK hg : Listed(e, sg, hg, Fuel) /\ Settle(e, g) = CHOOSE x \in hg[Fuel] : TRUE
  BY SettleLists DEF sg
<1> DEFINE Both(n) == \E x, y : hf[n] = {x} /\ hg[n] = {y} /\ Keeps(m, b, x, y)
           S == {n \in Nat : n <= Fuel => Both(n)}
<1>4. Both(0)
  <2>1. hf[0] = {sf} /\ hg[0] = {sg} BY <1>2, <1>3, FuelAssumption DEF Listed
  <2> QED BY <2>1, <1>1
<1>5. ASSUME NEW n \in Nat, n + 1 <= Fuel, Both(n) PROVE Both(n + 1)
  <2>1. PICK x, y : hf[n] = {x} /\ hg[n] = {y} /\ Keeps(m, b, x, y) BY <1>5
  <2>2. /\ hf[n + 1] = {Advance(e, z) : z \in hf[n]}
        /\ hg[n + 1] = {Advance(e, z) : z \in hg[n]}
    <3>1. n + 1 \in 0 .. Fuel /\ n + 1 # 0 /\ (n + 1) - 1 = n
      BY <1>5, FuelAssumption
    <3> QED BY <3>1, <1>2, <1>3 DEF Listed
  <2>3. hf[n + 1] = {Advance(e, x)} /\ hg[n + 1] = {Advance(e, y)}
    BY <2>1, <2>2
  <2>4. x.at = y.at BY <2>1 DEF Keeps, Similar, PlainFields
  <2>5. Keeps(m, b, Advance(e, x), Advance(e, y))
    BY <2>1, <2>4, LocalKept DEF Advance
  <2> QED BY <2>3, <2>5
<1>6. Nat \subseteq S
  <2>1. \A n \in Nat : n \in S => n + 1 \in S
    <3> SUFFICES ASSUME NEW n \in Nat, n \in S, n + 1 <= Fuel PROVE Both(n + 1)
      OBVIOUS
    <3>1. n <= Fuel BY FuelAssumption
    <3>2. Both(n) BY <3>1
    <3> HIDE DEF Both
    <3> QED BY <3>2, <1>5
  <2>2. 0 \in S BY <1>4
  <2> HIDE DEF S
  <2> QED BY <2>1, <2>2, Induction
<1>7. Both(Fuel)
  <2>1. Fuel \in S BY <1>6, FuelAssumption
  <2> HIDE DEF Both
  <2> QED BY <2>1, FuelAssumption
<1> QED BY <1>2, <1>3, <1>7 DEF b

-----------------------------------------------------------------------------
\* The programs that the ranks may run are in step.
AllInStep == \A e \in Entries : InStep(e)

\* The state x of a lone rank stands for rank r.
StandsFor(m, x, r) == Similar(m, frame[r], x.frame) /\ (x.own = TRUE <=> r \in faulty)
Covers(m, P) == \A r \in Ranks : \E x \in P : StandsFor(m, x, r)

\* Whichever ranks one tells from the others, all ranks are in one phase.
InPhase == \A m \in Namings : \E P \in Phases(entry) : Covers(m, P)

\* The rank that the result of a solve names has failed.
NamesFaulty ==
  Accountable(entry, Phases(entry)) =>
    \A r \in Ranks : frame[r].named \in faulty \cup {-1}

Joint == entry \in Entries /\ IndInv /\ InPhase /\ NamesFaulty

\* Nor does rank-local work, which names no rank.
LEMMA WorkedKept ==
  ASSUME NEW m \in Namings, NEW f, NEW g, Similar(m, f, g), NEW fault \in BOOLEAN
  PROVE  Similar(m, Worked(f, fault), Worked(g, fault)) /\ Worked(f, fault).named = f.named
BY DEF Worked, Similar, NameFields, PlainFields

\* Nor does the end of a call, which names a rank only if it is the first to.
LEMMA ReceiveKept ==
  ASSUME NEW m \in Namings, NEW f, NEW g, Similar(m, f, g), NEW channel,
         NEW failure, NEW value, NEW told, NEW seen,
         failure = NoFailure => told = NoFailure /\ seen = value,
         failure # NoFailure => failure.rank \in Ranks /\ told = Failed(m[failure.rank])
  PROVE  LET h == Receive(f, channel, failure, value) IN
         /\ Similar(m, h, Receive(g, channel, told, seen))
         /\ h.named # f.named =>
              /\ channel # "prepared" /\ failure # NoFailure
              /\ f.named = -1 /\ h.named = failure.rank
<1> DEFINE h == Receive(f, channel, failure, value)
           j == Receive(g, channel, told, seen)
<1>0. /\ f.at = g.at /\ f.value = g.value /\ f.named \in Known /\ g.named = m[f.named]
      /\ (f.named = -1 <=> g.named = -1) /\ f.engine \in Known /\ f.scope \in Known
      /\ g.engine = m[f.engine] /\ g.scope = m[f.scope]
      /\ m[-1] = -1 /\ -1 \in Known
  BY DEF Namings, Known, Similar, NameFields, PlainFields
<1>1. failure = NoFailure <=> told = NoFailure
  BY DEF Failed, NoFailure
<1>2. CASE channel = "prepared"
  <2> DEFINE v == IF f.at.outcomes = 1 THEN f.value
                  ELSE IF failure = NoFailure THEN value ELSE f.at.outcomes
  <2>1. h = [f EXCEPT !.pc = f.at.ok, !.value = v]
    BY <1>2 DEF Receive
  <2>2. j = [g EXCEPT !.pc = f.at.ok, !.value = v]
    BY <1>0, <1>1, <1>2 DEF Receive
  <2> HIDE DEF v, h, j
  <2> QED BY <2>1, <2>2 DEF h, j, Similar, NameFields, PlainFields
<1>3. CASE channel # "prepared" /\ failure = NoFailure
  <2> DEFINE v == IF f.at.outcomes = 1 THEN f.value ELSE value
  <2>1. h = [f EXCEPT !.pc = f.at.ok, !.failed = FALSE, !.value = v,
                      !.engine = IF channel = "reduction" THEN -1 ELSE f.engine]
    BY <1>3 DEF Receive
  <2>2. j = [g EXCEPT !.pc = f.at.ok, !.failed = FALSE, !.value = v,
                      !.engine = IF channel = "reduction" THEN -1 ELSE g.engine]
    BY <1>0, <1>1, <1>3 DEF Receive
  <2> HIDE DEF v, h, j
  <2> QED BY <2>1, <2>2, <1>0 DEF h, j, Similar, NameFields, PlainFields
<1>4. CASE channel # "prepared" /\ failure # NoFailure
  <2>1. failure.rank \in Known /\ told.rank = m[failure.rank]
    BY <1>4 DEF Known, Failed
  <2>2. h = [f EXCEPT !.pc = f.at.fail, !.failed = TRUE,
               !.engine = IF channel = "reduction" THEN failure.rank ELSE f.engine,
               !.scope  = IF channel = "exchange" THEN failure.rank ELSE f.scope,
               !.named  = IF f.named = -1 THEN failure.rank ELSE f.named]
    BY <1>4 DEF Receive
  <2>3. j = [g EXCEPT !.pc = f.at.fail, !.failed = TRUE,
               !.engine = IF channel = "reduction" THEN told.rank ELSE g.engine,
               !.scope  = IF channel = "exchange" THEN told.rank ELSE g.scope,
               !.named  = IF g.named = -1 THEN told.rank ELSE g.named]
    BY <1>0, <1>1, <1>4 DEF Receive
  <2> HIDE DEF h, j
  <2>4. Similar(m, h, j)
    BY <2>1, <2>2, <2>3, <1>0 DEF Similar, NameFields, PlainFields
  <2>5. h.named = IF f.named = -1 THEN failure.rank ELSE f.named
    BY <2>2 DEF Similar, NameFields, PlainFields
  <2> QED BY <2>4, <2>5, <1>4 DEF h, j
<1> QED BY <1>2, <1>3, <1>4

\* A program in step is in one phase at the start.
LEMMA JointInit ==
  ASSUME AllInStep, Init
  PROVE  Joint
<1>1. entry \in Entries /\ IndInv BY InitSound DEF Init
<1> DEFINE f == NewFrame(entry)
           x == Lone(entry, f, FALSE)
<1>2. \A m \in Namings : Similar(m, f, f)
  BY DEF NewFrame, Similar, NameFields, PlainFields, Namings, Known
<1>3. ASSUME NEW r \in Ranks, NEW m \in Namings
      PROVE  StandsFor(m, x, r) /\ frame[r].named = -1
  <2>1. frame[r] = Settle(entry, f) /\ faulty = {} BY DEF Init
  <2>2. x.frame = Settle(entry, f) /\ x.own = FALSE BY DEF Lone
  <2>3. Keeps(m, f.named, Settle(entry, f), Settle(entry, f))
    BY <1>2, SettleKept
  <2>4. f.named = -1 BY DEF NewFrame
  <2> HIDE DEF x, f
  <2>5. x.own = FALSE /\ r \notin faulty BY <2>1, <2>2
  <2>6. Similar(m, frame[r], x.frame) BY <2>1, <2>2, <2>3 DEF Keeps
  <2>7. frame[r].named = -1 BY <2>1, <2>3, <2>4 DEF Keeps
  <2>8. StandsFor(m, x, r) BY <2>5, <2>6 DEF StandsFor
  <2> QED BY <2>7, <2>8
<1> HIDE DEF x
<1>4. \E P \in Phases(entry) : x \in P
  BY <1>1 DEF AllInStep, InStep, Agree, Complete, x
<1>5. InPhase BY <1>3, <1>4 DEF InPhase, Covers
<1>6. [n \in Known |-> IF n = -1 THEN -1 ELSE 0] \in Namings
  BY DEF Namings, Names, Known
<1>7. NamesFaulty BY <1>3, <1>6 DEF NamesFaulty
<1> QED BY <1>1, <1>5, <1>7 DEF Joint

\* What the phases of a program in step are.
LEMMA PhaseFacts ==
  ASSUME AllInStep, entry \in Entries,
         NEW P \in Phases(entry)
  PROVE  /\ \A x \in P : Works(x) => Tries(entry, x) \subseteq P
         /\ \A S \in Onward(entry, P) : \E Q \in Phases(entry) : S \subseteq Q
         /\ OneStop(P) /\ PublishesAgreed(P) /\ ClosesEpochs(P)
         /\ entry.main # "couple" => ReportsNamed(P)
         /\ Accountable(entry, Phases(entry)) => OwnsFailure(P)
<1>1. InStep(entry) BY DEF AllInStep
<1> QED BY <1>1 DEF InStep, Agree, Complete

\* A rank computes: it stays in its phase, as the other ranks do.
LEMMA JointCompute ==
  ASSUME AllInStep, Joint, NEW r \in Ranks, Compute(r)
  PROVE  Joint'
<1>1. PICK fault \in BOOLEAN :
        /\ faulty' = IF fault THEN faulty \cup {r} ELSE faulty
        /\ frame' = [frame EXCEPT ![r] = Settle(entry, Worked(frame[r], fault))]
  BY DEF Compute
<1>2. entry' = entry /\ entry \in Entries BY DEF Compute, Move, Joint
<1>3. IndInv' BY ComputeStep DEF Joint
<1>4. /\ frame'[r] = Settle(entry, Worked(frame[r], fault))
      /\ \A q \in Ranks : q # r =>
           frame'[q] = frame[q] /\ (q \in faulty' <=> q \in faulty)
      /\ r \in faulty' <=> r \in faulty \/ fault
      /\ faulty \subseteq faulty'
  BY <1>1 DEF Joint, IndInv, PoolFunction
<1>5. ASSUME NEW m \in Namings
      PROVE  /\ \E P \in Phases(entry) : Covers(m, P)'
             /\ frame'[r].named \in {frame[r].named, -1}
  <2>1. PICK P \in Phases(entry) : Covers(m, P) BY DEF Joint, InPhase
  <2>2. PICK x \in P : StandsFor(m, x, r) BY <2>1 DEF Covers
  <2> DEFINE f == frame[r]
  <2>3. Similar(m, f, x.frame) /\ (x.own = TRUE <=> r \in faulty)
    BY <2>2 DEF StandsFor
  <2>4. Works(x)
    BY <2>3, SimilarFields DEF Works, Compute
  <2>5. PICK y \in P : y = Lone(entry, Worked(x.frame, fault), x.own \/ fault)
    BY <1>2, <2>4, PhaseFacts DEF Tries
  <2>6. /\ Similar(m, Worked(f, fault), Worked(x.frame, fault))
        /\ Worked(f, fault).named = f.named
    BY <2>3, WorkedKept
  <2>7. Keeps(m, f.named, frame'[r], y.frame)
    BY <1>4, <2>5, <2>6, SettleKept DEF Lone
  <2>8. y.own = TRUE <=> r \in faulty'
    BY <1>4, <2>3, <2>5 DEF Lone
  <2> HIDE DEF f
  <2>9. StandsFor(m, y, r)' BY <2>7, <2>8 DEF StandsFor, Keeps
  <2>10. ASSUME NEW q \in Ranks, q # r PROVE \E z \in P : StandsFor(m, z, q)'
    <3>1. PICK z \in P : StandsFor(m, z, q) BY <2>1 DEF Covers
    <3>2. frame'[q] = frame[q] /\ (q \in faulty' <=> q \in faulty)
      BY <1>4, <2>10
    <3>3. StandsFor(m, z, q)' BY <3>1, <3>2 DEF StandsFor
    <3> QED BY <3>3
  <2>11. Covers(m, P)' BY <2>5, <2>9, <2>10 DEF Covers
  <2> QED BY <2>7, <2>11 DEF f, Keeps
<1>6. InPhase' BY <1>2, <1>5 DEF InPhase
<1>7. NamesFaulty'
  <2>1. [n \in Known |-> IF n = -1 THEN -1 ELSE 0] \in Namings
    BY DEF Namings, Names, Known
  <2>2. frame'[r].named \in {frame[r].named, -1} BY <2>1, <1>5
  <2> QED BY <1>2, <1>4, <2>2 DEF Joint, NamesFaulty
<1> QED BY <1>2, <1>3, <1>6, <1>7 DEF Joint

\* What a packet of all ranks says of them.
LEMMA Verdict ==
  ASSUME IndInv, NEW channel \in Channels, NEW p \in pool[channel],
         p.ranks = Ranks
  PROVE  /\ \A r \in Ranks : Waits(frame[r], channel)
         /\ p.failure = NoFailure => \A r \in Ranks : ~frame[r].failed
         /\ p.failure # NoFailure =>
              /\ p.failure.rank \in Ranks
              /\ \/ frame[p.failure.rank].failed
                 \/ \E q, r \in Ranks : frame[q].at.count[q] # frame[r].at.count[r]
         /\ p.reference \in Ranks
<1>1. PacketSound(channel, p) BY DEF IndInv, PoolSound
<1>2. /\ \A r \in Ranks : Waits(frame[r], channel) /\ Exact(Sent, p) /\ Formed(p)
      /\ p.reference \in Ranks
  BY <1>1 DEF PacketSound, Formed
<1>3. ASSUME NEW r \in Ranks
      PROVE  /\ Sent[r].count = frame[r].at.count[r]
             /\ Sent[r].code = IF frame[r].failed THEN 1 ELSE 0
  BY DEF Sent, Contribution
<1>4. ASSUME p.failure = NoFailure, NEW r \in Ranks, frame[r].failed
      PROVE  FALSE
  <2>1. [rank |-> r, code |-> 1] \in Charges(Sent, p.ranks, p.count)
    BY <1>3, <1>4, ChargeCases
  <2>2. Precedes([rank |-> r, code |-> 1], NoFailure)
    BY PacketAssumption DEF Precedes, NoFailure, Ranks
  <2> QED BY <2>1, <2>2, <1>2, <1>4 DEF Exact
<1>5. ASSUME p.failure # NoFailure
      PROVE  /\ p.failure.rank \in Ranks
             /\ \/ frame[p.failure.rank].failed
                \/ \E q, r \in Ranks : frame[q].at.count[q] # frame[r].at.count[r]
  <2>1. p.failure \in Charges(Sent, Ranks, p.count)
        /\ p.count = Sent[p.reference].count
    BY <1>2 DEF Exact
  <2>2. CASE \E r \in Ranks : Sent[r].code # 0
                /\ p.failure = [rank |-> r, code |-> Sent[r].code]
    BY <2>2, <1>3
  <2>3. CASE \E r \in Ranks : Sent[r].count # p.count
                /\ p.failure = [rank |-> r, code |-> CountMismatch]
    BY <2>1, <2>3, <1>2, <1>3
  <2> QED BY <1>5, <2>1, <2>2, <2>3, ChargeCases
<1> QED BY <1>2, <1>4, <1>5

\* A call returns: all ranks begin the phase that follows its result.
LEMMA CoversNext ==
  ASSUME AllInStep, Joint, NEW channel \in Channels,
         NEW p \in pool[channel], p.ranks = Ranks,
         NEW value \in 1 .. frame[p.reference].at.outcomes,
         entry' = entry, faulty' = faulty,
         frame' = [r \in Ranks |->
                     Settle(entry, Receive(frame[r], channel, p.failure, value))],
         NEW m \in Namings
  PROVE  \E P \in Phases(entry) : Covers(m, P)'
<1>1. PICK P \in Phases(entry) : Covers(m, P) BY DEF Joint, InPhase
<1> DEFINE told == IF p.failure = NoFailure THEN NoFailure
                   ELSE Failed(m[p.failure.rank])
           seen == IF p.failure = NoFailure THEN value ELSE 1
           result == [failure |-> told, value |-> seen]
<1>2. /\ \A r \in Ranks : Waits(frame[r], channel)
      /\ p.failure = NoFailure => \A r \in Ranks : ~frame[r].failed
      /\ p.failure # NoFailure =>
           /\ p.failure.rank \in Ranks
           /\ \/ frame[p.failure.rank].failed
              \/ \E q, r \in Ranks : frame[q].at.count[q] # frame[r].at.count[r]
      /\ p.reference \in Ranks
  BY Verdict DEF Joint
<1>3. ASSUME NEW r \in Ranks
      PROVE  \E x \in Stopped(P) :
               /\ StandsFor(m, x, r) /\ Calls(x)
               /\ x.frame.at = frame[r].at /\ x.frame.at.channel = channel
               /\ x.frame.failed = frame[r].failed
  <2>1. PICK x \in P : StandsFor(m, x, r) BY <1>1 DEF Covers
  <2>2. x.frame.at = frame[r].at /\ x.frame.failed = frame[r].failed
    BY <2>1, SimilarFields DEF StandsFor
  <2>3. x.frame.at.op = "collective" /\ x.frame.at.channel = channel
    BY <1>2, <2>2 DEF Waits
  <2> QED BY <2>1, <2>2, <2>3 DEF Stopped, Works, Calls
<1>4. /\ p.failure = NoFailure => told = NoFailure /\ seen = value
      /\ p.failure # NoFailure =>
           p.failure.rank \in Ranks /\ told = Failed(m[p.failure.rank])
      /\ p.failure # NoFailure => told # NoFailure
  BY <1>2 DEF Failed, NoFailure
<1>5. result \in Results(P)
  <2>1. CASE p.failure = NoFailure
    <3>1. PICK x \in Stopped(P) : Calls(x) /\ x.frame.at = frame[p.reference].at
      BY <1>2, <1>3
    <3>2. result \in [failure : {NoFailure}, value : 1 .. x.frame.at.outcomes]
      BY <2>1, <3>1
    <3> QED BY <3>1, <3>2 DEF Results
  <2>2. CASE p.failure # NoFailure
    <3>1. m[p.failure.rank] \in Names
      BY <1>2, <2>2 DEF Namings, Known, Ranks
    <3>2. result \in [failure : {Failed(n) : n \in Names}, value : {1}]
      BY <2>2, <3>1
    <3>3. \E x \in Stopped(P) : Calls(x) /\ (x.frame.failed \/ ~Even(x.frame.at))
      <4>1. CASE frame[p.failure.rank].failed
        BY <4>1, <1>2, <1>3, <2>2
      <4>2. CASE \E q, r \in Ranks : frame[q].at.count[q] # frame[r].at.count[r]
        <5>1. PICK q, r \in Ranks : frame[q].at.count[q] # frame[r].at.count[r]
          BY <4>2
        <5>2. PICK x \in Stopped(P) : Calls(x) /\ x.frame.at = frame[q].at
          BY <1>3
        <5>3. PICK y \in Stopped(P) : Calls(y) /\ y.frame.at = frame[r].at
          BY <1>3
        <5>4. OneStop(P) BY PhaseFacts DEF Joint
        <5>5. ~Over(x) /\ ~Over(y) BY <5>2, <5>3 DEF Over, Calls, End
        <5>6. x.frame.at.count = y.frame.at.count
          BY <5>4, <5>5 DEF OneStop, Brings
        <5>7. ~Even(x.frame.at) BY <5>1, <5>2, <5>3, <5>6 DEF Even
        <5> QED BY <5>2, <5>7
      <4> QED BY <1>2, <2>2, <4>1, <4>2
    <3> HIDE DEF result
    <3> QED BY <3>2, <3>3 DEF Results
  <2> QED BY <2>1, <2>2
<1> DEFINE S == Returned(entry, P, result)
<1>6. ASSUME NEW r \in Ranks
      PROVE  \E y \in S : StandsFor(m, y, r)'
  <2>1. PICK x \in Stopped(P) :
          /\ StandsFor(m, x, r) /\ Calls(x)
          /\ x.frame.at = frame[r].at /\ x.frame.at.channel = channel
          /\ x.frame.failed = frame[r].failed
    BY <1>3
  <2>2. result.failure = NoFailure => ~x.frame.failed
    BY <1>2, <1>4, <2>1
  <2>3. PICK y \in S : y = Lone(entry, Receive(x.frame, channel, told, seen), x.own)
    BY <2>1, <2>2 DEF Returned
  <2> HIDE DEF S, result, told, seen
  <2> DEFINE g == Receive(frame[r], channel, p.failure, value)
             j == Receive(x.frame, channel, told, seen)
  <2>4. Similar(m, frame[r], x.frame) /\ (x.own = TRUE <=> r \in faulty)
    BY <2>1 DEF StandsFor
  <2>5. Similar(m, g, j) BY <1>4, <2>4, ReceiveKept
  <2>6. frame'[r] = Settle(entry, g) /\ y.frame = Settle(entry, j) /\ y.own = x.own
    BY <2>3 DEF Lone
  <2> HIDE DEF g, j
  <2>7. Similar(m, frame'[r], y.frame) BY <2>5, <2>6, SettleKept DEF Keeps
  <2> QED BY <2>4, <2>6, <2>7 DEF StandsFor
<1> HIDE DEF S
<1>7. S # {} /\ S \in Onward(entry, P)
  <2>1. 0 \in Ranks BY PacketAssumption DEF Ranks
  <2>2. S # {} BY <2>1, <1>6
  <2> QED BY <2>2, <1>5 DEF Onward, S
<1>8. PICK Q \in Phases(entry) : S \subseteq Q
  BY <1>7, PhaseFacts DEF Joint
<1>9. Covers(m, Q)' BY <1>6, <1>8 DEF Covers
<1> QED BY <1>8, <1>9

\* One way to name the ranks: none is told from another.
Alike == [n \in Known |-> IF n = -1 THEN -1 ELSE 0]

\* It is a naming.
LEMMA AlikeNaming == Alike \in Namings
BY DEF Alike, Namings, Names, Known

\* A failed call names a rank that has failed.
LEMMA NamedHasFailed ==
  ASSUME AllInStep, Joint, Accountable(entry, Phases(entry)),
         NEW channel \in Channels, channel # "prepared",
         NEW p \in pool[channel], p.ranks = Ranks, p.failure # NoFailure,
         NEW q \in Ranks, frame[q].named = -1
  PROVE  p.failure.rank \in faulty
<1> DEFINE r == p.failure.rank
<1>1. PICK P \in Phases(entry) : Covers(Alike, P)
  BY AlikeNaming DEF Joint, InPhase
<1>2. /\ \A t \in Ranks : Waits(frame[t], channel)
      /\ r \in Ranks
      /\ \/ frame[r].failed
         \/ \E s, t \in Ranks : frame[s].at.count[s] # frame[t].at.count[t]
  BY Verdict DEF Joint
<1>3. OneStop(P) /\ OwnsFailure(P) BY PhaseFacts DEF Joint
<1>4. ASSUME NEW t \in Ranks
      PROVE  \E x \in Stopped(P) :
               /\ Calls(x) /\ ~Over(x) /\ x.frame.at = frame[t].at
               /\ x.frame.at.channel # "prepared"
               /\ x.frame.failed = frame[t].failed
               /\ x.frame.named = -1 <=> frame[t].named = -1
               /\ x.own = TRUE <=> t \in faulty
  <2>1. PICK x \in P : StandsFor(Alike, x, t) BY <1>1 DEF Covers
  <2>2. /\ x.frame.at = frame[t].at /\ x.frame.failed = frame[t].failed
        /\ x.frame.named = Alike[frame[t].named] /\ frame[t].named \in Known
        /\ x.own = TRUE <=> t \in faulty
    BY <2>1, SimilarFields DEF StandsFor
  <2>3. x.frame.named = -1 <=> frame[t].named = -1
    BY <2>2, AlikeNaming DEF Namings
  <2>4. x.frame.at.op = "collective" /\ x.frame.at.channel = channel
    BY <1>2, <2>2 DEF Waits
  <2> QED BY <2>2, <2>3, <2>4 DEF Stopped, Works, Calls, Over, End
<1>5. ASSUME NEW s \in Ranks, NEW t \in Ranks
      PROVE  /\ frame[s].at.count[s] = frame[t].at.count[t]
             /\ frame[s].named = -1 => frame[t].named = -1
  <2>1. PICK x \in Stopped(P) :
          /\ Calls(x) /\ ~Over(x) /\ x.frame.at = frame[s].at
          /\ x.frame.at.channel # "prepared"
          /\ x.frame.named = -1 <=> frame[s].named = -1
    BY <1>4
  <2>2. PICK y \in Stopped(P) :
          /\ Calls(y) /\ ~Over(y) /\ y.frame.at = frame[t].at
          /\ y.frame.named = -1 <=> frame[t].named = -1
    BY <1>4
  <2>3. x.frame.at.count = y.frame.at.count /\ x.frame.named = y.frame.named
    BY <1>3, <2>1, <2>2 DEF OneStop, Brings
  <2>4. x.frame.at.count[s] = x.frame.at.count[t]
    BY <1>3, <2>1 DEF OwnsFailure, Even
  <2> QED BY <2>1, <2>2, <2>3, <2>4
<1>6. frame[r].failed BY <1>2, <1>5
<1>7. frame[r].named = -1 BY <1>2, <1>5
<1>8. PICK x \in Stopped(P) :
        /\ Calls(x) /\ x.frame.at.channel # "prepared"
        /\ x.frame.failed /\ x.frame.named = -1
        /\ x.own = TRUE <=> r \in faulty
  BY <1>2, <1>4, <1>6, <1>7
<1>9. x.own = TRUE BY <1>3, <1>8 DEF OwnsFailure
<1> QED BY <1>8, <1>9

\* A call returns: the ranks go on together, and a rank it names has failed.
LEMMA JointDeliver ==
  ASSUME AllInStep, Joint, NEW channel \in Channels,
         Deliver(channel)
  PROVE  Joint'
<1>0. PICK p \in {q \in pool[channel] : q.ranks = Ranks} :
        \E value \in 1 .. frame[p.reference].at.outcomes :
          /\ frame' = [r \in Ranks |->
               Settle(entry, Receive(frame[r], channel, p.failure, value))]
          /\ Move(Ranks, {p})
  BY DEF Deliver
<1>1. PICK value \in 1 .. frame[p.reference].at.outcomes :
        /\ frame' = [r \in Ranks |->
             Settle(entry, Receive(frame[r], channel, p.failure, value))]
        /\ Move(Ranks, {p})
  BY <1>0
<1>2. /\ entry' = entry /\ faulty' = faulty
      /\ p \in pool[channel] /\ p.ranks = Ranks
  BY <1>1 DEF Deliver, Move
<1>3. IndInv' BY DeliverStep DEF Joint
<1>4. InPhase'
  <2>1. ASSUME NEW m \in Namings PROVE \E P \in Phases(entry) : Covers(m, P)'
    BY <1>1, <1>2, CoversNext
  <2> QED BY <1>2, <2>1 DEF InPhase
<1>5. NamesFaulty'
  <2> SUFFICES ASSUME Accountable(entry, Phases(entry)), NEW r \in Ranks
               PROVE  frame'[r].named \in faulty \cup {-1}
    BY <1>2 DEF NamesFaulty
  <2>1. PICK P \in Phases(entry) : Covers(Alike, P)
    BY AlikeNaming DEF Joint, InPhase
  <2>2. PICK x \in P : Similar(Alike, frame[r], x.frame)
    BY <2>1 DEF Covers, StandsFor
  <2> DEFINE f == frame[r]
             h == Receive(f, channel, p.failure, value)
             told == IF p.failure = NoFailure THEN NoFailure
                     ELSE Failed(Alike[p.failure.rank])
  <2>3. p.failure # NoFailure => p.failure.rank \in Ranks
    BY <1>2, Verdict DEF Joint
  <2>4. /\ Similar(Alike, h, Receive(x.frame, channel, told, value))
        /\ h.named # f.named =>
             /\ channel # "prepared" /\ p.failure # NoFailure
             /\ f.named = -1 /\ h.named = p.failure.rank
    BY <2>2, <2>3, AlikeNaming, ReceiveKept
  <2>5. f.named \in faulty \cup {-1} BY DEF Joint, NamesFaulty
  <2>6. h.named \in faulty \cup {-1}
    BY <1>2, <2>4, <2>5, NamedHasFailed
  <2>7. frame'[r].named \in {h.named, -1}
    BY <1>1, <2>4, AlikeNaming, SettleKept DEF Keeps
  <2> QED BY <2>6, <2>7
<1> QED BY <1>2, <1>3, <1>4, <1>5 DEF Joint

\* Every step of a program in step keeps the ranks in one phase.
LEMMA JointNext ==
  ASSUME AllInStep, Joint, [Next]_vars
  PROVE  Joint'
<1>1. CASE frame' = frame /\ entry' = entry /\ faulty' = faulty
  <2>1. IndInv' BY NextStep DEF Joint
  <2>2. InPhase' BY <1>1 DEF Joint, InPhase, Covers, StandsFor
  <2>3. NamesFaulty' BY <1>1 DEF Joint, NamesFaulty
  <2> QED BY <1>1, <2>1, <2>2, <2>3 DEF Joint
<1>2. CASE UNCHANGED vars BY <1>1, <1>2 DEF vars
<1>3. ASSUME NEW r \in Ranks, Compute(r) PROVE Joint' BY <1>3, JointCompute
<1>4. ASSUME NEW c \in Channels, Combine(c) PROVE Joint'
  BY <1>1, <1>4 DEF Combine
<1>5. ASSUME NEW c \in Channels, Deliver(c) PROVE Joint' BY <1>5, JointDeliver
<1> QED BY <1>2, <1>3, <1>4, <1>5 DEF Next, Terminated

-----------------------------------------------------------------------------
\* Programs in step keep the ranks in one phase.
LEMMA JointAlways == AllInStep => (Spec => []Joint)
<1> SUFFICES ASSUME AllInStep PROVE Spec => []Joint
  OBVIOUS
<1>1. Init => Joint BY JointInit
<1>2. Joint /\ [Next]_vars => Joint' BY JointNext
<1> QED BY <1>1, <1>2, PTL DEF Spec

\* Lone ranks of one phase stand for any two ranks.
LEMMA TwoRanks ==
  ASSUME Joint, NEW m \in Namings, NEW q \in Ranks, NEW r \in Ranks
  PROVE  \E P \in Phases(entry) : \E x, y \in P :
           StandsFor(m, x, q) /\ StandsFor(m, y, r)
<1>1. PICK P \in Phases(entry) : Covers(m, P) BY DEF Joint, InPhase
<1>2. PICK x \in P : StandsFor(m, x, q) BY <1>1 DEF Covers
<1>3. PICK y \in P : StandsFor(m, y, r) BY <1>1 DEF Covers
<1> QED BY <1>2, <1>3

\* A naming tells a name from all others.
LEMMA Apart ==
  ASSUME NEW a \in Known, NEW b \in Known, \A m \in Namings : m[a] = m[b]
  PROVE  a = b
<1> DEFINE m == [n \in Known |-> IF n = -1 THEN -1 ELSE IF n = a THEN 0 ELSE 1]
<1>1. m \in Namings BY DEF Namings, Names, Known
<1>2. m[a] = m[b] BY <1>1
<1>3. m[a] = (IF a = -1 THEN -1 ELSE 0)
      /\ m[b] = (IF b = -1 THEN -1 ELSE IF b = a THEN 0 ELSE 1)
  OBVIOUS
<1> QED BY <1>2, <1>3

\* Ranks of one phase wait in one call.
LEMMA JointSchedule ==
  ASSUME AllInStep, Joint
  PROVE  OneSchedule
<1>1. ASSUME NEW q \in Ranks, NEW r \in Ranks, frame[q].at.op = "collective"
      PROVE  /\ frame[r].at # End
             /\ frame[r].at.op = "collective" =>
                  /\ frame[q].at.call = frame[r].at.call
                  /\ frame[q].at.count = frame[r].at.count
  <2>1. PICK P \in Phases(entry) : \E x, y \in P :
          StandsFor(Alike, x, q) /\ StandsFor(Alike, y, r)
    BY AlikeNaming, TwoRanks
  <2>2. PICK x, y \in P : StandsFor(Alike, x, q) /\ StandsFor(Alike, y, r)
    BY <2>1
  <2>3. x.frame.at = frame[q].at /\ y.frame.at = frame[r].at
    BY <2>2, SimilarFields DEF StandsFor
  <2>4. OneStop(P) BY PhaseFacts DEF Joint
  <2>5. x \in Stopped(P) /\ ~Over(x)
    BY <1>1, <2>3 DEF Stopped, Works, Over, End
  <2>6. frame[r].at = End \/ frame[r].at.op = "collective" => y \in Stopped(P)
    BY <2>3 DEF Stopped, Works, End
  <2>7. frame[r].at # End BY <2>3, <2>4, <2>5, <2>6 DEF OneStop, Over
  <2>8. y \in Stopped(P) => Brings(x) = Brings(y)
    BY <2>4, <2>5 DEF OneStop
  <2> QED BY <2>3, <2>6, <2>7, <2>8 DEF Brings
<1> QED BY <1>1 DEF OneSchedule

\* Ranks of one phase end with one result.
LEMMA JointAgrees ==
  ASSUME AllInStep, Joint
  PROVE  SolveAgrees
<1> SUFFICES ASSUME NEW q \in Ranks, NEW r \in Ranks, Ended(q), Ended(r)
             PROVE  Outcome(frame[q]) = Outcome(frame[r])
  BY DEF SolveAgrees
<1>1. ASSUME NEW m \in Namings
      PROVE  /\ frame[q].failed = frame[r].failed
             /\ frame[q].termination = frame[r].termination
             /\ frame[q].solution = frame[r].solution
             /\ frame[q].published = frame[r].published
             /\ frame[q].lowest \in Known /\ frame[r].lowest \in Known
             /\ m[frame[q].lowest] = m[frame[r].lowest]
  <2>1. PICK P \in Phases(entry) : \E x, y \in P :
          StandsFor(m, x, q) /\ StandsFor(m, y, r)
    BY TwoRanks
  <2>2. PICK x, y \in P : StandsFor(m, x, q) /\ StandsFor(m, y, r) BY <2>1
  <2>3. x \in Stopped(P) /\ y \in Stopped(P) /\ Over(x) /\ Over(y)
    BY <2>2, SimilarFields DEF StandsFor, Ended, Stopped, Works, Over, End
  <2>4. OneStop(P) BY PhaseFacts DEF Joint
  <2>5. Outcome(x.frame) = Outcome(y.frame) BY <2>3, <2>4 DEF OneStop
  <2> QED BY <2>2, <2>5, SimilarFields DEF StandsFor, Outcome
<1>2. frame[q].lowest = frame[r].lowest BY <1>1, AlikeNaming, Apart
<1> QED BY <1>1, <1>2, AlikeNaming DEF Outcome

\* The result of a solve is that of its phase.
LEMMA JointNamesRank ==
  ASSUME AllInStep, Joint
  PROVE  FailureNamesRank
<1> SUFFICES ASSUME NEW r \in Ranks, frame[r].termination # "none",
                    entry.main # "couple", Ended(r)
             PROVE  /\ frame[r].lowest = frame[r].named
                    /\ \/ frame[r].named \in faulty \cup {-1}
                       \/ "projection" \in entry.options
  BY DEF FailureNamesRank
<1>1. ASSUME NEW m \in Namings
      PROVE  \E P \in Phases(entry) : \E x \in P : StandsFor(m, x, r) /\ Reports(x)
  <2>1. PICK P \in Phases(entry) : Covers(m, P) BY DEF Joint, InPhase
  <2>2. PICK x \in P : StandsFor(m, x, r) BY <2>1 DEF Covers
  <2>3. Reports(x) BY <2>2, SimilarFields DEF StandsFor, Reports, Over, Ended
  <2> QED BY <2>2, <2>3
<1>2. ASSUME NEW m \in Namings
      PROVE  /\ frame[r].lowest \in Known /\ frame[r].named \in Known
             /\ m[frame[r].lowest] = m[frame[r].named]
  <2>1. PICK P \in Phases(entry) :
          \E x \in P : StandsFor(m, x, r) /\ Reports(x)
    BY <1>1
  <2>2. PICK x \in P : StandsFor(m, x, r) /\ Reports(x) BY <2>1
  <2>3. ReportsNamed(P) BY PhaseFacts DEF Joint
  <2> QED BY <2>2, <2>3, SimilarFields DEF StandsFor, ReportsNamed
<1>3. frame[r].lowest = frame[r].named BY <1>2, AlikeNaming, Apart
<1>4. "projection" \notin entry.options => Accountable(entry, Phases(entry))
  BY <1>1, AlikeNaming DEF Accountable
<1> QED BY <1>3, <1>4 DEF Joint, NamesFaulty

\* Ranks of one phase publish what none of them has spoiled.
LEMMA JointPublished ==
  ASSUME AllInStep, Joint
  PROVE  PublishedTogether
<1>1. ASSUME NEW q \in Ranks, NEW r \in Ranks
      PROVE  /\ frame[r].open # {} => ~Ended(r)
             /\ frame[q].published \cap frame[r].spoiled = {}
  <2>1. PICK P \in Phases(entry) : \E x, y \in P :
          StandsFor(Alike, x, q) /\ StandsFor(Alike, y, r)
    BY AlikeNaming, TwoRanks
  <2>2. PICK x, y \in P : StandsFor(Alike, x, q) /\ StandsFor(Alike, y, r)
    BY <2>1
  <2>3. PublishesAgreed(P) /\ ClosesEpochs(P)
    BY PhaseFacts DEF Joint
  <2>4. x.frame.published = frame[q].published /\ y.frame.spoiled = frame[r].spoiled
        /\ y.frame.open = frame[r].open /\ y.frame.at = frame[r].at
    BY <2>2, SimilarFields DEF StandsFor
  <2> QED BY <2>2, <2>3, <2>4 DEF PublishesAgreed, ClosesEpochs, Over, Ended
<1> QED BY <1>1 DEF PublishedTogether

\* If every program is in step for a rank alone, then however many ranks run it,
\* and whichever of them fail, those that wait at the same time wait in one call
\* on as many scalars, and none has ended (solver_krylov.cpp, solver_mg.cpp and
\* the stages agree on a rank-local status before a rank acts on it).
THEOREM AlwaysOneSchedule == AllInStep => (Spec => []OneSchedule)
<1> SUFFICES ASSUME AllInStep PROVE Spec => []OneSchedule
  OBVIOUS
<1>1. Joint => OneSchedule BY JointSchedule
<1>2. Spec => []Joint BY JointAlways
<1> QED BY <1>1, <1>2, PTL

\* And all ranks that have ended have ended with one result: status, termination,
\* failing rank, solution and published ghosts (LinearSolveResult).
THEOREM AlwaysSolveAgrees == AllInStep => (Spec => []SolveAgrees)
<1> SUFFICES ASSUME AllInStep PROVE Spec => []SolveAgrees
  OBVIOUS
<1>1. Joint => SolveAgrees BY JointAgrees
<1>2. Spec => []Joint BY JointAlways
<1> QED BY <1>1, <1>2, PTL

\* And the result of a solve names the rank that its first failed call named, and
\* that rank has failed by itself (finish_failure, lowest_failing_rank).
THEOREM AlwaysFailureNamesRank == AllInStep => (Spec => []FailureNamesRank)
<1> SUFFICES ASSUME AllInStep PROVE Spec => []FailureNamesRank
  OBVIOUS
<1>1. Joint => FailureNamesRank BY JointNamesRank
<1>2. Spec => []Joint BY JointAlways
<1> QED BY <1>1, <1>2, PTL

\* And no rank publishes the ghosts of an epoch in which another has failed
\* (close_prepared_halo_epoch and the commits of the stages).
THEOREM AlwaysPublishedTogether == AllInStep => (Spec => []PublishedTogether)
<1> SUFFICES ASSUME AllInStep PROVE Spec => []PublishedTogether
  OBVIOUS
<1>1. Joint => PublishedTogether BY JointPublished
<1>2. Spec => []Joint BY JointAlways
<1> QED BY <1>1, <1>2, PTL
=============================================================================
