-------------------------- MODULE ReductionPackets --------------------------
(***************************************************************************)
(* The packet with which a ReductionEngine reduces a failure.  Each rank   *)
(* contributes its status and the number of scalars it reduces; packets    *)
(* are combined two at a time, in the order of MPI_Allreduce or of the     *)
(* gather to rank 0, until one stands for all ranks.                       *)
(*                                                                         *)
(* The scalars themselves are abstracted: the caller sees the global value *)
(* only when no rank has failed, and it is then the same on all ranks.     *)
(***************************************************************************)
EXTENDS Integers

CONSTANTS
  NumRanks,  \* size of the communicator
  MaxCode    \* codes of the failures a rank may report: 1 .. MaxCode

ASSUME PacketAssumption == NumRanks \in Nat \ {0} /\ MaxCode \in Nat \ {0}

Ranks == 0 .. NumRanks - 1

\* Ordered as select_failure orders two failures of one rank: a count
\* mismatch comes after every failure the rank reported itself.
CountMismatch == MaxCode + 1
Codes == 0 .. CountMismatch
Failures == [rank : 0 .. NumRanks, code : Codes]
NoFailure == [rank |-> NumRanks, code |-> 0]

\* ranks, those the packet stands for, is not part of the code's packet.
Packets == [ranks : SUBSET Ranks, reference : Ranks, count : Nat,
            failure : Failures]

Precedes(f, g) == f.rank < g.rank \/ (f.rank = g.rank /\ f.code < g.code)

\* select_failure: the proposed failure replaces the selected one.
SelectFailure(proposed, selected) ==
  IF Precedes(proposed, selected) THEN proposed ELSE selected

\* initialize_packet: the contribution of rank r, code 0 if it has not failed.
InitialPacket(r, count, code) ==
  [ranks |-> {r}, reference |-> r, count |-> count,
   failure |-> IF code = 0 THEN NoFailure ELSE [rank |-> r, code |-> code]]

\* Mutant of CombinePackets: the mismatch is charged to the earlier rank.
CombineChargesEarlier(input, inout) ==
  LET earlier  == IF input.reference < inout.reference THEN input ELSE inout
      selected == SelectFailure(input.failure, inout.failure)
      mismatch == [rank |-> earlier.reference, code |-> CountMismatch]
  IN  [ranks     |-> input.ranks \cup inout.ranks,
       reference |-> earlier.reference,
       count     |-> earlier.count,
       failure   |-> IF input.count # inout.count
                     THEN SelectFailure(mismatch, selected) ELSE selected]

\* combine_packets: a count mismatch is charged to the later reference rank.
CombinePackets(input, inout) ==
  LET earlier  == IF input.reference < inout.reference THEN input ELSE inout
      later    == IF input.reference < inout.reference THEN inout ELSE input
      selected == SelectFailure(input.failure, inout.failure)
      mismatch == [rank |-> later.reference, code |-> CountMismatch]
  IN  [ranks     |-> input.ranks \cup inout.ranks,
       reference |-> earlier.reference,
       count     |-> earlier.count,
       failure   |-> IF input.count # inout.count
                     THEN SelectFailure(mismatch, selected) ELSE selected]

-----------------------------------------------------------------------------
(***************************************************************************)
(* What a packet should say, whatever the order of the combinations.  sent *)
(* gives the count and the code each rank contributed.                     *)
(***************************************************************************)

\* A rank is charged with its own failure, and with a mismatch if its count
\* differs from that of the lowest rank.
Charges(sent, S, count) ==
  {[rank |-> r, code |-> sent[r].code] : r \in {q \in S : sent[q].code # 0}}
    \cup {[rank |-> r, code |-> CountMismatch] :
            r \in {q \in S : sent[q].count # count}}
    \cup {NoFailure}

\* The packet names the first failure of the ranks it stands for.
Exact(sent, p) ==
  /\ p.reference \in p.ranks /\ \A r \in p.ranks : p.reference <= r
  /\ p.count = sent[p.reference].count
  /\ p.failure \in Charges(sent, p.ranks, p.count)
  /\ \A f \in Charges(sent, p.ranks, p.count) : ~Precedes(f, p.failure)

Contributions == [count : Nat, code : 0 .. MaxCode]
=============================================================================
