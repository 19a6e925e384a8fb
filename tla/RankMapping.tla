---------------------------- MODULE RankMapping -----------------------------
(***************************************************************************)
(* The rank mapping of one deployment (distributed/topology.py) and the    *)
(* token counts of its steps, checked against what the processes rely on:  *)
(* every process computes its own part of the mapping from the sizes       *)
(* alone, and the parts must fit together.                                 *)
(***************************************************************************)
EXTENDS Topology

CONSTANTS
    MaxRanks,   \* bound on A, the Attention ranks of the deployments checked
    MaxCount    \* bound on the tokens of one Attention DP rank in one step

ASSUME MaxRanksAssumption == MaxRanks \in Nat \ {0}
ASSUME MaxCountAssumption == MaxCount \in Nat

VARIABLES
    A, F,       \* num_attention_ranks, num_ffn_ranks
    dp,         \* Attention data_parallel_size; the TP size is A / dp
    counts      \* num_tokens_across_dp_cpu of the step

vars == <<A, F, dp, counts>>

(* The deployments the validators let pass: A >= F, A = DP * TP *)
Init ==
    /\ A \in 1 .. MaxRanks
    /\ F \in 1 .. MaxRanks
    /\ ValidTopology(A, F)
    /\ dp \in 1 .. A
    /\ A % dp = 0
    /\ counts = [d \in 0 .. dp - 1 |-> 0]

(* Every step the Attention DP ranks agree on the counts of the step. *)
NewStep ==
    /\ counts' \in [0 .. dp - 1 -> 0 .. MaxCount]
    /\ UNCHANGED <<A, F, dp>>

Next == NewStep
Spec == Init /\ [][Next]_vars

AttentionRanks == 0 .. A - 1
FFNRanks == 0 .. F - 1

(* The subgroup an Attention rank joins (a * F // A) is the one whose block,
   computed by the FFN rank and by its other peers, contains it, and no
   other: topology.py:136 and :108-115 are inverse to one another. *)
BlocksPartition ==
    \A a \in AttentionRanks, i \in FFNRanks :
        a \in SubgroupBlock(i, A, F) <=> i = SubgroupIndex("attention", a, A, F)

(* "The blocks are contiguous and differ in size by at most one"
   (topology.py:150-151), so that no FFN rank is without a peer. *)
BlocksBalanced ==
    \A i \in FFNRanks :
        LET size == BlockStart(i + 1, A, F) - BlockStart(i, A, F)
        IN  size = A \div F \/ (size = A \div F + 1 /\ A % F /= 0)

(* Every FFN rank gets each control payload from exactly one Attention rank,
   the one whose p2p group rank it receives from, and both are members of the
   p2p group (p2p.py:919, topology.py:164-170). *)
OneMetadataSender ==
    \A j \in FFNRanks : \E a \in AttentionRanks :
        /\ j \in MetadataDestinations("attention", a, A, F)
        /\ MetadataSource(j, A, F) = P2PRank("attention", a, A, F)
        /\ ParticipatesInMetadataGroup(WorldRank("attention", a, F), A, F)
        /\ \A b \in AttentionRanks :
              j \in MetadataDestinations("attention", b, A, F) => b = a

(* Every subgroup has its ranks, and its one sender of control payloads. *)
SubgroupsFit == BlocksPartition /\ OneMetadataSender

(* The Attention ranks an FFN rank receives from: subgroup_ranks without it. *)
Peers(i) ==
    {SubgroupRanks(i, A, F)[k] - F : k \in DOMAIN SubgroupRanks(i, A, F) \ {0}}

(* The count an FFN rank gives its model for a step (ffn_metadata.py) is the
   number of rows it receives from its peers (p2p.py:796-828). *)
AggregateMatchesWire ==
    \A i \in FFNRanks :
        AggregateCounts(counts, A, F, 1)[i] =
            MapThenSumSet(LAMBDA r : NumTokens(counts, r, A, 1), Peers(i))
=============================================================================
