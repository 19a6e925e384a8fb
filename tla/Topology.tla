------------------------------ MODULE Topology ------------------------------
(***************************************************************************)
(* The arithmetic of ranks and token counts that both sides of the P2P     *)
(* connector do for themselves and must agree on:                          *)
(* afd_plugin/distributed/topology.py, v1/worker/ffn_metadata.py and       *)
(* _num_tokens_for_attention_rank of connectors/gpu/p2p.py.  A is the      *)
(* number of Attention ranks, F the number of FFN ranks.  Ranks are        *)
(* numbered from 0, tuples of counts are functions on 0 .. n-1.            *)
(***************************************************************************)
EXTENDS Integers, FiniteSets, FiniteSetsExt

Max2(x, y) == IF x >= y THEN x ELSE y
Min2(x, y) == IF x <= y THEN x ELSE y

(* validate_p2p_topology *)
ValidTopology(A, F) == A >= F /\ F >= 1

BlockStart_Floor(i, A, F) == (i * A) \div F
(* subgroup_attention_block: range(ceil(i A / F), ceil((i + 1) A / F)) *)
BlockStart(i, A, F) == (i * A + F - 1) \div F
SubgroupBlock(i, A, F) == BlockStart(i, A, F) .. BlockStart(i + 1, A, F) - 1

(***************************************************************************)
(* build_rank_mapping, for one process of a role.                          *)
(***************************************************************************)
WorldRank(role, r, F) == IF role = "attention" THEN F + r ELSE r
SubgroupIndex(role, r, A, F) == IF role = "attention" THEN (r * F) \div A ELSE r
MinSize(A, F) == Min2(F, A)
P2PRank(role, r, A, F) == IF role = "attention" THEN r + MinSize(A, F) ELSE r

(* subgroup_ranks: FFN first, then its block; a function on 0 .. |block| *)
SubgroupRanks(i, A, F) ==
    [k \in 0 .. Cardinality(SubgroupBlock(i, A, F)) |->
        IF k = 0 THEN i ELSE F + BlockStart(i, A, F) + k - 1]

RankInSubgroup(role, r, A, F) ==
    CHOOSE k \in DOMAIN SubgroupRanks(SubgroupIndex(role, r, A, F), A, F) :
        SubgroupRanks(SubgroupIndex(role, r, A, F), A, F)[k] = WorldRank(role, r, F)

(* AFDRankMapping.is_attention_top_min_size_rank, by world rank *)
IsMetadataSender(w, A, F) == F <= w /\ w < F + MinSize(A, F)
ParticipatesInMetadataGroup(w, A, F) == w < F \/ IsMetadataSender(w, A, F)

MetadataDestinations_Subgroup(role, r, A, F) ==
    IF IsMetadataSender(WorldRank(role, r, F), A, F)
    THEN {SubgroupIndex(role, r, A, F)} ELSE {}

(* destinations: i, i + min_size, ... below F *)
MetadataDestinations(role, r, A, F) ==
    IF IsMetadataSender(WorldRank(role, r, F), A, F)
    THEN {d \in 0 .. F - 1 : d >= r /\ (d - r) % MinSize(A, F) = 0}
    ELSE {}

(* recv_dp_metadata_list: the rank in the p2p group an FFN rank receives from *)
MetadataSource(r, A, F) == (P2PRank("ffn", r, A, F) % MinSize(A, F)) + F

(***************************************************************************)
(* Token counts.  A vector of counts has one entry per Attention DP rank.  *)
(***************************************************************************)
Len0(counts) == Cardinality(DOMAIN counts)

(* each DP count stands for all the TP ranks of the DP rank *)
Expanded(counts, A) ==
    IF Len0(counts) > 0 /\ Len0(counts) < A /\ A % Len0(counts) = 0
    THEN [r \in 0 .. A - 1 |-> counts[r \div (A \div Len0(counts))]]
    ELSE counts

(* _num_tokens_for_attention_rank: never 0 rows *)
NumTokens(counts, r, A, fallback) ==
    IF Len0(counts) > 0 /\ r \in DOMAIN Expanded(counts, A)
    THEN Max2(1, Expanded(counts, A)[r])
    ELSE Max2(1, fallback)

AggregateCounts_NoPlaceholder(counts, A, F, fallback) ==
    [i \in 0 .. F - 1 |->
        IF A < F THEN Max2(1, fallback)
        ELSE LET expanded == Expanded(counts, A)
             IN  MapThenSumSet(LAMBDA r : IF r \in DOMAIN expanded
                                          THEN expanded[r]
                                          ELSE Max2(1, fallback),
                               SubgroupBlock(i, A, F))]

(* aggregate_ffn_token_counts *)
AggregateCounts(counts, A, F, fallback) ==
    [i \in 0 .. F - 1 |->
        IF A < F THEN Max2(1, fallback)
        ELSE LET expanded == Expanded(counts, A)
             IN  MapThenSumSet(LAMBDA r : IF r \in DOMAIN expanded
                                          THEN Max2(1, expanded[r])
                                          ELSE Max2(1, fallback),
                               SubgroupBlock(i, A, F))]

(* project_ffn_token_counts_to_dp: the first TP rank's count of each DP rank *)
ProjectToDP(counts, dp) ==
    LET n == Len0(counts)
    IN  IF n = dp \/ dp <= 0 \/ n % dp /= 0 THEN counts
        ELSE [d \in 0 .. dp - 1 |-> counts[d * (n \div dp)]]
=============================================================================
