------------------------------ MODULE DeepEPPlan ------------------------------
(***************************************************************************)
(* What every rank of a DeepEP M2N deployment computes for itself and must *)
(* compute alike (connectors/gpu/deepep_m2n/connector.py, layout.py,       *)
(* network.py): the capacity, the lanes, the ladder of dispatch buckets,   *)
(* the plan of a stage, and the checks of the handshake.  Options, vLLM    *)
(* settings and reports are records; None stands for an option not given.  *)
(***************************************************************************)
EXTENDS Integers, Sequences, FiniteSets, FiniteSetsExt

CONSTANT None
MaxLanes == 2

CeilDivide(n, d) == (n + d - 1) \div d
RoundUp(n, d) == CeilDivide(n, d) * d
AtLeast(x, y) == IF x >= y THEN x ELSE y
AtMost(x, y) == IF x <= y THEN x ELSE y

----------------------------------------------------------------------------
(***************************************************************************)
(* Options of a rank: DeepEPM2NConfig.                                     *)
(***************************************************************************)
Formats == {"bf16", "fp8_block128"}

(* validate; sizes of queues and timeouts are left out *)
ValidOptions(c) ==
    /\ c.capacity /= None => c.capacity > 0
    /\ c.lanes /= None => c.lanes \in 1 .. MaxLanes
    /\ c.payload \in Formats
    /\ c.granularity > 0
    /\ c.sync_min >= 0

(* resolve_capacity_tokens_per_rank, of an Attention rank *)
Capacity(c, v) ==
    IF c.capacity /= None THEN c.capacity
    ELSE CeilDivide(AtLeast(v.max_batched, Max(v.captures \cup {0})), v.tp)

(* resolve_num_lanes; None when vLLM runs more microbatches *)
NumLanes(c, v) ==
    IF c.lanes /= None THEN c.lanes ELSE IF v.ubatches <= MaxLanes THEN v.ubatches ELSE None

----------------------------------------------------------------------------
(***************************************************************************)
(* The plan of a stage.  g holds what a rank plans with: tp, capacity and  *)
(* ladder of the handshake, granularity and sync_min of its own options.   *)
(***************************************************************************)
(* tokens_per_attention_rank: the TP peers of a DP rank dispatch a slice each *)
TokensPerAttentionRank(counts, attn, tp) ==
    [r \in 0 .. attn - 1 |-> CeilDivide(counts[r \div tp], tp)]

NoSyncLimit(c, v, capacity) ==
    LET graph == RoundUp(CeilDivide(Max(v.captures \cup {0}), v.tp), c.granularity)
    IN  AtMost(capacity, AtLeast(graph, c.sync_min - 1))

(* bucket_ladder *)
Ladder(c, v, capacity) ==
    LET limit == NoSyncLimit(c, v, capacity)
        rungs == {RoundUp(CeilDivide(size, v.tp), c.granularity) : size \in v.captures}
    IN  IF limit < 1 THEN {} ELSE {limit} \cup {r \in rungs : r \in 1 .. limit}

RawBucket(g, counts, attn) ==
    LET tokens == TokensPerAttentionRank(counts, attn, g.tp)
    IN  RoundUp(AtLeast(1, Max({tokens[r] : r \in DOMAIN tokens})), g.granularity)

Refused(g, counts, attn) == RawBucket(g, counts, attn) > g.capacity

Rung(g, raw) ==
    IF \A r \in g.ladder : raw > r THEN g.capacity ELSE Min({r \in g.ladder : r >= raw})

(* plan_stage: the bucket depends on the counts alone *)
PlanStage(g, counts, attn, graph) ==
    LET raw == RawBucket(g, counts, attn)
    IN  [bucket |-> Rung(g, raw), sync |-> ~graph /\ raw >= g.sync_min]

(* precompile_buckets *)
PrecompileBuckets(g) ==
    LET covering == IF \E r \in g.ladder : r >= g.sync_min - 1
                    THEN Min({r \in g.ladder : r >= g.sync_min - 1})
                    ELSE Max(g.ladder \cup {0})
    IN  {[bucket |-> r, sync |-> TRUE] : r \in {q \in g.ladder : q >= g.sync_min}}
        \cup {[bucket |-> g.capacity, sync |-> TRUE]}
        \cup {[bucket |-> r, sync |-> FALSE] :
                 r \in {q \in g.ladder : g.sync_min > 0 /\ q <= covering}}

----------------------------------------------------------------------------
(***************************************************************************)
(* Placement: FFN ranks first; Attention ranks own experts nobody routes   *)
(* to (DeepEPM2NLayout).                                                   *)
(***************************************************************************)
ValidLayout(l) == l.ffn > 0 /\ l.attn > 0 /\ l.experts % l.ffn = 0
UnionSize(l) == l.ffn + l.attn
ExpertsPerRank(l) == l.experts \div l.ffn
ExpertRange(l, f) == f * ExpertsPerRank(l) .. (f + 1) * ExpertsPerRank(l) - 1

(***************************************************************************)
(* NVLink domains: plan_network.  domain is a sequence over the union.     *)
(***************************************************************************)
DomainNames(domain) == {domain[w] : w \in DOMAIN domain}
DomainRanks(domain, d) == {w \in DOMAIN domain : domain[w] = d}

(* _domain_blocks: contiguous blocks of one size *)
DomainBlocks(domain) ==
    /\ \A d \in DomainNames(domain) :
         LET ranks == DomainRanks(domain, d) IN ranks = Min(ranks) .. Max(ranks)
    /\ Cardinality({Cardinality(DomainRanks(domain, d)) : d \in DomainNames(domain)}) = 1

PlanNetwork(domain, network) ==
    LET domains == Cardinality(DomainNames(domain))
    IN  IF ~DomainBlocks(domain) \/ (domains > 1 /\ network.gin = "off")
        THEN None
        ELSE [domains |-> domains,
              use_gin |-> IF network.gin = "auto" THEN domains > 1 ELSE network.gin = "on",
              hybrid |-> network.hybrid /= "off"]

----------------------------------------------------------------------------
(***************************************************************************)
(* The handshake.  A rank is a record of its role, its layout l, options   *)
(* c, vLLM settings v and what it loaded.                                  *)
(***************************************************************************)
(* expert_weight_format *)
WeightFormat(v) == CASE v.quant = "none" -> "bf16"
                     [] v.quant = "fp8_128" -> "fp8_block128"
                     [] OTHER -> "unsupported"

(* ffn_deployment_info *)
FfnDeployment(v) ==
    [expert_parallel |-> v.ep, ep_size |-> v.dp * v.tp, tp |-> v.tp,
     placement |-> v.placement, eplb |-> v.eplb, all2all |-> v.all2all,
     format |-> WeightFormat(v)]

(* _check_ffn_deployment *)
RequiredDeployment(l, payload) ==
    [expert_parallel |-> TRUE, ep_size |-> l.ffn, tp |-> 1, placement |-> "linear",
     eplb |-> FALSE, all2all |-> "allgather_reducescatter", format |-> payload]

(* rows of an expert are padded to what its kernel needs *)
Alignment(c) == IF c.kernel = "deepgemm" THEN 128 ELSE 1

(* local_handshake_info *)
HandshakeInfo(r) ==
    LET ffn == r.role = "ffn"
        capacity == IF ffn THEN r.c.capacity ELSE Capacity(r.c, r.v)
    IN  [role |-> r.role,
         common |-> [payload |-> r.c.payload, experts |-> r.l.experts, top_k |-> r.v.top_k,
                     lanes |-> NumLanes(r.c, r.v), gate |-> r.gate, network |-> r.c.network,
                     granularity |-> r.c.granularity, sync_min |-> r.c.sync_min],
         tp |-> IF ffn THEN None ELSE r.v.tp,
         capacity |-> capacity,
         ladder |-> IF ffn THEN None ELSE Ladder(r.c, r.v, capacity),
         alignment |-> IF ffn THEN Alignment(r.c) ELSE None,
         deployment |-> IF ffn THEN FfnDeployment(r.v) ELSE None,
         domain |-> r.domain]

CommonAgreed_NotSyncMin(infos) ==
    \A w \in DOMAIN infos :
        [infos[w].common EXCEPT !.sync_min = 0] = [infos[0].common EXCEPT !.sync_min = 0]

(* the fields of _MUST_MATCH *)
CommonAgreed(infos) == \A w \in DOMAIN infos : infos[w].common = infos[0].common

(* what the ranks of a role, or the union, report *)
Reports(infos, ranks, field) == {infos[w][field] : w \in ranks} \ {None}

(* validate_handshake, the same on every rank; None when it raises *)
ValidateHandshake(infos, l, network) ==
    LET ffns == 0 .. l.ffn - 1
        attns == l.ffn .. UnionSize(l) - 1
        tps == Reports(infos, attns, "tp")
        capacities == Reports(infos, ffns \cup attns, "capacity")
        ladders == Reports(infos, attns, "ladder")
        alignments == Reports(infos, ffns, "alignment")
        tp == CHOOSE t \in tps : TRUE
        plan == PlanNetwork([w \in 1 .. UnionSize(l) |-> infos[w - 1].domain], network)
    IN  IF /\ DOMAIN infos = ffns \cup attns
           /\ \A w \in ffns : infos[w].role = "ffn"
           /\ \A w \in attns : infos[w].role = "attention"
           /\ CommonAgreed(infos) /\ infos[0].common.gate
           /\ \A w \in ffns : infos[w].deployment
                                = RequiredDeployment(l, infos[w].common.payload)
           /\ Cardinality(tps) = 1 /\ l.attn % tp = 0
           /\ Cardinality(capacities) = 1
           /\ Cardinality(ladders) = 1 /\ Cardinality(alignments) = 1
           /\ plan /= None
        THEN [tp |-> tp, capacity |-> CHOOSE c \in capacities : TRUE,
              ladder |-> CHOOSE s \in ladders : TRUE,
              alignment |-> CHOOSE x \in alignments : TRUE, network |-> plan]
        ELSE None

(***************************************************************************)
(* What the ranks loaded.                                                  *)
(***************************************************************************)
(* select_routed_moe_backend and _check_expert_layout: None when it raises *)
RoutedBackend(v) == IF v.backend \in {"auto", "triton"} THEN "triton" ELSE None

(* vLLM's placement of experts over the EP ranks *)
PlacedExperts(v, rank, experts) ==
    LET size == v.dp * v.tp
        each == experts \div size
        more == experts % size
        first == rank * each + AtMost(rank, more)
    IN  IF ~v.ep THEN 0 .. experts - 1
        ELSE IF v.placement = "linear"
        THEN first .. first + each + (IF rank < more THEN 1 ELSE 0) - 1
        ELSE {e \in 0 .. experts - 1 : e % size = rank}

(* local_model_info of local_experts_from_vllm *)
ModelInfo(r, rank) ==
    [layers |-> r.layers,
     held |-> IF r.role = "ffn" THEN PlacedExperts(r.v, rank, r.l.experts) ELSE {},
     format |-> IF r.role = "ffn" THEN WeightFormat(r.v) ELSE None]

(* _expected_expert_tensors: dtypes and shapes as the format *)
ExpectedTensors(payload) == payload

(* validate_model_infos *)
ModelsAccepted(infos, l, payload) ==
    /\ \A w \in DOMAIN infos : infos[w].layers = infos[0].layers
    /\ \A f \in 0 .. l.ffn - 1 :
         infos[f].held = ExpertRange(l, f) /\ infos[f].format = ExpectedTensors(payload)
=============================================================================
