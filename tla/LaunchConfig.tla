----------------------------- MODULE LaunchConfig -----------------------------
(***************************************************************************)
(* The configuration of a server and the checks on it: the AFD section of  *)
(* additional_config (config.py), the options of a connector, the checks   *)
(* of the platforms (validation.py, compat/npu/feature_validation.py,      *)
(* v1/worker/cuda_graph.py) and the choice of worker, model and runner.    *)
(* A check is a predicate: false where the code raises.                    *)
(*                                                                         *)
(* A configuration c is a record: afd (the section), x (the connector's    *)
(* options) and vLLM's settings.  Strings are kept only as far as a check  *)
(* tells them apart.                                                       *)
(***************************************************************************)
EXTENDS Integers, FiniteSets

Roles == {"attention", "ffn"}
GpuConnectors == {"p2p", "deepep_m2n"}
NpuConnectors == {"camp2p", "cam_async"}
Connectors == GpuConnectors \cup NpuConnectors

----------------------------------------------------------------------------
(***************************************************************************)
(* The section.  keys is what the operator wrote, raw the form of each     *)
(* value that is coerced, the other fields what the values mean.           *)
(***************************************************************************)
Aliases == [afd_connector |-> "connector", afd_role |-> "role", afd_port |-> "port",
            afd_host |-> "host", async |-> "async_dp"]
Fields == {"connector", "async_dp", "role", "port", "host", "num_attention_ranks",
           "num_ffn_ranks", "compute_gate_on_attention", "afd_process_group_timeout_s",
           "connector_extra_config"}
Canonical(key) == IF key \in DOMAIN Aliases THEN Aliases[key] ELSE key

(* coerce_extra_bool, coerce_extra_int of a value, by its form *)
IsBool(v) == v.form = "bool" \/ (v.form \in {"int", "numeral"} /\ v.value \in {0, 1})
IsInt(v) == v.form \in {"int", "numeral"}

(* _normalize_mapping *)
WellFormed(a) ==
    /\ \A k \in a.keys : Canonical(k) \in Fields
    /\ \A k, l \in a.keys : k /= l => Canonical(k) /= Canonical(l)
    /\ a.timeout > 0
    /\ \A k \in DOMAIN a.raw :
         IF Canonical(k) \in {"async_dp", "compute_gate_on_attention"}
         THEN IsBool(a.raw[k])
         ELSE IsInt(a.raw[k])

(* validate_afd_config *)
Ports == 1 .. 65535
ValidSection(a) ==
    /\ a.role \in Roles /\ a.connector \in Connectors
    /\ a.async => a.connector = "cam_async"
    /\ a.connector = "p2p" => a.A >= a.F
    /\ a.host /= "" /\ a.port \in Ports
    /\ a.A > 0 /\ a.F > 0

(* parse_afd_config *)
Parses(c) == WellFormed(c.afd) /\ ValidSection(c.afd)

(* is_afd_async_dp *)
IsAsync(c) == c.afd.async /\ c.afd.connector = "cam_async"
IsAttention(c) == c.afd.role = "attention"
RoleRanks(c) == IF IsAttention(c) THEN c.afd.A ELSE c.afd.F

----------------------------------------------------------------------------
(***************************************************************************)
(* vLLM's settings and what it derives from them.                          *)
(***************************************************************************)
UseUbatching(c) == c.dbo \/ c.ubatch > 1
NumUbatches(c) == IF c.dbo THEN 2 ELSE c.ubatch
SpBackends == {"allgather_reducescatter", "deepep_high_throughput", "deepep_low_latency"}
SpMoe(c) == c.ep = "static" /\ c.tp > 1 /\ c.dp > 1 /\ c.backend \in SpBackends
MicrobatchBackends == {"deepep_low_latency", "deepep_high_throughput", "nixl_ep"}

RegisteredModels == {"Deepseek", "DeepseekV2", "DeepseekV3", "DeepseekV32", "DeepseekV4",
                     "GlmMoeDsa", "Qwen3Moe", "Qwen3_5Moe"}
RoutingOnAttention == {"Qwen3Moe", "DeepseekV2"}
MlaModels == {"DeepseekV2", "DeepseekV3", "DeepseekV32", "GlmMoeDsa"}

(* has_afd_model_registration; get_afd_model_config, which only a CUDA server
   may ask for Qwen3.5; configure_afd_dspark *)
Registered(c) == c.model \in RegisteredModels
ModelConfigures(c) ==
    /\ c.model = "Qwen3_5Moe" => c.platform = "cuda"
    /\ c.spec = "dspark" /\ c.platform = "npu" =>
         c.afd.connector = "cam_async" /\ c.draft_schema = "target"

----------------------------------------------------------------------------
(***************************************************************************)
(* Checks both platforms share.                                            *)
(***************************************************************************)
ParallelSupported_AnySize(c) == c.single_pp_cp /\ c.ep = "static"
ParallelSupported(c) ==
    /\ c.single_pp_cp
    /\ RoleRanks(c) = c.dp * c.tp
    /\ c.ep = "static"

(* validate_cuda_graph_mode *)
CudaGraphMode(c) ==
    ~c.eager => c.graph = "FULL_DECODE_ONLY" /\ (UseUbatching(c) => NumUbatches(c) = 2)

(* validate_gpu_model_runner_v2_config *)
GpuModelRunnerV2(c, role) ==
    /\ c.v2 /\ Parses(c) /\ c.afd.role = role
    /\ c.platform = "cuda" /\ c.afd.connector \in GpuConnectors
    /\ c.afd.connector = "deepep_m2n" =>
         /\ role = "ffn" => c.tp = 1
         /\ c.afd.gate
         /\ c.model \in RoutingOnAttention
    /\ ParallelSupported(c) /\ ~SpMoe(c)
    /\ UseUbatching(c) => NumUbatches(c) = 2
    /\ Registered(c)
    /\ CudaGraphMode(c)

(* requested_ffn_mode: the mode, or "refused" *)
RequestedFfnMode(c) ==
    IF c.eager THEN "eager" ELSE IF c.graph = "FULL" THEN "full" ELSE "refused"

(* validate_npu_model_runner_v2_config *)
NpuModelRunnerV2(c, role) ==
    /\ c.v2 /\ Parses(c) /\ c.afd.role = role /\ c.platform = "npu"
    /\ c.afd.connector \in NpuConnectors
    /\ c.afd.connector = "cam_async" =>
         /\ c.afd.async /\ c.afd.gate
         /\ ~c.eager => role = "ffn" /\ RequestedFfnMode(c) = "full"
    /\ c.afd.connector = "camp2p" => ~c.afd.gate
    /\ ParallelSupported(c)
    /\ UseUbatching(c) =>
         /\ c.afd.connector = "cam_async" => c.eager
         /\ role = "attention" /\ c.afd.connector /= "cam_async" => c.dp > 1
         /\ NumUbatches(c) = 2
         /\ c.spec = "none"
    /\ Registered(c)
    /\ ~c.eager => c.graph \in {"FULL", "FULL_DECODE_ONLY"}

(* afd_worker_qualname_for_platform_default; "refused" where it raises *)
WorkerFor(c, native) ==
    IF c.platform = "cuda" /\ native = "gpu_worker" THEN <<"gpu", c.afd.role>>
    ELSE IF c.platform = "npu" /\ native = "ascend_worker" THEN <<"npu", c.afd.role>>
    ELSE <<"refused", c.afd.role>>

(* assert_compatible_afd_stack *)
CompatibleStack(c, role) ==
    /\ Parses(c) /\ c.afd.role = role
    /\ c.worker = <<IF c.afd.connector = "cam_async" \/ c.platform = "npu"
                    THEN "npu" ELSE "gpu", role>>

----------------------------------------------------------------------------
(***************************************************************************)
(* Options of the Ascend connectors: CAMP2PExtraInfo, AFDAsyncExtraInfo.   *)
(***************************************************************************)
KnownOptions(connector) ==
    IF connector = "camp2p"
    THEN {"core_num", "attn_core_num", "ffn_core_num", "compute_gate_on_attention",
          "hccl_buffer_size", "quant_mode"}
    ELSE {"dynamicQuant", "attn_ranks_per_dp", "hccl_buffer_size", "ffn_two_stream",
          "ffn_compute_aic_num", "ffn_compute_aiv_num", "ffn_combine_aiv_num"}
ValidExtraInfo(c) ==
    c.afd.connector \in NpuConnectors =>
        /\ c.x.keys \subseteq KnownOptions(c.afd.connector)
        /\ c.x.ranks_per_dp > 0 /\ c.x.cores > 0
(* CAMP2PExtraInfo.validate_supported *)
CAMP2PSupported(c) == ~c.x.gate /\ c.x.quant_mode = 0

----------------------------------------------------------------------------
(***************************************************************************)
(* fail_if_unsupported_npu_afd_features and its parts.                     *)
(***************************************************************************)
IsDsv4(c) == c.model = "DeepseekV4"
DboModel(c) == IsDsv4(c) \/ c.model \in {"DeepseekV2", "DeepseekV3"}

(* _validate_cam_world_topology *)
CamWorldTopology(c) ==
    /\ IsAttention(c) => c.tp = c.x.ranks_per_dp
    /\ c.dp * c.tp = RoleRanks(c)

(* cam_receive_capacity, in rows: factor is BATCH_SIZE_FACTOR in percent *)
CamMaxReceiveTokens == 262144
CamReceiveCapacity(c) == (CamMaxReceiveTokens * c.factor) \div 100

TwoStreamSupported(c) ==
    /\ ~IsAttention(c)
    /\ c.v2 /\ c.layered_gmm /\ c.afd.gate /\ c.x.dynamic_quant = 1
    /\ c.tp = 1 /\ ~SpMoe(c) /\ ~c.flashcomm

AsyncDboSupported(c) ==
    /\ IsAttention(c) /\ NumUbatches(c) = 2 /\ c.afd.gate
    /\ c.single_pp_cp /\ c.spec = "none" /\ DboModel(c)

DSparkSupported(c) ==
    /\ IsDsv4(c) /\ ~c.x.two_stream
    /\ IsAttention(c) => c.eager
    /\ c.draft_eager /\ c.tp = 1 /\ c.draft_tp = 1
    /\ c.draft_rows <= c.max_tokens

(* _fail_if_unsupported_npu_afd_async_features *)
AsyncFeatures(c) ==
    /\ ~c.mix_placement
    /\ c.x.two_stream => TwoStreamSupported(c)
    /\ IsAsync(c)
    /\ ~c.eager =>
         ~IsAttention(c) /\ RequestedFfnMode(c) = "full" /\ c.v2 /\ c.tp = 1
    /\ UseUbatching(c) => AsyncDboSupported(c)
    /\ c.spec = "dspark" => DSparkSupported(c)
    /\ c.spec \in {"eagle", "draft_model"} => ~IsAttention(c)
    /\ c.factor \in 1 .. 100
    /\ CamReceiveCapacity(c) >= c.max_tokens
    /\ c.v2 /\ IsAttention(c) =>
         /\ c.max_tokens % c.x.ranks_per_dp = 0
         /\ DboModel(c)
         /\ ~c.shared_expert_dp
    /\ c.x.dynamic_quant \in {0, 1}
    /\ CamWorldTopology(c)

MlaDboFullGraph(c) ==
    /\ UseUbatching(c) /\ c.model \in MlaModels \ {"DeepseekV32", "GlmMoeDsa"}
    /\ c.graph \in {"FULL", "FULL_DECODE_ONLY", "FULL_AND_PIECEWISE"}

NpuFeatures(c) ==
    /\ c.layered_gmm =>
         ~IsAttention(c) /\ c.afd.connector = "cam_async" /\ IsDsv4(c)
    /\ ValidExtraInfo(c)
    /\ IsDsv4(c) => c.afd.connector \in NpuConnectors
    /\ IF c.afd.connector = "cam_async"
       THEN /\ AsyncFeatures(c)
            /\ IsDsv4(c) => c.afd.gate /\ c.x.dynamic_quant = 1
       ELSE /\ ~c.afd.gate
            /\ c.afd.connector = "camp2p" => CAMP2PSupported(c)
            /\ UseUbatching(c) => NumUbatches(c) = 2
            /\ MlaDboFullGraph(c) => c.spec = "none" /\ c.graph = "FULL_DECODE_ONLY"
=============================================================================
