----------------------------- MODULE MCDeployment -----------------------------
(***************************************************************************)
(* Deployments to launch: for each connector a pair of servers that fit,   *)
(* and the pairs in which one server differs from it in one setting (in    *)
(* several, where the settings meet in one check).  P2P pairs of all sizes *)
(* show the rank mapping.                                                  *)
(***************************************************************************)
EXTENDS Deployment

TwoEngines == {0, 1}
TwoRequests == {1, 2}

Given(n) == [form |-> "int", value |-> n]
Section(role, connector) ==
    [keys |-> {"afd_connector", "role", "host", "port"}, raw |-> [port |-> Given(6239)],
     timeout |-> 60, role |-> role, connector |-> connector,
     async |-> connector = "cam_async", host |-> "h", port |-> 6239, A |-> 2, F |-> 1,
     gate |-> connector \in {"deepep_m2n", "cam_async"}]
Options == [keys |-> {}, ranks_per_dp |-> 1, cores |-> 8, gate |-> FALSE,
            quant_mode |-> 0, dynamic_quant |-> 0, two_stream |-> FALSE]

Server(role, connector) ==
    [afd |-> Section(role, connector), x |-> Options,
     platform |-> IF connector \in NpuConnectors THEN "npu" ELSE "cuda",
     native |-> IF connector \in NpuConnectors THEN "ascend_worker" ELSE "gpu_worker",
     worker |-> <<"auto", "">>, v2 |-> TRUE,
     dp |-> IF role = "attention" THEN 2 ELSE 1, tp |-> 1,
     single_pp_cp |-> TRUE, ep |-> "static", dbo |-> FALSE, ubatch |-> 0, threshold |-> 32,
     backend |-> "allgather_reducescatter", eager |-> TRUE, graph |-> "FULL_DECODE_ONLY",
     model |-> "DeepseekV2", spec |-> "none", draft_schema |-> "target", draft_eager |-> TRUE,
     draft_tp |-> 1, draft_rows |-> 8, max_tokens |-> 8, factor |-> 50,
     layered_gmm |-> FALSE, flashcomm |-> FALSE, mix_placement |-> FALSE,
     shared_expert_dp |-> FALSE]

----------------------------------------------------------------------------
(* one setting of vLLM *)
VllmVariants(c) ==
    {[c EXCEPT !.dbo = TRUE], [c EXCEPT !.threshold = 1, !.dbo = TRUE],
     [c EXCEPT !.platform = "cuda"], [c EXCEPT !.platform = "npu"],
     [c EXCEPT !.native = "other_worker"], [c EXCEPT !.v2 = FALSE],
     [c EXCEPT !.single_pp_cp = FALSE], [c EXCEPT !.ep = "dynamic"],
     [c EXCEPT !.max_tokens = 7], [c EXCEPT !.shared_expert_dp = TRUE],
     [c EXCEPT !.mix_placement = TRUE]}
    \cup {[c EXCEPT !.ubatch = n] : n \in {1, 2, 3}}
    \cup {[c EXCEPT !.worker = <<p, r>>] : p \in {"gpu", "npu"}, r \in Roles}
    \cup {[c EXCEPT !.dp = m, !.tp = n] : m \in {1, 2}, n \in {1, 2}}
    \cup {[c EXCEPT !.eager = FALSE, !.graph = g, !.tp = n] :
             g \in {"FULL", "FULL_DECODE_ONLY", "PIECEWISE"}, n \in {1, 2}}
    \cup {[c EXCEPT !.model = m, !.layered_gmm = l, !.x.dynamic_quant = q] :
             m \in {"Qwen3_5Moe", "DeepseekV4", "Unregistered"}, l \in BOOLEAN, q \in {0, 1}}
    \cup {[c EXCEPT !.spec = s, !.draft_eager = e, !.model = m, !.x.dynamic_quant = 1] :
             s \in {"dspark", "eagle"}, e \in BOOLEAN, m \in {"DeepseekV2", "DeepseekV4"}}
    \cup {[c EXCEPT !.factor = f, !.max_tokens = 8192] : f \in {0, 2, 50, 101}}

(* one setting of the section or of the connector *)
AfdVariants(c) ==
    {[c EXCEPT !.afd.role = "router"], [c EXCEPT !.afd.connector = "other"],
     [c EXCEPT !.afd.async = ~@], [c EXCEPT !.afd.gate = ~@], [c EXCEPT !.afd.host = ""],
     [c EXCEPT !.afd.port = 0], [c EXCEPT !.afd.port = 6240], [c EXCEPT !.afd.timeout = 0],
     [c EXCEPT !.afd.A = 0], [c EXCEPT !.afd.A = 1], [c EXCEPT !.afd.F = 2],
     [c EXCEPT !.afd.F = 3], [c EXCEPT !.afd.keys = @ \cup {"connector"}],
     [c EXCEPT !.afd.keys = @ \cup {"hosts"}],
     [c EXCEPT !.afd.raw = [async |-> [form |-> "numeral", value |-> 2]]],
     [c EXCEPT !.afd.raw = [num_ffn_ranks |-> [form |-> "bool", value |-> 1]]],
     [c EXCEPT !.x.keys = {"quant_mode"}], [c EXCEPT !.x.keys = {"dynamicQuant"}],
     [c EXCEPT !.x.ranks_per_dp = 0], [c EXCEPT !.x.ranks_per_dp = 2],
     [c EXCEPT !.x.cores = 0], [c EXCEPT !.x.gate = TRUE], [c EXCEPT !.x.quant_mode = 1],
     [c EXCEPT !.x.dynamic_quant = 2]}
    \cup {[c EXCEPT !.x.two_stream = TRUE, !.x.dynamic_quant = 1, !.layered_gmm = l,
                    !.model = m, !.flashcomm = f] :
             l \in BOOLEAN, m \in {"DeepseekV2", "DeepseekV4"}, f \in BOOLEAN}

(* microbatches, backend, FlashComm and tensor parallelism together *)
BackendVariants(c) ==
    {d \in {[c EXCEPT !.dbo = m = 2, !.ubatch = IF m = 2 THEN 0 ELSE m, !.backend = b,
                      !.flashcomm = f, !.tp = n, !.afd.A = IF IsAttention(c) THEN 2 * n ELSE @,
                      !.afd.F = IF IsAttention(c) THEN @ ELSE n, !.x.ranks_per_dp = n] :
               m \in 0 .. 3, b \in {"allgather_reducescatter", "deepep_low_latency"},
               f \in BOOLEAN, n \in {1, 2}} : ~KeepsUnsettledBackend(d)}

Pair(att, ffn) == [attention |-> att, ffn |-> ffn]
Fitting(connector) == Pair(Server("attention", connector), Server("ffn", connector))
Variants(c) == VllmVariants(c) \cup AfdVariants(c) \cup BackendVariants(c)

(* Both servers with the sizes, and then with one setting the same in both *)
Sized(ranks, ffns, d, connector) ==
    LET size(c) == [c EXCEPT !.afd.A = ranks, !.afd.F = ffns,
                             !.backend = "flashinfer_all2allv",
                             !.dp = IF IsAttention(c) THEN d ELSE ffns,
                             !.tp = IF IsAttention(c) THEN ranks \div d ELSE 1]
    IN  Pair(size(Server("attention", connector)), size(Server("ffn", connector)))
Sizes == {Sized(r, f, d, "p2p") : r \in 1 .. MaxRanks, f \in 1 .. MaxRanks, d \in 1 .. MaxRanks}
FittingSizes == {p \in Sizes : p["attention"].dp * p["attention"].tp = p["attention"].afd.A}

Both(connector) ==
    LET p == Fitting(connector)
    IN  {Pair([p["attention"] EXCEPT !.dbo = b, !.model = m, !.x.dynamic_quant = 1, !.threshold = t],
              [p["ffn"] EXCEPT !.model = m, !.x.dynamic_quant = 1, !.eager = e, !.graph = "FULL",
                               !.layered_gmm = e, !.x.two_stream = e]) :
            b \in BOOLEAN, m \in {"DeepseekV2", "DeepseekV4"}, e \in BOOLEAN, t \in {1, 32}}

Each(connector) ==
    LET p == Fitting(connector)
    IN  {Pair(v, p["ffn"]) : v \in Variants(p["attention"])}
        \cup {Pair(p["attention"], v) : v \in Variants(p["ffn"])}

Launches == FittingSizes \cup UNION {Each(k) \cup Both(k) \cup {Fitting(k)} : k \in Connectors}
ServedPairs == {Fitting("p2p"), Fitting("cam_async")}
StoppedPairs == {Fitting("cam_async")}
=============================================================================
