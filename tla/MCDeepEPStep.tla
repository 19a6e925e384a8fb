----------------------------- MODULE MCDeepEPStep -----------------------------
(***************************************************************************)
(* Two deployments that fit, and every deployment that differs from one of *)
(* them in a setting of one rank.  The first, of one Attention and one FFN *)
(* rank with two lanes, comes to the constants of the steps: a stage of    *)
(* one token needs no host synchronisation, one of three does unless in a  *)
(* graph.  The second has two FFN ranks and two Attention ranks with TP 2. *)
(***************************************************************************)
EXTENDS DeepEPStartup

Plan == [tp |-> 1, capacity |-> 4, ladder |-> {1, 2}, granularity |-> 1, sync_min |-> 2]
CountSets == {[d \in {0} |-> 1], [d \in {0} |-> 3]}

Options == [capacity |-> None, lanes |-> None, payload |-> "bf16", granularity |-> 1,
            sync_min |-> 2, kernel |-> "deepgemm", network |-> [gin |-> "auto", hybrid |-> "auto"]]
Settings(dp, tp) ==
    [max_batched |-> 4, captures |-> {1, 2}, tp |-> tp, dp |-> dp, ubatches |-> 2, top_k |-> 2,
     quant |-> "none", ep |-> TRUE, placement |-> "linear", eplb |-> FALSE,
     all2all |-> "allgather_reducescatter", backend |-> "auto"]
Rank(role, r, l, v) ==
    [role |-> role, rank |-> r, l |-> l, c |-> Options, v |-> v, gate |-> TRUE,
     layers |-> {1, 2}, domain |-> "host"]
Union(ffn, attn, tp, experts) ==
    LET l == [ffn |-> ffn, attn |-> attn, experts |-> experts]
    IN  [w \in 0 .. ffn + attn - 1 |->
            IF w < ffn THEN Rank("ffn", w, l, Settings(ffn, 1))
            ELSE Rank("attention", w - ffn, l, Settings(attn \div tp, tp))]

OptionValues ==
    [capacity |-> {2, 4, 0}, lanes |-> {1, 3}, payload |-> {"fp8_block128"}, granularity |-> {2},
     sync_min |-> {0, 3}, kernel |-> {"fused_experts"},
     network |-> {[gin |-> "off", hybrid |-> "auto"]}]
SettingValues ==
    [max_batched |-> {8}, captures |-> {{}, {1}, {1, 8}}, tp |-> {1, 2, 3}, dp |-> {1, 2, 4},
     ubatches |-> {1, 3}, top_k |-> {1}, quant |-> {"fp8_128", "other"}, ep |-> {FALSE},
     placement |-> {"round_robin"}, eplb |-> {TRUE}, all2all |-> {"deepep"},
     backend |-> {"flashinfer_cutlass", "triton"}]

Variants(r) ==
    {r}
    \cup UNION {{[r EXCEPT !.c[k] = x] : x \in OptionValues[k]} : k \in DOMAIN OptionValues}
    \cup UNION {{[r EXCEPT !.v[k] = x] : x \in SettingValues[k]} : k \in DOMAIN SettingValues}
    \cup {[r EXCEPT !.gate = FALSE], [r EXCEPT !.layers = {1}], [r EXCEPT !.domain = "other"]}

(* the same change on every rank *)
Alike(d, k, x) == [w \in DOMAIN d |-> [d[w] EXCEPT !.c[k] = x]]
Fp8(d) == [w \in DOMAIN d |-> [d[w] EXCEPT !.c.payload = "fp8_block128", !.v.quant = "fp8_128"]]

Changed(d) ==
    UNION {{[d EXCEPT ![w] = r] : r \in Variants(d[w])} : w \in {0, Cardinality(DOMAIN d) - 1}}
    \cup UNION {{Alike(d, k, x) : x \in OptionValues[k]} : k \in DOMAIN OptionValues}
    \cup {Fp8(d), [w \in DOMAIN d |-> [d[w] EXCEPT !.domain = IF w = 0 THEN "host" ELSE "other"]]}
First == Union(1, 1, 1, 2)
ServedDeployments == {First}
AllDeployments == Changed(First) \cup Changed(Union(2, 2, 2, 4)) \cup {Union(2, 2, 1, 3)}
=============================================================================
