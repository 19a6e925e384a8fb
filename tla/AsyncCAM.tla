------------------------------- MODULE AsyncCAM -------------------------------
(***************************************************************************)
(* The Async CAM transport of the Ascend roles: the Attention forward of   *)
(* deepseek_v2_async_cam_forward.py with its token layouts                 *)
(* (async_cam_layout.py), the connector (connectors/npu/async_cam.py), the *)
(* windows and flags of its four device operators (csrc/npu/               *)
(* ascend_kernels), and the FFN rank that serves whichever data-parallel   *)
(* group is ready (async_ffn_model_runner.py, async_cam_layered.py).  The  *)
(* groups run independently of each other.                                 *)
(* The host only submits: an operator here is its run on the device, in    *)
(* the order the host submitted it.  With microbatches the transfers of a  *)
(* rank still follow one another (UBatchHandoff).  The router is external. *)
(***************************************************************************)
EXTENDS Integers, Sequences, SequencesExt, FiniteSets, FiniteSetsExt

CONSTANTS
    Groups,     \* data-parallel groups of Attention
    TP,         \* Attention ranks of a group
    FFNs,       \* FFN ranks
    Local,      \* routed experts of an FFN rank
    TopK,       \* experts of a token
    Cap,        \* rows one receive can take: maxTokenNum_
    MaxTokens,  \* max_num_batched_tokens
    Depth,      \* work items in flight on an FFN rank: 2 with two streams
    ForwardLayers, \* the layers of a forward: records of id and moe
    LayerIds,   \* remote MoE layers of target and draft model
    Batches,    \* bound: token counts of a forward
    Routings    \* bound: what the router returns, a tuple of experts per row

Experts == 0 .. FFNs * Local - 1
Zeros == [k \in 1 .. TopK |-> 0]

ASSUME SizesAssumption ==
    /\ {Groups, TP, FFNs, Local, TopK, Cap, MaxTokens, Depth} \subseteq Nat \ {0}
    /\ TopK <= FFNs * Local
ASSUME ForwardLayersAssumption ==
    /\ ForwardLayers \in Seq([id : Nat, moe : BOOLEAN])
    /\ \A i \in DOMAIN ForwardLayers : ForwardLayers[i].moe => ForwardLayers[i].id \in LayerIds
    /\ LayerIds \subseteq Nat /\ LayerIds /= {} /\ IsFiniteSet(LayerIds)
ASSUME InputsAssumption ==
    /\ Batches \subseteq 1 .. MaxTokens
    /\ \A r \in Routings : \A q \in 1 .. MaxTokens + TP :
         r[q] \in [1 .. TopK -> Experts] /\ Cardinality(Range(r[q])) = TopK

VARIABLES
    sp,        \* use_sequence_parallel_moe
    batch,     \* tokens of the forward of each group
    at,        \* layer each group is in; 0 during the graph warmup
    pc,        \* where each Attention rank is
    hidden,    \* tokens a rank holds: numbers in the batch, 0 for padding
    payload,   \* rows a rank dispatches: token and experts
    slot,      \* window of an FFN rank, one slot for each Attention rank
    next,      \* first expert of a group an FFN rank has not received
    cursor,    \* group an FFN rank looks at first in the next receive
    scan,      \* group it looks at now
    items,     \* received and not yet combined work items
    warmLeft,  \* warmup receives an FFN rank has to make
    stuck,     \* the receive found no expert that fits
    region,    \* combine window of an Attention rank
    status,    \* its flags, one for each FFN rank
    out        \* rows of the combine receive: the parts of each row

attVars == <<batch, at, pc, hidden, payload>>
ffnVars == <<cursor, scan, items, warmLeft, stuck>>
camVars == <<sp, attVars, slot, next, ffnVars, region, status, out>>

----------------------------------------------------------------------------
(***************************************************************************)
(* Ranks and layouts.                                                      *)
(***************************************************************************)
Attns == 0 .. Groups * TP - 1
Gs == 0 .. Groups - 1
Fs == 0 .. FFNs - 1
GroupOf(a) == a \div TP
TpRank(a) == a % TP
Card(g, i) == g * TP + i
Members(g) == {a \in Attns : GroupOf(a) = g}

(* build_async_topology: routed experts in blocks *)
FfnOf(e) == e \div Local

CeilDiv(n, d) == (n + d - 1) \div d

(* _pad_first_dim appends zero rows, whose experts are all 0 *)
PadFirstDim(s, n, zero) == [i \in 1 .. n |-> IF i <= Len(s) THEN s[i] ELSE zero]

LocalTokens(n) == CeilDiv(n, TP)

(* prepare_cam_dispatch_payload: a replicated tensor is padded and cut so
   that each token is dispatched once; sequence-parallel shards pass *)
PreparePayload(a, rows) ==
    LET n == LocalTokens(Len(rows))
        padded == PadFirstDim(rows, n * TP, [tok |-> 0, ids |-> Zeros])
    IN  IF sp \/ TP <= 1 THEN rows
        ELSE SubSeq(padded, TpRank(a) * n + 1, (TpRank(a) + 1) * n)

Gather(g, part) == FlattenSeq([i \in 1 .. TP |-> part[Card(g, i - 1)]])

(* restore_cam_dispatch_output; the all-gather waits for the group *)
Restore(g, part, a) ==
    IF sp \/ TP <= 1 THEN part[a] ELSE SubSeq(Gather(g, part), 1, batch[g])

(* the mentions of an expert in a payload, and how many come before one *)
Mentions(p, e) == {m \in (1 .. Len(p)) \X (1 .. TopK) : p[m[1]].ids[m[2]] = e}
Count(p, e) == Cardinality(Mentions(p, e))
Occurrence(p, m) ==
    Cardinality({n \in Mentions(p, p[m[1]].ids[m[2]]) :
                    n[1] < m[1] \/ (n[1] = m[1] /\ n[2] < m[2])})

(* h[lo] + h[lo + 1] + ... + h[hi - 1] *)
SumFrom(h, lo, hi) ==
    LET s[i \in Nat] == IF i <= lo THEN 0 ELSE s[i - 1] + h[i - 1] IN s[hi]

Counts(p) == [e \in Experts |-> Count(p, e)]
RowsOfFfn(p, f) == SumFrom(Counts(p), f * Local, (f + 1) * Local)

LayerOf(g) == IF at[g] = 0 THEN Min(LayerIds) ELSE ForwardLayers[at[g]].id

(* one entry for each mention of an expert, in the order of the tokens *)
RowsFor(a, e) ==
    LET p == payload[a]
        mention(o) == CHOOSE m \in Mentions(p, e) : Occurrence(p, m) = o - 1
    IN  [o \in 1 .. Count(p, e) |->
            [rank |-> a, at |-> at[GroupOf(a)], tok |-> p[mention(o)[1]].tok, expert |-> e]]

----------------------------------------------------------------------------
WarmRow == <<[tok |-> 1, ids |-> [k \in 1 .. TopK |-> k - 1]]>>

(* graph_startup_chunks: every Attention rank sends one row to the experts
   below TopK; an FFN rank expects that many receives of each group *)
WarmupChunks(f) ==
    LET mine == Max({0, Min({Local, TopK - f * Local})})
        perChunk == Cap \div TP
    IN  Max({1, CeilDiv(mine, perChunk)})

Warm == \A f \in Fs : warmLeft[f] = 0
EmptySlot == [flag |-> 0, layer |-> 0, prefix |-> 0,
              counts |-> [e \in 0 .. Local - 1 |-> 0],
              rows |-> [e \in 0 .. Local - 1 |-> <<>>]]
Positions == 0 .. CeilDiv(MaxTokens, TP) * TopK - 1
NoPart == [rank |-> -1]

Fresh(n) == [t \in 1 .. n |-> t]

(* eager workers start in service, a graph deployment with the warmup; the
   two-stream FFN refuses sequence parallelism *)
CamInit ==
    /\ sp \in IF Depth > 1 THEN {FALSE} ELSE BOOLEAN
    /\ batch \in [Gs -> Batches]
    /\ at \in {[g \in Gs |-> 0], [g \in Gs |-> 1]}
    /\ pc = [a \in Attns |-> IF at[GroupOf(a)] = 0 THEN "send" ELSE "model"]
    /\ hidden = [a \in Attns |-> Fresh(batch[GroupOf(a)])]
    /\ payload = [a \in Attns |-> IF at[GroupOf(a)] = 0 THEN WarmRow ELSE <<>>]
    /\ slot = [f \in Fs |-> [a \in Attns |-> EmptySlot]]
    /\ next = [f \in Fs |-> [g \in Gs |-> 0]]
    /\ cursor = [f \in Fs |-> 0] /\ scan = [f \in Fs |-> 0]
    /\ items = [f \in Fs |-> <<>>]
    /\ warmLeft = [f \in Fs |-> IF at[0] = 0 THEN WarmupChunks(f) * Groups ELSE 0]
    /\ stuck = [f \in Fs |-> FALSE]
    /\ region = [a \in Attns |-> [p \in Positions |-> NoPart]]
    /\ status = [a \in Attns |-> [f \in Fs |-> 0]]
    /\ out = [a \in Attns |-> <<>>]

----------------------------------------------------------------------------
(***************************************************************************)
(* The Attention forward.                                                  *)
(***************************************************************************)
AllAt(g, place) == \A a \in Members(g) : pc[a] = place
GroupGoto(g, place) == pc' = [a \in Attns |-> IF GroupOf(a) = g THEN place ELSE pc[a]]

(* the shard of a rank under sequence parallelism *)
Shard(a) ==
    LET n == batch[GroupOf(a)]
        m == LocalTokens(n)
    IN  SubSeq(PadFirstDim(Fresh(n), m * TP, 0), TpRank(a) * m + 1, (TpRank(a) + 1) * m)

ShardedNow(g) == sp /\ TP > 1 /\ \E j \in 1 .. at[g] - 1 :
                    ForwardLayers[j].moe /\ \A i \in j .. at[g] - 1 : ForwardLayers[i].moe

(* _gather_sequence_parallel_state *)
Whole(g, a) ==
    IF ShardedNow(g) THEN SubSeq(Gather(g, hidden), 1, batch[g]) ELSE hidden[a]

(* select_cam_experts: some top-k for each row *)
SelectExperts(a, rows, route) ==
    LET first == IF sp THEN TpRank(a) * LocalTokens(batch[GroupOf(a)]) ELSE 0
    IN  [q \in 1 .. Len(rows) |-> [tok |-> rows[q], ids |-> route[first + q]]]

(* a MoE layer: attention, router, payload.  Plain TP routes the tokens the
   same on every rank; a shard has its padding routed too *)
MoeLayer(g) ==
    /\ AllAt(g, "model") /\ at[g] \in 1 .. Len(ForwardLayers) /\ ForwardLayers[at[g]].moe
    /\ LET held(a) == IF sp /\ TP > 1 /\ ~ShardedNow(g) THEN Shard(a) ELSE hidden[a]
       IN  \E route \in Routings :
             /\ hidden' = [a \in Attns |-> IF GroupOf(a) = g THEN held(a) ELSE hidden[a]]
             /\ payload' = [a \in Attns |-> IF GroupOf(a) /= g THEN payload[a]
                                           ELSE PreparePayload(a, SelectExperts(a, held(a), route))]
    /\ GroupGoto(g, "send")
    /\ UNCHANGED <<sp, batch, at, slot, next, ffnVars, region, status, out>>

(* a dense layer works on whole tensors *)
DenseLayer(g) ==
    /\ AllAt(g, "model") /\ at[g] \in 1 .. Len(ForwardLayers) /\ ~ForwardLayers[at[g]].moe
    /\ hidden' = [a \in Attns |-> IF GroupOf(a) = g THEN Whole(g, a) ELSE hidden[a]]
    /\ at' = [at EXCEPT ![g] = @ + 1]
    /\ UNCHANGED <<sp, batch, pc, payload, slot, next, ffnVars, region, status,
                   out>>

(* the last layer is followed by the next forward of the group *)
EndForward(g) ==
    /\ AllAt(g, "model") /\ at[g] = Len(ForwardLayers) + 1
    /\ \E n \in Batches :
         /\ batch' = [batch EXCEPT ![g] = n]
         /\ hidden' = [a \in Attns |-> IF GroupOf(a) = g THEN Fresh(n) ELSE hidden[a]]
    /\ at' = [at EXCEPT ![g] = 1]
    /\ UNCHANGED <<sp, pc, payload, slot, next, ffnVars, region, status, out>>

(* send_attn_output and afd_async_dispatch_send: rows, counts, cleared
   receive marks and then the flag, which alone the receiver polls *)
DispatchSend(a) ==
    /\ pc[a] = "send"
    /\ IF Len(payload[a]) > MaxTokens \div TP
       THEN pc' = [pc EXCEPT ![a] = "refused"] /\ UNCHANGED <<slot, next>>
       ELSE LET p == payload[a]
            IN  /\ slot' = [f \in Fs |-> [slot[f] EXCEPT ![a] =
                      [flag |-> RowsOfFfn(p, f) + 1,
                       layer |-> LayerOf(GroupOf(a)),
                       prefix |-> SumFrom(Counts(p), 0, f * Local),
                       counts |-> [e \in 0 .. Local - 1 |-> Count(p, f * Local + e)],
                       rows |-> [e \in 0 .. Local - 1 |-> RowsFor(a, f * Local + e)]]]]
                /\ next' = IF TpRank(a) /= 0 THEN next
                           ELSE [f \in Fs |-> [next[f] EXCEPT ![GroupOf(a)] = 0]]
                /\ pc' = [pc EXCEPT ![a] = "wait"]
    /\ UNCHANGED <<sp, batch, at, hidden, payload, ffnVars, region, status, out>>

(* rows a rank sent to the experts of an FFN rank before one of them *)
Before(p, f, e) == SumFrom(Counts(p), f * Local, e)

(* recv_ffn_output and afd_async_combine_recv: wait for every FFN rank,
   gather the parts of each row, clear the flags *)
CombineRecv(a) ==
    /\ pc[a] = "wait" /\ \A f \in Fs : status[a][f] /= 0
    /\ LET p == payload[a]
           part(q, k) == LET e == p[q].ids[k]
                             f == FfnOf(e)
                         IN  region[a][status[a][f] - 1 + Before(p, f, e) + Occurrence(p, <<q, k>>)]
       IN  out' = [out EXCEPT ![a] = [q \in 1 .. Len(p) |-> [k \in 1 .. TopK |-> part(q, k)]]]
    /\ status' = [status EXCEPT ![a] = [f \in Fs |-> 0]]
    /\ region' = [region EXCEPT ![a] = [p \in Positions |-> NoPart]]  \* never read again
    /\ pc' = [pc EXCEPT ![a] = "got"]
    /\ UNCHANGED <<sp, batch, at, hidden, payload, slot, next, ffnVars>>

Tokens(a) == [q \in DOMAIN out[a] |-> out[a][q][1].tok]

(* receive_pending_ffn at the next layer, or after the last *)
RestoreRows(g) ==
    /\ AllAt(g, "got") /\ at[g] > 0
    /\ LET part == [a \in Members(g) |-> Tokens(a)]
       IN  hidden' = [a \in Attns |-> IF GroupOf(a) = g THEN Restore(g, part, a) ELSE hidden[a]]
    /\ out' = [a \in Attns |-> IF GroupOf(a) = g THEN <<>> ELSE out[a]]
    /\ payload' = [a \in Attns |-> IF GroupOf(a) = g THEN <<>> ELSE payload[a]]
    /\ at' = [at EXCEPT ![g] = @ + 1]
    /\ GroupGoto(g, "model")
    /\ UNCHANGED <<sp, batch, slot, next, ffnVars, region, status>>

(* _run_attention_graph_startup ends when every FFN rank is in service *)
WarmupEnds(g) ==
    /\ at[g] = 0 /\ AllAt(g, "got") /\ Warm
    /\ at' = [at EXCEPT ![g] = 1]
    /\ out' = [a \in Attns |-> IF GroupOf(a) = g THEN <<>> ELSE out[a]]
    /\ payload' = [a \in Attns |-> IF GroupOf(a) = g THEN <<>> ELSE payload[a]]
    /\ GroupGoto(g, "model")
    /\ UNCHANGED <<sp, batch, hidden, slot, next, ffnVars, region, status>>

----------------------------------------------------------------------------
(***************************************************************************)
(* The FFN rank.                                                           *)
(***************************************************************************)
Ready(f, g) == \A i \in 0 .. TP - 1 : slot[f][Card(g, i)].flag /= 0
MayReceive(f) == ~stuck[f] /\ Len(items[f]) < Depth /\ (Warm \/ warmLeft[f] > 0)

(* WaitFromAttn looks at one group after the other, from the cursor on *)
LookOn(f) ==
    /\ MayReceive(f) /\ ~Ready(f, scan[f])
    /\ scan' = [scan EXCEPT ![f] = (@ + 1) % Groups]
    /\ UNCHANGED <<sp, attVars, slot, next, cursor, items, warmLeft, stuck, region, status, out>>

(* what the TP ranks of a group sent to the experts of an FFN rank *)
SlotCounts(f, g) == [i \in 0 .. TP - 1 |-> slot[f][Card(g, i)].counts]
SlotRows(f, g) == [i \in 0 .. TP - 1 |-> slot[f][Card(g, i)].rows]
ForExpert(counts, e) == [i \in 0 .. TP - 1 |-> counts[i][e]]
TpCounts(counts) == [e \in 0 .. Local - 1 |-> SumFrom(ForExpert(counts, e), 0, TP)]

(* whole experts, as many as fit *)
ChunkEnds(f, g) ==
    {e \in next[f][g] .. Local - 1 :
        SumFrom(TpCounts(SlotCounts(f, g)), next[f][g], e + 1) <= Cap}

(* the rows of a chunk: a TP rank, an expert, a number *)
Cells(counts, first, last) ==
    {c \in (0 .. TP - 1) \X (first .. last) \X (1 .. TopK * CeilDiv(MaxTokens, TP)) :
        c[3] <= counts[c[1]][c[2]]}

(* where a receive puts a row: after the experts before, and in its expert
   after the TP ranks before *)
ReceivedAt(counts, first, c) ==
    SumFrom(TpCounts(counts), first, c[2]) + SumFrom(ForExpert(counts, c[2]), 0, c[1]) + c[3]

CursorAfter_Stays(g, last) == g
CursorAfter(g, last) == IF last = Local - 1 THEN (g + 1) % Groups ELSE g

(* recv_ffn_work_item: the rows of the chunk, cut to their number, and what
   the ranks of the group said; the layer is that of the first rank *)
WorkItem(f, g, last) ==
    LET first == next[f][g]
        counts == SlotCounts(f, g)
        cells == Cells(counts, first, last)
        cell(x) == CHOOSE c \in cells : ReceivedAt(counts, first, c) = x
    IN  [group |-> g, layer |-> slot[f][Card(g, 0)].layer, first |-> first, last |-> last,
         prefix |-> [i \in 0 .. TP - 1 |-> slot[f][Card(g, i)].prefix],
         counts |-> counts,
         rows |-> [x \in 1 .. SumFrom(TpCounts(counts), first, last + 1) |->
                     LET c == cell(x) IN SlotRows(f, g)[c[1]][c[2]][c[3]]]]

(* recv_attn_output and afd_async_dispatch_recv: after the last expert the
   flags of the group are cleared.  Where not one expert fits the kernel
   returns with its outputs unwritten (afd_async_dispatch_recv.h:304-307); what
   the host makes of them is undefined, and the model follows the rank no
   further: see ExpertFits. *)
DispatchRecv(f) ==
    /\ MayReceive(f) /\ Ready(f, scan[f])
    /\ LET g == scan[f]
       IN  IF ChunkEnds(f, g) = {}
           THEN stuck' = [stuck EXCEPT ![f] = TRUE]
                /\ UNCHANGED <<slot, next, cursor, scan, items, warmLeft>>
           ELSE LET last == Max(ChunkEnds(f, g))
                IN  /\ items' = [items EXCEPT ![f] = Append(@, WorkItem(f, g, last))]
                    /\ next' = [next EXCEPT ![f][g] = last + 1]
                    /\ slot' = IF last < Local - 1 THEN slot
                               ELSE [slot EXCEPT ![f] = [a \in Attns |->
                                      IF GroupOf(a) = g THEN EmptySlot ELSE @[a]]]
                    /\ cursor' = [cursor EXCEPT ![f] = CursorAfter(g, last)]
                    /\ scan' = [scan EXCEPT ![f] = CursorAfter(g, last)]
                    /\ warmLeft' = [warmLeft EXCEPT ![f] = IF @ > 0 THEN @ - 1 ELSE 0]
                    /\ UNCHANGED stuck
    /\ UNCHANGED <<sp, attVars, region, status, out>>

(* AsyncCAMLayeredExecutor keeps the layers of target and draft sorted; ids
   other than 0 .. n - 1 go through a table *)
SlotLayers ==
    CHOOSE s \in [1 .. Cardinality(LayerIds) -> LayerIds] : \A i, j \in DOMAIN s : i < j => s[i] < s[j]
Direct == LayerIds = 0 .. Cardinality(LayerIds) - 1
SlotOf_NoTable(layer) == layer
SlotOf(layer) ==
    IF Direct THEN layer ELSE CHOOSE s \in 0 .. Len(SlotLayers) - 1 : SlotLayers[s + 1] = layer
Weights(layer) ==
    IF SlotOf(layer) < Len(SlotLayers) THEN SlotLayers[SlotOf(layer) + 1] ELSE -1

(* the combine walks the experts, and in each the TP ranks *)
SentFrom(item, c) ==
    SumFrom(TpCounts(item.counts), item.first, c[2])
        + SumFrom(ForExpert(item.counts, c[2]), 0, c[1]) + c[3]

(* where it puts a row: after what the rank sent to the FFN ranks and to the
   experts before, other chunks included *)
Place(item, c) ==
    item.prefix[c[1]] + SumFrom(item.counts[c[1]], 0, c[2]) + c[3] - 1

Part(row, layer) ==
    [rank |-> row.rank, at |-> row.at, tok |-> row.tok,
     expert |-> row.expert, weights |-> Weights(layer)]

Signals_EveryChunk(item) == item.last >= item.first
Signals(item) == item.last = Local - 1

(* send_ffn_work_item_output: an item without rows sends one nobody reads *)
RowsSent(item) == IF item.rows = <<>> THEN <<NoPart>> ELSE item.rows

(* send_ffn_output and afd_async_combine_send: the rows go back to the ranks
   of the group; the last chunk sets their flags *)
SendFfnOutput(f, item) ==
    LET cells == Cells(item.counts, item.first, item.last)
        to(i, p) == {c \in cells : c[1] = i /\ Place(item, c) = p}
        row(i, p) == RowsSent(item)[SentFrom(item, CHOOSE c \in to(i, p) : TRUE)]
    IN  /\ region' = [a \in Attns |->
             IF GroupOf(a) /= item.group THEN region[a]
             ELSE [p \in Positions |->
                     IF to(TpRank(a), p) = {} THEN region[a][p]
                     ELSE Part(row(TpRank(a), p), item.layer)]]
        /\ status' = IF ~Signals(item) THEN status
                     ELSE [a \in Attns |->
                             IF GroupOf(a) /= item.group THEN status[a]
                             ELSE [status[a] EXCEPT ![f] = item.prefix[TpRank(a)] + 1]]

(* one pass of the loop of _ffn_forward_connector_driven *)
ComputeAndSend(f) ==
    /\ items[f] /= <<>>
    /\ SendFfnOutput(f, Head(items[f]))
    /\ items' = [items EXCEPT ![f] = Tail(@)]
    /\ UNCHANGED <<sp, attVars, slot, next, cursor, scan, warmLeft, stuck, out>>

----------------------------------------------------------------------------
GroupStep(g) ==
    MoeLayer(g) \/ DenseLayer(g) \/ EndForward(g) \/ RestoreRows(g) \/ WarmupEnds(g)
DeviceStep(a) == DispatchSend(a) \/ CombineRecv(a)

CamNext ==
    \/ \E g \in Gs : GroupStep(g)
    \/ \E a \in Attns : DeviceStep(a)
    \/ \E f \in Fs : LookOn(f) \/ DispatchRecv(f) \/ ComputeAndSend(f)

(* Forwards run, operators that can complete do, an FFN rank keeps looking
   and its compute stream runs beside its receive stream.  The ranks of a
   group need each other in every transfer, so one condition is enough for
   the group. *)
CamFairness ==
    /\ \A g \in Gs : WF_camVars(GroupStep(g) \/ \E a \in Members(g) : DeviceStep(a))
    /\ \A f \in Fs : WF_camVars(LookOn(f) \/ DispatchRecv(f)) /\ WF_camVars(ComputeAndSend(f))

CamSpec == CamInit /\ [][CamNext]_camVars /\ CamFairness

----------------------------------------------------------------------------
(***************************************************************************)
(* Properties.                                                             *)
(***************************************************************************)
(* What a rank combines is its own: for each row and each of its experts the
   output of that row, computed by that expert with the weights of the layer
   the row was dispatched in, whatever the other groups and the chunks did
   (async_cam.py:740-820, async_cam_layered.py:246-252). *)
OwnOutput ==
    \A a \in Attns : pc[a] = "got" =>
        \A q \in DOMAIN payload[a] : \A k \in 1 .. TopK :
            out[a][q][k] = [rank |-> a, at |-> at[GroupOf(a)],
                            tok |-> payload[a][q].tok, expert |-> payload[a][q].ids[k],
                            weights |-> LayerOf(GroupOf(a))]

(* Before a dense layer and at the end of a forward every rank of the group
   can hold each token of the batch once and in order, with no padding
   (async_cam_layout.py:55-61, deepseek_v2_async_cam_forward.py:131-137). *)
TokensWhole ==
    \A g \in Gs : \A a \in Members(g) :
        (AllAt(g, "model") /\ (at[g] > Len(ForwardLayers) \/ (at[g] > 0 /\ ~ForwardLayers[at[g]].moe)))
            => Whole(g, a) = Fresh(batch[g])

(* What a group computed is complete, its own, and nothing else, as long as each
   receive finds an expert that fits (ExpertFits). *)
RowsExact == OwnOutput /\ TokensWhole

(* A window is reused only after its last use is over: rows are written to a
   slot whose flag the receiver has cleared, and to a combine window whose
   owner waits for them (docs/npu/CAM_ASYNC_ROUTED_OPS.md:151-152). *)
WindowsReusedInTurn ==
    [][/\ \A a \in Attns, f \in Fs :
             slot'[f][a].rows /= slot[f][a].rows /\ slot'[f][a] /= EmptySlot
                 => slot[f][a].flag = 0
       /\ \A a \in Attns : region'[a] /= region[a] => pc[a] = "wait"]_camVars

(* A receive always finds an expert that fits
   (docs/npu/ASYNC_FFN_RUNTIME.md:47-48, validation.py:82-85).  It does not
   when padding crowds expert 0: no run checks this. *)
ExpertFits == \A f \in Fs : ~stuck[f]

(* Every dispatch is accepted and answered, although each FFN rank serves the groups one
   at a time and they come back again and again; the graph warmup ends with
   exactly the receives it announced. *)
EveryDispatchAnswered ==
    /\ \A a \in Attns : (pc[a] = "send") ~> (pc[a] = "got")
    /\ <>Warm
=============================================================================
