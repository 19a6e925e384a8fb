----------------------------- MODULE CAMP2PStep -----------------------------
(***************************************************************************)
(* The synchronous CAM P2P connector of Ascend (connectors/npu/camp2p.py)  *)
(* from the creation of its process groups through graph capture to        *)
(* serving.  Hidden states cross in windows: an Attention rank has one     *)
(* window per HCCL group, which its A2E writes and its FFN rank reads, and *)
(* which the FFN rank's E2A then overwrites with the output.  A rank       *)
(* counts its operations on a group (the kernel's magic) and waits until   *)
(* its peer's flag equals its own count, so both sides must execute the    *)
(* same operations in the same order, whatever token counts they assume.   *)
(***************************************************************************)
EXTENDS Naturals, FiniteSets, Sequences, SequencesExt

CONSTANTS
    A, F,           \* num_attention_ranks, num_ffn_ranks
    DP,             \* data_parallel_size of Attention; A / DP is its TP size
    L,              \* decoder layers, each with a remote FFN
    NumUbatches,    \* num_ubatches: one HCCL group each
    CaptureDescs,   \* FULL descriptors of Attention: <<[size, stages], ...>>
    EagerCounts,    \* token counts of eager batches, for each DP rank
    DboCounts,      \* the same for eager batches of two microbatches
    LiveSplits,     \* lengths of the first microbatch a DP rank may choose
                    \* by itself; {} when all split in the middle
    FFNGraphs,      \* the FFN runner's use_aclgraph
    MaxServe        \* bound on the serving steps after startup

(* build_camp2p_topology refuses fewer Attention than FFN ranks; the token
   counts of an FFN rank are known only if the ranks divide *)
ASSUME SizesAssumption ==
    /\ A \in Nat \ {0} /\ F \in 1 .. A /\ A % F = 0
    /\ DP \in 1 .. A /\ A % DP = 0
    /\ L \in Nat \ {0} /\ NumUbatches \in 1 .. 2 /\ MaxServe \in Nat
(* A batch has a token, and is split in at most num_ubatches microbatches of
   which none is empty (compat/npu/runtime_config.py). *)
ASSUME InputsAssumption ==
    /\ CaptureDescs \in Seq([size : Nat \ {0}, stages : 1 .. NumUbatches])
    /\ \A i \in DOMAIN CaptureDescs : CaptureDescs[i].size >= CaptureDescs[i].stages
    /\ EagerCounts \subseteq Nat \ {0} /\ DboCounts \subseteq Nat \ {0, 1}
    /\ NumUbatches = 1 => DboCounts = {}
    /\ \A n \in DboCounts : LiveSplits \subseteq 1 .. n - 1
    /\ FFNGraphs \in BOOLEAN

Att == 0 .. A - 1
Ffn == 0 .. F - 1
TP == A \div DP
Ratio == A \div F

(* FFN ranks come first in the AFD world; the metadata group has the FFN
   ranks and the first Attention ranks *)
World == 0 .. F + A - 1
WorldRank(a) == F + a
MinSize == IF A < F THEN A ELSE F

(* an Attention rank exchanges with FFN rank a % F: Peers(j) in kernel order *)
Owner(a) == a % F
Peers(j) == [i \in 1 .. Ratio |-> j + (i - 1) * F]

(* dp_metadata_destinations, and the sender recv_dp_metadata_list waits for *)
Destinations(a) == {d \in Ffn : a < MinSize /\ d % MinSize = a}
MetadataSource(j) == j % MinSize

MaxOf(S) == CHOOSE m \in S : \A n \in S : n <= m

----------------------------------------------------------------------------
(***************************************************************************)
(* Token counts.  A count vector is a function on 0 .. n - 1, with n = DP  *)
(* or, once expanded, n = A.                                               *)
(***************************************************************************)
(* every TP worker of a DP rank has the rank's count *)
Expanded(c) == [a \in Att |-> c[a \div (A \div Cardinality(DOMAIN c))]]

(* _num_tokens_for_ffn_rank, _ffn_token_counts_across_ranks: FFN rank j
   computes on the tokens of ranks j, j + F, ... *)
FfnTokens(c, j) ==
    LET sum[i \in 0 .. Ratio] ==
            IF i = 0 THEN 0 ELSE sum[i - 1] + Expanded(c)[Peers(j)[i]]
    IN  IF sum[Ratio] = 0 THEN 1 ELSE sum[Ratio]

DpPadding_None(c) == c

(* _use_camp2p_dp_padding: the DP ranks whose workers share FFN ranks are
   padded alike; TP blocks that do not align with F connect all of them *)
DpPadding(c) ==
    LET groups == IF F % TP = 0 THEN F \div TP ELSE 1 IN
    IF A = F THEN c
    ELSE [d \in DOMAIN c |-> MaxOf({c[e] : e \in {e \in DOMAIN c : e % groups = d % groups}})]

(* _physical_payload: with microbatches the ranks of a strided group transfer
   the largest count among them *)
Physical(counts) ==
    IF Ratio <= 1 \/ Cardinality(DOMAIN counts) <= 1 THEN counts
    ELSE [s \in DOMAIN counts |->
            [a \in Att |-> MaxOf({Expanded(counts[s])[b] : b \in {b \in Att : Owner(b) = Owner(a)}})]]

(* _make_graph_key of FFN rank j: the tokens of every FFN rank per stage *)
GraphKey(counts, j) == [s \in DOMAIN counts |-> [k \in Ffn |-> FfnTokens(counts[s], k)]]

Stages(n) == 0 .. n - 1
Uniform(n) == [d \in 0 .. DP - 1 |-> n]

(* a batch of n tokens per DP rank, split in the middle with microbatches *)
Slice(n, stages, s) == IF stages = 1 THEN n ELSE IF s = 0 THEN n \div 2 ELSE n - n \div 2

Plan(kind, stages, c) ==
    [kind |-> kind, rows |-> [s \in Stages(stages) |->
                                [d \in 0 .. DP - 1 |-> Slice(c[d], stages, s)]]]

DescPlan(kind, desc) == Plan(kind, desc.stages, Uniform(desc.size))

(* each descriptor is warmed up, then captured *)
CapturePlans ==
    [k \in 1 .. 2 * Len(CaptureDescs) |->
        DescPlan(IF k % 2 = 1 THEN "warmup" ELSE "capture", CaptureDescs[(k + 1) \div 2])]

(* a DBO batch of which every DP rank chooses the first slice itself *)
LivePlan(n, first) ==
    [kind |-> "eager", rows |-> [s \in Stages(2) |->
        [d \in 0 .. DP - 1 |-> IF s = 0 THEN first[d] ELSE n - first[d]]]]

ServingPlans ==
    {DescPlan("replay", CaptureDescs[i]) : i \in DOMAIN CaptureDescs}
    \cup {Plan("eager", 1, DpPadding(c)) : c \in [0 .. DP - 1 -> EagerCounts]}
    \cup {Plan("eager", 2, DpPadding(c)) : c \in [0 .. DP - 1 -> DboCounts]}
    \cup {LivePlan(n, first) : n \in DboCounts, first \in [0 .. DP - 1 -> LiveSplits]}

(* rows of a stage in the forward of Attention rank a *)
OwnRows(p, s, a) == p.rows[s][a \div TP]

(* send_dp_metadata: with microbatches every entry is this rank's own slice *)
Counts(p, a) ==
    IF Cardinality(DOMAIN p.rows) > 1
    THEN [s \in DOMAIN p.rows |-> Uniform(OwnRows(p, s, a))] ELSE p.rows

----------------------------------------------------------------------------
(***************************************************************************)
(* Process groups.  A rank creates its groups in program order; creating   *)
(* one returns when all its members do the same.                           *)
(***************************************************************************)
AfdGroups == [g \in 1 .. NumUbatches |-> <<"afd", g>>]
Members(name) ==
    CASE name[1] = "afd" -> World
      [] name[1] = "afd_moe" -> Ffn
      [] name[1] = "p2p" -> Ffn \cup {WorldRank(a) : a \in 0 .. MinSize - 1}

(* init_afd_connector *)
GroupsOf(r) ==
    AfdGroups \o (IF r \in Ffn THEN <<<<"afd_moe", 0>>>> ELSE <<>>)
    \o (IF r \in Members(<<"p2p", 0>>) THEN <<<<"p2p", 0>>>> ELSE <<>>)

(* _get_group_ep: the HCCL group of a microbatch; without a second group it
   falls back to the first *)
GroupEp(s) == IF s = 1 /\ NumUbatches > 1 THEN 2 ELSE 1

----------------------------------------------------------------------------
VARIABLES
    todo,       \* per world rank: groups it has still to create
    plans,      \* the steps agreed so far: first warmup and capture
    served,     \* serving steps agreed
    att,        \* per Attention rank: its step, operations and place in them
    amd,        \* per Attention rank: connector.dp_metadata_list
    ctl,        \* per FFN rank: control payloads on the way
    ffn,        \* per FFN rank: the same of its payload, and what it works on
    fmd,        \* per FFN rank: connector.dp_metadata_list
    graphs,     \* per FFN rank: _acl_graphs, the captured batch sizes by key
    magic,      \* per world rank and HCCL group: operations executed on it
    toFfn,      \* per Attention rank and group: its flag at its FFN rank
    toAtt,      \* per Attention rank and group: the flag of its FFN rank
    win         \* per Attention rank and group: content of its window

attVars == <<att, amd>>
ffnVars == <<ffn, fmd, graphs>>
winVars == <<magic, toFfn, toAtt, win>>
vars == <<todo, plans, served, attVars, ctl, ffnVars, winVars>>

Groups == 1 .. NumUbatches
Empty == [from |-> "none"]

Init ==
    /\ todo = [r \in World |-> GroupsOf(r)]
    /\ plans = CapturePlans
    /\ served = 0
    /\ att = [a \in Att |-> [step |-> 0, ops |-> <<>>, pc |-> 1]]
    /\ amd = [a \in Att |-> <<>>]
    /\ ctl = [j \in Ffn |-> <<>>]
    /\ ffn = [j \in Ffn |-> [step |-> 0, mode |-> "forward", batch |-> <<>>, got |-> <<>>,
                            ops |-> <<>>, pc |-> 1]]
    /\ fmd = [j \in Ffn |-> <<>>]
    /\ graphs = [j \in Ffn |-> <<>>]
    /\ magic = [r \in World |-> [g \in Groups |-> 0]]
    /\ toFfn = [a \in Att |-> [g \in Groups |-> 0]]
    /\ toAtt = [a \in Att |-> [g \in Groups |-> 0]]
    /\ win = [a \in Att |-> [g \in Groups |-> Empty]]

(* a step is a program and a place in it *)
Idle(rank) == rank.pc > Len(rank.ops)
OpOf(rank) == rank.ops[rank.pc]
At(rank, kind) == ~Idle(rank) /\ OpOf(rank).op = kind

(* the rendezvous of one process group *)
CreateGroup(name) ==
    /\ \A r \in Members(name) : todo[r] /= <<>> /\ Head(todo[r]) = name
    /\ todo' = [r \in World |-> IF r \in Members(name) THEN Tail(todo[r]) ELSE todo[r]]
    /\ UNCHANGED <<plans, served, attVars, ctl, ffnVars, winVars>>

(***************************************************************************)
(* An Attention rank.                                                      *)
(***************************************************************************)
(* the Attention DP group agrees on the next batch, its padding and its mode *)
Agree ==
    /\ served < MaxServe
    /\ \A a \in Att : att[a].step = Len(plans) /\ Idle(att[a])
    /\ \E p \in ServingPlans : plans' = Append(plans, p)
    /\ served' = served + 1
    /\ UNCHANGED <<todo, attVars, ctl, ffnVars, winVars>>

Op(kind, l, s) == [op |-> kind, layer |-> l, stage |-> s]

(* The operations of a forward in the order the compute stream gets them: a
   microbatch yields between its send and its receive, and goes on to its
   next layer's send without yielding. *)
Turn(s, l) ==
    (IF l > 1 THEN <<Op("recv", l - 1, s)>> ELSE <<>>)
      \o (IF l <= L THEN <<Op("send", l, s)>> ELSE <<>>)
AttSchedule(stages) ==
    FlattenSeq([i \in 1 .. stages * (L + 1) |->
                    Turn((i - 1) % stages, (i - 1) \div stages + 1)])

(* update_state_from_dp_metadata and send_dp_metadata_list, then the forward *)
SendControl(a) ==
    LET n == att[a].step + 1
        counts == Physical(Counts(plans[n], a))
    IN
    /\ todo[WorldRank(a)] = <<>>
    /\ Idle(att[a]) /\ n <= Len(plans)
    /\ amd' = [amd EXCEPT ![a] = counts]
    /\ ctl' = [j \in Ffn |->
         IF j \notin Destinations(a) THEN ctl[j]
         ELSE Append(ctl[j], [step |-> n, kind |-> plans[n].kind, counts |-> counts])]
    /\ att' = [att EXCEPT ![a] =
         [step |-> n, ops |-> AttSchedule(Cardinality(DOMAIN plans[n].rows)), pc |-> 1]]
    /\ UNCHANGED <<todo, plans, served, ffnVars, winVars>>

(* rows of a transfer: padded to the physical count within the operator *)
WireRows(a, s) ==
    IF A > F /\ Cardinality(DOMAIN amd[a]) > 1 THEN amd[a][s][a]
    ELSE OwnRows(plans[att[a].step], s, a)

Transfer(a, op) ==
    [from |-> "attention", rank |-> a, step |-> att[a].step, layer |-> op.layer,
     stage |-> op.stage, rows |-> WireRows(a, op.stage)]

(* A2E of an Attention rank: fills its own window and flags its FFN rank; it
   waits for nothing *)
SendAttnOutput(a) ==
    LET op == OpOf(att[a])
        g == GroupEp(op.stage)
    IN
    /\ At(att[a], "send")
    /\ win' = [win EXCEPT ![a][g] = Transfer(a, op)]
    /\ magic' = [magic EXCEPT ![WorldRank(a)][g] = @ + 1]
    /\ toFfn' = [toFfn EXCEPT ![a][g] = magic[WorldRank(a)][g] + 1]
    /\ att' = [att EXCEPT ![a].pc = @ + 1]
    /\ UNCHANGED <<todo, plans, served, amd, ctl, ffnVars, toAtt>>

(* E2A of an Attention rank: the output is there when the flag has come *)
OutputReady(a) ==
    LET g == GroupEp(OpOf(att[a]).stage) IN
    /\ At(att[a], "recv")
    /\ toAtt[a][g] = magic[WorldRank(a)][g] + 1

RecvFfnOutput(a) ==
    /\ OutputReady(a)
    /\ magic' = [magic EXCEPT ![WorldRank(a)][GroupEp(OpOf(att[a]).stage)] = @ + 1]
    /\ att' = [att EXCEPT ![a].pc = @ + 1]
    /\ UNCHANGED <<todo, plans, served, amd, ctl, ffnVars, toFfn, toAtt, win>>

(***************************************************************************)
(* An FFN rank: execute_ffn_step for every payload.                        *)
(***************************************************************************)
Ready(j) == todo[j] = <<>> /\ Idle(ffn[j]) /\ ctl[j] /= <<>>

(* _ffn_forward: within a layer one microbatch after the other *)
FfnSchedule(stages) ==
    [k \in 1 .. 3 * stages * L |->
        LET i == (k - 1) \div 3
        IN  Op(<<"recv", "compute", "send">>[((k - 1) % 3) + 1], i \div stages + 1, i % stages)]

(* the batch size recv_attn_output derives from the connector's state *)
BatchSizes(counts, j) == [s \in DOMAIN counts |-> FfnTokens(counts[s], j)]

Begin(pay, mode, batch) ==
    [step |-> pay.step, mode |-> mode, batch |-> batch, got |-> <<>>,
     ops |-> FfnSchedule(Cardinality(DOMAIN pay.counts)), pc |-> 1]

Captures(pay) == FFNGraphs /\ pay.kind = "capture"

(* graph_run_mode: what is captured is replayed when Attention replays *)
Replays(j, pay) ==
    /\ FFNGraphs /\ pay.kind = "replay"
    /\ GraphKey(pay.counts, j) \in DOMAIN graphs[j]

TakePayload(j) ==
    /\ Ready(j)
    /\ ctl' = [ctl EXCEPT ![j] = Tail(@)]
    /\ UNCHANGED <<todo, plans, served, attVars, winVars>>

(* execute_model, replay branch: the connector's state is left alone *)
Replay(j) ==
    LET pay == Head(ctl[j]) IN
    /\ TakePayload(j)
    /\ Replays(j, pay)
    /\ ffn' = [ffn EXCEPT ![j] = Begin(pay, "replay", graphs[j][GraphKey(pay.counts, j)])]
    /\ UNCHANGED <<fmd, graphs>>

(* an eager batch, or the warmup branch of capture_model *)
Forward(j) ==
    LET pay == Head(ctl[j]) IN
    /\ TakePayload(j)
    /\ ~Captures(pay) /\ ~Replays(j, pay)
    /\ fmd' = [fmd EXCEPT ![j] = Physical(pay.counts)]
    /\ ffn' = [ffn EXCEPT ![j] = Begin(pay, "forward", BatchSizes(fmd'[j], j))]
    /\ UNCHANGED graphs

CaptureRun_HitIsSilent(j, pay, state) ==
    IF GraphKey(pay.counts, j) \in DOMAIN graphs[j] THEN [Begin(pay, "capture", <<>>) EXCEPT !.ops = <<>>]
    ELSE Begin(pay, "capture", BatchSizes(state, j))

(* A key captured before is replayed: Attention executes the step either way
   and waits for the communication of it. *)
CaptureRun(j, pay, state) ==
    IF GraphKey(pay.counts, j) \in DOMAIN graphs[j]
    THEN Begin(pay, "capture", graphs[j][GraphKey(pay.counts, j)])
    ELSE Begin(pay, "capture", BatchSizes(state, j))

(* _capture_graphs; an NPU graph's capture submits what it records *)
Capture(j) ==
    LET pay == Head(ctl[j])
        key == GraphKey(pay.counts, j)
    IN
    /\ TakePayload(j)
    /\ Captures(pay)
    /\ fmd' = [fmd EXCEPT ![j] = Physical(pay.counts)]
    /\ ffn' = [ffn EXCEPT ![j] = CaptureRun(j, pay, fmd'[j])]
    /\ graphs' = IF key \in DOMAIN graphs[j] THEN graphs
                 ELSE [graphs EXCEPT ![j] = [k \in DOMAIN @ \cup {key} |->
                           IF k = key THEN BatchSizes(fmd'[j], j) ELSE @[k]]]

(* A2E of an FFN rank reads its peers' windows, each when its flag equals the
   rank's own count *)
Flagged(j, a) ==
    LET g == GroupEp(OpOf(ffn[j]).stage) IN toFfn[a][g] = magic[j][g] + 1

RecvAttnOutput(j) ==
    LET g == GroupEp(OpOf(ffn[j]).stage) IN
    /\ At(ffn[j], "recv")
    /\ \A i \in 1 .. Ratio : Flagged(j, Peers(j)[i])
    /\ magic' = [magic EXCEPT ![j][g] = @ + 1]
    /\ ffn' = [ffn EXCEPT ![j].pc = @ + 1,
                          ![j].got = [i \in 1 .. Ratio |-> win[Peers(j)[i]][g]]]
    /\ UNCHANGED <<todo, plans, served, attVars, ctl, fmd, graphs, toFfn, toAtt, win>>

(* the experts are spread over the FFN ranks *)
Compute ==
    /\ \A j \in Ffn : At(ffn[j], "compute")
    /\ ffn' = [j \in Ffn |-> [ffn[j] EXCEPT !.pc = @ + 1]]
    /\ UNCHANGED <<todo, plans, served, attVars, ctl, fmd, graphs, winVars>>

(* E2A of an FFN rank: equal chunks of its output into the peers' windows *)
SendFfnOutput(j) ==
    LET op == OpOf(ffn[j])
        g == GroupEp(op.stage)
        mine == {a \in Att : Owner(a) = j}
        place(a) == CHOOSE i \in 1 .. Ratio : Peers(j)[i] = a
    IN
    /\ At(ffn[j], "send")
    /\ win' = [a \in Att |-> IF a \notin mine THEN win[a]
         ELSE [win[a] EXCEPT ![g] = [from |-> "ffn", of |-> ffn[j].got[place(a)],
                                     rows |-> ffn[j].batch[op.stage] \div Ratio]]]
    /\ magic' = [magic EXCEPT ![j][g] = @ + 1]
    /\ toAtt' = [a \in Att |-> IF a \notin mine THEN toAtt[a]
                               ELSE [toAtt[a] EXCEPT ![g] = magic[j][g] + 1]]
    /\ ffn' = [ffn EXCEPT ![j].pc = @ + 1]
    /\ UNCHANGED <<todo, plans, served, attVars, ctl, fmd, graphs, toFfn>>

Next ==
    \/ \E r \in World : todo[r] /= <<>> /\ CreateGroup(Head(todo[r]))
    \/ Agree
    \/ \E a \in Att : SendControl(a) \/ SendAttnOutput(a) \/ RecvFfnOutput(a)
    \/ \E j \in Ffn : Replay(j) \/ Forward(j) \/ Capture(j)
    \/ \E j \in Ffn : RecvAttnOutput(j) \/ SendFfnOutput(j)
    \/ Compute

(* Hosts and devices run; batches need not arrive. *)
Fairness ==
    /\ \A r \in World : WF_vars(todo[r] /= <<>> /\ CreateGroup(Head(todo[r])))
    /\ \A a \in Att : WF_vars(SendControl(a) \/ SendAttnOutput(a) \/ RecvFfnOutput(a))
    /\ \A j \in Ffn : WF_vars(\/ Replay(j) \/ Forward(j) \/ Capture(j)
                              \/ RecvAttnOutput(j) \/ SendFfnOutput(j))
    /\ WF_vars(Compute)

Spec == Init /\ [][Next]_vars /\ Fairness

----------------------------------------------------------------------------
(***************************************************************************)
(* Properties.                                                             *)
(***************************************************************************)
(* Whenever a flag lets a kernel read a window, the window holds the transfer
   of the reader's own step, layer and microbatch, with the number of rows the
   reader assumes: nothing has overwritten it and both sides derived the same
   layout (camp2p.py:500-763; csrc a2e.h, e2a.h address rows by batch size). *)
WindowsMatch ==
    /\ \A j \in Ffn : At(ffn[j], "recv") =>
         LET op == OpOf(ffn[j]) IN
         \A i \in 1 .. Ratio : Flagged(j, Peers(j)[i]) =>
            win[Peers(j)[i]][GroupEp(op.stage)] =
              [from |-> "attention", rank |-> Peers(j)[i], step |-> ffn[j].step,
               layer |-> op.layer, stage |-> op.stage,
               rows |-> ffn[j].batch[op.stage] \div Ratio]
    /\ \A a \in Att : OutputReady(a) =>
         LET op == OpOf(att[a]) IN
         win[a][GroupEp(op.stage)] =
           [from |-> "ffn", of |-> Transfer(a, op), rows |-> WireRows(a, op.stage)]

(* An FFN rank replays a graph in the steps in which Attention replays one, and
   every graph it runs was captured for the counts the payload announces, on
   all FFN ranks alike (cuda_graph.py:104-133, npu/ffn_model_runner.py:196-231). *)
ReplayTogether ==
    \A j \in Ffn : ~Idle(ffn[j]) =>
        LET p == plans[ffn[j].step] IN
        /\ FFNGraphs => (ffn[j].mode = "replay" <=> p.kind = "replay")
        /\ ffn[j].batch = BatchSizes(Counts(p, MetadataSource(j)), j)

(* Both sides of a transfer and all FFN ranks derive one step from a payload. *)
PeersAgree == WindowsMatch /\ ReplayTogether

(* The A2E kernel reads equal chunks from the ranks of a strided group.
   camp2p.py:812-814: "Live request-boundary stages can differ across A ranks.
   CAMP kernels require equal chunks within each strided FFN receiving group." *)
ChunksEqual ==
    \A a, b \in Att :
        LET p == plans[att[a].step] IN
        (~Idle(att[a]) /\ att[b].step = att[a].step /\ Owner(a) = Owner(b)) =>
            \A s \in DOMAIN p.rows : WireRows(a, s) = WireRows(b, s)

(* The creation of the groups ends, and so does every agreed step on every
   rank: each payload leads to exactly one execution of the FFN ranks. *)
StepsEnd ==
    /\ \A r \in World : <>(todo[r] = <<>>)
    /\ \A a \in Att : ~Idle(att[a]) ~> Idle(att[a])
=============================================================================
