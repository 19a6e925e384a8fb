------------------------------ MODULE P2PStep -------------------------------
(***************************************************************************)
(* One model step after the other through the synchronous P2P connector    *)
(* (connectors/gpu/p2p.py): Attention ranks publish the step's token       *)
(* counts on the control plane, then exchange hidden states with their FFN *)
(* rank for every layer and stage; the FFN ranks follow the payloads       *)
(* (v1/worker/ffn_model_runner.py) eagerly, capturing or replaying.        *)
(*                                                                         *)
(* A step of a rank is one operation of its compute stream, in the order   *)
(* in which the host issues them: a send starts when the operation before  *)
(* it is complete, and is complete once the transport has taken it         *)
(* (Buffer messages of a wire need no receiver).  Operations recorded      *)
(* during a graph capture move nothing.                                    *)
(***************************************************************************)
EXTENDS Topology, Sequences, SequencesExt

CONSTANTS
    A, F,           \* num_attention_ranks, num_ffn_ranks
    DP,             \* data_parallel_size of Attention; A / DP is its TP size
    L,              \* number of layers with a remote FFN
    CaptureDescs,   \* FULL descriptors of Attention: <<[size, stages], ...>>
    EagerCounts,    \* token counts of eager batches, for each DP rank
    DboCounts,      \* token counts of eager batches of two microbatches
    FFNGraphs,      \* the FFN runner's use_cuda_graph (= ~enforce_eager)
    SendsIds,       \* afd_requires_input_ids: a second tensor per transfer
    Buffer,         \* messages a wire holds without a receiver
    MaxServe        \* bound on the serving steps after startup

ASSUME SizesAssumption ==
    /\ A \in Nat \ {0} /\ F \in Nat \ {0} /\ ValidTopology(A, F)
    /\ DP \in 1 .. A /\ A % DP = 0
    /\ L \in Nat \ {0} /\ MaxServe \in Nat /\ Buffer \in Nat
(* both roles are started with the same graph setting *)
ASSUME GraphsAssumption == CaptureDescs /= <<>> => FFNGraphs
ASSUME CountsAssumption ==
    /\ EagerCounts \subseteq Nat \ {0}
    /\ DboCounts \subseteq Nat \ {0, 1}
    /\ CaptureDescs \in Seq([size : Nat, stages : {1, 2}])
    /\ \A i \in DOMAIN CaptureDescs : CaptureDescs[i].size >= CaptureDescs[i].stages

Att == 0 .. A - 1
Ffn == 0 .. F - 1
Owner(a) == SubgroupIndex("attention", a, A, F)

(* the Attention peers of FFN rank j, by their rank in the subgroup *)
Srcs(j) == DOMAIN SubgroupRanks(j, A, F) \ {0}
Peer(j, k) == SubgroupRanks(j, A, F)[k] - F

VARIABLES
    plans,      \* the steps agreed so far: first the capture events
    served,     \* serving steps agreed
    att,        \* per Attention rank: its place in its current step
    ctl,        \* per FFN rank: control payloads on the way
    a2e, e2a,   \* per Attention rank: the wires of its subgroup communicators
    ffn,        \* per FFN rank: its place in the payload it executes
    meta,       \* per FFN rank: _recv_attn_tensor_metadata_list, rows by (stage, src)
    graphs,     \* per FFN rank: _cuda_graphs, the captured rows by graph key
    hbuf, ibuf  \* per FFN rank: keys of _recv_attn_buffers, .._input_ids_buffers

vars == <<plans, served, att, ctl, a2e, e2a, ffn, meta, graphs, hbuf, ibuf>>

----------------------------------------------------------------------------
(***************************************************************************)
(* Steps and payloads.                                                     *)
(***************************************************************************)
Uniform(n) == [d \in 0 .. DP - 1 |-> n]

(* native split of a batch in two microbatches *)
Slices(n, stages) ==
    [s \in 0 .. stages - 1 |->
        IF stages = 1 THEN n ELSE IF s = 0 THEN n \div 2 ELSE n - n \div 2]

Plan(kind, stages, rows) == [kind |-> kind, stages |-> stages, rows |-> rows]

(* rows[s][d]: tokens of stage s on DP rank d; with microbatches and in
   graphs every DP rank is padded alike *)
PaddedPlan(kind, n, stages) ==
    Plan(kind, stages, [s \in 0 .. stages - 1 |-> Uniform(Slices(n, stages)[s])])

(* _AFDCaptureEventTracker: each descriptor once for warmup, then for capture *)
CaptureEvents ==
    [n \in 1 .. 2 * Len(CaptureDescs) |->
        LET d == CaptureDescs[(n + 1) \div 2]
        IN  PaddedPlan(IF n % 2 = 1 THEN "warmup" ELSE "capture", d.size, d.stages)]

(* what the DP synchronisation can agree on once serving *)
ServingPlans ==
    {PaddedPlan("replay", CaptureDescs[i].size, CaptureDescs[i].stages) :
        i \in DOMAIN CaptureDescs}
    \cup {Plan("eager", 1, [s \in {0} |-> c]) : c \in [0 .. DP - 1 -> EagerCounts]}
    \cup {PaddedPlan("eager", n, 2) : n \in DboCounts}

(* rows of a stage on Attention rank a: the shape of its hidden states *)
OwnRows(p, s, a) == p.rows[s][a \div (A \div DP)]

(* send_dp_metadata of Attention rank a: with microbatches every DP rank is
   given this rank's slice lengths, otherwise the agreed or padded counts *)
Payload(p, a, n) ==
    [step |-> n, kind |-> p.kind,
     counts |-> [s \in 0 .. p.stages - 1 |->
                    IF p.stages > 1 THEN Uniform(OwnRows(p, s, a)) ELSE p.rows[s]]]

(* the tensors of one transfer: as send_attn_output sends them ... *)
WireParts == IF SendsIds THEN <<"hidden", "ids">> ELSE <<"hidden">>
(* ... and as recv_attn_output lists its receive buffers *)
RecvParts == IF SendsIds THEN <<"hidden", "ids">> ELSE <<"hidden">>

----------------------------------------------------------------------------
Idle(n) == [pc |-> "idle", step |-> n, turn |-> 0, th |-> <<>>]
Waiting == [pc |-> "wait"]

Init ==
    /\ plans = CaptureEvents
    /\ served = 0
    /\ att = [a \in Att |-> Idle(0)]
    /\ ctl = [j \in Ffn |-> <<>>]
    /\ a2e = [a \in Att |-> <<>>]
    /\ e2a = [a \in Att |-> <<>>]
    /\ ffn = [j \in Ffn |-> Waiting]
    /\ meta = [j \in Ffn |-> <<>>]
    /\ graphs = [j \in Ffn |-> <<>>]
    /\ hbuf = [j \in Ffn |-> {}]
    /\ ibuf = [j \in Ffn |-> {}]

ffnVars == <<ffn, meta, graphs, hbuf, ibuf>>

(* The collective of the Attention DP group (TP ranks get the same batch):
   nobody starts a serving step before all have ended the one before. *)
Agree ==
    /\ served < MaxServe
    /\ \A a \in Att : att[a].pc = "idle" /\ att[a].step = Len(plans)
    /\ \E p \in ServingPlans : plans' = Append(plans, p)
    /\ served' = served + 1
    /\ UNCHANGED <<att, ctl, a2e, e2a, ffnVars>>

(***************************************************************************)
(* An Attention rank.                                                      *)
(***************************************************************************)
PlanOf(a) == plans[att[a].step]
Thread(a) == att[a].th[att[a].turn]
Settled(a) == Len(a2e[a]) <= Buffer

(* update_state_from_dp_metadata and send_dp_metadata_list, then the forward
   starts with the first microbatch's thread *)
SendControl(a) ==
    LET n == att[a].step + 1 IN
    /\ att[a].pc = "idle"
    /\ n <= Len(plans)
    /\ ctl' = [j \in Ffn |-> IF j \in MetadataDestinations("attention", a, A, F)
                             THEN Append(ctl[j], Payload(plans[n], a, n)) ELSE ctl[j]]
    /\ att' = [att EXCEPT ![a] =
         IF plans[n].kind = "capture" THEN Idle(n)
         ELSE [pc |-> "run", step |-> n, turn |-> 0,
               th |-> [s \in 0 .. plans[n].stages - 1 |->
                          [layer |-> 1, at |-> "send", part |-> 1]]]]
    /\ UNCHANGED <<plans, served, a2e, e2a, ffnVars>>

(* the thread dbo_yield or the end of a thread hands over to *)
Other(a, th) ==
    LET o == {s \in DOMAIN th : s /= att[a].turn /\ th[s].at /= "done"}
    IN  IF o = {} THEN att[a].turn ELSE CHOOSE s \in o : TRUE

(* send_attn_output: one tensor after the other; after the last one the
   microbatch yields before it receives *)
SendPart(a) ==
    LET t == Thread(a) IN
    /\ att[a].pc = "run" /\ Settled(a) /\ t.at = "send"
    /\ a2e' = [a2e EXCEPT ![a] = Append(@,
         [step |-> att[a].step, layer |-> t.layer, stage |-> att[a].turn,
          part |-> WireParts[t.part], rows |-> OwnRows(PlanOf(a), att[a].turn, a)])]
    /\ LET last == t.part = Len(WireParts)
           th == [att[a].th EXCEPT ![att[a].turn] =
                    IF last THEN [t EXCEPT !.at = "recv"] ELSE [t EXCEPT !.part = @ + 1]]
       IN  att' = [att EXCEPT ![a].th = th,
                              ![a].turn = IF last THEN Other(a, th) ELSE @]
    /\ UNCHANGED <<plans, served, ctl, e2a, ffnVars>>

(* recv_ffn_output, into the tensor that was sent; then the next layer *)
RecvOutput(a) ==
    LET t == Thread(a)
        th == [att[a].th EXCEPT ![att[a].turn] =
                 IF t.layer < L THEN [layer |-> t.layer + 1, at |-> "send", part |-> 1]
                 ELSE [t EXCEPT !.at = "done"]]
    IN
    /\ att[a].pc = "run" /\ Settled(a) /\ t.at = "recv"
    /\ e2a[a] /= <<>>
    /\ e2a' = [e2a EXCEPT ![a] = Tail(@)]
    /\ att' = [att EXCEPT ![a] =
         IF \A s \in DOMAIN th : th[s].at = "done" THEN Idle(att[a].step)
         ELSE [att[a] EXCEPT !.th = th,
                             !.turn = IF t.layer = L THEN Other(a, th) ELSE att[a].turn]]
    /\ UNCHANGED <<plans, served, ctl, a2e, ffnVars>>

(***************************************************************************)
(* An FFN rank: the loop of ffn_worker.py takes the next payload and runs  *)
(* capture_model or execute_model for it.                                  *)
(***************************************************************************)
FSettled(j) == \A k \in Srcs(j) : Len(e2a[Peer(j, k)]) <= Buffer

(* the daemon takes the next payload when the device has been synchronised *)
Ready(j) == ffn[j].pc = "wait" /\ FSettled(j) /\ ctl[j] /= <<>>

(* the rows of every peer and stage that a payload announces *)
PeerRows(counts, j) ==
    [x \in (DOMAIN counts) \X Srcs(j) |-> NumTokens(counts[x[1]], Peer(j, x[2]), A, 1)]

BufferKeys(rows) == {<<x[1], x[2], rows[x]>> : x \in DOMAIN rows}

UpdateState_CachesAll(j, counts, capturing) ==
    LET rows == PeerRows(counts, j) IN
    /\ meta' = [meta EXCEPT ![j] = rows]
    /\ ibuf' = [ibuf EXCEPT ![j] = @ \cup IF FFNGraphs THEN BufferKeys(rows) ELSE {}]
    /\ hbuf' = [hbuf EXCEPT ![j] = @ \cup IF FFNGraphs THEN BufferKeys(rows) ELSE {}]

(* update_state_from_dp_metadata of the FFN role; buffers only with graphs *)
UpdateState(j, counts, capturing) ==
    LET rows == PeerRows(counts, j) IN
    /\ meta' = [meta EXCEPT ![j] = rows]
    /\ ibuf' = [ibuf EXCEPT ![j] = @ \cup IF FFNGraphs THEN BufferKeys(rows) ELSE {}]
    /\ hbuf' = [hbuf EXCEPT ![j] = @ \cup
                  IF FFNGraphs /\ capturing THEN BufferKeys(rows) ELSE {}]

(* make_ffn_graph_key: the counts of all DP ranks for every stage *)
GraphKey(pay) == pay.counts

(* graph_run_mode *)
Replays(j, pay) ==
    /\ pay.kind = "replay" /\ FFNGraphs
    /\ GraphKey(pay) \in DOMAIN graphs[j]

(* _ffn_forward starts, or a replay does, with the first layer's receive *)
Begin(pay, mode, rows) ==
    [pc |-> "recv", pay |-> pay, mode |-> mode, rows |-> rows, layer |-> 1,
     stage |-> 0, got |-> [k \in {x[2] : x \in DOMAIN rows} |-> <<>>]]

(* capture_model, not warmup: update_state, then the forward is recorded *)
Capture(j) ==
    /\ Ready(j)
    /\ LET pay == Head(ctl[j]) IN
       /\ pay.kind = "capture" /\ FFNGraphs
       /\ UpdateState(j, pay.counts, TRUE)
       /\ graphs' = [graphs EXCEPT ![j] =
            [g \in {GraphKey(pay)} \cup DOMAIN @ |->
               IF g = GraphKey(pay) THEN PeerRows(pay.counts, j) ELSE @[g]]]
    /\ ctl' = [ctl EXCEPT ![j] = Tail(@)]
    /\ UNCHANGED <<plans, served, att, a2e, e2a, ffn>>

(* execute_model, replay branch: the connector state is left alone *)
Replay(j) ==
    /\ Ready(j)
    /\ LET pay == Head(ctl[j]) IN
       /\ Replays(j, pay)
       /\ ffn' = [ffn EXCEPT ![j] = Begin(pay, "replay", graphs[j][GraphKey(pay)])]
    /\ ctl' = [ctl EXCEPT ![j] = Tail(@)]
    /\ UNCHANGED <<plans, served, att, a2e, e2a, meta, graphs, hbuf, ibuf>>

(* execute_model otherwise, and capture_model's warmup branch *)
Forward(j) ==
    /\ Ready(j)
    /\ LET pay == Head(ctl[j]) IN
       /\ ~(pay.kind = "capture" /\ FFNGraphs) /\ ~Replays(j, pay)
       /\ UpdateState(j, pay.counts, FALSE)
       /\ ffn' = [ffn EXCEPT ![j] = Begin(pay, "forward", PeerRows(pay.counts, j))]
    /\ ctl' = [ctl EXCEPT ![j] = Tail(@)]
    /\ UNCHANGED <<plans, served, att, a2e, e2a, graphs>>

(* recv_attn_output: one group receives every tensor of every peer *)
RecvPart(j, k) ==
    LET a == Peer(j, k) IN
    /\ ffn[j].pc = "recv" /\ FSettled(j)
    /\ Len(ffn[j].got[k]) < Len(RecvParts)
    /\ a2e[a] /= <<>>
    /\ a2e' = [a2e EXCEPT ![a] = Tail(@)]
    /\ LET got == [ffn[j].got EXCEPT ![k] = Append(@, Head(a2e[a]))]
           full == \A i \in Srcs(j) : Len(got[i]) = Len(RecvParts)
       IN  ffn' = [ffn EXCEPT ![j] = [ffn[j] EXCEPT !.got = got,
                                        !.pc = IF full THEN "compute" ELSE "recv"]]
    /\ UNCHANGED <<plans, served, att, ctl, e2a, meta, graphs, hbuf, ibuf>>

(* the experts are spread over the FFN ranks: a layer's computation is a
   collective of all of them *)
Compute ==
    /\ \A j \in Ffn : ffn[j].pc = "compute"
    /\ ffn' = [j \in Ffn |-> [ffn[j] EXCEPT !.pc = "send"]]
    /\ UNCHANGED <<plans, served, att, ctl, a2e, e2a, meta, graphs, hbuf, ibuf>>

(* the concatenated rows of a transfer, each row by the rank it came from *)
Concatenated(j) ==
    FlattenSeq([k \in 1 .. Cardinality(Srcs(j)) |->
                  [r \in 1 .. ffn[j].rows[<<ffn[j].stage, k>>] |-> Peer(j, k)]])

SplitSizes(j) == [k \in 1 .. Cardinality(Srcs(j)) |-> ffn[j].rows[<<ffn[j].stage, k>>]]

Slice_NoOffset(j, k) == SubSeq(Concatenated(j), 1, SplitSizes(j)[k])
(* where the loop over the destinations has come to *)
Starts(j) ==
    LET start[k \in 1 .. Cardinality(Srcs(j))] ==
            IF k = 1 THEN 0 ELSE start[k - 1] + SplitSizes(j)[k - 1]
    IN  start
Slice(j, k) ==
    SubSeq(Concatenated(j), Starts(j)[k] + 1, Starts(j)[k] + SplitSizes(j)[k])

Advance_StageMajor(f) ==
    IF f.layer < L
    THEN [f EXCEPT !.pc = "recv", !.layer = @ + 1, !.got = [k \in DOMAIN @ |-> <<>>]]
    ELSE IF f.stage + 1 \in DOMAIN f.pay.counts
    THEN [f EXCEPT !.pc = "recv", !.layer = 1, !.stage = @ + 1,
                   !.got = [k \in DOMAIN @ |-> <<>>]]
    ELSE Waiting

(* where _ffn_forward is after a transfer: stages within layers *)
Advance(f) ==
    IF f.stage + 1 \in DOMAIN f.pay.counts
    THEN [f EXCEPT !.pc = "recv", !.stage = @ + 1, !.got = [k \in DOMAIN @ |-> <<>>]]
    ELSE IF f.layer < L
    THEN [f EXCEPT !.pc = "recv", !.layer = @ + 1, !.stage = 0,
                   !.got = [k \in DOMAIN @ |-> <<>>]]
    ELSE Waiting

(* send_ffn_output: the slices go out in one group *)
SendOutput(j) ==
    LET f == ffn[j] IN
    /\ f.pc = "send"
    /\ e2a' = [a \in Att |->
         IF Owner(a) /= j THEN e2a[a]
         ELSE LET k == CHOOSE i \in Srcs(j) : Peer(j, i) = a
              IN  Append(e2a[a], [step |-> f.pay.step, layer |-> f.layer,
                                  stage |-> f.stage, rows |-> Slice(j, k)])]
    /\ ffn' = [ffn EXCEPT ![j] = Advance(f)]
    /\ UNCHANGED <<plans, served, att, ctl, a2e, meta, graphs, hbuf, ibuf>>

(* the FFN runner's shutdown closes the connector: the groups go, the caches
   of the connector object stay *)
Close(j) ==
    /\ served = MaxServe
    /\ \A a \in Att : att[a].pc = "idle" /\ att[a].step = Len(plans)
    /\ ffn[j].pc = "wait" /\ FSettled(j) /\ ctl[j] = <<>>
    /\ ffn' = [ffn EXCEPT ![j] = [pc |-> "closed"]]
    /\ UNCHANGED <<plans, served, att, ctl, a2e, e2a, meta, graphs, hbuf, ibuf>>

Next ==
    \/ Agree
    \/ \E a \in Att : SendControl(a) \/ SendPart(a) \/ RecvOutput(a)
    \/ \E j \in Ffn : Capture(j) \/ Replay(j) \/ Forward(j) \/ SendOutput(j) \/ Close(j)
    \/ \E j \in Ffn : \E k \in Srcs(j) : RecvPart(j, k)
    \/ Compute

(* Every rank goes on while it can: hosts and devices run; new batches need
   not arrive, so Agree has no fairness. *)
Fairness ==
    /\ \A a \in Att : WF_vars(SendControl(a) \/ SendPart(a) \/ RecvOutput(a))
    /\ \A j \in Ffn :
         WF_vars(\/ Capture(j) \/ Replay(j) \/ Forward(j) \/ SendOutput(j)
                 \/ \E k \in Srcs(j) : RecvPart(j, k))
    /\ WF_vars(Compute)

Spec == Init /\ [][Next]_vars /\ Fairness

----------------------------------------------------------------------------
(***************************************************************************)
(* Properties.                                                             *)
(***************************************************************************)
Active(j) == ffn[j].pc \in {"recv", "compute", "send"}
(* What an FFN rank receives for a layer and a stage is what its peers sent
   for that step, layer and stage, tensor by tensor and with the number of
   rows it made room for (p2p.py:460-523 against :323-390): shapes come from
   the control plane or from a captured graph, data from the wire. *)
TransfersMatch ==
    \A j \in Ffn : Active(j) =>
        \A k \in Srcs(j) : \A i \in DOMAIN ffn[j].got[k] :
            ffn[j].got[k][i] = [step |-> ffn[j].pay.step, layer |-> ffn[j].layer,
                                stage |-> ffn[j].stage, part |-> RecvParts[i],
                                rows |-> ffn[j].rows[<<ffn[j].stage, k>>]]

(* A microbatch that receives gets the output of its own layer and stage, and
   in it exactly its own rows (deepseek_v2.py:203-214, p2p.py:586-613). *)
OwnOutput ==
    \A a \in Att :
        (att[a].pc = "run" /\ Thread(a).at = "recv" /\ e2a[a] /= <<>>) =>
            Head(e2a[a]) =
              [step |-> att[a].step, layer |-> Thread(a).layer, stage |-> att[a].turn,
               rows |-> [r \in 1 .. OwnRows(PlanOf(a), att[a].turn, a) |-> a]]

(* The FFN rank replays exactly when Attention does: startup captured a graph
   for each of Attention's own, under the key a replay payload leads to
   (cuda_graph.py:104-150). *)
ReplayTogether ==
    \A j \in Ffn : Active(j) =>
        (ffn[j].mode = "replay" <=> plans[ffn[j].pay.step].kind = "replay")

(* Hidden-state receive buffers are kept for captured shapes only, so that
   their number stays bounded whatever batches arrive (p2p.py:844-856). *)
BuffersBounded ==
    \A j \in Ffn :
        hbuf[j] \subseteq UNION {BufferKeys(graphs[j][g]) : g \in DOMAIN graphs[j]}

(* Both sides of a subgroup are at the same transfer of the same step, and run
   it in the same way: neither is told by the other, each derives it from the
   payload of the control plane. *)
PeersAgree == TransfersMatch /\ ReplayTogether

(* A captured graph's receive buffers keep their addresses: no entry of
   _recv_attn_buffers is dropped or replaced while serving, and no others are
   kept (p2p.py:844-856). *)
BuffersKept == [][BuffersBounded' /\ \A j \in Ffn : hbuf[j] \subseteq hbuf'[j]]_vars

(* docs/gpu/NCCL_P2P_CONNECTOR_USER_GUIDE.md: captured buffers "are released
   on connector close" (p2p.py:226-243).  They are not: no run checks this. *)
BuffersReleased == \A j \in Ffn : ffn[j].pc = "closed" => hbuf[j] = {}

(* Every agreed step ends on every rank: no order of stages, layers and
   payloads makes the ranks wait for one another. *)
StepsEnd == \A a \in Att : (att[a].pc = "run") ~> (att[a].pc = "idle")
=============================================================================
