------------------------------ MODULE DeepEPStep ------------------------------
(***************************************************************************)
(* Steps over the DeepEP M2N connector (connectors/gpu/deepep_m2n/         *)
(* connector.py) and the routed-experts FFN runner (v1/worker/             *)
(* ffn_routed_experts_model_runner.py).  Every rank has a host, a compute  *)
(* stream and, with more than one lane, a stream for each lane.  A host    *)
(* only enqueues; an operation runs at the head of its stream once the     *)
(* operations it waits for are done.  Dispatch and combine are collectives *)
(* of afdEP (external): one runs when every rank has reached it.  Capture  *)
(* and replay keep the order of the streams; they differ from eager steps  *)
(* in that nothing blocks the host.                                        *)
(***************************************************************************)
EXTENDS DeepEPPlan, SequencesExt

CONSTANTS
    Attn, FFN,      \* Attention and FFN ranks
    Lanes,          \* num_lanes
    Layers,         \* MoE layers
    Agreed,         \* what the handshake agreed on
    Counts,         \* bound: token counts of a step
    Blocks,         \* bound: memory blocks for hidden states on Attention
    MaxSteps        \* bound: steps

ASSUME SizesAssumption ==
    /\ {Attn, FFN, Layers, MaxSteps} \subseteq Nat \ {0}
    /\ Lanes \in 1 .. MaxLanes
    /\ Blocks \subseteq Nat \ {0}

Attns == {<<"attention", r>> : r \in 0 .. Attn - 1}
Ffns == {<<"ffn", r>> : r \in 0 .. FFN - 1}
Ranks == Attns \cup Ffns
Sender == <<"attention", 0>>
Main == Lanes
Stages == 0 .. Lanes - 1
LaneStream(s) == IF Lanes = 1 THEN Main ELSE s
Streams == {LaneStream(s) : s \in Stages} \cup {Main}

VARIABLES
    steps,      \* steps agreed so far
    control,    \* payloads on their way to each FFN rank
    plan,       \* stage_plans
    pc,         \* position of a host in its step
    stages,     \* stages of its step, 0 between steps
    blocked,    \* the event a host waits for
    blocking,   \* whether a combine blocks the host
    queue,      \* operations in a stream
    count,      \* operations a stream has done
    pending,    \* _pending_combines of an Attention rank
    inUse,      \* until when a lane uses a block of its memory
    fork,       \* _step_fork of an FFN rank: an event or None
    joined,     \* its _lanes_joined
    done,       \* its events: experts_done, and _lane_done
    memory,     \* hidden states in the blocks of an Attention rank
    rows,       \* rows an FFN lane received
    out,        \* expert output of an FFN lane
    combined,   \* what a lane of an Attention rank combined
    result      \* what a stage of it got

hostVars == <<plan, pc, stages, blocked, pending, inUse, fork, joined, done>>
dataVars == <<memory, rows, out, combined, result>>
vars == <<steps, control, blocking, hostVars, queue, count, dataVars>>

Nothing == [rank |-> None, stage |-> -1, layer |-> 0]
NoEvent == [stream |-> Main, n |-> 0]
Each(S, x) == [e \in S |-> x]

Init ==
    /\ steps = 0
    /\ control = Each(Ffns, <<>>)
    /\ plan = Each(Ranks, <<>>)
    /\ pc = Each(Ranks, 1) /\ stages = Each(Ranks, 0)
    /\ blocked = Each(Ranks, NoEvent)
    /\ blocking \in BOOLEAN
    /\ queue = Each(Ranks, Each(Streams, <<>>))
    /\ count = Each(Ranks, Each(Streams, 0))
    /\ pending = Each(Attns, {}) /\ inUse = Each(Attns, Each(Blocks, NoEvent))
    /\ fork = Each(Ffns, None) /\ joined = Each(Ffns, {})
    /\ done = Each(Ffns, [experts |-> Each(Stages, NoEvent), lanes |-> {}])
    /\ memory = Each(Attns, Each(Blocks, Nothing))
    /\ rows = Each(Ffns, Each(Stages, Each(Attns, Nothing)))
    /\ out = Each(Ffns, Each(Stages, Each(Attns, Nothing)))
    /\ combined = Each(Attns, Each(Stages, Each(Ffns, Nothing)))
    /\ result = Each(Attns, Each(Stages, None))

----------------------------------------------------------------------------
(***************************************************************************)
(* Streams.                                                                *)
(***************************************************************************)
(* the event of the k-th operation enqueued from now on; 0: all so far *)
EventOf(r, stream, k) ==
    [stream |-> stream, n |-> count[r][stream] + Len(queue[r][stream]) + k]
Reached(r, event) == count[r][event.stream] >= event.n

(* an operation; a dispatch has a bucket, and the memory of Attention a block *)
Op(kind, stream, s, l, after) ==
    [kind |-> kind, on |-> stream, stage |-> s, layer |-> l, after |-> after,
     bucket |-> 0, block |-> 0]
Put(q, op) == [q EXCEPT ![op.on] = Append(@, op)]
Enqueue(r, op) == queue' = [queue EXCEPT ![r] = Put(@, op)]
EnqueueBoth(r, op, next) == queue' = [queue EXCEPT ![r] = Put(Put(@, op), next)]

(* waits between streams; with one lane there is one stream *)
Wait(event) == IF Lanes = 1 THEN {} ELSE {event}

(* What the layers of a step make a host do, in order.  Attention in the
   order in which its microbatches yield, the FFN in that of _ffn_forward:
   the result of a stage goes back just before its next layer. *)
Round(s, l) ==
    (IF l > 1 THEN <<[call |-> "back", stage |-> s, layer |-> l - 1]>> ELSE <<>>)
      \o (IF l <= Layers THEN <<[call |-> "forth", stage |-> s, layer |-> l]>> ELSE <<>>)
AttnCalls ==
    [n \in 1 .. Lanes |-> FlattenSeq([i \in 1 .. n * (Layers + 1) |->
                              Round((i - 1) % n, (i - 1) \div n + 1)])]
FfnCalls_SendAtOnce ==
    [n \in 1 .. Lanes |-> FlattenSeq([i \in 1 .. n * Layers |->
        <<[call |-> "forth", stage |-> (i - 1) % n, layer |-> (i - 1) \div n + 1],
          [call |-> "back", stage |-> (i - 1) % n, layer |-> (i - 1) \div n + 1]>>])]
FfnCalls ==
    [n \in 1 .. Lanes |-> FlattenSeq([i \in 1 .. n * (Layers + 1) |->
                              Round((i - 1) % n, (i - 1) \div n + 1)])]

Program(r) == IF r \in Attns THEN AttnCalls[stages[r]] ELSE FfnCalls[stages[r]]
Running(r) == stages[r] > 0 /\ Reached(r, blocked[r])
At(r, call) == Running(r) /\ pc[r] <= Len(Program(r)) /\ Program(r)[pc[r]].call = call
Call(r) == Program(r)[pc[r]]
Ended(r) == Running(r) /\ pc[r] > Len(Program(r))
Advance(r, waits, event) ==
    /\ pc' = [pc EXCEPT ![r] = @ + 1]
    /\ blocked' = [blocked EXCEPT ![r] = IF waits THEN event ELSE NoEvent]

----------------------------------------------------------------------------
(***************************************************************************)
(* Control plane.                                                          *)
(***************************************************************************)
(* update_state_from_dp_metadata *)
StagePlans(counts, graph) ==
    [s \in 0 .. Len(counts) - 1 |-> PlanStage(Agreed, counts[s + 1], Attn, graph)]

(* The Attention ranks agree on a step (external) and update their plans;
   send_dp_metadata_list: rank 0 sends the payload to every FFN rank. *)
BeginStep ==
    /\ steps < MaxSteps /\ \A a \in Attns : stages[a] = 0
    /\ \E n \in 1 .. Lanes, graph \in BOOLEAN : \E counts \in [1 .. n -> Counts] :
         /\ \A s \in 1 .. n : ~Refused(Agreed, counts[s], Attn)
         /\ plan' = [r \in Ranks |-> IF r \in Attns THEN StagePlans(counts, graph) ELSE plan[r]]
         /\ control' = [f \in Ffns |-> Append(control[f], [counts |-> counts, graph |-> graph])]
         /\ stages' = [r \in Ranks |-> IF r \in Attns THEN n ELSE stages[r]]
    /\ steps' = steps + 1
    /\ UNCHANGED <<blocking, pc, blocked, pending, inUse, fork, joined, done, queue, count,
                   dataVars>>

(* recv_dp_metadata_list, and the update of an FFN rank, which may have to
   run a graph step eagerly *)
ReceiveControl(f) ==
    /\ stages[f] = 0 /\ control[f] /= <<>>
    /\ LET payload == Head(control[f])
       IN  /\ \E graph \in {payload.graph, FALSE} :
                plan' = [plan EXCEPT ![f] = StagePlans(payload.counts, graph)]
           /\ stages' = [stages EXCEPT ![f] = Len(payload.counts)]
    /\ control' = [control EXCEPT ![f] = Tail(@)]
    /\ UNCHANGED <<steps, blocking, pc, blocked, pending, inUse, fork, joined, done, queue,
                   count, dataVars>>

----------------------------------------------------------------------------
(***************************************************************************)
(* Attention.                                                              *)
(***************************************************************************)
(* _live_stage_idx: the microbatch that runs, not the one that was traced *)
LiveStage(r, s) == IF stages[r] > 1 THEN s ELSE 0

KeepAlive_None(r, s) == NoEvent
(* _keep_alive_on: a block is in use until the lane has done the dispatch *)
KeepAlive(r, s) == IF Lanes = 1 THEN NoEvent ELSE EventOf(r, LaneStream(s), 1)

(* the allocator hands out a block no stream uses *)
Free(r) == {b \in Blocks : Reached(r, inUse[r][b])}
Allocate(r) == IF Free(r) = {} THEN 0 ELSE Min(Free(r))

(* _dispatch, with the bucket of the stage's plan *)
DispatchOf(r, s, l, after) ==
    [Op("dispatch", LaneStream(s), s, l, after) EXCEPT !.bucket = plan[r][s].bucket]

(* dispatch_attention, after the layer that filled block b *)
DispatchAttention(a, s, l, b) ==
    [DispatchOf(a, s, l, Wait(EventOf(a, Main, 1))) EXCEPT !.block = b]

(* combine_attention: on the lane, then the copy *)
CombineAttention(a, s, l) ==
    EnqueueBoth(a, Op("combine", LaneStream(s), s, l, {}),
                   Op("copy", Main, s, l, Wait(EventOf(a, LaneStream(s), 1))))

(* A layer computes the hidden states of a stage into a free block, and
   send_attn_output dispatches them, which raises when the stage has not
   combined yet. *)
SendAttnOutput(a) ==
    /\ At(a, "forth")
    /\ LET l == Call(a).layer
           s == LiveStage(a, Call(a).stage)
           lane == LaneStream(s)
           dispatched == EventOf(a, lane, IF Lanes = 1 THEN 2 ELSE 1)
       IN  /\ s \notin pending[a]
           /\ LET b == Allocate(a)
              IN
                /\ b \in Blocks
                /\ EnqueueBoth(a, [Op("attention", Main, Call(a).stage, l, {}) EXCEPT !.block = b],
                                  DispatchAttention(a, s, l, b))
                /\ inUse' = [inUse EXCEPT ![a][b] = KeepAlive(a, s)]
           /\ pending' = [pending EXCEPT ![a] = @ \cup {s}]
           /\ Advance(a, plan[a][s].sync, dispatched)
    /\ UNCHANGED <<steps, control, blocking, plan, stages, fork, joined, done, count, dataVars>>

RecvFfnOutput(a) ==
    /\ At(a, "back")
    /\ LET s == LiveStage(a, Call(a).stage)
       IN  /\ s \in pending[a]
           /\ CombineAttention(a, s, Call(a).layer)
           /\ pending' = [pending EXCEPT ![a] = @ \ {s}]
           /\ Advance(a, blocking, EventOf(a, LaneStream(s), 1))
    /\ UNCHANGED <<steps, control, blocking, plan, stages, inUse, fork, joined, done, count,
                   dataVars>>

----------------------------------------------------------------------------
(***************************************************************************)
(* FFN.                                                                    *)
(***************************************************************************)
(* _join_step: a lane waits once for what came before the step *)
StepFork(f) == IF fork[f] = None THEN EventOf(f, Main, 0) ELSE fork[f]
Join(f, s) == IF s \in joined[f] THEN {} ELSE Wait(StepFork(f))

RunExperts(s, l, received) == Op("experts", Main, s, l, Wait(received))

(* recv_attn_output and run_experts.  A host that waits for the counts does
   so before the experts, which wait for the dispatch in any case. *)
RecvAttnOutput(f) ==
    /\ At(f, "forth")
    /\ LET s == Call(f).stage
           received == EventOf(f, LaneStream(s), 1)
       IN  /\ EnqueueBoth(f, DispatchOf(f, s, Call(f).layer, Join(f, s)),
                             RunExperts(s, Call(f).layer, received))
           /\ fork' = [fork EXCEPT ![f] = StepFork(f)]
           /\ joined' = [joined EXCEPT ![f] = @ \cup {s}]
           /\ done' = [done EXCEPT ![f].experts[s] = EventOf(f, Main, IF Lanes = 1 THEN 2 ELSE 1)]
           /\ Advance(f, plan[f][s].sync, received)
    /\ UNCHANGED <<steps, control, blocking, plan, stages, pending, inUse, count, dataVars>>

ExpertsDone(f, s) == Wait(done[f].experts[s])

(* send_ffn_output waits for the experts of its own lane only *)
SendFfnOutput(f) ==
    /\ At(f, "back")
    /\ LET s == Call(f).stage
           sent == EventOf(f, LaneStream(s), 1)
       IN  /\ Enqueue(f, Op("combine", LaneStream(s), s, Call(f).layer, ExpertsDone(f, s)))
           /\ done' = [done EXCEPT ![f].lanes = {e \in @ : e.stream /= sent.stream} \cup {sent}]
           /\ Advance(f, blocking, sent)
    /\ UNCHANGED <<steps, control, blocking, plan, stages, pending, inUse, fork, joined, count,
                   dataVars>>

(* synchronize_lanes, and the end of the step; an Attention rank just ends.
   With one lane the events waited for are of the same stream: no join. *)
EndStep(r) ==
    /\ Ended(r)
    /\ IF r \in Attns THEN UNCHANGED <<queue, fork, joined, done>>
       ELSE /\ IF Lanes = 1 THEN UNCHANGED queue
               ELSE Enqueue(r, Op("join", Main, 0, 0, done[r].lanes))
            /\ done' = [done EXCEPT ![r].lanes = {}]
            /\ fork' = [fork EXCEPT ![r] = None]
            /\ joined' = [joined EXCEPT ![r] = {}]
    /\ pc' = [pc EXCEPT ![r] = 1] /\ stages' = [stages EXCEPT ![r] = 0]
    /\ blocked' = [blocked EXCEPT ![r] = NoEvent]
    /\ UNCHANGED <<steps, control, blocking, plan, pending, inUse, count, dataVars>>

----------------------------------------------------------------------------
(***************************************************************************)
(* Devices.                                                                *)
(***************************************************************************)
Runnable(r, st) ==
    queue[r][st] /= <<>> /\ \A e \in Head(queue[r][st]).after : Reached(r, e)
Collectives == {"dispatch", "combine"}

(* an operation of one rank: a layer, the experts, a copy, a join *)
Compute(r, st) ==
    /\ Runnable(r, st) /\ Head(queue[r][st]).kind \notin Collectives
    /\ LET op == Head(queue[r][st])
       IN  /\ memory' = IF op.kind /= "attention" THEN memory
                        ELSE [memory EXCEPT ![r][op.block] =
                                [rank |-> r, stage |-> op.stage, layer |-> op.layer]]
           /\ out' = IF op.kind /= "experts" THEN out
                     ELSE [out EXCEPT ![r][op.stage] = rows[r][op.stage]]
           /\ result' = IF op.kind /= "copy" THEN result
                        ELSE [result EXCEPT ![r][op.stage] =
                                [layer |-> op.layer, parts |-> combined[r][op.stage]]]
    /\ queue' = [queue EXCEPT ![r][st] = Tail(@)]
    /\ count' = [count EXCEPT ![r][st] = @ + 1]
    /\ UNCHANGED <<steps, control, blocking, hostVars, rows, combined>>

(* afdEP's dispatch and combine of a lane: all ranks together, with one
   bucket.  The buffers of an FFN lane are used again at once. *)
Collective(s) ==
    LET lane == LaneStream(s)
        op(r) == Head(queue[r][lane])
    IN  /\ \A r \in Ranks : Runnable(r, lane) /\ op(r).kind \in Collectives
        /\ \A r \in Ranks : op(r).kind = op(Sender).kind /\ op(r).stage = s
        /\ op(Sender).kind = "dispatch" => \A r \in Ranks : op(r).bucket = op(Sender).bucket
        /\ rows' = IF op(Sender).kind = "combine" THEN rows
                   ELSE [f \in Ffns |-> [rows[f] EXCEPT ![s] =
                            [a \in Attns |-> memory[a][op(a).block]]]]
        /\ combined' = IF op(Sender).kind = "dispatch" THEN combined
                       ELSE [a \in Attns |-> [combined[a] EXCEPT ![s] =
                                [f \in Ffns |-> out[f][s][a]]]]
        /\ queue' = [r \in Ranks |-> [queue[r] EXCEPT ![lane] = Tail(@)]]
        /\ count' = [r \in Ranks |-> [count[r] EXCEPT ![lane] = @ + 1]]
        /\ UNCHANGED <<steps, control, blocking, hostVars, memory, out, result>>

Finished ==
    /\ steps = MaxSteps /\ \A r \in Ranks : stages[r] = 0 /\ \A st \in Streams : queue[r][st] = <<>>
    /\ \A f \in Ffns : control[f] = <<>>

Next ==
    \/ BeginStep
    \/ \E f \in Ffns : ReceiveControl(f) \/ RecvAttnOutput(f) \/ SendFfnOutput(f)
    \/ \E a \in Attns : SendAttnOutput(a) \/ RecvFfnOutput(a)
    \/ \E r \in Ranks : EndStep(r) \/ \E st \in Streams : Compute(r, st)
    \/ \E s \in Stages : Collective(s)

----------------------------------------------------------------------------
(***************************************************************************)
(* Properties.                                                             *)
(***************************************************************************)
(* What a stage gets back is, from every FFN rank, the expert output of the
   hidden states it dispatched itself: no lane, allocator or event lets an
   operation read what another stage or layer has written
   (connector.py:900-909, 1393-1404). *)
OwnOutput ==
    \A a \in Attns, s \in Stages : result[a][s] /= None =>
        \A f \in Ffns :
            result[a][s].parts[f] = [rank |-> a, stage |-> s, layer |-> result[a][s].layer]
=============================================================================
