# Verification of the AFD plugin

The AFD plugin splits a vLLM deployment into *Attention* ranks, which keep the
requests, the KV cache and the attention layers, and *FFN* ranks, which keep the
feed-forward (MoE) layers. For every layer an Attention rank sends its hidden
states to an FFN rank and takes the output back. Three connectors carry them:
synchronous P2P over NCCL (CUDA), the CAM operators (Ascend; synchronous CAMP2P
and asynchronous Async CAM), and DeepEP M2N (CUDA). An FFN rank has no scheduler:
a daemon thread in its worker waits for what Attention sends and computes.

This directory holds TLA+ modules of the plugin's own control logic, the TLC
configurations that check them on small instances, and TLAPS proofs. `PROJECT.json`
maps every definition to the lines it models, and lists the runs, their mutants,
the hazards, the findings and the theorems. Paths below are relative to
`src/afd_plugin/`.

## Inventory

| Part of the system | State it keeps | Operations | Talks to | What is hard | What makes it correct |
|---|---|---|---|---|---|
| FFN EngineCore daemon (`compat/patches/engine_core.py`) | shutdown state | start RPC, poll for the loop's failure, shutdown | the worker (calls), the executor | swallows exceptions of its own stop | a failure of the loop is reported to somebody |
| CUDA FFN worker (`v1/worker/ffn_worker.py`) | thread, event, loop error, native resources | start, loop, stop, shutdown | control plane, runner | a receive that cannot be cancelled; a join that times out | quiet, terminating stops; nothing released under a live thread |
| P2P control plane (`connectors/gpu/p2p.py`, `connectors/metadata.py`) | `_closed`, process group, last metadata, buffers | send and receive metadata, close | both roles | close races the receive at every read; a receive that returns garbage after an abort | no step on garbage; metadata, buffers and wire agree |
| P2P data plane (`connectors/gpu/p2p.py`, `model_executor/models/deepseek_v2.py`) | receive buffers, output splits | send and receive hidden states | both roles | untagged transfers pair by order only; two microbatches; several peers | each rank gets its own rows, and every step ends |
| GPU FFN runner (`v1/worker/ffn_model_runner.py`, `cuda_graph.py`) | graphs by key | eager, warmup, capture, replay | control and data plane | a replay uses captured addresses and shapes | both roles replay together |
| Rank mapping (`distributed/topology.py`, `v1/worker/ffn_metadata.py`) | none | rank arithmetic | every process, each on its own | floor divisions of uneven sizes | the parts each process computes fit together |
| Attention runners (`v1/worker/attention_model_runner_v2.py`, `npu/attention_model_runner_v2.py`, `attention_metadata.py`) | flags, sidecar, suppression | execute, capture, the seams in native code | control plane, native vLLM | instance state set in one seam and read in another; native code makes more contexts than model runs | one announcement for a run and none without one |
| GPU DBO dispatch (`compat/patches/gpu_mrv2_ubatching.py`, `v1/worker/dbo.py`) | none | agree on the batch of a step, split it | Attention runner | padding, ranks that disagree | all ranks run the same plan |
| Ascend DBO threads (`compat/patches/npu/mrv2_ubatching.py`, `v1/worker/npu/ubatch_runner.py`, `model_executor/models/npu/async_cam_dbo.py`) | contexts, events, barrier, receive hooks | enter, yield, exit, abort | Async CAM's one transfer window | two threads, failures anywhere | the window is never overwritten, nobody stays parked |
| Ascend FFN worker (`v1/worker/npu/ffn_worker.py`) | as the CUDA worker | as the CUDA worker | Async runner, connector | two ways to stop, by mode | drains before it releases, or closes quietly |
| Async FFN runner (`v1/worker/npu/async_ffn_model_runner.py`) | mode, failure, executors | startup, connector-driven steps, shutdown | Async CAM | startup fails half way | a failed startup keeps what the device may use |
| Two-stream executor (`v1/worker/npu/async_ffn_two_stream.py`) | two slots, their events, sequence | submit, wait, capture, close | two device streams | host and two streams share the slots | no slot is overwritten before its send |
| Async graph startup (`async_cam_startup.py`, `connectors/npu/async_cam.py`) | the rendezvous Store | plan, phases, fail, service | all ranks | any order, timeouts, latecomers | agreement before the collective; Attention serves a ready world only |
| Async CAM transfers (`connectors/npu/async_cam.py`, `async_cam_layout.py`, `model_executor/models/npu/deepseek_v2_async_cam_forward.py`, `csrc/npu/ascend_kernels/afd_async_*`) | pending receives; windows and flags on the device | dispatch and combine, send and receive of both roles; layouts | device operators | groups served in any order, a batch split over several receives, windows reused by flags alone | every row is computed once by each of its experts and comes back to its token; every dispatch is answered |
| CAMP2P (`connectors/npu/camp2p.py`, `v1/worker/npu/attention_model_runner_v2.py`) | groups, windows, operation counters, buffers, graphs | create groups, send, receive, pad, capture, replay | device operators | each side derives the layout of a window from its own counts; overlapping collective groups | windows are read as they were written, both roles replay together, every step ends |
| DeepEP M2N (`connectors/gpu/deepep_m2n/`, `v1/worker/ffn_routed_experts_model_runner.py`) | adopted agreement, lanes, handles, stage plans | handshake, model exchange, lanes, precompile; dispatch, combine | DeepEP, both roles | collectives whose shape each rank chooses by itself; streams, events and the caching allocator; a rank that raises in the startup | all ranks plan alike and hold what is routed to them; each stage gets its own output; startups and steps end |
| Configuration and launch (`config.py`, `validation.py`, `compat/npu/`, `compat/patches/config_validation.py`, `npu/*.py`) | the VllmConfig of each process, EngineArgs, cached derived configuration | parse, validate, borrow and restore a backend, revalidate, choose worker and model | vLLM, Ascend | the same validation runs in several processes with different patches; two servers checked apart must fit together | what was asked for survives; no accepted server is refused later; a joined world fits |
| Attention DP engines (`compat/patches/async_dp_engine.py`, `engine_core.py`) | wave, running, shutdown flags, queues | start, busy loop, wake-up, signals | coordinator, client | whether engines step in waves is decided in four places; signals during construction | requests finish, engines agree on the wave, a signal ends an engine |
| Model integration (`model_executor/`) | weights | layer loops, tensor computation | data planes | order of transfers; numerics | the order of sends and receives is part of `P2PStep`, `AsyncCAM`, `CAMP2PStep`; numerics are not modelled |
| CAM device operators (`csrc/`) | device windows and flags | kernels | devices | flags raised and polled by several cores and ranks | the protocol of the asynchronous ones is part of `AsyncCAM`; vector code is not modelled |
| Proxy server (`tools/proxy_server.py`) | request counters | routing | HTTP | - | development tool, not modelled |

How they interact: the EngineCore calls its worker; the worker's daemon thread
calls the runner; the runner calls the connector; connectors of the two roles
exchange messages. On an Attention rank native vLLM calls back into the plugin at
patched symbols. The ranks of an Async CAM world share one Store.

## Modules

| Module | Models | State and actions against the code |
|---|---|---|
| `FFNEngine` | EngineCore's FFN branch | `main` is the program counter of the engine and of the worker calls it makes; a worker module extends it and adds the steps inside a call |
| `DaemonLifecycle` | abstract | what a worker promises of its loop: release after the end, no clean report of a failed loop, stuck loops reported with resources kept |
| `FFNWorker` | CUDA worker, control-plane receive and close | one action per read or write of shared state: `CloseMark`, `CloseAbort`, `CloseUnregister`, `CloseForget` against `ReadGroup`, `CheckClosed`, `RecvSize`, `CheckAfterWait`, ... |
| `NPUFFNWorker` | Ascend worker, runner life cycle | both stop paths; `kind` is the configured execution mode |
| `FFNTwoStream` | two-stream executor | host actions enqueue; `StartCompute` .. `EndSend` are the device; a wait is the number of operations it was enqueued behind |
| `GraphStartup` / `MCGraphStartup` | Store negotiation and phases | a step is one Store operation; every rank has a stage (phase) and a step inside it |
| `Topology` | `topology.py`, `ffn_metadata.py`, row counts | pure operators, no state |
| `RankMapping` | the sizes of a deployment | a state is one deployment (A, F, DP) and one vector of token counts; checked inside `Deployment`, which gives it the sizes of a joined world |
| `P2PStep` / `MCP2PStep` | steps over P2P, both roles; extends `Topology` | each rank has its place in the layer loop; `ctl`, `a2e`, `e2a` are the wires; `meta`, `hbuf`, `ibuf`, `graphs` are what an FFN rank keeps |
| `AttentionRunner` / `MCAttentionRunner` | `execute_model`, `capture_model` and their seams | `native.at` is where native code is; each seam is an action; `ahead` is what was sent and not run |
| `UBatchHandoff` | two microbatch threads | `pc` of each thread, the barrier, the events, the receive hooks, `window` the transfers not yet taken |
| `CAMP2PStep` / `MCCAMP2PStep` | groups, windows, control plane, graphs and steps over CAMP2P | `todo` is what groups a rank still creates; a window has a flag and a content, `magic` counts a rank's operations on a group, and an operation runs when its peer's flag equals its own count |
| `AsyncCAM` / `MCAsyncCAM` | Attention forwards and the FFN receive loop over Async CAM | one action per device operator of a rank: dispatch send, dispatch receive, combine send, combine receive, each over windows and flags; an FFN rank has a cursor over the groups |
| `DeepEPPlan` | options, plans, ladder, handshake checks of DeepEP | pure operators, no state |
| `DeepEPStep` | steps over DeepEP; extends `DeepEPPlan` | each rank has a host that enqueues and streams that run; `afdEP` collectives run when every rank has reached them; a block of memory may be handed out again |
| `DeepEPStartup` / `MCDeepEPStep` | connector construction, handshake, model exchange, control group, lanes, precompile; extends `DeepEPStep` | `phase` of each rank; a collective needs every rank in it, a rank waiting for one that failed times out |
| `LaunchConfig` | the AFD section, its validators, the choice of worker, model and runner | a configuration is a record, a check a predicate that is false where the code raises |
| `Launch` | both servers from command line to AFD world; extends `LaunchConfig` | `stage` of each server: `BorrowBackend`, then `CreateEngineConfig` or `BuildRaises` (the call as it returns or raises), `StartChild`, `Revalidate`, `InitDevice`, then `JoinWorld` for both |
| `AttentionEngines` | the Attention engine processes; extends `Launch` | `at` of each engine; coordinator and client are external |
| `Deployment` / `MCDeployment` | `Launch`, `AttentionEngines` and `RankMapping` together | a launch, then the world's rank mapping, then requests, failures and signals |
| `*Proofs` | - | the theorems of the module they extend |

`FFNEngine` is composed with a worker by extension: engine and worker main thread
are one thread. `P2PStep` composes the ranks of both roles with the operators of
`Topology`. `FFNWorker` and `NPUFFNWorker` implement `DaemonLifecycle`.
`DeepEPStartup` continues with the steps of `DeepEPStep` once all ranks are ready, with
the constants of the steps equal to what the ranks agreed on. `Deployment` runs the
engines on the configuration that the launch left them with, so a setting lost on the
way shows in how engines step. `UBatchHandoff` and `AsyncCAM` share a boundary: the
former shows that the transfers of one rank follow one another, which the latter assumes.

Names ending in `_Something` directly above a definition (`JoinTimeout_Never`) are
broken variants of it. No specification uses them; each stands for a plausible bug
and shows that a property notices it.

## Runs

| Run | Question and result |
|---|---|
| `deployment` | Every deployment of two servers that differs from a fitting one in a setting, from its command lines to its world: what was asked for survives, and the arguments have their backend again also when vLLM raises (`ConfigSurvives`), no server is refused after it was accepted (`LaunchNotUndone`), a joined world fits (`JoinedWorldFits`), and the rank mapping of every P2P world does (`SubgroupsFit`, `AggregateMatchesWire`). Two of them then serve: requests finish, engines agree on the wave, a signal ends an engine whenever it comes. |
| `p2p_step` | Startup captures both descriptors, then one eager, split or replayed step: transfers pair up and both roles replay together (`PeersAgree`), outputs return to their ranks, captured addresses stay and other buffers go (`BuffersKept`), every step ends. |
| `camp2p_step` | Groups, warmup, capture (one key twice), then an eager, split or replayed step over CAM windows. |
| `camp2p_live_stages` | *Violated.* See Findings. |
| `async_cam` | Two groups through a MoE, a dense and a MoE layer, in the graph warmup or in service, with and without sequence parallelism, while the FFN ranks take the groups in turn: complete and own rows, windows reused in turn, every dispatch answered. |
| `deepep_step` | Startup of two deployments and of all that differ from them in a setting of one rank, or of all ranks alike, with loads and buffers that fail: ranks that come up agree (`RanksAgree`). One deployment then steps, eager and in graphs: `OwnOutput`, and every startup and step ends. |
| `ffn_worker` | Every interleaving of start, loop, three stops, join timeouts, close and receive: the stop stores no failure and no step runs on an aborted receive (`AbortedReceiveHarmless`), every shutdown ends, and the worker implements `DaemonLifecycle`. |
| `npu_ffn_worker` | All five execution modes. Draining ones release nothing before the receiver has left and implement `DaemonLifecycle`; a failed startup keeps what may be in use; closing ones stop quietly (`StopSafe`) and get the receiver out (`StopsEnd`). |
| `two_stream` | Slots, events, warmup, capture, failing native calls, close. |
| `graph_startup` | Agreeing and disagreeing plans and transports, with crashes, exceptions and timeouts anywhere: no group in an incompatible world, or before every rank has shown its plan and passed its checks (`AgreedBeforeGroup`), Attention serves a ready world only, latecomers see a published failure, every rank ends. |
| `attention_runner` | Up to four calls in any order: steps, captures of any prefix, idle steps, exceptions anywhere. |
| `ubatch_handoff` | Two runs of two layers with up to two exceptions anywhere: the device and the window are handed over (`HandedOver`), a failure stops the peer before its next send (`FailureContained`), everyone ends. |

### Bounds, and why they are enough

* `FFNWorker`: 4 fragments are two control payloads, so that a second receive
  follows a complete step; three stops and all join outcomes are in the model.
* `FFNTwoStream`: two slots; 3 layers make an odd batch, 3 warmups wrap both slots
  and 9 transactions reach a reused slot after a capture. The proofs are for all values.
* `GraphStartup`: one Attention and two FFN ranks, the least in which FFN ranks can
  disagree. Eight plans, one for each check of the negotiation, against the full plan; and another
  transport signature of Attention. Every rank but the Store's host may die (`Fragile`).
* `Deployment`: all P2P sizes up to 6 Attention and 6 FFN ranks with every DP size of
  them and counts up to 2 (six has all remainders up to five; proved for all sizes). For
  each connector one fitting pair of servers, every pair that differs from it in one
  setting of one server, in the settings that meet in one check (microbatches, backend,
  FlashComm, TP; speculation, model and quantisation; ...), or in one setting of both.
  Serving is bounded to a synchronous and an asynchronous pair, two engines, two requests
  of two steps: two waves follow one another and overlap. Signals and failed constructions
  come in the asynchronous one; in a synchronous wave an engine that exits leaves its peers
  in a collective, which AFD does not handle. Pairs for which Ascend puts an operator's
  backend back over the one it settled are left out (`KeepsUnsettledBackend`, see Other
  disagreements).
* `P2PStep`: three Attention and two FFN ranks make subgroups of different size;
  two layers and two stages distinguish layer order from stage order; counts 1 and 2
  differ between the peers of one FFN rank. Input ids travel with the hidden states.
  One serving step follows four (eight, with the warmups' pairs) startup steps, so a
  buffer or a metadata left by an earlier step is there to be misused.
  `Buffer = 1`: a send completes once the transport has taken it. With a strict
  rendezvous (0) two microbatches that send before they receive would wait for one
  another; NCCL's channels buffer at least one message, and that is assumed.
* `CAMP2PStep`: four Attention and two FFN ranks, DP 4: each FFN rank has two strided
  peers with different counts. Two layers and two microbatches reuse every window; one
  graph key is captured twice, as memory profiling does. The other run has DP 2, so that
  two DP ranks meet in one FFN rank's group and may choose different splits.
* `AsyncCAM`: two groups of TP 2 and two FFN ranks of two experts; three tokens of TopK 2
  make one padded row per group, uneven experts, and more rows (`Cap` 4) than one receive takes, so
  a batch is split. A dense layer between two MoE layers changes the token layout and back; the
  draft layer has an id of its own. `Depth` 1: one work item in flight. With two streams an
  FFN rank may hold two; `two_stream` checks that executor.
* `DeepEPStep`: two lanes, two layers and two blocks of memory are the least in which lanes overlap,
  a buffer of one layer is there in the next, and a block is handed out while another
  lane reads it. A stage of one token needs no host synchronisation, one of three does.
  The startup also has a deployment of two FFN and two Attention ranks with TP 2.
* `AttentionRunner`: two one-stage and two two-stage graphs with one size in
  common (6): up to seven tokens are fewer than the smallest graph, more than the
  largest one-stage graph, and two of them would pad the first stage of a two-stage one.
* `UBatchHandoff`: two layers are the least with a loop; a second run finds what
  the first one left; two faults let the cleanup of one fail.

Deadlock is checked in `ffn_worker`, `npu_ffn_worker`, `graph_startup` and `async_cam`.
The other cfgs turn it off because the modelled system may stop: a refused launch, an
executor that is closed or dead, a failed startup, or a bound on the calls or steps that is used up. There
`BatchCompletes`, `StepsEnd`, `EveryoneEnds` and `RequestsFinish` say that it does not stop earlier.

### Fairness

Every thread that can move is scheduled (weak fairness of a thread's steps), because
the operating system and the device streams do so. There is none for what may never
happen: the arrival of work, the end of a model step in the workers (`Receive`,
`StepEnds`), the next agreed step (`Agree`), a shutdown request, exceptions, crashes.
In `GraphStartup` each rank's clock (`Tick`) is fair: a wait reaches its deadline.
`P2PStep`, `CAMP2PStep`, `AsyncCAM` and `UBatchHandoff` model no lost peer, so device transfers
complete; in `AsyncCAM` a group begins forward after forward, which is the harder case for
the others, and the condition is one for a data-parallel group, whose ranks need one another in
every transfer. In `DeepEPStep` every behaviour is
finite, so fairness of the whole next-state relation says just that the system goes on; a
timeout of the startup is part of it. In `Deployment` only the engines, coordinator and
client are fair, together: an idle engine has no step, so nobody is starved by it.

### Abstractions worth knowing

* External parts are modelled by the contract the code relies on: the Store is
  linearizable and outlives the ranks; `torch.distributed` gives a receive that an
  abort makes return, with any content; a stream runs in order; a barrier is
  `threading.Barrier`; native vLLM decides the order of seams inside a call.
* `P2PStep` merges a rank's host order and its stream order: the host issues
  operations in the order in which the stream runs them. A capture records
  operations and moves nothing. Tensors are sequences naming each row's rank.
* `P2PStep` assumes that both roles are started with the same graph setting
  (`GraphsAssumption`). The code does not check that; it is a listed hazard.
* `UBatchHandoff`: `abort_pending_run` is the finish of a parked run. A new run
  begins only when the threads of the earlier one have ended. A device error before
  `__enter__` tells nobody: only the barrier's timeout ends the run, and it does.
* `AttentionRunner` models a data-parallel size of 1; the agreement between DP ranks is `Agree` of
  `P2PStep`. The padding guard of the dispatch lets a batch of exactly half the
  padded size through; its second stage then has no real token. `SidecarFits`
  says what the guard does ensure.
* `CAMP2PStep`: a window's content is who wrote it, for which step, layer and stage, and how
  many rows. The flag protocol of the two kernels is external, read from how a rank's count
  must equal its peer's.
* `AsyncCAM`: an operator is one step of the device, submitted in host order. A row is its
  token and experts, an output names the row, the expert and the weights that made it. The
  router is a table (`Routings`).
* `DeepEPStep`: a collective runs when every rank is at it; the memory that the caching
  allocator may hand out again is a small set of blocks. Capture and replay keep the
  order of the streams, so a graph step differs only in that nothing blocks a host.
* `LaunchConfig` keeps a string only as far as a check tells it apart; messages of
  refusals are not modelled, where a server is refused is.

## Proofs

TLAPS checks every theorem, for every value of the constants under the named
assumptions. Each safety proof has one inductive invariant `IInv`, kept by a
lemma or a step for every action. A module of proofs is for one component, or for two that
meet: `AsyncFFNProofs` extends `FFNTwoStream`, `GraphStartup` and `AsyncCAM`, `AttentionProofs`
the two Attention modules.

* `FFNWorkerProofs`, for any number of fragments. `AbortedReceiveHarmless` is not inductive: what keeps the daemon from storing a
  failure is that the event is set before `_closed`, `_closed` before the group is
  aborted, and the group forgotten last. `CloseInv` states this order, `ReceiveInv` what
  the daemon's locals say at each point of the receive, `ThreadInv` and `ReleaseInv`
  what the worker's fields say of the daemon. Results: type correctness, `ReleaseAfterExit`,
  `AbortedReceiveHarmless` (theorem `AbortHarmless`, of the two parts `QuietStop` and
  `NoStepOnAbortedReceive`), and `ImplementsLifecycle` (initial states map
  to initial states, each step to a step or a stutter).
* `NPUFFNWorkerProofs`, for any set of the modes. `EarlyInv` says that nothing is stopped
  before there is a loop, `StopInv` that the event is set before the connector is closed,
  `DrainInv` that a loop which ran in a draining mode stays to be drained until it is
  drained, and that its failure is kept until then. Results: `StopSafe` (`StopsSafe`),
  `DrainImplementsLifecycle` (`DrainRefines`).
* `AsyncFFNProofs` has three parts. The two-stream executor, for any number of layers, warmups
  and transactions. `CountInv` relates queues and completions, `HostInv` the program
  counter to them, `RecordInv` says that a slot's event covers every earlier send of
  the slot, which is why the compute's one wait suffices. Results: `SlotSafe` (`SlotsSafe`: `NoOverwrite` and
  `SendsOwnOutput`), `BatchSafe` (`BatchesSafe`: `RetainedUntilSent` and
  `FenceCoversBatch`), `CloseOnlyWhenIdle`.
  The graph startup, for any world and any plans; its invariant is `StartupInv`. `RouteInv` keeps a rank on its
  world's route and remembers the agreement, `BarrierHolds` who has published what lies behind
  a rank, `ServiceInv` ties a service key to a rank
  that serves. `FailureStopsLatecomers` is about two states, so that `LatecomersStopped`
  shows more: a rank that a published failure holds at a barrier stays held, whatever the
  others do (`HeldStep`). Results: `BarrierHolds`, `ServesOnlyReadyWorld`,
  `AgreedBeforeGroup`, `FailureStopsLatecomers`.
  The Async CAM transfers, for any number of groups, ranks, FFN ranks, experts and layers, any
  batches and any routing (`SizesAssumption`, `ForwardLayersAssumption`, `InputsAssumption`: a
  batch fits in `max_num_batched_tokens`, a router names `TopK` different experts, a MoE layer
  is among the remote ones). `RowsExact` speaks of what a rank has combined; whether it is right
  was decided by two operators of other ranks, in chunks, before. The invariant (`CamInv`)
  says, of each FFN rank and each group, where every row of the group is (`Lane`): in the slots,
  which then hold what the ranks dispatched in the layer they are in (`LaneFlags`), in a work
  item (`LaneItems`: items of a group hold later and later experts, and none is left when a rank
  is signalled), or in the combine windows (`LaneRegion`). `Recd` is the number of experts
  received so far, which the flags and the chunk mark give together; `LaneGone` says that the
  flags of a group are cleared together, and with `LaneNext` that a rank which sends early finds
  its mark reset. That a row comes back to its own place needs arithmetic: the rows to the experts of
  an FFN rank follow those to the ranks before (`PlaceIs`), two rows never share a place
  (`PlacesApart`) and each is inside the window (`PlaceFits`, which counts mentions), and a
  combine finds a row in its item where the receive has put it (`RowOfCell`). The sums are
  recursive functions, whose equations (`SumRec`) are found by induction. `ForwardOK` is
  about the tokens a rank holds: padding and cutting gives every rank its block (`BlockOfBatchIs`),
  and gathering the blocks the batch (`GatherIs`). `WeightsOf` shows that the slot table of
  the layered executor is a bijection. Results: the invariant (`WindowsConsistent`), `RowsExact`
  (`RowsAlwaysExact`), `WindowsReusedInTurn` (`WindowsAlwaysInTurn`).
* `DeploymentProofs` has two parts. The rank mapping, for any A >= F: two lemmas of division
  (`BlockInverse`, `BlockSizes`) give `SubgroupsFit` (`SubgroupsHold`: the blocks partition
  the Attention ranks, and every FFN rank hears from one sender), and `BlocksBalanced`; the
  count that `AggregateMatchesWire` compares with the wire is a sum over the same block.
  The deployment, for any set of configurations (`DeploymentsAssumption`: the types of the
  dataclasses): `PostInitAccepts` shows that AFD's patches make `__post_init__` accept every
  backend and keep the section and the microbatches, so that a repeated validation cannot
  refuse; `ReadyInv` what `init_device` has checked of a worker that goes on, so that the
  mapping of a P2P world starts with sizes that fit; `JoinedInv` that a world is of two ready
  workers that agree on it; `WavesOrdered` that no message between engines, coordinator and
  client names a wave later than that of the engine it is of; `SurvivesInv` what of a
  configuration is still as it was asked for at each stage of a launch (`ArgsSurvive`: of the
  arguments too, which lend their backend only while the call runs). Results:
  `LaunchNotUndone` (`NothingUndone`), `SubgroupsFit` (`WorldFits`), `AggregateMatchesWire`
  (`AggregateHolds`), `JoinedWorldFits` (`WorldIsComplete`), `WavesAgree` (`WavesHold`),
  and `ConfigSurvives` (`SettingsSurvive`), this one for the configurations whose backend
  Ascend does not put back: for the others it does not hold (see Other disagreements).
* `P2PStepProofs`, for any A >= F, any number of layers and steps, any token counts and
  graph descriptors, with and without input ids. Neither `PeersAgree` nor `OwnOutput` says
  anything of the wires' tails, and both are false of the state after next when a wrong
  tensor is further back. The invariant numbers the transfers of a step in the order in which they are made:
  a slot is a layer and a stage, stages within layers, and a message a tensor of a slot.
  `PairInv` then says, of every Attention rank and its FFN rank, that the wire up carries the
  messages numbered from those received to those sent (`UpInv`), the wire back the outputs
  likewise (`DownInv`), and that when they are in different steps, only captures lie between
  them, in which nothing moves (`PlaceInv`). What a rank has sent and received is not
  counted in the model, it follows from its program counter (`SentBy`, `RcvdBy`,
  `Received`); that the two microbatch threads take turns (`HandedOver`) is what makes it
  follow. `CtlInv` says that the control queue of an FFN rank is the payloads of the steps
  between the two ranks, `FfnInv` that a rank in a step has the rows of its own peers and
  the mode of that step, `GraphInv` that a graph of each descriptor announced is there
  under the rows it is replayed with. Cutting the concatenation of the peers' rows
  needs its offsets as partial sums (`SliceOf`), which are found by induction over the
  number of peers (`SumsExists`). Results: the invariant (`SidesTogether`), `PeersAgree`
  (`PeersHold`), `OwnOutput` (`OutputsHold`), `BuffersKept` (`BuffersHold`).
* `CAMP2PProofs`, for any sizes that divide, any layers, batches, descriptors and serving steps
  (`InputsAssumption`: a batch has a token and no microbatch is empty,
  `compat/npu/runtime_config.py:38-48`). `PeersAgree` speaks only of the window
  that a flag opens now; a stale flag, or a count that lags by one operation, would open the
  next one wrongly. What a rank has executed on a group, in a step, follows from its place
  in the program of the step, and both programs put the transfers of a group in the same
  order. `PairsInv` says, of each Attention rank and its FFN rank, for each group: that the
  two counters and the two flags are those of the two places, that the window holds the
  transfer last written there, with the rows its writer assumed, and that two ranks in
  different steps have nothing but captures between them. That one counter serves two
  microbatches when there is one group only (`GroupEp`) is part of it. `CtlInv`,
  `FfnInv` and `GraphInv` are as in `P2PStepProofs`. The rows agree because padding in the
  groups of the DP ranks (`DpPadding`) makes the peers of an FFN rank equal (`PeersEqual`), which
  needs that TP blocks either align with F or connect all ranks; and two keys that are
  equal on one FFN rank are on all. Results: the invariant (`StepsMeet`), `ReplayTogether` (`RanksReplayTogether`),
  and, when no DP rank chooses its split by itself or every FFN rank has one peer (`SplitsAgree`), `PeersAgree`
  (`PeersAlwaysAgree`) and `ChunksEqual` (`ChunksAlwaysEqual`). The hypothesis is no
  convenience: without it `ChunksEqual` is false (see Findings).
* `DeepEPProofs`, for any set of deployments, and within one any settings of each rank
  (`DeploymentsAssumption`: sizes are integers, and an FFN rank is its own world rank). The
  ranks of a world may start with anything, and nothing but the two exchanges compares
  them. `StartupInv` says that the reports of an exchange, while a rank has yet to read
  them, are those of every rank; that what a rank adopted is what `ValidateHandshake` makes
  of all reports with the rank's own layout; and that a rank past the second exchange has
  accepted the models of all. Two ranks with different layouts could both accept the
  same reports only if the roles reported fit both: they fit one only (`LayoutsAgree`).
  Results: `RanksAgree` (`ReadyRanksAgree`).
  Of the steps, for any number of ranks, layers, blocks and steps, one lane or more, eager
  or in graphs (`SizesAssumption`). `OwnOutput` speaks of copies at the end of a chain that
  begins four operations and three streams earlier; the invariant (`OwnInv`) says of every
  operation that is still queued what its predecessors will have left for it. What a host
  calls is a concatenation of rounds: `CallsInOrder` and `NextIs` find, by induction over
  the rounds, that each stage calls dispatch and combine of its layers in turn, on both
  roles. Operations of a stream are numbered in the order in which they are enqueued,
  so that an event is a number (`Tops`, `Ops`). `Level` says that all ranks have done equally many
  collectives of each lane, and so that the heads which meet are of the same stage and layer.
  `AttnsHold` and `FfnsHold` then follow a stage's layer, dispatch, experts, combine and copy. With
  several lanes what orders them are the events: each waits for that of its
  predecessor, and a block stays in use until its dispatch is done (`LanesAttn`, `LanesFfn`).
  With one lane it is the single stream (`OneAttn`, `OneFfn`), and a block may be filled again
  as soon as its dispatch is enqueued. Results: `OwnOutput` (`OwnOutputs`), for `ServeSpec`,
  startup included.
* `AttentionProofs`. Of the runner, for any list of FULL descriptors. `AnnouncedAsRun` is
  not inductive: `Fresh` says that a batch starts with the initial flags, `Suppressed` that
  native code is only where it makes a second context with the send suppressed, `Saved` that
  a call can only restore the initial state, `Sent` what has been sent and not run at each
  place. Results: `AnnouncedAsRun` (`AnnouncementsExact`: `RunsAnnounced` and
  `NothingLeftAnnounced`), `CleanBetweenCalls`. `SideInv` says that a staged sidecar
  describes the batch of its place and is younger than every one used, `CaptureInv` that a
  capture has announced what its tracker has consumed: `SidecarFits` (`SidecarsFit`) and
  `CaptureAnnouncesAll` (`CapturesAnnounced`).
  Of the microbatch threads, for any number of layers, runs and exceptions. While the
  barrier is intact one thread at most is awake or about to wake (`HolderInv`), and after it
  broke none is in the model. `BarrierInv` says where the threads are when the barrier fills
  and drains, `HookInv` that a registered receive is of the parked peer and in the window or
  already submitted, `CallInv` that who wakes finds its own call received, `WindowInv` that
  only the sleeper's call is in the window. Results: `HandedOver` (`Handover`), and with
  `RegistryInv` `FailureContained` (`FailuresStay`).

Type invariants of these modules are conjuncts of the proved invariants, so no run
repeats them. `BlocksBalanced`, `BarrierHolds`, `ReleaseAfterExit` and
`CloseOnlyWhenIdle` likewise need no run.

Only model-checked:

* all liveness (`ShutdownTerminates`, `StopsEnd`, `BatchCompletes`, `StartupEnds`,
  `StepsEnd`, `EveryoneEnds`, `EveryDispatchAnswered`, `RequestsFinish`, `StopHeard`), since
  fairness and `ENABLED` are beyond the prover.

## Findings

**Unequal chunks of microbatches over CAMP2P** (`camp2p_live_stages`, property `ChunksEqual`).
`_physical_payload` pads a stage to the largest count in its strided FFN group
(`connectors/npu/camp2p.py:816`), "CAMP kernels require equal chunks within each strided
FFN receiving group" (`camp2p.py:812-814`). But with microbatches a rank announces its own slice length for
every rank (`attention_metadata.py:336-348`), so the largest is always its own and
nothing is padded: two ranks of a group whose slices differ send chunks of different length.

### Other disagreements

These were met while modelling. A definition named here is still in its module, and no run
checks it: it does not hold.

* *A lost failure on Ascend* (`NPUFFNWorker`, `ShutdownSurfacesFailure`). In the modes that do not
  drain, the exception of the loop is cleared as it is raised
  (`v1/worker/npu/ffn_worker.py:241-242`), and the first stop that raises it is the
  one the engine swallows (`engine_core.py:711-717`). The shutdown then ends clean,
  against `docs/design/module/ffn_runtime.md:365-366`. The CUDA worker and the
  draining modes keep it.
* *A silent failure of an Attention rank* (`GraphStartup`, `FailuresPublished`). An exception
  between the negotiation and the graph startup of an Attention rank
  (`connectors/npu/async_cam.py:362-382`) publishes no error; its peers wait for their
  own timeouts, against `docs/npu/ASYNC_FFN_RUNTIME.md:55-56`.
* *Captured buffers outlive close* (`P2PStep`, `BuffersReleased`). `close()` does not clear
  `_recv_attn_buffers` (`connectors/gpu/p2p.py:226-243`), against
  `docs/gpu/NCCL_P2P_CONNECTOR_USER_GUIDE.md:194-195`.
* *Padding crowds expert 0* (`AsyncCAM`, `ExpertFits`). Padding rows are routed to expert 0
  (`async_cam_layout.py:207`), whose rows may then exceed the capacity that
  `docs/npu/ASYNC_FFN_RUNTIME.md:47-48` and `validation.py:82-85` take as enough. The kernel then
  leaves its outputs unwritten (`afd_async_dispatch_recv.h:304-307`) and the host uses them. The
  model stops following such a rank, so `RowsExact`, checked and proved, is about the
  behaviours in which each receive finds an expert that fits.
* *A backend put back over the settled one.* Ascend's `_restore_afd_dbo_config`
  (`ascend_platform.py:113`) restores the operator's all2all backend after the pass has settled
  another for sequence parallelism, against the comment at `runtime_config.py:92-94`.
* *Three microbatches become two.* `configure_async_cam_dbo` sets `enable_dbo`
  (`runtime_config.py:37`) before the check for exactly two microbatches
  (`feature_validation.py:216`), which then passes, where
  `tests/unit/test_async_cam_startup_wiring.py:205` expects a refusal.
* *The roles' settings are not compared* for P2P and CAM: graph, gate, quantisation and
  microbatch settings of the two servers may differ, and nothing refuses it.

## Not modelled

Tensor computation and numerics, the vector code of device kernels, weight loading, LoRA
pass-throughs, profiling, KV cache initialisation, the process-group rendezvous of P2P, the
registration of models and custom operators, the draft context of the Ascend Attention
runner, and the single-stream FULL graph submission: what they change is either not
control state or is vLLM's. Of DeepEP and CAMP2P, `close` under a pending receive (the protocol is
that of `FFNWorker`), quantised payloads and input checks. The proxy server is a
development tool outside the plugin.

## Plan

Done, in this order: workers and life cycle, two-stream executor, graph startup, rank
mapping, P2P steps, Attention runner, microbatch threads, CAMP2P, Async CAM, DeepEP
steps and startup, configuration and launch, Attention engines, and their composition.

Next:

1. Mixed settings of the two roles in `P2PStep` and `CAMP2PStep`.
2. `close` of DeepEP and CAMP2P.
3. The draft context of the Ascend Attention runner; engines with several workers.
