-------------------------------- MODULE Launch --------------------------------
(***************************************************************************)
(* How the two servers of a deployment start, each from its own command    *)
(* line: create_engine_config in the server process, the validation that   *)
(* vLLM repeats in the engine process (compat/patches/config_validation.py *)
(* and npu/ascend_platform.py), the engine's entry point (npu/runtime.py,  *)
(* npu/ascend_config.py), Worker.init_device, and the rendezvous of the    *)
(* roles.  vLLM refuses microbatches without a DeepEP all2all backend and  *)
(* Ascend switches them off; AFD shows each the configuration it accepts   *)
(* and restores the real one.                                              *)
(***************************************************************************)
EXTENDS LaunchConfig

CONSTANT Deployments   \* pairs of configurations, one for each role

(* The settings a launch changes, compares or counts with; the dataclasses of
   vLLM and of the section give them their types. *)
IsServer(c) ==
    /\ {"afd", "x", "platform", "worker", "dp", "tp", "ep", "model", "flashcomm",
        "dbo", "ubatch", "backend"} \subseteq DOMAIN c
    /\ c.dp \in Nat \ {0} /\ c.tp \in Nat \ {0}
    /\ c.flashcomm \in BOOLEAN /\ c.dbo \in BOOLEAN /\ c.ubatch \in Nat
    /\ c.afd.A \in Int /\ c.afd.F \in Int /\ c.afd.gate \in BOOLEAN
ASSUME DeploymentsAssumption ==
    \A d \in Deployments : DOMAIN d = Roles /\ \A s \in Roles : IsServer(d[s])

TempBackend == "deepep_low_latency"
Alltoallv == "flashinfer_all2allv"

VARIABLES
    deployment,   \* what the operator asked for
    config,       \* the VllmConfig of a server, as its current process has it
    args,         \* all2all_backend of its EngineArgs
    locals,       \* what create_engine_config remembers of them: see Locals
    stage,        \* how far a server got
    refusal,      \* why a server was refused
    cached,       \* the process has built its Ascend configuration
    derived,      \* what Ascend made of a configuration: see Derived
    target,       \* the entry point of the engine process
    world         \* the AFD world of both roles

launchVars ==
    <<deployment, config, args, locals, stage, refusal, cached, derived, target, world>>

Stages == {"args", "building", "parent", "child", "validated", "ready", "refused"}

(* needs_engine_args_bypass and original_backend of create_engine_config *)
Locals(bypass, backend) == [bypass |-> bypass, original |-> backend]

IsNpu(s) == deployment[s].platform = "npu"
IsGpu(s) == deployment[s].platform = "cuda"

----------------------------------------------------------------------------
(***************************************************************************)
(* VllmConfig.__post_init__ and what it nests.  A result is the            *)
(* configuration, what Ascend derived, and whether vLLM accepts it.        *)
(***************************************************************************)
(* _should_relax_engine_args_backend, _should_relax_vllm_config_backend *)
Relaxes(c, backend) == UseUbatching(c) /\ backend \notin MicrobatchBackends

(* init_ascend_config: the strict constructor is not shown the AFD section, the
   FlashComm switch settles the backend, and an Async DeepSeek-V2 Attention
   server with sequence parallelism replicates its shared experts.  A process
   that has built the configuration of this VllmConfig keeps it. *)
Settled(c) == [c EXCEPT !.backend = IF c.flashcomm THEN @ ELSE Alltoallv]
SharesExperts(c) ==
    /\ IsAttention(c) /\ c.afd.connector = "cam_async" /\ c.afd.gate
    /\ c.model \in MlaModels \cup {"Deepseek"} /\ SpMoe(c)
InitAscendConfig(c, first) ==
    IF first THEN [c |-> Settled(c), shares |-> SharesExperts(Settled(c))]
    ELSE [c |-> c, shares |-> SharesExperts(c)]

(* NPUPlatform.check_and_update_config: microbatches off *)
AscendPass(c) == [c EXCEPT !.dbo = FALSE, !.ubatch = 0]

(* _restore_afd_dbo_config, of a snapshot *)
Restored(c, saved) ==
    IF ~saved.dbo /\ saved.ubatch = 0 THEN c
    ELSE [c EXCEPT !.dbo = saved.dbo, !.ubatch = saved.ubatch, !.backend = saved.backend]

(* check_and_update_config as patched; Ascend is shown the actual backend, also
   while vLLM is shown the temporary one *)
PlatformPass(c, first, actual) ==
    LET built == InitAscendConfig([c EXCEPT !.backend = actual], first)
        passed == AscendPass(built.c)
    IN  [c |-> Restored(passed, c), actual |-> passed.backend,
         derived |-> [sp |-> SpMoe(passed), shares |-> built.shares]]

NothingDerived == [sp |-> FALSE, shares |-> FALSE]

(* vLLM's assertion on microbatches *)
VllmAccepts(c) == UseUbatching(c) => c.backend \in MicrobatchBackends

PostInit_Unscoped(c, first) ==
    LET temp == [c EXCEPT !.backend = IF Relaxes(c, c.backend) THEN TempBackend ELSE @]
        pass == PlatformPass(temp, first, temp.backend)
    IN  IF c.platform /= "npu" THEN [c |-> c, derived |-> NothingDerived, ok |-> VllmAccepts(temp)]
        ELSE [c |-> [pass.c EXCEPT !.backend = IF Relaxes(c, c.backend) THEN c.backend ELSE @],
              derived |-> pass.derived, ok |-> VllmAccepts(pass.c)]

(* __post_init__ *)
PostInit(c, first) ==
    LET relax == Relaxes(c, c.backend)
        temp == [c EXCEPT !.backend = IF relax THEN TempBackend ELSE @]
        pass == PlatformPass(temp, first, c.backend)
    IN  IF c.platform /= "npu" THEN [c |-> c, derived |-> NothingDerived, ok |-> VllmAccepts(temp)]
        ELSE [c |-> [pass.c EXCEPT !.backend = IF relax THEN pass.actual ELSE @],
              derived |-> pass.derived, ok |-> VllmAccepts(pass.c)]

(* fix_all2all_backend_for_afd *)
FixBackend(c) == IF SpMoe(c) THEN c ELSE [c EXCEPT !.backend = Alltoallv]

(* the entry point create_engine_config leaves for the engine process:
   apply_afd_async_dp_engine_patch_if_needed, then
   apply_afd_ascend_engine_core_config_patch_if_needed *)
EngineTarget_FfnOnly(c) ==
    IF c.platform /= "npu" \/ (IsAttention(c) /\ IsAsync(c)) THEN "afd_async"
    ELSE IF IsAttention(c) THEN "ascend" ELSE "afd_ascend"
EngineTarget(c) ==
    IF c.platform /= "npu" \/ (IsAttention(c) /\ IsAsync(c)) THEN "afd_async"
    ELSE "afd_ascend"

----------------------------------------------------------------------------
LaunchInit ==
    /\ deployment \in Deployments
    /\ config = deployment
    /\ args = [s \in Roles |-> deployment[s].backend]
    /\ locals = [s \in Roles |-> Locals(FALSE, deployment[s].backend)]
    /\ stage = [s \in Roles |-> "args"]
    /\ refusal = [s \in Roles |-> "none"]
    /\ cached = [s \in Roles |-> FALSE]
    /\ derived = [s \in Roles |-> NothingDerived]
    /\ target = [s \in Roles |-> "none"]
    /\ world = "none"

Refuse(s, why) ==
    /\ stage' = [stage EXCEPT ![s] = "refused"]
    /\ refusal' = [refusal EXCEPT ![s] = why]

(* create_engine_config up to the call of vLLM's own: it parses the section, and
   a GPU server with microbatches lends its arguments the temporary backend;
   an Ascend server is shown it inside __post_init__ instead. *)
BorrowBackend(s) ==
    LET c == config[s]
        bypass == ~IsNpu(s) /\ Relaxes(c, args[s])
    IN  /\ stage[s] = "args"
        /\ IF ~Parses(c) THEN Refuse(s, "section") /\ UNCHANGED <<args, locals>>
           ELSE /\ locals' = [locals EXCEPT ![s] = Locals(bypass, args[s])]
                /\ args' = [args EXCEPT ![s] = IF bypass THEN TempBackend ELSE @]
                /\ stage' = [stage EXCEPT ![s] = "building"] /\ UNCHANGED refusal
        /\ UNCHANGED <<deployment, config, cached, derived, target, world>>

(* its finally clause *)
PutBack(s) ==
    args' = [args EXCEPT ![s] = IF locals[s].bypass THEN locals[s].original ELSE @]

(* Mutant: the backend is put back only when the call returns. *)
BuildRaises_Keeps(s) ==
    /\ stage[s] = "building"
    /\ Refuse(s, "backend")
    /\ UNCHANGED <<deployment, config, args, locals, cached, derived, target, world>>

(* vLLM raises: on its assertion on microbatches, or on a check of its own *)
BuildRaises(s) ==
    /\ stage[s] = "building"
    /\ Refuse(s, "backend") /\ PutBack(s)
    /\ UNCHANGED <<deployment, config, locals, cached, derived, target, world>>

(* The call returns: what was built from the arguments gets the backend that
   was lent, the role's worker and, on Ascend, the fixed backend. *)
CreateEngineConfig(s) ==
    LET c == config[s]
        bypass == locals[s].bypass
        built == PostInit(IF bypass THEN [c EXCEPT !.backend = args[s]] ELSE c, TRUE)
        actual == IF bypass THEN [built.c EXCEPT !.backend = locals[s].original] ELSE built.c
        placed == IF c.worker[1] = "auto" THEN [actual EXCEPT !.worker = WorkerFor(c, c.native)]
                  ELSE actual
    IN  /\ stage[s] = "building" /\ built.ok
        /\ PutBack(s)
        /\ UNCHANGED <<deployment, locals, cached, world>>
        /\ IF placed.worker = <<"refused", c.afd.role>>
           THEN Refuse(s, "worker") /\ UNCHANGED <<config, derived, target>>
           ELSE /\ config' = [config EXCEPT ![s] = IF IsNpu(s) THEN FixBackend(placed) ELSE placed]
                /\ derived' = [derived EXCEPT ![s] = built.derived]
                /\ target' = [target EXCEPT ![s] = EngineTarget(c)]
                /\ stage' = [stage EXCEPT ![s] = "parent"] /\ UNCHANGED refusal

(* The engine process.  Ascend's own entry point builds the Ascend
   configuration before any plugin is loaded, and its strict namespace refuses
   the AFD section; run_afd_ascend_engine_core installs AFD's factory first. *)
StartChild(s) ==
    /\ stage[s] = "parent"
    /\ cached' = [cached EXCEPT ![s] = FALSE]
    /\ IF target[s] = "ascend" THEN Refuse(s, "namespace")
       ELSE stage' = [stage EXCEPT ![s] = "child"] /\ UNCHANGED refusal
    /\ UNCHANGED <<deployment, config, args, locals, derived, target, world>>

(* Each handshake of the engine runs __post_init__ once more. *)
Revalidate(s) ==
    LET again == PostInit(config[s], ~cached[s])
    IN  /\ stage[s] = "child" \/ (stage[s] = "validated" /\ ~cached[s])
        /\ IF ~again.ok THEN Refuse(s, "revalidation") /\ UNCHANGED <<config, derived, cached>>
           ELSE /\ config' = [config EXCEPT ![s] = again.c]
                /\ derived' = [derived EXCEPT ![s] = again.derived]
                /\ cached' = [cached EXCEPT ![s] = stage[s] = "validated"]
                /\ stage' = [stage EXCEPT ![s] = "validated"] /\ UNCHANGED refusal
        /\ UNCHANGED <<deployment, args, locals, target, world>>

(* configure_async_cam_dbo *)
AsyncDbo(c) == c.afd.connector = "cam_async" /\ IsAttention(c) /\ UseUbatching(c)
AsyncDboConfigured(c) == IF AsyncDbo(c) THEN [c EXCEPT !.dbo = TRUE] ELSE c

(* init_device of the four workers: the configuration they go on with, and
   whether they accept it *)
GpuAttentionDevice(c) ==
    [c |-> c, ok |-> CompatibleStack(c, "attention") /\ GpuModelRunnerV2(c, "attention")]
GpuFfnDevice(c) == [c |-> c, ok |-> CompatibleStack(c, "ffn") /\ GpuModelRunnerV2(c, "ffn")]
NpuAttentionDevice(c) ==
    LET d == AsyncDboConfigured(c)
        fixed == FixBackend(d)
    IN  [c |-> fixed,
         ok |-> /\ CompatibleStack(c, "attention")
                /\ AsyncDbo(c) => c.threshold >= NumUbatches(d)
                /\ NpuFeatures(d) /\ NpuModelRunnerV2(fixed, "attention")]
NpuFfnDevice(c) ==
    [c |-> FixBackend(c),
     ok |-> CompatibleStack(c, "ffn") /\ NpuFeatures(c) /\ NpuModelRunnerV2(FixBackend(c), "ffn")]

InitDevice(s) ==
    LET c == config[s]
        device == IF IsNpu(s)
                  THEN IF s = "attention" THEN NpuAttentionDevice(c) ELSE NpuFfnDevice(c)
                  ELSE IF s = "attention" THEN GpuAttentionDevice(c) ELSE GpuFfnDevice(c)
    IN  /\ stage[s] = "validated"
        /\ IF device.ok /\ ModelConfigures(device.c)
           THEN /\ config' = [config EXCEPT ![s] = device.c]
                /\ stage' = [stage EXCEPT ![s] = "ready"] /\ UNCHANGED refusal
           ELSE Refuse(s, "worker") /\ UNCHANGED config
        /\ UNCHANGED <<deployment, args, locals, cached, derived, target, world>>

(* resolve_role_rank, of DP rank d and TP rank t *)
RoleRank(c, d, t) == d * c.tp + t

(* init_afd_process_group of both roles: the world forms if they agree on its
   address and its sizes, else it times out *)
SameWorld(c, d) ==
    /\ c.afd.connector = d.afd.connector
    /\ <<c.afd.host, c.afd.port, c.afd.A, c.afd.F>> = <<d.afd.host, d.afd.port, d.afd.A, d.afd.F>>
JoinWorld ==
    /\ world = "none" /\ \A s \in Roles : stage[s] = "ready"
    /\ world' = IF SameWorld(config["attention"], config["ffn"]) THEN "joined" ELSE "timeout"
    /\ UNCHANGED <<deployment, config, args, locals, stage, refusal, cached, derived, target>>
=============================================================================
