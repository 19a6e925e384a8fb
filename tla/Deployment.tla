------------------------------ MODULE Deployment ------------------------------
(***************************************************************************)
(* A deployment from its two command lines to its steps: both servers      *)
(* launch (Launch), the world of their ranks forms, every rank computes    *)
(* its part of the rank mapping (RankMapping), and the Attention engines   *)
(* take requests and step (AttentionEngines).                              *)
(***************************************************************************)
EXTENDS AttentionEngines, RankMapping

CONSTANT Serving   \* bound: the deployments whose engines take requests

deploymentVars == <<launchVars, engineVars, vars>>

(* Until the world exists the mapping is that of a single pair of ranks. *)
DeploymentInit ==
    /\ LaunchInit
    /\ EnginesInit
    /\ A = 1 /\ F = 1 /\ dp = 1
    /\ counts = [d \in {0} |-> 0]

LaunchStep ==
    /\ \E s \in Roles :
          \/ BorrowBackend(s) \/ BuildRaises(s) \/ CreateEngineConfig(s)
          \/ StartChild(s) \/ Revalidate(s) \/ InitDevice(s)
    /\ UNCHANGED <<engineVars, vars>>

(* The sizes that every rank takes from its own configuration. *)
FormWorld ==
    /\ JoinWorld
    /\ LET c == config["attention"]
       IN  IF world' = "joined" /\ c.afd.connector = "p2p"
           THEN /\ A' = c.afd.A /\ F' = c.afd.F /\ dp' = c.dp
                /\ counts' = [d \in 0 .. c.dp - 1 |-> 0]
           ELSE UNCHANGED vars
    /\ UNCHANGED engineVars

(* Serving, or only the counts of one step (bound) *)
Runs == world = "joined" /\ deployment \in Serving
AgreeCounts ==
    /\ world = "joined" /\ config["attention"].afd.connector = "p2p" /\ ~Runs
    /\ \A d \in DOMAIN counts : counts[d] = 0
    /\ NewStep
    /\ UNCHANGED <<launchVars, engineVars>>
Serve == Runs /\ EnginesProgress /\ UNCHANGED <<launchVars, vars>>
Request ==
    /\ Runs
    /\ \E r \in Requests, e \in Engines :
          /\ \A q \in Requests : q < r => req[q].at /= "new"   \* requests are alike
          /\ AddRequest(r, e)
    /\ UNCHANGED <<launchVars, vars>>
Disturb ==
    /\ Runs /\ \E e \in Engines : ConstructFails(e) \/ Signal(e)
    /\ UNCHANGED <<launchVars, vars>>

DeploymentNext == LaunchStep \/ FormWorld \/ AgreeCounts \/ Serve \/ Request \/ Disturb

(* Engines, coordinator and client run; nothing obliges requests, signals and
   failures to come, or a server to be started. *)
DeploymentSpec ==
    DeploymentInit /\ [][DeploymentNext]_deploymentVars /\ WF_engineVars(Serve)

----------------------------------------------------------------------------
(***************************************************************************)
(* Properties.                                                             *)
(***************************************************************************)
Launched(s) == stage[s] \in {"parent", "child", "validated", "ready"}

(* What the operator asked for reaches the worker although vLLM and Ascend are
   shown something else on the way: EngineArgs have their backend again
   however create_engine_config ended (config_validation.py:77-87), microbatches survive
   the platform that switches them off (ascend_platform.py:113), a GPU server
   runs its own backend, and the sequence parallelism that an Ascend worker
   reads off its backend is what Ascend derived for its graphs and for its
   shared experts ("SP graph filtering cannot observe temporary DeepEP",
   config_validation.py:125).  An
   Async CAM worker makes any number of microbatches two. *)
ConfigSurvives ==
    \A s \in Roles :
        /\ stage[s] /= "building" => args[s] = deployment[s].backend
        /\ UseUbatching(config[s]) = UseUbatching(deployment[s])
        /\ \/ NumUbatches(config[s]) = NumUbatches(deployment[s])
           \/ stage[s] = "ready" /\ AsyncDbo(config[s]) /\ NumUbatches(config[s]) = 2
        /\ IF IsGpu(s) THEN config[s].backend = deployment[s].backend
           ELSE Launched(s) => derived[s] = [sp |-> SpMoe(config[s]),
                                             shares |-> SharesExperts(config[s])]

(* On Ascend the backend chosen for microbatches is put back over the one that
   the FlashComm switch settled (ascend_platform.py:113): such a server derives
   its sequence parallelism from one backend and reads it off the other. *)
KeepsUnsettledBackend(c) ==
    /\ c.platform = "npu" /\ c.tp > 1 /\ ~c.flashcomm
    /\ c.dbo \/ c.ubatch > 0
    /\ c.backend \in MicrobatchBackends \/ ~UseUbatching(c)

(* What a server's first process accepted, its engine process accepts when it
   validates the same configuration again with other patches in place
   (ascend_config.py:253, config_validation.py:120). *)
LaunchNotUndone == \A s \in Roles : refusal[s] \notin {"namespace", "revalidation"}

(* Each server is checked alone, and a world forms of both: a process has each
   rank it waits for, both roles run the same operators on the same settings, and
   what the connectors rely on holds of the pair (distributed/topology.py:58,
   connectors/npu/async_cam.py:983, connectors/gpu/deepep_m2n). *)
JoinedWorldFits ==
    world = "joined" =>
        LET att == config["attention"]
            ffn == config["ffn"]
        IN  /\ \A c \in {att, ffn} :
                 {RoleRank(c, d, t) : d \in 0 .. c.dp - 1, t \in 0 .. c.tp - 1}
                     = 0 .. RoleRanks(c) - 1
            /\ att.afd.role /= ffn.afd.role
            /\ att.platform = ffn.platform
            /\ att.worker[1] = ffn.worker[1]
            /\ att.afd.connector = "p2p" => ValidTopology(att.afd.A, ffn.afd.F)
            /\ att.afd.connector \in {"deepep_m2n", "cam_async"} => att.afd.gate = ffn.afd.gate
            /\ att.afd.connector = "cam_async" =>
                 /\ att.afd.A = att.dp * att.x.ranks_per_dp
                 /\ IsAsync(att) /\ IsAsync(ffn)
            /\ \A s \in Roles : UseUbatching(config[s]) => NumUbatches(config[s]) = 2

(* Engines that step together agree on the wave they are in, and neither the
   coordinator nor the client is ahead of them: a START_DP_WAVE or a request
   of a later wave would make one of them leave the others behind
   (engine_core.py:497-519). *)
WavesAgree ==
    EngineClass = "dp" =>
        \A e, f \in Engines : wave[e] = wave[f] /\ coord.wave <= wave[e] /\ client.wave <= coord.wave

(* A request is served: its engine wakes, and the others with it when they
   must step together, although the client may believe that the engines still
   run and Async engines are never woken for one another
   (async_dp_engine.py:398, engine_core.py:435).  Requests are finitely many and
   a served one stays served: each is, if none is left waiting for ever. *)
RequestsFinish ==
    []<>(\A r \in Requests :
            \/ req[r].at \in {"new", "done"}
            \/ \E e \in Engines : req[r].engine = e /\ (stop[e] \/ at[e] = "exited"))

(* A signal ends an engine whenever it comes: while the engine is constructed,
   before its wakeup callback exists, idle, or in a step
   (async_dp_engine.py:118-181).  A flag is never taken back, and an engine that
   has exited does not return. *)
StopHeard == []<>(\A e \in Engines : flagged[e] => at[e] = "exited")
=============================================================================
