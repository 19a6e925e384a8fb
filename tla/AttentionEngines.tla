--------------------------- MODULE AttentionEngines ---------------------------
(***************************************************************************)
(* The engine processes of the Attention server, one for each data         *)
(* parallel rank: their start and their signals (run_engine_core), their   *)
(* busy loop (compat/patches/engine_core.py), and how requests wake them   *)
(* (compat/patches/async_dp_engine.py).                                    *)
(*                                                                         *)
(* Engines of vLLM's DPEngineCoreProc step together: each forward pass     *)
(* agrees on the token counts of all ranks, an all-reduce after it tells   *)
(* whether any rank has work, a rank without work runs a dummy batch, and  *)
(* a coordinator starts a new wave when a request reaches paused engines.  *)
(* AFD's Async Attention ranks step alone.  The code says so in four       *)
(* places, of three modules: EngineClass, WaveCoordination, WakesOthers    *)
(* and AgreesOnBatch.                                                      *)
(*                                                                         *)
(* External: the coordinator, the client's statistics, the scheduler.      *)
(***************************************************************************)
EXTENDS Launch, Sequences

CONSTANTS
    Engines,    \* the data parallel ranks, 0 .. n - 1
    Requests,   \* bound: the requests there are, numbers
    Tokens,     \* bound: the steps a request takes
    Stoppable   \* the deployments whose engines may fail to start or be signalled

NoEngine == -1

VARIABLES
    at,          \* where an engine process is
    flagged,     \* shutdown_requested of run_engine_core
    stop,        \* shutdown_state = REQUESTED
    wake,        \* a WAKEUP is in the input queue
    running,     \* engines_running
    was,         \* was_running
    wave,        \* current_wave
    fromClient,  \* ADD messages on their way to an engine
    fromCoord,   \* START_DP_WAVE messages on their way to an engine
    toCoord,     \* what an engine has told the coordinator and it has not read
    coord,       \* the coordinator: wave, running, and the FIRST_REQ it has not read
    client,      \* the client: wave, running, as last published
    req          \* each request: where it is, its engine, its steps left

engineVars == <<at, flagged, stop, wake, running, was, wave, fromClient, fromCoord,
                toCoord, coord, client, req>>

----------------------------------------------------------------------------
Served == config["attention"]

(* _is_afd_async_attention_config and the class run_engine_core takes; Ascend's
   own entry point takes DPEngineCoreProc *)
EngineClass_Native == "dp"
EngineClass ==
    IF target["attention"] = "afd_async" /\ IsAttention(Served) /\ IsAsync(Served)
    THEN "base" ELSE "dp"

(* enable_wave_coordination of launch_core_engines *)
WaveCoordination == ~IsAsync(Served)

(* FIRST_REQ of add_request_async *)
WakesOthers == ~IsAsync(Served)

(* coordinate_batch_across_dp in set_forward_context *)
AgreesOnBatch == ~IsAsync(Served) /\ Served.dp > 1

Held(e) == {r \in Requests : req[r].at = "held" /\ req[r].engine = e}
HasWork(e) == running[e] \/ Held(e) /= {}

----------------------------------------------------------------------------
EnginesInit ==
    /\ at = [e \in Engines |-> "building"]
    /\ flagged = [e \in Engines |-> FALSE]
    /\ stop = [e \in Engines |-> FALSE]
    /\ wake = [e \in Engines |-> FALSE]
    /\ running = [e \in Engines |-> FALSE]
    /\ was = [e \in Engines |-> FALSE]
    /\ wave = [e \in Engines |-> 0]
    /\ fromClient = [e \in Engines |-> <<>>]
    /\ fromCoord = [e \in Engines |-> <<>>]
    /\ toCoord = [e \in Engines |-> <<>>]
    /\ coord = [wave |-> 0, running |-> FALSE, first |-> <<>>]
    /\ client = [wave |-> 0, running |-> FALSE]
    /\ req = [r \in Requests |-> [at |-> "new", engine |-> NoEngine, left |-> Tokens]]

(* The engine is constructed, or its construction raises. *)
Construct(e) ==
    /\ at[e] = "building"
    /\ at' = [at EXCEPT ![e] = "built"]
    /\ UNCHANGED <<flagged, stop, wake, running, was, wave, fromClient, fromCoord,
                   toCoord, coord, client, req>>

ConstructFails(e) ==
    /\ at[e] = "building" /\ deployment \in Stoppable
    /\ at' = [at EXCEPT ![e] = "exited"]
    /\ UNCHANGED <<flagged, stop, wake, running, was, wave, fromClient, fromCoord,
                   toCoord, coord, client, req>>

(* A signal that came during the construction is applied, then the wakeup
   callback is armed and the busy loop entered. *)
EnterLoop_SignalLost(e) ==
    /\ at[e] = "built"
    /\ at' = [at EXCEPT ![e] = "top"]
    /\ UNCHANGED <<flagged, stop, wake, running, was, wave, fromClient, fromCoord,
                   toCoord, coord, client, req>>
EnterLoop(e) ==
    /\ at[e] = "built"
    /\ at' = [at EXCEPT ![e] = "top"]
    /\ stop' = [stop EXCEPT ![e] = @ \/ flagged[e]]
    /\ UNCHANGED <<flagged, wake, running, was, wave, fromClient, fromCoord,
                   toCoord, coord, client, req>>

(* signal_handler: it runs between two steps of the engine's main thread *)
Signal(e) ==
    /\ deployment \in Stoppable
    /\ ~flagged[e] /\ at[e] /= "exited"
    /\ flagged' = [flagged EXCEPT ![e] = TRUE]
    /\ stop' = [stop EXCEPT ![e] = @ \/ at[e] /= "building"]
    /\ wake' = [wake EXCEPT ![e] = @ \/ at[e] \notin {"building", "built"}]
    /\ UNCHANGED <<at, running, was, wave, fromClient, fromCoord, toCoord, coord, client, req>>

----------------------------------------------------------------------------
(***************************************************************************)
(* The client and the coordinator.                                         *)
(***************************************************************************)
(* add_request_async *)
AddRequest(r, e) ==
    LET first == WakesOthers /\ ~client.running
    IN  /\ req[r].at = "new"
        /\ req' = [req EXCEPT ![r].at = "sent", ![r].engine = e]
        /\ fromClient' = [fromClient EXCEPT ![e] = Append(@, <<r, client.wave>>)]
        /\ IF first
           THEN /\ coord' = [coord EXCEPT !.first = Append(@, <<e, client.wave>>)]
                /\ client' = [client EXCEPT !.running = TRUE]
           ELSE UNCHANGED <<coord, client>>
        /\ UNCHANGED <<at, flagged, stop, wake, running, was, wave, fromCoord, toCoord>>

StartWave(w, excluded) ==
    fromCoord' = [e \in Engines |-> Append(fromCoord[e], <<w, excluded>>)]

(* A FIRST_REQ to paused engines starts a wave; one that is late, of an earlier
   wave, is for every engine. *)
CoordFirst ==
    LET m == Head(coord.first)
    IN  /\ coord.first /= <<>>
        /\ coord' = [coord EXCEPT !.first = Tail(@)]
        /\ IF WaveCoordination /\ ~coord.running
           THEN StartWave(coord.wave, IF m[2] < coord.wave THEN NoEngine ELSE m[1])
           ELSE UNCHANGED fromCoord
        /\ UNCHANGED <<at, flagged, stop, wake, running, was, wave, fromClient,
                       toCoord, client, req>>

(* wave_complete, start_wave *)
CoordUpdate(e) ==
    LET m == Head(toCoord[e])
        completes == m[1] = "complete" /\ m[2] >= coord.wave
        starts == m[1] = "start" /\ (m[2] > coord.wave \/ (m[2] = coord.wave /\ ~coord.running))
    IN  /\ toCoord[e] /= <<>>
        /\ toCoord' = [toCoord EXCEPT ![e] = Tail(@)]
        /\ coord' = IF completes THEN [coord EXCEPT !.wave = m[2] + 1, !.running = FALSE]
                    ELSE IF starts THEN [coord EXCEPT !.wave = m[2], !.running = TRUE]
                    ELSE coord
        /\ IF starts THEN StartWave(m[2], e) ELSE UNCHANGED fromCoord
        /\ UNCHANGED <<at, flagged, stop, wake, running, was, wave, fromClient, client, req>>

Publish ==
    /\ client /= [wave |-> coord.wave, running |-> coord.running]
    /\ client' = [wave |-> coord.wave, running |-> coord.running]
    /\ UNCHANGED <<at, flagged, stop, wake, running, was, wave, fromClient, fromCoord,
                   toCoord, coord, req>>

----------------------------------------------------------------------------
(***************************************************************************)
(* run_busy_loop.                                                          *)
(***************************************************************************)
(* _handle_shutdown: the requests of a stopped engine are aborted *)
HandleShutdown(e) ==
    /\ at[e] = "top"
    /\ at' = [at EXCEPT ![e] = IF stop[e] THEN "exited" ELSE "poll"]
    /\ UNCHANGED <<flagged, stop, wake, running, was, wave, fromClient, fromCoord,
                   toCoord, coord, client, req>>

(* _process_input_queue: an ADD *)
ReceiveRequest(e) ==
    LET r == Head(fromClient[e])[1]
        w == Head(fromClient[e])[2]
    IN  /\ at[e] = "poll" /\ fromClient[e] /= <<>>
        /\ fromClient' = [fromClient EXCEPT ![e] = Tail(@)]
        /\ req' = [req EXCEPT ![r].at = "held"]
        /\ wave' = [wave EXCEPT ![e] = IF EngineClass = "dp" /\ w > @ THEN w ELSE @]
        /\ toCoord' = IF EngineClass = "dp" /\ w < wave[e] /\ ~running[e]
                      THEN [toCoord EXCEPT ![e] = Append(@, <<"start", wave[e]>>)]
                      ELSE toCoord
        /\ UNCHANGED <<at, flagged, stop, wake, running, was, fromCoord, coord, client>>

(* _process_input_queue: a START_DP_WAVE *)
ReceiveStart(e) ==
    LET w == Head(fromCoord[e])[1]
        acts == Head(fromCoord[e])[2] /= e /\ w >= wave[e]
    IN  /\ at[e] = "poll" /\ fromCoord[e] /= <<>>
        /\ fromCoord' = [fromCoord EXCEPT ![e] = Tail(@)]
        /\ wave' = [wave EXCEPT ![e] = IF acts THEN w ELSE @]
        /\ running' = [running EXCEPT ![e] = @ \/ acts]
        /\ UNCHANGED <<at, flagged, stop, wake, was, fromClient, toCoord, coord, client, req>>

(* _process_engine_step, or execute_dummy_batch where no request is ready and
   the engines run *)
BeginStep(e) ==
    /\ at[e] = "poll" /\ HasWork(e)
    /\ at' = [at EXCEPT ![e] = "forward"]
    /\ UNCHANGED <<flagged, stop, wake, running, was, wave, fromClient, fromCoord,
                   toCoord, coord, client, req>>

(* An idle engine leaves the queue when it is woken. *)
Woken(e) ==
    /\ at[e] = "poll" /\ wake[e] /\ ~HasWork(e)
    /\ at' = [at EXCEPT ![e] = "top"]
    /\ wake' = [wake EXCEPT ![e] = FALSE]
    /\ UNCHANGED <<flagged, stop, running, was, wave, fromClient, fromCoord,
                   toCoord, coord, client, req>>

(* A forward pass, of all engines together where they agree on the batch. *)
Forward(S) ==
    /\ \A e \in S : at[e] = "forward"
    /\ at' = [e \in Engines |-> IF e \in S THEN IF EngineClass = "dp" THEN "reduce" ELSE "top"
                                ELSE at[e]]
    /\ req' = [r \in Requests |->
                 IF \E e \in S : r \in Held(e)
                 THEN [req[r] EXCEPT !.left = @ - 1, !.at = IF req[r].left = 1 THEN "done" ELSE @]
                 ELSE req[r]]
    /\ UNCHANGED <<flagged, stop, wake, running, was, wave, fromClient, fromCoord,
                   toCoord, coord, client>>

Step(e) == IF AgreesOnBatch THEN Forward(Engines) ELSE Forward({e})

(* _has_global_unfinished_reqs and what follows it *)
Report(e, unfinished) ==
    IF e /= 0 THEN <<>>
    ELSE IF ~unfinished THEN << <<"complete", wave[e]>> >>
    ELSE IF ~was[e] THEN << <<"start", wave[e]>> >>
    ELSE <<>>
Reduce_WaveOfRankZero ==
    LET unfinished == \E e \in Engines : Held(e) /= {}
    IN  /\ \A e \in Engines : at[e] = "reduce"
        /\ at' = [e \in Engines |-> "top"]
        /\ running' = [e \in Engines |-> unfinished]
        /\ was' = [e \in Engines |-> unfinished]
        /\ wave' = [e \in Engines |-> IF unfinished \/ e /= 0 THEN wave[e] ELSE wave[e] + 1]
        /\ toCoord' = [e \in Engines |-> toCoord[e] \o Report(e, unfinished)]
        /\ UNCHANGED <<flagged, stop, wake, fromClient, fromCoord, coord, client, req>>
Reduce ==
    LET unfinished == \E e \in Engines : Held(e) /= {}
    IN  /\ \A e \in Engines : at[e] = "reduce"
        /\ at' = [e \in Engines |-> "top"]
        /\ running' = [e \in Engines |-> unfinished]
        /\ was' = [e \in Engines |-> unfinished]
        /\ wave' = [e \in Engines |-> IF unfinished THEN wave[e] ELSE wave[e] + 1]
        /\ toCoord' = [e \in Engines |-> toCoord[e] \o Report(e, unfinished)]
        /\ UNCHANGED <<flagged, stop, wake, fromClient, fromCoord, coord, client, req>>

EngineStep(e) ==
    \/ Construct(e) \/ EnterLoop(e) \/ HandleShutdown(e) \/ ReceiveRequest(e)
    \/ ReceiveStart(e) \/ BeginStep(e) \/ Woken(e) \/ Step(e)

(* What runs by itself, without a new request, a failure or a signal *)
EnginesProgress ==
    \/ \E e \in Engines : EngineStep(e) \/ CoordUpdate(e)
    \/ Reduce \/ CoordFirst \/ Publish
=============================================================================
