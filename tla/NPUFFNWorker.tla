---------------------------- MODULE NPUFFNWorker ----------------------------
(***************************************************************************)
(* The life cycle of one Ascend FFN worker (v1/worker/npu/ffn_worker.py)   *)
(* under the same EngineCore.  A worker stops in one of two ways.  With    *)
(* CAMP2P or plain Async eager it closes the connector under the receiver  *)
(* to unblock it.  With an Async FULL graph or two-stream execution it     *)
(* must drain: the native receive cannot be cancelled, so nothing goes     *)
(* before the receiver has exited by itself.                               *)
(***************************************************************************)
EXTENDS FFNEngine

CONSTANT Kinds   \* execution modes to consider

AllKinds   == {"camp2p", "eager", "eagerTwoStream", "full", "fullTwoStream"}
AsyncKinds == AllKinds \ {"camp2p"}
FullKinds  == {"full", "fullTwoStream"}
TwoStreams == {"eagerTwoStream", "fullTwoStream"}

ASSUME KindsAssumption == Kinds \subseteq AllKinds

VARIABLES
  kind,            \* connector and requested execution mode
  mode,            \* model_runner.effective_mode
  two_stream,      \* model_runner._two_stream is not None
  startup_failure, \* model_runner._failure is not None
  receiver_exited, \* model_runner._graph_receiver_exited
  connector,       \* "absent", "open" (initialised) or "closed"
  ffn_thread, event, loop_error, native, \* as in FFNWorker
  daemon           \* program counter of the daemon thread

runnerVars == <<kind, mode, two_stream, startup_failure, receiver_exited, connector>>
workerVars == <<ffn_thread, event, loop_error, native>>
vars == <<engineVars, runnerVars, workerVars, daemon>>

Alive     == {"top", "receive", "compute", "raisedCompute", "raisedClosed",
              "leaving"}

Init ==
  /\ EngineInit
  /\ kind \in Kinds
  /\ mode = "eager" /\ two_stream = FALSE
  /\ startup_failure = FALSE /\ receiver_exited = FALSE /\ connector = "absent"
  /\ ffn_thread = FALSE /\ event = "none" /\ loop_error = "none"
  /\ native = "held" /\ daemon = "absent"

\* Mutant: two-stream execution is not considered.
RequiresDrain_FullOnly == mode = "full"

\* _requires_async_drain: effective mode full, or a two-stream executor.
RequiresDrain == mode = "full" \/ two_stream

\* raise_ffn_loop_error_if_any forgets the error it raises, unless draining.
RaiseForgets ==
  loop_error' = IF RequiresDrain THEN loop_error ELSE "none"

\* Of the engine's own steps only the poll touches the worker.
EngineStep ==
  /\ EngineNext(loop_error # "none")
  /\ IF main = "poll" /\ ~shutdown THEN RaiseForgets ELSE UNCHANGED loop_error
  /\ UNCHANGED <<runnerVars, ffn_thread, event, native, daemon>>

Shutdown == RequestShutdown /\ UNCHANGED <<runnerVars, workerVars, daemon>>

-----------------------------------------------------------------------------
(* start_ffn_server_loop. *)

StartCheckAlive ==
  /\ main = "start"
  /\ MainGoes(IF ffn_thread /\ daemon \in Alive THEN "startAlive" ELSE "startFresh")
  /\ UNCHANGED <<runnerVars, workerVars, daemon>>

StartAlreadyRunning ==
  /\ main = "startAlive"
  /\ \/ loop_error = "none" /\ StartReturns
     \/ loop_error # "none" /\ StartRaises(TRUE)
  /\ RaiseForgets
  /\ UNCHANGED <<runnerVars, ffn_thread, event, native, daemon>>

\* An earlier thread had failed.
StartReraises ==
  /\ main = "startFresh" /\ loop_error # "none"
  /\ StartRaises(TRUE)
  /\ RaiseForgets
  /\ UNCHANGED <<runnerVars, ffn_thread, event, native, daemon>>

\* What initialize_afd_connector has set up when the collective initialisation
\* is over: the executor of the kind, and the negotiated mode.
Initialized ==
  /\ connector' = "open"
  /\ mode' = IF kind \in FullKinds THEN "full" ELSE "eager"
  /\ two_stream' = (kind \in TwoStreams)

\* initialize_afd_connector raises, and the Async runner latches the failure:
\* before the mode was negotiated, perhaps before there was a two-stream
\* executor, or with everything set up, in the warmup or the capture.
StartupFails ==
  /\ main = "startFresh" /\ loop_error = "none" /\ connector = "absent"
  /\ startup_failure' = (kind \in AsyncKinds)
  /\ \/ /\ connector' \in {"absent", "open"} /\ UNCHANGED mode
        /\ two_stream' \in {b \in BOOLEAN : b => kind \in TwoStreams}
     \/ kind \in FullKinds /\ Initialized
  /\ StartRaises(FALSE)
  /\ UNCHANGED <<kind, receiver_exited, workerVars, daemon>>

StartThread ==
  /\ main = "startFresh" /\ loop_error = "none"
  /\ IF connector = "absent" THEN Initialized
                            ELSE UNCHANGED <<connector, mode, two_stream>>
  /\ event' = "clear" /\ ffn_thread' = TRUE /\ daemon' = "top"
  /\ StartReturns
  /\ UNCHANGED <<kind, startup_failure, receiver_exited, loop_error, native>>

-----------------------------------------------------------------------------
(* stop_ffn_server_loop and shutdown. *)

StopSignal ==
  /\ main = "signal"
  /\ event' = IF event = "none" THEN "none" ELSE "set"
  /\ MainGoes(IF RequiresDrain THEN "join" ELSE "closeConnector")
  /\ UNCHANGED <<runnerVars, ffn_thread, loop_error, native, daemon>>

\* Mutant: the connector is not closed under the receiver.
CloseConnector_Skipped ==
  /\ main = "closeConnector"
  /\ MainGoes("join")
  /\ UNCHANGED <<runnerVars, workerVars, daemon>>

CloseConnector ==
  /\ main = "closeConnector"
  /\ connector' = "closed"
  /\ MainGoes("join")
  /\ UNCHANGED <<kind, mode, two_stream, startup_failure, receiver_exited,
                 workerVars, daemon>>

JoinExited ==
  /\ main = "join"
  /\ ffn_thread => daemon \notin Alive
  /\ MainGoes("stopFinish")
  /\ UNCHANGED <<runnerVars, workerVars, daemon>>

\* Mutant: a join without a timeout.
JoinTimeout_Never == FALSE

JoinTimeout ==
  /\ main = "join" /\ ffn_thread /\ daemon \in Alive
  /\ SwallowedStop \/ WorkerShutdownEnds("stuck")
  /\ UNCHANGED <<runnerVars, workerVars, daemon>>

\* Mutant: a stored loop error does not count.
DrainBlocked_NoError == startup_failure

\* Whether the drain path still holds something its runner may not release: a
\* stored loop error, a failed startup, or a receiver that has not exited.
DrainBlocked ==
  loop_error # "none" \/ startup_failure \/ ~receiver_exited

\* The drain path raises and retains thread, model, graph and communicator.
DrainRaises ==
  /\ main = "stopFinish" /\ RequiresDrain /\ native = "held" /\ DrainBlocked
  /\ RaiseForgets
  /\ SwallowedStop \/ WorkerShutdownEnds("failed")
  /\ UNCHANGED <<runnerVars, ffn_thread, event, native, daemon>>

\* The drain path releases through the runner's own shutdown, once.
DrainReleases ==
  /\ main = "stopFinish" /\ RequiresDrain
  /\ native = "released" \/ ~DrainBlocked
  /\ native' = "released" /\ two_stream' = FALSE /\ connector' = "closed"
  /\ ffn_thread' = FALSE /\ event' = "none"
  /\ SwallowedStop \/ WorkerShutdownEnds("clean")
  /\ UNCHANGED <<kind, mode, startup_failure, receiver_exited, loop_error, daemon>>

\* The closing path: raise once, or go on to the native shutdown (which still
\* refuses a runner whose startup failed).
CloseFinishes ==
  /\ main = "stopFinish" /\ ~RequiresDrain
  /\ ffn_thread' = FALSE /\ event' = "none"
  /\ RaiseForgets
  /\ \/ SwallowedStop /\ UNCHANGED native
     \/ /\ loop_error # "none" \/ (startup_failure /\ native = "held")
        /\ WorkerShutdownEnds("failed") /\ UNCHANGED native
     \/ /\ loop_error = "none" /\ (startup_failure => native = "released")
        /\ WorkerShutdownEnds("clean") /\ native' = "released"
  /\ UNCHANGED <<runnerVars, daemon>>

-----------------------------------------------------------------------------
(* The daemon thread. *)

DaemonGoes(to) ==
  /\ daemon' = to
  /\ UNCHANGED <<engineVars, kind, mode, two_stream, startup_failure, connector,
                 ffn_thread, event, native>>

LoopTest ==
  /\ daemon = "top"
  /\ DaemonGoes(IF event = "set" THEN "leaving" ELSE "receive")
  /\ UNCHANGED <<loop_error, receiver_exited>>

\* Control metadata or a work item arrives; an idle receive may never return.
Receive ==
  /\ daemon = "receive" /\ connector = "open"
  /\ DaemonGoes("compute")
  /\ UNCHANGED <<loop_error, receiver_exited>>

\* The connector went away under the receive ...
ReceiveClosed ==
  /\ daemon = "receive" /\ connector = "closed"
  /\ DaemonGoes("raisedClosed")
  /\ UNCHANGED <<loop_error, receiver_exited>>

\* ... or under the step, which may also go on without noticing.
StepClosed ==
  /\ daemon = "compute" /\ connector = "closed"
  /\ DaemonGoes("raisedClosed")
  /\ UNCHANGED <<loop_error, receiver_exited>>

StepEnds ==
  /\ daemon = "compute"
  /\ DaemonGoes("top") \/ DaemonGoes("raisedCompute")
  /\ UNCHANGED <<loop_error, receiver_exited>>

\* The wrapper's except clause: what a stop provoked is not an error, unless
\* the worker has to drain.
LoopRaised ==
  /\ daemon \in {"raisedCompute", "raisedClosed"}
  /\ IF ~RequiresDrain /\ event = "set"
       THEN DaemonGoes("returned") /\ UNCHANGED loop_error
       ELSE /\ DaemonGoes("failed")
            /\ loop_error' = IF daemon = "raisedCompute" THEN "compute" ELSE "closed"
  /\ UNCHANGED receiver_exited

\* The wrapper's else clause.
LoopReturned ==
  /\ daemon = "leaving"
  /\ DaemonGoes("returned")
  /\ receiver_exited' = (receiver_exited \/ RequiresDrain)
  /\ UNCHANGED loop_error

-----------------------------------------------------------------------------
Exited == main = "exited" /\ UNCHANGED vars

MainNext ==
  \/ EngineStep
  \/ StartCheckAlive \/ StartAlreadyRunning \/ StartReraises \/ StartupFails
  \/ StartThread
  \/ StopSignal \/ CloseConnector \/ JoinExited \/ JoinTimeout
  \/ DrainRaises \/ DrainReleases \/ CloseFinishes

LoopNext == LoopTest \/ ReceiveClosed \/ LoopRaised \/ LoopReturned

Next == MainNext \/ LoopNext \/ Receive \/ StepEnds \/ StepClosed \/ Shutdown \/ Exited

\* As for the CUDA worker: both threads are scheduled, work may never arrive
\* and a model step may never end.
Fairness == WF_vars(MainNext) /\ WF_vars(LoopNext)

Spec == Init /\ [][Next]_vars
FairSpec == Spec /\ Fairness

-----------------------------------------------------------------------------
(* Properties. *)

Drains == kind \in FullKinds \cup TwoStreams

\* A draining worker gives up neither its communicator nor its model before its
\* receiver has left the loop by itself: a failed loop keeps both for good.
DrainBeforeRelease ==
  /\ Drains
  /\ connector = "closed" \/ native = "released"
  => daemon \in {"absent", "returned"} /\ (daemon = "returned" => receiver_exited)

\* "Failed graph startup retains resources": the model in every case, and the
\* communicator too once warmup or capture may have queued work on it.
FailedStartupRetains ==
  startup_failure => native = "held" /\ (RequiresDrain => connector # "closed")

\* The exception that closing the connector provokes in the receiver is never
\* taken for a failure of the loop.
QuietStop == loop_error # "closed"

\* "completing shutdown ... surfaces an earlier background failure": once a
\* Worker.shutdown that saw the loop end is over, somebody who does not swallow
\* the failure knows of it.  Without a drain nobody may: no run checks this.
ShutdownSurfacesFailure ==
  verdict \in {"clean", "failed"} /\ daemon = "failed" => surfaced

\* Every shutdown request ends, also with the receiver pending for ever.
ShutdownTerminates == shutdown ~> main = "exited"

\* A stop that closes the connector gets an idle receiver out of its receive,
\* and it never goes back there.
CloseUnblocks == main = "closeConnector" ~> [](daemon # "receive")

\* What a draining worker holds goes only when nothing can use it any more, and
\* a stop is not mistaken for a failure.
StopSafe == DrainBeforeRelease /\ FailedStartupRetains /\ QuietStop

(***************************************************************************)
(* The inductive strengthening behind StopSafe.                            *)
(***************************************************************************)
TypeOK ==
  /\ EngineTypeOK
  /\ main \in EngineSteps \cup {"closeConnector", "join", "stopFinish"}
  /\ kind \in Kinds /\ mode \in {"eager", "full"}
  /\ two_stream \in BOOLEAN /\ startup_failure \in BOOLEAN /\ receiver_exited \in BOOLEAN
  /\ connector \in {"absent", "open", "closed"}
  /\ ffn_thread \in BOOLEAN /\ event \in {"none", "clear", "set"}
  /\ loop_error \in {"none", "compute", "closed"} /\ native \in {"held", "released"}
  /\ daemon \in Alive \cup {"absent", "returned", "failed"}

\* Until the first stop everything is still there, and a loop that has ended
\* has failed.
EarlyInv ==
  main \in Early =>
    /\ native = "held" /\ connector # "closed" /\ ~startup_failure
    /\ event # "set" /\ daemon \notin {"leaving", "returned"}
    /\ daemon = "failed" => loop_error # "none"
    /\ main \in {"boot", "startFresh"} => daemon \notin Alive
    /\ daemon = "absent" <=> connector = "absent"

\* The worker's fields describe the daemon, and a stop closes the connector only
\* after the event is set.
StopInv ==
  /\ daemon \in Alive => ffn_thread
  /\ ffn_thread <=> event # "none"
  /\ main \in {"closeConnector", "join"} => event # "clear"
  /\ main = "closeConnector" => ~RequiresDrain
  /\ main = "stopFinish" => daemon \notin Alive
  /\ main # "exited" => verdict = "none"
  /\ daemon = "raisedClosed" => connector = "closed"
  /\ connector = "closed" /\ daemon \in Alive => event = "set" /\ ~RequiresDrain

\* A loop that ran in a draining mode has to be drained until it is released,
\* and its failure is kept.
DrainInv ==
  Drains /\ daemon # "absent" =>
    /\ RequiresDrain \/ native = "released"
    /\ daemon = "failed" => loop_error # "none"

IInv == TypeOK /\ EarlyInv /\ StopInv /\ DrainInv /\ StopSafe

\* A stop ends, and gets the receiver out of its wait.
StopsEnd == ShutdownTerminates /\ CloseUnblocks

\* A worker that drains implements the life cycle the FFN runtime promises: no
\* step of it does what the life cycle does not allow.
Lifecycle == INSTANCE DaemonLifecycle
  WITH life      <- IF daemon \in Alive THEN "running" ELSE daemon,
       resources <- native,
       report    <- verdict

DrainImplementsLifecycle ==
  Lifecycle!LifecycleInit
  /\ [][Drains => Lifecycle!LifecycleNext]_(Lifecycle!lifecycleVars)
=============================================================================
