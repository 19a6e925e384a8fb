----------------------------- MODULE FFNWorker -----------------------------
(***************************************************************************)
(* The life cycle of one CUDA FFN worker: its main thread, driven by the   *)
(* FFN EngineCore, against the daemon thread that blocks in the P2P        *)
(* metadata control plane.                                                 *)
(*                                                                         *)
(* Sources: v1/worker/ffn_worker.py, connectors/gpu/p2p.py (the control    *)
(* plane) and connectors/metadata.py (recv_control_payload).               *)
(*                                                                         *)
(* One step is one read or write of state the two threads share.  The two  *)
(* fragments of a control payload (its size, then the object) are counted, *)
(* not represented: they alternate on a FIFO channel with one sender.      *)
(***************************************************************************)
EXTENDS Naturals, FFNEngine

CONSTANT MaxFragments   \* bound: fragments the Attention sender puts on the wire

ASSUME MaxFragmentsAssumption == MaxFragments \in Nat

VARIABLES
  initialized, \* connector._initialized
  ffn_thread,  \* self._ffn_thread is not None
  event,       \* self._ffn_shutdown_event, as the daemon sees it
  loop_error,  \* self._ffn_loop_error
  native,      \* worker, runner and connector resources: "held" or "released"
  closed,      \* control_plane._closed
  p2p_pg,      \* connector.p2p_pg is not None
  pg,          \* the metadata process group itself
  daemon,      \* program counter of the daemon thread
  group,       \* the daemon's local: the group it read was not None
  tainted,     \* the daemon's last receive returned because of the abort
  wire,        \* fragments sent and not yet received
  sent         \* fragments sent so far

workerVars == <<initialized, ffn_thread, event, loop_error, native>>
planeVars  == <<closed, p2p_pg, pg>>
daemonVars == <<daemon, group, tainted, wire>>
vars == <<engineVars, workerVars, planeVars, daemonVars, sent>>

MainSteps == EngineSteps \cup {"closeMark", "closeAbort", "closeUnregister",
                               "closeForget", "join", "stopFinish"}
Receiving == {"readGroup", "checkClosed", "recvSize", "checkSize",
              "recvObject", "checkObject", "onClosed"}
Alive     == {"top", "execute"} \cup Receiving
Errors    == {"compute", "peer", "closed", "uninitialized", "unregistered"}

(* One type invariant: every variable has the values the code can give it. *)
TypeOK ==
  /\ main \in MainSteps
  /\ EngineTypeOK
  /\ initialized \in BOOLEAN /\ ffn_thread \in BOOLEAN
  /\ event \in {"none", "clear", "set"}
  /\ loop_error \in {"none"} \cup Errors
  /\ native \in {"held", "released"}
  /\ closed \in BOOLEAN /\ p2p_pg \in BOOLEAN
  /\ pg \in {"absent", "live", "aborted", "unregistered"}
  /\ daemon \in {"absent", "returned", "failed"} \cup Alive
  /\ group \in BOOLEAN /\ tainted \in BOOLEAN
  /\ wire \in 0..MaxFragments /\ sent \in 0..MaxFragments

Init ==
  /\ EngineInit
  /\ initialized = FALSE /\ ffn_thread = FALSE /\ event = "none"
  /\ loop_error = "none" /\ native = "held"
  /\ closed = FALSE /\ p2p_pg = FALSE /\ pg = "absent"
  /\ daemon = "absent" /\ group = FALSE /\ tainted = FALSE
  /\ wire = 0 /\ sent = 0

-----------------------------------------------------------------------------
(* The environment. *)

\* The Attention sender puts the next fragment of a control payload on the wire.
PeerSend ==
  /\ pg = "live" /\ sent < MaxFragments
  /\ sent' = sent + 1 /\ wire' = wire + 1
  /\ UNCHANGED <<engineVars, workerVars, planeVars, daemon, group, tainted>>

EngineStep ==
  /\ EngineNext(loop_error # "none")
  /\ UNCHANGED <<workerVars, planeVars, daemonVars, sent>>

Shutdown ==
  /\ RequestShutdown
  /\ UNCHANGED <<workerVars, planeVars, daemonVars, sent>>

-----------------------------------------------------------------------------
(* start_ffn_server_loop. *)

StartCheckAlive ==
  /\ main = "start"
  /\ MainGoes(IF ffn_thread /\ daemon \in Alive THEN "startAlive" ELSE "startFresh")
  /\ UNCHANGED <<workerVars, planeVars, daemonVars, sent>>

\* The thread was alive: re-raise its error if it has one by now, else return.
StartAlreadyRunning ==
  /\ main = "startAlive"
  /\ IF loop_error = "none" THEN StartReturns ELSE StartRaises(TRUE)
  /\ UNCHANGED <<workerVars, planeVars, daemonVars, sent>>

\* No live thread, but an earlier one may have failed; or the collective
\* connector initialisation fails.
StartFails ==
  /\ main = "startFresh"
  /\ loop_error # "none" \/ ~initialized
  /\ StartRaises(loop_error # "none")
  /\ UNCHANGED <<workerVars, planeVars, daemonVars, sent>>

StartThread ==
  /\ main = "startFresh" /\ loop_error = "none"
  /\ initialized' = TRUE
  /\ IF initialized THEN UNCHANGED <<p2p_pg, pg>>
                    ELSE p2p_pg' = TRUE /\ pg' = "live"
  /\ event' = "clear" /\ loop_error' = "none" /\ ffn_thread' = TRUE
  /\ daemon' = "top" /\ group' = FALSE /\ tainted' = FALSE
  /\ StartReturns
  /\ UNCHANGED <<native, closed, wire, sent>>

-----------------------------------------------------------------------------
(* stop_ffn_server_loop, control_plane.close and Worker.shutdown. *)

StopSignal ==
  /\ main = "signal"
  /\ event' = IF event = "none" THEN "none" ELSE "set"
  /\ MainGoes("closeMark")
  /\ UNCHANGED <<initialized, ffn_thread, loop_error, native, planeVars, daemonVars, sent>>

CloseMark ==
  /\ main = "closeMark"
  /\ closed' = TRUE
  /\ MainGoes("closeAbort")
  /\ UNCHANGED <<workerVars, p2p_pg, pg, daemonVars, sent>>

CloseAbort ==
  /\ main = "closeAbort"
  /\ IF p2p_pg THEN pg' = "aborted" /\ MainGoes("closeUnregister")
               ELSE UNCHANGED pg /\ MainGoes("join")
  /\ UNCHANGED <<workerVars, closed, p2p_pg, daemonVars, sent>>

CloseUnregister ==
  /\ main = "closeUnregister"
  /\ pg' = "unregistered"
  /\ MainGoes("closeForget")
  /\ UNCHANGED <<workerVars, closed, p2p_pg, daemonVars, sent>>

CloseForget ==
  /\ main = "closeForget"
  /\ p2p_pg' = FALSE
  /\ MainGoes("join")
  /\ UNCHANGED <<workerVars, closed, pg, daemonVars, sent>>

\* Worker.shutdown's finally clause: native resources go only with the thread.
ReleaseNative == native' = "released" /\ initialized' = FALSE

KeepNative == UNCHANGED <<native, initialized>>

\* Mutant: the resources go although the thread is alive.
ShutdownAfterTimeout_Releases == ReleaseNative

\* What Worker.shutdown does after a stop that left the thread alive.
ShutdownAfterTimeout == KeepNative

JoinExited ==
  /\ main = "join"
  /\ ffn_thread => daemon \notin Alive
  /\ MainGoes("stopFinish")
  /\ UNCHANGED <<workerVars, planeVars, daemonVars, sent>>

\* Mutant: a join without a timeout.
JoinTimeout_Never == FALSE

\* The bounded join expires while the thread is alive, and the stop raises.
JoinTimeout ==
  /\ main = "join" /\ ffn_thread /\ daemon \in Alive
  /\ \/ SwallowedStop /\ KeepNative
     \/ WorkerShutdownEnds("stuck") /\ ShutdownAfterTimeout
  /\ UNCHANGED <<ffn_thread, event, loop_error, planeVars, daemonVars, sent>>

\* raise_ffn_loop_error_if_any keeps the error for the next caller.
RaiseKeeps == UNCHANGED loop_error

StopFinish ==
  /\ main = "stopFinish"
  /\ ffn_thread' = FALSE /\ event' = "none"
  /\ RaiseKeeps
  /\ \/ SwallowedStop /\ KeepNative
     \/ /\ WorkerShutdownEnds(IF loop_error = "none" THEN "clean" ELSE "failed")
        /\ ReleaseNative
  /\ UNCHANGED <<planeVars, daemonVars, sent>>

-----------------------------------------------------------------------------
(* The daemon thread: _run_ffn_server_loop, recv_dp_metadata_list and        *)
(* recv_control_payload.                                                     *)

\* The wrapper of the thread's target stores the exception and returns.
DaemonFails(error) == daemon' = "failed" /\ loop_error' = error

DaemonGoes(to) == daemon' = to /\ UNCHANGED loop_error

DaemonFrame == UNCHANGED <<engineVars, initialized, ffn_thread, event, native,
                           planeVars, sent>>

LoopTest ==
  /\ daemon = "top"
  /\ DaemonGoes(IF event = "set" THEN "returned" ELSE "readGroup")
  /\ DaemonFrame /\ UNCHANGED <<group, tainted, wire>>

ReadGroup ==
  /\ daemon = "readGroup"
  /\ group' = p2p_pg
  /\ DaemonGoes("checkClosed")
  /\ DaemonFrame /\ UNCHANGED <<tainted, wire>>

CheckClosed ==
  /\ daemon = "checkClosed"
  /\ \/ closed /\ DaemonGoes("onClosed")
     \/ ~closed /\ group /\ DaemonGoes("recvSize")
     \/ ~closed /\ ~group /\ DaemonFails("uninitialized")
  /\ DaemonFrame /\ UNCHANGED <<group, tainted, wire>>

\* The receive of a fragment: it completes with one from the wire, or with
\* whatever the buffer holds once the group is aborted, or finds the group
\* unregistered, or the transport to the peer fails.
RecvFragment(at, next) ==
  /\ daemon = at
  /\ \/ /\ pg = "live" /\ wire > 0
        /\ wire' = wire - 1 /\ tainted' = FALSE
        /\ DaemonGoes(next)
     \/ /\ pg = "aborted"
        /\ tainted' = TRUE /\ UNCHANGED wire
        /\ DaemonGoes(next)
     \/ /\ pg = "unregistered"
        /\ IF closed THEN DaemonGoes("onClosed") ELSE DaemonFails("unregistered")
        /\ UNCHANGED <<wire, tainted>>
  /\ DaemonFrame /\ UNCHANGED group

PeerFails ==
  /\ daemon \in {"recvSize", "recvObject"} /\ pg = "live"
  /\ DaemonFails("peer")
  /\ DaemonFrame /\ UNCHANGED <<group, tainted, wire>>

RecvSize   == RecvFragment("recvSize", "checkSize")
RecvObject == RecvFragment("recvObject", "checkObject")

\* Mutant: no check after the wait.
CheckAfterWait_None(at, next) ==
  /\ daemon = at
  /\ DaemonGoes(next)
  /\ DaemonFrame /\ UNCHANGED <<group, tainted, wire>>

\* check_closed after a device wait.
CheckAfterWait(at, next) ==
  /\ daemon = at
  /\ DaemonGoes(IF closed THEN "onClosed" ELSE next)
  /\ DaemonFrame /\ UNCHANGED <<group, tainted, wire>>

CheckSize   == CheckAfterWait("checkSize", "recvObject")
CheckObject == CheckAfterWait("checkObject", "execute")

\* except AFDControlPlaneClosedError: fatal unless a stop is under way.
OnClosed ==
  /\ daemon = "onClosed"
  /\ IF event = "set" THEN DaemonGoes("returned") ELSE DaemonFails("closed")
  /\ DaemonFrame /\ UNCHANGED <<group, tainted, wire>>

\* The step itself, execute_model or capture_model, then synchronize.  It may
\* also block for ever on a data-plane peer, so it is not fair.
ExecuteStep ==
  /\ daemon = "execute"
  /\ DaemonGoes("top") \/ DaemonFails("compute")
  /\ DaemonFrame /\ UNCHANGED <<group, tainted, wire>>

-----------------------------------------------------------------------------
\* The process is over; a daemon thread left in a model step may still end it.
Exited == main = "exited" /\ UNCHANGED vars

MainNext ==
  \/ EngineStep
  \/ StartCheckAlive \/ StartAlreadyRunning \/ StartFails \/ StartThread
  \/ StopSignal \/ CloseMark \/ CloseAbort \/ CloseUnregister \/ CloseForget
  \/ JoinExited \/ JoinTimeout \/ StopFinish

ReceiverNext ==
  \/ LoopTest \/ ReadGroup \/ CheckClosed \/ RecvSize \/ CheckSize
  \/ RecvObject \/ CheckObject \/ OnClosed

Next == MainNext \/ ReceiverNext \/ ExecuteStep \/ PeerFails
        \/ PeerSend \/ Shutdown \/ Exited

\* Both threads are scheduled by the OS as long as they are runnable; nothing
\* is assumed of the peer, of the model step or of who requests the shutdown.
Fairness == WF_vars(MainNext) /\ WF_vars(ReceiverNext)

Spec == Init /\ [][Next]_vars
FairSpec == Spec /\ Fairness

-----------------------------------------------------------------------------
(* Properties. *)

\* Worker.shutdown "releases native state only after the receiver exits":
\* whatever the interleaving of the three stops and their join timeouts.
ReleaseAfterExit == native = "released" => daemon \notin Alive

\* Stopping a healthy worker is quiet: the only errors the loop ever stores
\* come from the model step or from the peer, never from the stop's own close
\* racing the receiver at any of its reads.
QuietStop == loop_error \in {"none", "compute", "peer"}

\* The daemon never runs a model step on what an aborted receive left in its
\* buffers: the checks after both device waits catch it.
NoStepOnAbortedReceive == daemon = "execute" => ~tainted

\* What a stop does to a receive is neither taken for a failure nor for data.
AbortedReceiveHarmless == QuietStop /\ NoStepOnAbortedReceive

\* Worker.shutdown reports an earlier failure of the loop however many stops
\* ran (and were swallowed) before it: "retain its failure".
ShutdownReportsFailure ==
  native = "released" => (verdict = "failed" <=> daemon = "failed")

(***************************************************************************)
(* The inductive strengthening behind the safety properties above.         *)
(***************************************************************************)

\* The worker's own fields describe the daemon thread.
ThreadInv ==
  /\ daemon \in Alive => ffn_thread /\ initialized /\ event # "none"
  /\ loop_error = "none" <=> daemon # "failed"
  /\ main \in {"boot", "startFresh", "stopFinish"} => daemon \notin Alive
  /\ main \in Early => ~closed /\ event # "set" /\ daemon # "returned"

\* The control plane is marked closed before anything else of it goes, and the
\* event is set before that.
CloseInv ==
  /\ closed \/ main = "closeMark" => (daemon \in Alive => event = "set")
  /\ initialized /\ ~closed => p2p_pg /\ pg = "live"
  /\ pg \in {"aborted", "unregistered"} => closed
  /\ main \in {"closeAbort", "closeUnregister", "closeForget"} => closed

\* What the daemon's locals say at each point of the receive.
ReceiveInv ==
  /\ daemon = "checkClosed" /\ ~group => closed
  /\ daemon = "onClosed" => closed
  /\ tainted => closed
  /\ wire <= sent

ReleaseInv ==
  /\ main # "exited" => verdict = "none" /\ native = "held"
  /\ native = "held" => verdict \in {"none", "stuck"}

IInv == /\ TypeOK /\ ThreadInv /\ CloseInv /\ ReceiveInv /\ ReleaseInv
        /\ ReleaseAfterExit /\ QuietStop /\ NoStepOnAbortedReceive
        /\ ShutdownReportsFailure

\* Every shutdown request ends, also when the daemon is stuck in a model step.
ShutdownTerminates == shutdown ~> main = "exited"

\* The worker implements the life cycle the FFN runtime promises.
Lifecycle == INSTANCE DaemonLifecycle
  WITH life      <- IF daemon \in Alive THEN "running" ELSE daemon,
       resources <- native,
       report    <- verdict

ImplementsLifecycle == Lifecycle!LifecycleSpec
=============================================================================
