----------------------------- MODULE FFNEngine -----------------------------
(***************************************************************************)
(* The FFN EngineCore as the thread that drives a worker: the daemon busy  *)
(* loop (one start RPC, then a poll for the loop's failure), the engine's  *)
(* shutdown and, last, the executor's.  compat/patches/engine_core.py.     *)
(*                                                                         *)
(* The engine runs a worker's calls one at a time, so its program counter  *)
(* is also that of the worker's main thread: a platform's worker module    *)
(* extends this one and adds the steps of start and stop between "start"   *)
(* or "signal" and the operators that return from them.                    *)
(***************************************************************************)

VARIABLES
  main,        \* program counter of EngineCore and of the worker main thread
  caller,      \* whose call of start or stop is running
  shutdown,    \* EngineCore left the RUNNING state, or was interrupted
  surfaced,    \* a caller that does not swallow it got the loop's failure
  verdict      \* how Worker.shutdown ended

engineVars == <<main, caller, shutdown, surfaced, verdict>>

\* The steps before any stop was called.
Early == {"boot", "ready", "start", "startAlive", "startFresh", "poll"}

EngineSteps == Early \cup {"signal", "engineShutdown", "executorShutdown",
                           "exited"}

EngineTypeOK ==
  /\ caller \in {"none", "config", "busy", "engine", "worker"}
  /\ shutdown \in BOOLEAN /\ surfaced \in BOOLEAN
  /\ verdict \in {"none", "clean", "failed", "stuck"}

EngineInit ==
  /\ main = "boot" /\ caller = "none"
  /\ shutdown = FALSE /\ surfaced = FALSE
  /\ verdict = "none"

\* The main thread moves on inside a call.
MainGoes(to) == main' = to /\ UNCHANGED <<caller, shutdown, surfaced, verdict>>

-----------------------------------------------------------------------------
\* A signal, or KeyboardInterrupt.  One that arrives while the engine is being
\* built is applied when the busy loop first tests the state.
RequestShutdown ==
  /\ ~shutdown /\ main \in Early
  /\ shutdown' = TRUE
  /\ UNCHANGED <<main, caller, surfaced, verdict>>

\* Worker.initialize_from_config starts the loop from the constructor.
InitializeFromConfig ==
  /\ main = "boot"
  /\ main' = "start" /\ caller' = "config"
  /\ UNCHANGED <<shutdown, surfaced, verdict>>

\* The busy loop opens with a collective start RPC.
RunBusyLoop ==
  /\ main \in {"boot", "ready"}
  /\ main' = "start" /\ caller' = "busy"
  /\ UNCHANGED <<shutdown, surfaced, verdict>>

\* Where a start that succeeds continues: the constructor, or the poll loop.
StartReturns ==
  /\ main' = IF caller = "config" THEN "ready" ELSE "poll"
  /\ UNCHANGED <<caller, shutdown, surfaced, verdict>>

\* A start that raises ends the constructor and with it the process, or leaves
\* the busy loop before its finally clause would stop anything: only
\* EngineCore.shutdown then stops the loop.
StartRaises(failed) ==
  /\ main' = IF caller = "config" THEN "exited" ELSE "engineShutdown"
  /\ surfaced' = (surfaced \/ failed)
  /\ UNCHANGED <<caller, shutdown, verdict>>

CallStop(who) ==
  /\ main' = "signal" /\ caller' = who
  /\ UNCHANGED <<shutdown, verdict>>

\* raise_ffn_loop_error_if_any, every half second; the finally clause stops the
\* loop.  A poll that finds nothing changes nothing.
PollRaises(failed) ==
  /\ main = "poll" /\ ~shutdown /\ failed
  /\ surfaced' = TRUE
  /\ CallStop("busy")

PollLeaves ==
  /\ main = "poll" /\ shutdown
  /\ CallStop("busy") /\ UNCHANGED surfaced

\* EngineCore.shutdown stops the loop once more before the executor ...
EngineShutdown ==
  /\ main = "engineShutdown"
  /\ CallStop("engine") /\ UNCHANGED surfaced

\* ... whose shutdown reaches Worker.shutdown, which stops it again.
ExecutorShutdown ==
  /\ main = "executorShutdown"
  /\ CallStop("worker") /\ UNCHANGED surfaced

\* A stop called by the busy loop or by EngineCore.shutdown is wrapped in
\* _stop_ffn_worker_loop, which swallows whatever it raises.
SwallowedStop ==
  /\ caller \in {"busy", "engine"}
  /\ main' = IF caller = "busy" THEN "engineShutdown" ELSE "executorShutdown"
  /\ UNCHANGED <<caller, shutdown, surfaced, verdict>>

\* Worker.shutdown ends the process; it raises unless the outcome is "clean".
WorkerShutdownEnds(outcome) ==
  /\ caller = "worker"
  /\ main' = "exited" /\ verdict' = outcome
  /\ surfaced' = (surfaced \/ outcome = "failed")
  /\ UNCHANGED <<caller, shutdown>>

\* The steps that touch nothing but the engine's own state.
EngineNext(failed) ==
  \/ InitializeFromConfig \/ RunBusyLoop \/ PollRaises(failed) \/ PollLeaves
  \/ EngineShutdown \/ ExecutorShutdown
=============================================================================
