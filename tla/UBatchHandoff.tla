--------------------------- MODULE UBatchHandoff ----------------------------
(***************************************************************************)
(* Two microbatch threads of an Ascend Attention rank that take turns in   *)
(* the model and share the one physical window of the Async CAM transport: *)
(* compat/patches/npu/mrv2_ubatching.py, v1/worker/npu/ubatch_runner.py,   *)
(* model_executor/models/npu/async_cam_dbo.py and the layer loop of        *)
(* deepseek_v2_async_cam_forward.py.  vLLM's native UBatchContext (its     *)
(* registry, events and receive hook), its thread start and join, and      *)
(* threading.Barrier are external.                                         *)
(***************************************************************************)
EXTENDS Integers, Sequences

CONSTANTS
    Layers,    \* MoE layers of the model
    MaxRuns,   \* bound on the model runs of the runner
    MaxFaults  \* bound on the exceptions raised by native or model code

ASSUME LayersAssumption == Layers \in Nat \ {0}
ASSUME HandoffAssumption == MaxRuns \in Nat /\ MaxFaults \in Nat

VARIABLES
    main,      \* "idle", "barrier", "begun" or "join"
    pc,        \* where each thread is
    layer,     \* the layer each thread is in
    failed,    \* the thread leaves with an exception
    event,     \* cpu_wait_event of each thread
    arrived,   \* parties waiting at the barrier
    barrier,   \* "filling", "draining" or "broken"
    registry,  \* threads with an entry in _CURRENT_CONTEXTS
    hook,      \* recv_hook of each context: the call whose receive it runs
    started,   \* calls whose receive was started
    window,    \* sends whose receive is not yet submitted
    rx,        \* the receives of the run: the call and what it took
    runs, faults

handoffVars == <<main, pc, layer, failed, event, arrived, barrier, registry, hook,
                 started, window, rx, runs, faults>>
hostVars == <<runs, faults>>

Threads == {0, 1}
Main == 2
Parties == Threads \cup {Main}
Peer(t) == 1 - t
NoCall == [owner |-> -1, layer |-> 0]
Call(t) == [owner |-> t, layer |-> layer[t]]

HandoffInit ==
    /\ main = "idle" /\ pc = [t \in Threads |-> "none"]
    /\ layer = [t \in Threads |-> 1] /\ failed = [t \in Threads |-> FALSE]
    /\ event = [t \in Threads |-> FALSE]
    /\ arrived = {} /\ barrier = "filling" /\ registry = {}
    /\ hook = [t \in Threads |-> NoCall]
    /\ started = {} /\ window = <<>> /\ rx = <<>>
    /\ runs = 0 /\ faults = 0

Goto(t, place) == pc' = [pc EXCEPT ![t] = place]
Fault == faults < MaxFaults /\ faults' = faults + 1

(***************************************************************************)
(* threading.Barrier.  A waiter passes when all parties have arrived, and  *)
(* raises when the barrier is broken, also while it drains; a broken       *)
(* barrier stays broken.                                                   *)
(***************************************************************************)
Arrive(p) ==
    /\ arrived' = arrived \cup {p}
    /\ barrier' = IF barrier = "filling" /\ arrived \cup {p} = Parties
                  THEN "draining" ELSE barrier
Pass(p) ==
    /\ barrier = "draining" /\ p \in arrived
    /\ arrived' = arrived \ {p}
    /\ barrier' = IF arrived = {p} THEN "filling" ELSE barrier
Broken(p) == barrier = "broken" /\ p \in arrived
TimesOut(p) == barrier = "filling" /\ p \in arrived

(***************************************************************************)
(* The runner's own thread.                                                *)
(***************************************************************************)
(* begin_capturable_run: fresh events and contexts, one barrier for ever.
   The threads of an earlier run have ended. *)
Begin ==
    /\ main = "idle" /\ runs < MaxRuns
    /\ \A t \in Threads : pc[t] \in {"none", "done"}
    /\ main' = "barrier"
    /\ pc' = [t \in Threads |-> "init"]
    /\ layer' = [t \in Threads |-> 1] /\ failed' = [t \in Threads |-> FALSE]
    /\ event' = [t \in Threads |-> FALSE] /\ hook' = [t \in Threads |-> NoCall]
    /\ started' = {} /\ rx' = <<>>
    /\ Arrive(Main)
    /\ runs' = runs + 1
    /\ UNCHANGED <<registry, window, faults>>

BeginReturns ==
    /\ main = "barrier" /\ Pass(Main)
    /\ main' = "begun"
    /\ UNCHANGED <<pc, layer, failed, event, registry, hook, started, window, rx,
                   hostVars>>

(* the broken or timed out barrier raises; the threads are left to
   themselves *)
BeginRaises ==
    /\ main = "barrier" /\ (Broken(Main) \/ TimesOut(Main))
    /\ barrier' = "broken" /\ arrived' = arrived \ {Main}
    /\ main' = "idle"
    /\ UNCHANGED <<pc, layer, failed, event, registry, hook, started, window, rx,
                   hostVars>>

(* finish, at once in an eager run and inside the graph scope in a capture;
   abort_pending_run ends a parked run the same way *)
FinishStarts ==
    /\ main = "begun"
    /\ event' = [event EXCEPT ![0] = TRUE]
    /\ main' = "join"
    /\ UNCHANGED <<pc, layer, failed, arrived, barrier, registry, hook, started,
                   window, rx, hostVars>>

FinishJoins ==
    /\ main = "join" /\ \A t \in Threads : pc[t] = "done"
    /\ main' = "idle"
    /\ UNCHANGED <<pc, layer, failed, event, arrived, barrier, registry, hook,
                   started, window, rx, hostVars>>

----------------------------------------------------------------------------
(***************************************************************************)
(* NPUUBatchContext.                                                       *)
(***************************************************************************)
(* _abort breaks the barrier and wakes both threads *)
AllAwake == [t \in Threads |-> TRUE]

(* the device is set before __enter__; a failure there ends the thread with
   nobody told *)
InitFails(t) ==
    /\ pc[t] = "init" /\ Fault
    /\ Goto(t, "done")
    /\ failed' = [failed EXCEPT ![t] = TRUE]
    /\ UNCHANGED <<main, layer, event, arrived, barrier, registry, hook, started,
                   window, rx, runs>>

(* native __enter__ registers the context and arrives at the barrier *)
Enter(t) ==
    /\ pc[t] = "init"
    /\ registry' = registry \cup {t}
    /\ Arrive(t)
    /\ Goto(t, "barrier")
    /\ UNCHANGED <<main, layer, failed, event, hook, started, window, rx, hostVars>>

(* the except clause of __enter__: abort, drop the registry entry, raise;
   __exit__ is not called *)
EnterUnwinds(t) ==
    /\ barrier' = "broken" /\ arrived' = arrived \ {t}
    /\ event' = AllAwake
    /\ registry' = registry \ {t}
    /\ failed' = [failed EXCEPT ![t] = TRUE]
    /\ Goto(t, "done")

SetDeviceFails(t) ==
    /\ pc[t] = "init" /\ Fault
    /\ EnterUnwinds(t)
    /\ UNCHANGED <<main, layer, hook, started, window, rx, runs>>

EnterBroken(t) ==
    /\ pc[t] = "barrier" /\ (Broken(t) \/ TimesOut(t))
    /\ EnterUnwinds(t)
    /\ UNCHANGED <<main, layer, hook, started, window, rx, hostVars>>

EnterPasses(t) ==
    /\ pc[t] = "barrier" /\ Pass(t)
    /\ Goto(t, "park")
    /\ UNCHANGED <<main, layer, failed, event, registry, hook, started, window, rx,
                   hostVars>>

(* the event wait of __enter__ ends and clears the event *)
Unpark(t) ==
    /\ pc[t] = "park" /\ event[t]
    /\ event' = [event EXCEPT ![t] = FALSE]
    /\ Goto(t, "entered")
    /\ UNCHANGED <<main, layer, failed, arrived, barrier, registry, hook, started,
                   window, rx, hostVars>>

Cancelled_Never == FALSE

(* _check_cancelled *)
Cancelled == barrier = "broken"

CheckEntered(t) ==
    /\ pc[t] = "entered"
    /\ IF Cancelled THEN EnterUnwinds(t)
       ELSE /\ Goto(t, "model")
            /\ UNCHANGED <<failed, event, arrived, barrier, registry>>
    /\ UNCHANGED <<main, layer, hook, started, window, rx, hostVars>>

(* an exception leaves the with block: __exit__ aborts before anything else *)
Raises(t) ==
    /\ failed' = [failed EXCEPT ![t] = TRUE]
    /\ barrier' = "broken" /\ event' = AllAwake
    /\ Goto(t, "exit")

(* native __exit__: unregister; then the receive hook of this context *)
ExitUnregisters(t) ==
    /\ pc[t] = "exit"
    /\ registry' = registry \ {t}
    /\ Goto(t, "exithook")
    /\ UNCHANGED <<main, layer, failed, event, arrived, barrier, hook, started,
                   window, rx, hostVars>>

(* the receive closure of a call: only its first use submits the receive,
   which takes what is in the window *)
Receives(c) ==
    IF c = NoCall \/ c \in started THEN UNCHANGED <<started, rx, window>>
    ELSE /\ started' = started \cup {c}
         /\ rx' = Append(rx, [call |-> c, data |-> IF window = <<>> THEN NoCall
                                                  ELSE Head(window)])
         /\ window' = IF window = <<>> THEN window ELSE Tail(window)

(* maybe_run_recv_hook *)
RunHook(t) ==
    /\ Receives(hook[t])
    /\ hook' = [hook EXCEPT ![t] = NoCall]

(* the hook, then the peer's event, then the own one is cleared; the finally
   sets the peer's event again *)
ExitSignals(t) ==
    /\ pc[t] = "exithook"
    /\ RunHook(t)
    /\ event' = [event EXCEPT ![Peer(t)] = TRUE, ![t] = FALSE]
    /\ Goto(t, "done")
    /\ UNCHANGED <<main, layer, failed, arrived, barrier, registry, hostVars>>

ExitHookRaises_Silent(t) ==
    /\ Goto(t, "done")
    /\ failed' = [failed EXCEPT ![t] = TRUE]
    /\ UNCHANGED <<barrier, event>>

(* the hook raises out of native __exit__: abort, and the finally *)
ExitHookRaises(t) ==
    /\ Goto(t, "done")
    /\ failed' = [failed EXCEPT ![t] = TRUE]
    /\ barrier' = "broken" /\ event' = AllAwake

ExitHookFails(t) ==
    /\ pc[t] = "exithook" /\ Fault
    /\ hook[t] /= NoCall
    /\ ExitHookRaises(t)
    /\ started' = started \cup {hook[t]}
    /\ UNCHANGED <<main, layer, arrived, registry, hook, window, rx, runs>>

----------------------------------------------------------------------------
(***************************************************************************)
(* The layer loop of a thread: its own hook, send, register the receive    *)
(* with the peer, yield, and after the yield its own receive.              *)
(***************************************************************************)
ModelFails(t) ==
    /\ pc[t] \in {"model", "send", "sent", "resumed"} /\ Fault
    /\ Raises(t)
    /\ UNCHANGED <<main, layer, arrived, registry, hook, started, window, rx, runs>>

(* the receive submitted by the hook fails in the thread that runs it; the
   call counts as started for ever *)
HookFails(t) ==
    /\ pc[t] = "model" /\ hook[t] /= NoCall /\ Fault
    /\ Raises(t)
    /\ started' = started \cup {hook[t]}
    /\ UNCHANGED <<main, layer, arrived, registry, hook, window, rx, runs>>

DrainPeer_Skipped(t) == UNCHANGED <<started, rx, window, hook>>

(* send_async_cam_remote_call begins with the receive of the peer's call *)
DrainPeer(t) == RunHook(t)

BeforeSend(t) ==
    /\ pc[t] = "model"
    /\ DrainPeer(t)
    /\ Goto(t, "send")
    /\ UNCHANGED <<main, layer, failed, event, arrived, barrier, registry, hostVars>>

Send(t) ==
    /\ pc[t] = "send"
    /\ window' = Append(window, Call(t))
    /\ Goto(t, "sent")
    /\ UNCHANGED <<main, layer, failed, event, arrived, barrier, registry, hook,
                   started, rx, hostVars>>

(* dbo_register_recv_hook sets the hook of the other context; it raises when
   that context is gone *)
Register(t) ==
    /\ pc[t] = "sent"
    /\ IF Peer(t) \in registry
       THEN /\ hook' = [hook EXCEPT ![Peer(t)] = Call(t)]
            /\ Goto(t, "yield")
            /\ UNCHANGED <<failed, barrier, event>>
       ELSE Raises(t) /\ UNCHANGED hook
    /\ UNCHANGED <<main, layer, arrived, registry, started, window, rx, hostVars>>

(* _cpu_yield: check, wake the peer, wait, clear, check *)
Yield(t) ==
    /\ pc[t] = "yield"
    /\ IF Cancelled THEN Raises(t)
       ELSE /\ event' = [event EXCEPT ![Peer(t)] = TRUE]
            /\ Goto(t, "yielded")
            /\ UNCHANGED <<failed, barrier>>
    /\ UNCHANGED <<main, layer, arrived, registry, hook, started, window, rx, hostVars>>

YieldWakes(t) ==
    /\ pc[t] = "yielded" /\ event[t]
    /\ event' = [event EXCEPT ![t] = FALSE]
    /\ Goto(t, "awake")
    /\ UNCHANGED <<main, layer, failed, arrived, barrier, registry, hook, started,
                   window, rx, hostVars>>

CheckResumed(t) ==
    /\ pc[t] = "awake"
    /\ IF Cancelled THEN Raises(t)
       ELSE /\ Goto(t, "resumed")
            /\ UNCHANGED <<failed, barrier, event>>
    /\ UNCHANGED <<main, layer, arrived, registry, hook, started, window, rx, hostVars>>

More(t) == layer[t] < Layers

(* the pending receive of the loop: next layer, or out of the with block *)
Consume(t) ==
    /\ pc[t] = "resumed"
    /\ Receives(Call(t))
    /\ layer' = IF More(t) THEN [layer EXCEPT ![t] = @ + 1] ELSE layer
    /\ Goto(t, IF More(t) THEN "model" ELSE "exit")
    /\ UNCHANGED <<main, failed, event, arrived, barrier, registry, hook, hostVars>>

ThreadStep(t) ==
    \/ Enter(t) \/ EnterPasses(t) \/ EnterBroken(t) \/ Unpark(t) \/ CheckEntered(t)
    \/ BeforeSend(t) \/ Send(t) \/ Register(t) \/ Yield(t) \/ YieldWakes(t) \/ CheckResumed(t)
    \/ Consume(t) \/ ExitUnregisters(t) \/ ExitSignals(t)

MainStep == BeginReturns \/ BeginRaises \/ FinishStarts \/ FinishJoins

HandoffNext ==
    \/ Begin
    \/ MainStep
    \/ \E t \in Threads :
          \/ ThreadStep(t)
          \/ InitFails(t) \/ SetDeviceFails(t) \/ ModelFails(t)
          \/ HookFails(t) \/ ExitHookFails(t)

(* Threads run, events and barriers wake their waiters, and the barrier has
   a timeout; nothing has to fail and no further run has to begin. *)
Fairness == WF_handoffVars(MainStep) /\ \A t \in Threads : WF_handoffVars(ThreadStep(t))

HandoffSpec == HandoffInit /\ [][HandoffNext]_handoffVars /\ Fairness

----------------------------------------------------------------------------
(***************************************************************************)
(* Properties.                                                             *)
(***************************************************************************)
InModel(t) == pc[t] \in {"model", "send", "sent", "yield", "resumed"}

Places == {"none", "init", "barrier", "park", "entered", "model", "send", "sent", "yield",
           "yielded", "awake", "resumed", "exit", "exithook", "done"}
Calls == [owner : Threads, layer : 1 .. Layers]

(* One type invariant. *)
TypeOK ==
    /\ main \in {"idle", "barrier", "begun", "join"}
    /\ pc \in [Threads -> Places] /\ layer \in [Threads -> 1 .. Layers]
    /\ failed \in [Threads -> BOOLEAN] /\ event \in [Threads -> BOOLEAN]
    /\ hook \in [Threads -> Calls \cup {NoCall}]
    /\ started \subseteq Calls /\ window \in Seq(Calls)
    /\ rx \in Seq([call : Calls, data : Calls])
    /\ arrived \subseteq Parties /\ registry \subseteq Threads
    /\ barrier \in {"filling", "draining", "broken"}
    /\ runs \in 0 .. MaxRuns /\ faults \in 0 .. MaxFaults

(* The window of CAM is never overwritten: the thread that sends has first
   submitted the receive of what its peer sent (async_cam_dbo.py:28-31). *)
WindowNotOverwritten == Len(window) <= 1

(* Every receive is submitted once and takes the transfer of its own call,
   although another thread submits it (async_cam_dbo.py:36-45). *)
ReceivesOwnTransfer ==
    /\ \A i \in DOMAIN rx : rx[i].call = rx[i].data
    /\ \A i, j \in DOMAIN rx : rx[i].call = rx[j].call => i = j

(* At most one of the threads is in model code, and nothing that it sends is
   lost to the other. *)
HandedOver ==
    TypeOK /\ ~(InModel(0) /\ InModel(1)) /\ WindowNotOverwritten /\ ReceivesOwnTransfer

(***************************************************************************)
(* The inductive strengthening behind HandedOver.  As long as the barrier  *)
(* is not broken one thread at most is awake or about to wake.             *)
(***************************************************************************)
Intact == barrier /= "broken"
Active(t) == InModel(t) \/ pc[t] \in {"entered", "awake", "exit", "exithook"}
Holds(t) == Active(t) \/ (event[t] /\ pc[t] /= "done")

(* who is at the barrier, and what that says of the others *)
BarrierInv ==
    /\ Main \in arrived <=> main = "barrier"
    /\ \A t \in Threads : t \in arrived <=> pc[t] = "barrier"
    /\ barrier = "draining" => arrived /= {} /\ \A t \in Threads : pc[t] \notin {"none", "init"}
    /\ barrier = "filling" /\ arrived /= {} =>
         main = "barrier" /\ \A t \in Threads : pc[t] \in {"init", "barrier", "done"}
    /\ Intact => \A t \in Threads :
         /\ pc[t] = "init" => main = "barrier" /\ barrier = "filling"
         /\ main \in {"barrier", "begun"} =>
              pc[t] \in {"init", "barrier", "park", "done"} /\ ~event[t]
         /\ main = "idle" => pc[t] \in {"none", "done"}

(* one holder; a failure finds the other thread outside the model *)
HolderInv ==
    /\ Intact => ~(Holds(0) /\ Holds(1)) /\ \A t \in Threads : Active(t) => ~event[t]
    /\ ~Intact => \A t \in Threads : ~InModel(t)

(* a hook is for the call of the parked peer and not yet received *)
HookInv == \A t \in Threads : hook[t] /= NoCall =>
    /\ hook[t] = Call(Peer(t))
    /\ hook[t] \in started \/ window = <<hook[t]>>
    /\ Intact => pc[Peer(t)] \in {"yield", "yielded"}

(* where each call is, from the send to the wake-up of its sender *)
Taken(t) == Call(t) \in started /\ hook[Peer(t)] = NoCall
CallInv == Intact => \A t \in Threads :
    /\ pc[t] \in {"send", "sent", "yield"} => hook[t] = NoCall
    /\ pc[t] = "sent" => window = <<Call(t)>>
    /\ pc[t] \in {"yield", "yielded"} => Call(t) \in started \/ hook[Peer(t)] = Call(t)
    /\ pc[t] = "yielded" /\ event[t] => Taken(t)
    /\ pc[t] \in {"awake", "resumed"} => Taken(t)
    /\ pc[t] /= "none" => \A c \in started : c.owner = t =>
         IF pc[t] \in {"init", "barrier", "park", "entered", "model", "send", "sent"}
         THEN c.layer < layer[t] ELSE c.layer <= layer[t]

WindowInv ==
    /\ window = <<>> \/ \E c \in Calls : window = <<c>>
    /\ Intact => window = <<>> \/ \E t \in Threads :
         window = <<Call(t)>> /\ pc[t] \in {"sent", "yield", "yielded"} /\ Call(t) \notin started

HandoffInv ==
    /\ TypeOK /\ BarrierInv /\ HolderInv /\ HookInv /\ CallInv /\ WindowInv
    /\ ReceivesOwnTransfer /\ \A i \in DOMAIN rx : rx[i].call \in started

(* When the threads have ended nothing refers to them
   (mrv2_ubatching.py:69-81). *)
RegistryEmptied == (\A t \in Threads : pc[t] \in {"none", "done"}) => registry = {}

(* what is registered has entered and not left *)
RegistryInv == \A t \in registry : pc[t] \notin {"none", "init", "exithook", "done"}

(* Wherever a thread fails, nothing of the run stays behind, and the
   communication of the runner is over for good, in this run and in later
   ones: no thread sends after the barrier was broken
   (mrv2_ubatching.py:85-86, :100-106). *)
Sends(t) == pc[t] = "send" /\ pc'[t] = "sent"
FailureContained ==
    [][/\ RegistryEmptied'
       /\ barrier = "broken" => \A t \in Threads : ~Sends(t)]_handoffVars

(* No thread stays parked and no run hangs, wherever one of them raises: the
   peer is woken, and before that the barrier times out. *)
EveryoneEnds ==
    /\ \A t \in Threads : (pc[t] = "init") ~> (pc[t] = "done")
    /\ (main = "barrier") ~> (main = "idle")
=============================================================================
