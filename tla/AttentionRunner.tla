-------------------------- MODULE AttentionRunner ---------------------------
(***************************************************************************)
(* The Attention runner of one process: what execute_model and             *)
(* capture_model announce to the FFN ranks, and when.  Native vLLM runs    *)
(* the model; AFD wraps single symbols of it for the time of a call        *)
(* ("seams") and sends one control payload before every run of the model.  *)
(* Translated from v1/worker/attention_model_runner_v2.py, its Ascend      *)
(* counterpart (where Ascend makes a difference) and                       *)
(* v1/worker/attention_metadata.py, with the DP=1 dispatch of              *)
(* compat/patches/gpu_mrv2_ubatching.py.  The order in which native code   *)
(* reaches the seams is external.                                          *)
(***************************************************************************)
EXTENDS Integers, Sequences, SequencesExt, FiniteSets

CONSTANTS
    Ascend,      \* the Ascend runner
    KVConnector, \* a KV connector is configured and makes KV-only contexts
    UBatching,   \* DBO: there is a ubatch runner
    Descs,       \* FULL capture descriptors, in native order
    Threshold,   \* check_ubatch_thresholds: least tokens of a split batch
    MaxTokens,   \* bound on the scheduled tokens of a step
    MaxCalls     \* bound on the calls of the runner

ASSUME FlagsAssumption == {Ascend, KVConnector, UBatching} \subseteq BOOLEAN
ASSUME BoundsAssumption == /\ Threshold \in Nat /\ MaxTokens \in Nat
                           /\ MaxCalls \in Nat
(* a graph has at least one token for each of its stages *)
Desc == {d \in [tokens : Nat, stages : {1, 2}] : d.tokens >= d.stages}
ASSUME DescsAssumption == Descs \in Seq(Desc)

VARIABLES
    fl,       \* the runner's own state: flags, suppression and sidecar
    saved,    \* what the running call restores
    scope,    \* the running call: "none", "execute" or "capture"
    seams,    \* the native symbols AFD has replaced
    native,   \* where native code is in the call, and its batch
    tracker,  \* [expected, index] of _AFDCaptureEventTracker
    txn,      \* _afd_transaction_counter
    lastTxn,  \* transaction of the last run of the model, -1 before
    ahead,    \* payloads sent since the last run
    events,   \* payloads sent by the running capture
    captured, \* graphs exist
    outcome,  \* of the last call: "none", "ok" or "raised"
    calls

vars == <<fl, saved, scope, seams, native, tracker, txn, lastTxn, ahead,
          events, captured, outcome, calls>>

NoSidecar == [txn |-> -1, lens |-> <<>>, real |-> <<>>]
CleanFlags == [warm |-> FALSE, cap |-> FALSE, rep |-> FALSE, profile |-> FALSE,
               suppress |-> FALSE, pending |-> NoSidecar]
NoTracker == [expected |-> <<>>, index |-> 0]
NoBatch == [mode |-> "none", stages |-> 1, tokens |-> 0, real |-> 0, profile |-> FALSE]
At(place, batch) == [at |-> place, batch |-> batch]
Outside == At("outside", NoBatch)

Init ==
    /\ fl = CleanFlags /\ saved = CleanFlags
    /\ scope = "none" /\ seams = {} /\ native = Outside
    /\ tracker = NoTracker
    /\ txn = 0 /\ lastTxn = -1
    /\ ahead = <<>> /\ events = <<>>
    /\ captured = FALSE /\ outcome = "none" /\ calls = 0

----------------------------------------------------------------------------
(* native slices of a batch: halves of the padded extent *)
Split(tokens, stages) ==
    IF stages = 1 THEN <<tokens>> ELSE <<tokens \div 2, tokens - tokens \div 2>>

Start(lens, i) == IF i = 1 THEN 0 ELSE lens[1]
Max0(n) == IF n > 0 THEN n ELSE 0
Least(m, n) == IF m <= n THEN m ELSE n

(* install_mrv2_ubatch_metadata: the part of a stage that is not padding *)
UnpaddedLens(lens, real) ==
    [i \in DOMAIN lens |-> Max0(Least(Start(lens, i) + lens[i], real) - Start(lens, i))]

(* build_afd_metadata takes the next transaction id *)
Sidecar(lens, real) == [txn |-> txn, lens |-> lens, real |-> real]

(* send_dp_metadata: the payload has the flags of the moment *)
Payload(f, lens) == [warm |-> f.warm, cap |-> f.cap, rep |-> f.rep,
                     profile |-> f.profile, lens |-> lens]

Publish(f, lens) ==
    /\ ahead' = Append(ahead, Payload(f, lens))
    /\ events' = IF scope = "capture" THEN Append(events, Payload(f, lens)) ELSE events

Fulls(stages, n) ==
    {i \in DOMAIN Descs : Descs[i].stages = stages /\ Descs[i].tokens >= n}

(* ModelCudaGraphManager.dispatch: a smallest graph that fits, or eager *)
NativeDispatch(stages, n, graphs) ==
    IF graphs /\ Fulls(stages, n) /= {}
    THEN {[mode |-> "replay", stages |-> stages, tokens |-> Descs[i].tokens] :
            i \in {i \in Fulls(stages, n) :
                     \A k \in Fulls(stages, n) : Descs[i].tokens <= Descs[k].tokens}}
    ELSE {[mode |-> "eager", stages |-> stages, tokens |-> n]}

Dispatch_NoPaddingGuard(n, eager, ubatch) ==
    IF ubatch /\ n >= 2 /\ n >= Threshold
    THEN NativeDispatch(2, n, ~eager)
    ELSE NativeDispatch(1, n, ~eager)

(* dispatch_cg_and_sync_dp for DP = 1: which descriptors it may return *)
Dispatch(n, eager, ubatch) ==
    IF ubatch /\ n >= 2 /\ n >= Threshold
    THEN {IF 2 * n < d.tokens THEN [mode |-> "eager", stages |-> 2, tokens |-> n] ELSE d :
            d \in NativeDispatch(2, n, ~eager)}
    ELSE NativeDispatch(1, n, ~eager)

----------------------------------------------------------------------------
(***************************************************************************)
(* The scopes of the two calls.                                            *)
(***************************************************************************)
MayCall == scope = "none" /\ calls < MaxCalls /\ outcome /= "raised"

(* execute_model: save, clear replaying, install the seams; native dispatch
   then picks the batch.  A step may be idle. *)
Execute ==
    /\ MayCall
    /\ \E n \in 0 .. MaxTokens, profile, decode \in BOOLEAN :
       \E d \in Dispatch(n, profile \/ ~decode \/ ~captured, UBatching) :
         LET batch == [mode |-> d.mode, stages |-> d.stages, tokens |-> d.tokens,
                        real |-> n, profile |-> profile /\ Ascend]
         IN  /\ native' = IF n = 0 THEN At("after", NoBatch) ELSE At("begin", batch)
             /\ fl' = [fl EXCEPT !.rep = FALSE, !.profile = profile /\ Ascend]
    /\ saved' = fl
    /\ scope' = "execute"
    /\ seams' = {"dispatch", "provider"}
                \cup (IF Descs /= <<>> THEN {"hook"} ELSE {})
                \cup (IF UBatching THEN {"prepare"} ELSE {})
    /\ calls' = calls + 1
    /\ UNCHANGED <<tracker, txn, lastTxn, ahead, events, captured, outcome>>

(* capture_model over the first k FULL descriptors (graph memory profiling
   captures only a prefix): every descriptor is expected twice *)
Capture ==
    /\ MayCall
    /\ \E k \in 1 .. Len(Descs) :
         tracker' = [expected |-> [i \in 1 .. 2 * k |->
                                     [desc |-> Descs[(i + 1) \div 2], warm |-> i % 2 = 1]],
                     index |-> 0]
    /\ saved' = fl
    /\ scope' = "capture"
    /\ seams' = {"inputs", "provider"} \cup (IF UBatching THEN {"prepare"} ELSE {})
    /\ native' = At("events", NoBatch)
    /\ calls' = calls + 1
    /\ events' = <<>>
    /\ UNCHANGED <<fl, txn, lastTxn, ahead, captured, outcome>>

Restored_KeepsSuppression == [saved EXCEPT !.suppress = fl.suppress]

(* the finally blocks of both calls *)
Restored == saved

Leave(result) ==
    /\ fl' = Restored
    /\ seams' = {}
    /\ scope' = "none"
    /\ native' = Outside
    /\ tracker' = NoTracker
    /\ outcome' = result
    /\ UNCHANGED <<saved, txn, lastTxn, ahead, events, calls>>

(* native code, or any AFD code in it, may raise anywhere *)
Raise ==
    /\ scope /= "none"
    /\ Leave("raised")
    /\ UNCHANGED captured

ReturnExecute ==
    /\ scope = "execute" /\ native.at = "after"
    /\ Leave("ok")
    /\ UNCHANGED captured

Complete_Unchecked == TRUE

(* assert_complete *)
Complete == tracker.index = Len(tracker.expected)

ReturnCapture ==
    /\ scope = "capture" /\ native.at = "events"
    /\ Leave(IF Complete THEN "ok" ELSE "raised")
    /\ captured' = (captured \/ (Complete /\ Len(tracker.expected) = 2 * Len(Descs)))

----------------------------------------------------------------------------
(***************************************************************************)
(* The seams.                                                              *)
(***************************************************************************)

(* install_afd_metadata_on_forward_context: nothing for a context with
   neither batch descriptor nor attention metadata *)
IsKVOnly == KVConnector

(* the DP=1 fallback reads the pending sidecar, whose transaction it is *)
InstallMetadata(lens) ==
    LET side == IF fl.pending = NoSidecar THEN Sidecar(lens, lens) ELSE fl.pending
    IN  /\ fl' = [fl EXCEPT !.pending = side]
        /\ txn' = IF fl.pending = NoSidecar THEN txn + 1 ELSE txn
        /\ IF fl.suppress THEN UNCHANGED <<ahead, events>>
           ELSE Publish(fl, side.lens)

(* native eager step: the context of the model run *)
CreateContext ==
    /\ scope = "execute" /\ native.at = "begin"
    /\ native.batch.mode = "eager" /\ native.batch.stages = 1
    /\ InstallMetadata(<<native.batch.tokens>>)
    /\ native' = [native EXCEPT !.at = "run"]
    /\ UNCHANGED <<saved, scope, seams, tracker, lastTxn, captured, outcome, calls>>

(* native KV maintenance after a step or in an idle one *)
CreateKVContext ==
    /\ KVConnector
    /\ scope = "execute" /\ native.at = "after"
    /\ IF IsKVOnly THEN UNCHANGED <<fl, txn, ahead, events>> ELSE InstallMetadata(<<1>>)
    /\ native' = [native EXCEPT !.at = "kv"]
    /\ UNCHANGED <<saved, scope, seams, tracker, lastTxn, captured, outcome, calls>>

KVDone ==
    /\ native.at = "kv"
    /\ native' = [native EXCEPT !.at = "after"]
    /\ UNCHANGED <<fl, saved, scope, seams, tracker, txn, lastTxn, ahead, events,
                   captured, outcome, calls>>

SidecarOfStages(b) ==
    LET lens == Split(b.tokens, b.stages) IN Sidecar(lens, UnpaddedLens(lens, b.real))

PreparedFlags_NoReplay(b) ==
    [fl EXCEPT !.rep = FALSE, !.suppress = TRUE, !.pending = SidecarOfStages(b)]

(* prepare of the ubatch runner, serving: flags, then
   install_mrv2_ubatch_metadata, then one payload for all stages *)
PreparedFlags(b) ==
    [fl EXCEPT !.rep = (b.mode = "replay"), !.suppress = TRUE,
               !.pending = SidecarOfStages(b)]

PrepareUBatches ==
    LET b == native.batch IN
    /\ scope = "execute" /\ native.at = "begin" /\ b.stages = 2
    /\ fl' = PreparedFlags(b)
    /\ txn' = txn + 1
    /\ Publish(PreparedFlags(b), Split(b.tokens, 2))
    /\ native' = [native EXCEPT !.at = IF b.mode = "replay" THEN "prepared" ELSE "run"]
    /\ UNCHANGED <<saved, scope, seams, tracker, lastTxn, captured, outcome, calls>>

(* build_afd_metadata(None, real_tokens) with the padded transfer length *)
HookSidecar(b) == Sidecar(<<b.tokens>>, <<b.real>>)

HookFlags(b) ==
    [fl EXCEPT !.pending = HookSidecar(b), !.suppress = TRUE,
               !.warm = FALSE, !.cap = FALSE, !.rep = TRUE]

(* the run_fullgraph hook for one stage: announces, then replays *)
RunFullgraph ==
    LET b == native.batch IN
    /\ scope = "execute" /\ native.at = "begin" /\ b.mode = "replay" /\ b.stages = 1
    /\ fl' = HookFlags(b)
    /\ txn' = txn + 1
    /\ Publish(HookFlags(b), HookSidecar(b).lens)
    /\ native' = [native EXCEPT !.at = "run"]
    /\ UNCHANGED <<saved, scope, seams, tracker, lastTxn, captured, outcome, calls>>

(* the hook for prepared stages asserts that prepare announced them *)
RunFullgraphStages ==
    LET b == native.batch IN
    /\ scope = "execute" /\ native.at = "prepared"
    /\ fl.pending /= NoSidecar /\ Len(fl.pending.lens) = b.stages
    /\ native' = [native EXCEPT !.at = "run"]
    /\ UNCHANGED <<fl, saved, scope, seams, tracker, txn, lastTxn, ahead, events,
                   captured, outcome, calls>>

(* the finally of the one-stage hook puts the replay flag back *)
HookReturns(b) ==
    IF b.mode = "replay" /\ b.stages = 1 THEN [fl EXCEPT !.rep = saved.rep] ELSE fl

(* the model runs, and with it the data plane *)
Run ==
    LET b == native.batch
        updates == Ascend /\ b.mode = "replay"
    IN
    /\ native.at = "run"
    /\ ahead' = <<>>
    /\ lastTxn' = fl.pending.txn
    /\ fl' = IF updates THEN fl ELSE HookReturns(b)
    /\ native' = IF scope = "capture" THEN At("events", NoBatch)
                 ELSE [native EXCEPT !.at = IF updates THEN "update" ELSE "after"]
    /\ UNCHANGED <<saved, scope, seams, tracker, txn, events, captured, outcome, calls>>

(* Ascend creates a FULL context to update the graph's parameters, inside
   run_fullgraph; the sidecar is there, so it only may not be sent again *)
CreateUpdateContext ==
    /\ native.at = "update"
    /\ fl' = HookReturns(native.batch)
    /\ IF fl.suppress THEN UNCHANGED <<ahead, events>>
       ELSE Publish(fl, <<native.batch.tokens>>)
    /\ native' = [native EXCEPT !.at = "after"]
    /\ UNCHANGED <<saved, scope, seams, tracker, txn, lastTxn, captured, outcome, calls>>

(***************************************************************************)
(* Capture: native code prepares the inputs of some descriptor; which one, *)
(* in which order and how often, is what the tracker has to find out.      *)
(***************************************************************************)
Expected == tracker.expected[tracker.index + 1]

(* consume: an unexpected descriptor is refused *)
Drifts(d) == Expected.desc /= d

(* prepare_inputs_to_capture for one stage, prepare for two: both set the
   same flags, the sidecar and the suppression *)
CaptureFlags(d) ==
    [fl EXCEPT !.warm = Expected.warm, !.cap = ~Expected.warm, !.rep = FALSE,
               !.suppress = TRUE, !.pending = Sidecar(Split(d.tokens, d.stages),
                                                      Split(d.tokens, d.stages))]

PrepareCapture ==
    /\ scope = "capture" /\ native.at = "events"
    /\ tracker.index < Len(tracker.expected)
    /\ \E d \in Range(Descs) :
         /\ d.stages = 2 => UBatching
         /\ ~Drifts(d)
         /\ fl' = CaptureFlags(d)
         /\ Publish(CaptureFlags(d), Split(d.tokens, d.stages))
         /\ native' = At(IF d.stages = 2 THEN "run" ELSE "context",
              [mode |-> IF Expected.warm THEN "warmup" ELSE "capture", stages |-> d.stages,
               tokens |-> d.tokens, real |-> d.tokens, profile |-> FALSE])
    /\ txn' = txn + 1
    /\ tracker' = [tracker EXCEPT !.index = @ + 1]
    /\ UNCHANGED <<saved, scope, seams, lastTxn, captured, outcome, calls>>

(* the forward's own context gets the staged sidecar *)
CreateCaptureContext ==
    /\ native.at = "context"
    /\ InstallMetadata(<<native.batch.tokens>>)
    /\ native' = [native EXCEPT !.at = "run"]
    /\ UNCHANGED <<saved, scope, seams, tracker, lastTxn, captured, outcome, calls>>

(* consume raises: one event too many, or the wrong descriptor *)
CaptureDrifts ==
    /\ scope = "capture" /\ native.at = "events"
    /\ \/ tracker.index = Len(tracker.expected)
       \/ /\ tracker.index < Len(tracker.expected)
          /\ \E d \in Range(Descs) : Drifts(d)
    /\ Leave("raised")
    /\ UNCHANGED captured

Next ==
    \/ Execute \/ Capture \/ Raise \/ ReturnExecute \/ ReturnCapture
    \/ CreateContext \/ CreateKVContext \/ KVDone \/ PrepareUBatches
    \/ RunFullgraph \/ RunFullgraphStages \/ Run \/ CreateUpdateContext
    \/ PrepareCapture \/ CreateCaptureContext \/ CaptureDrifts

Spec == Init /\ [][Next]_vars
----------------------------------------------------------------------------
(***************************************************************************)
(* Properties.                                                             *)
(***************************************************************************)

(* When the model runs, exactly one payload has gone ahead of it, with the
   lifecycle flags and the per-stage rows of this very run, whichever seam
   sent it (eager context, prepared stages, replay hook, capture input): the
   FFN ranks take one payload per run and trust it. *)
RunsAnnounced ==
    LET b == native.batch IN
    native.at \in {"prepared", "run"} =>
        ahead = << [warm |-> b.mode = "warmup", cap |-> b.mode = "capture",
                    rep |-> b.mode = "replay", profile |-> b.profile,
                    lens |-> Split(b.tokens, b.stages)] >>

RealTokens(side) ==
    IF Len(side.real) = 1 THEN side.real[1] ELSE side.real[1] + side.real[2]

(* The sidecar the model reads belongs to this run: a transaction no earlier
   run had, the transfer lengths of the batch and, without the padding, the
   scheduled tokens (attention_metadata.py:118-148, :239-247). *)
SidecarOfThisRun ==
    LET b == native.batch IN
    native.at \in {"prepared", "run"} =>
        /\ fl.pending.txn > lastTxn
        /\ fl.pending.lens = Split(b.tokens, b.stages)
        /\ RealTokens(fl.pending) = b.real

(* A batch split in two never pads its first stage
   (gpu_mrv2_ubatching.py:221-223): the padding is the tail of the last. *)
FirstStageIsReal ==
    (native.at = "run" /\ native.batch.stages = 2) =>
        /\ fl.pending.real[1] = fl.pending.lens[1]
        /\ fl.pending.real[1] > 0

(* A call that returned announced nothing it did not run: KV-only and update
   contexts send no payload (attention_model_runner_v2.py:448-462). *)
NothingLeftAnnounced == (scope = "none" /\ outcome /= "raised") => ahead = <<>>

(* The FFN ranks take exactly the runs that happen. *)
AnnouncedAsRun == RunsAnnounced /\ NothingLeftAnnounced

(* What the model sees of a run beside its tensors is of this run. *)
SidecarFits == SidecarOfThisRun /\ FirstStageIsReal

(* Between calls, also after one that raised, the runner's flags, sidecar and
   suppression are the initial ones and native code is unpatched
   (attention_model_runner_v2.py:368-373, :606-611). *)
CleanBetweenCalls == scope = "none" => fl = CleanFlags /\ seams = {}

(* the payload a warmup or a capture of a descriptor calls for *)
EventPayload(e) == [warm |-> e.warm, cap |-> ~e.warm, rep |-> FALSE, profile |-> FALSE,
                    lens |-> Split(e.desc.tokens, e.desc.stages)]

(* A capture that returns has announced each FULL descriptor twice, warmup
   first and in order, whatever native code did: drift is an exception. *)
CaptureAnnouncesAll ==
    [][(scope = "capture" /\ scope' = "none" /\ outcome' = "ok") =>
         events = [i \in DOMAIN tracker.expected |->
                     EventPayload(tracker.expected[i])]]_vars
=============================================================================
