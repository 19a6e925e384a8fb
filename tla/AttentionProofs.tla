---------------------------- MODULE AttentionProofs ----------------------------
(***************************************************************************)
(* Proofs about the Attention side.  First the runner, for every list of   *)
(* FULL descriptors: what it announces is what it runs, with the metadata  *)
(* of its own batch.  Then the microbatch threads of a rank, for every     *)
(* number of layers, runs and exceptions: the inductive invariant, that    *)
(* one thread runs at a time and every receive takes its own transfer, and *)
(* that a failure leaves nothing behind.                                   *)
(***************************************************************************)
EXTENDS AttentionRunner, UBatchHandoff, TLAPS

(***************************************************************************)
(* The runner.                                                             *)
(***************************************************************************)
Batch == [mode : {"none", "eager", "replay", "warmup", "capture"}, stages : {1, 2},
          tokens : Nat, real : Nat, profile : BOOLEAN]
SidecarType == [txn : Int, lens : Seq(Nat), real : Seq(Nat)]
Flags == [warm : BOOLEAN, cap : BOOLEAN, rep : BOOLEAN, profile : BOOLEAN,
          suppress : BOOLEAN, pending : SidecarType]
Events == [desc : Desc, warm : BOOLEAN]

Types ==
    /\ fl \in Flags
    /\ native \in [at : {"outside", "begin", "prepared", "context", "run", "update",
                         "after", "kv", "events"}, batch : Batch]
    /\ tracker \in [expected : Seq(Events), index : Nat]
    /\ txn \in Nat
    /\ scope \in {"none", "execute", "capture"}

(* the running call can restore nothing but the initial state *)
Saved == saved = CleanFlags

(* the place in native code fits the call *)
RunnerPlaces ==
    /\ scope = "none" <=> native.at = "outside"
    /\ native.at \in {"begin", "prepared", "update", "after", "kv"} => scope = "execute"
    /\ native.at \in {"context", "events"} => scope = "capture"

Batches ==
    LET b == native.batch IN
    /\ native.at = "begin" => b.mode \in {"eager", "replay"}
    /\ native.at = "prepared" => b.mode = "replay" /\ b.stages = 2

(* before anything is sent the flags are those of an ordinary step *)
Fresh ==
    /\ scope = "none" => fl = CleanFlags /\ seams = {}
    /\ native.at = "begin" => fl = [CleanFlags EXCEPT !.profile = native.batch.profile]
    /\ scope = "capture" => fl.profile = FALSE

Announcement(b) ==
    << [warm |-> b.mode = "warmup", cap |-> b.mode = "capture",
        rep |-> b.mode = "replay", profile |-> b.profile,
        lens |-> Split(b.tokens, b.stages)] >>

(* what has been sent and not run, by place *)
Sent ==
    /\ native.at \in {"context", "prepared", "run"} => ahead = Announcement(native.batch)
    /\ native.at \in {"begin", "update", "after", "kv", "events"} => ahead = <<>>
    /\ native.at = "outside" /\ outcome /= "raised" => ahead = <<>>

(* where native code makes a second context, the send is suppressed *)
Suppressed ==
    /\ native.at \in {"context", "update", "prepared"} => fl.suppress = TRUE
    /\ native.at = "run" /\ native.batch.mode /= "eager" => fl.suppress = TRUE

IInv == Types /\ Saved /\ RunnerPlaces /\ Batches /\ Fresh /\ Sent /\ Suppressed

(* Elements of the descriptor list. *)
LEMMA DescsTyped ==
    /\ Len(Descs) \in Nat /\ DOMAIN Descs = 1 .. Len(Descs)
    /\ \A i \in DOMAIN Descs : Descs[i] \in Desc
BY DescsAssumption

(* The values of a runner outside of a call have their types. *)
LEMMA CleanTyped == CleanFlags \in Flags /\ NoSidecar \in SidecarType
BY DEF CleanFlags, NoSidecar, Flags, SidecarType

(* Native slices are token counts. *)
LEMMA SplitTyped == \A n \in Nat, s \in {1, 2} : Split(n, s) \in Seq(Nat)
<1> SUFFICES ASSUME NEW n \in Nat, NEW s \in {1, 2} PROVE Split(n, s) \in Seq(Nat)
  OBVIOUS
<1>1. n \div 2 \in Nat /\ n - n \div 2 \in Nat
  BY Z3
<1>2. QED BY <1>1 DEF Split

(* install_mrv2_ubatch_metadata: clipped slices are token counts. *)
LEMMA UnpaddedTyped ==
  \A lens \in Seq(Nat), n \in Nat : UnpaddedLens(lens, n) \in Seq(Nat)
<1> SUFFICES ASSUME NEW lens \in Seq(Nat), NEW n \in Nat
             PROVE  UnpaddedLens(lens, n) \in Seq(Nat)
  OBVIOUS
<1>1. \A x \in Int : Max0(x) \in Nat
  BY DEF Max0
<1>2. \A i \in DOMAIN lens : Start(lens, i) \in Int
  BY DEF Start
<1>3. \A i \in DOMAIN lens :
        Least(Start(lens, i) + lens[i], n) - Start(lens, i) \in Int
  BY <1>2 DEF Least
<1>4. \A i \in DOMAIN lens :
        Max0(Least(Start(lens, i) + lens[i], n) - Start(lens, i)) \in Nat
  BY <1>1, <1>3
<1>5. QED BY <1>4 DEF UnpaddedLens

(* What dispatch may return is a typed descriptor, eager or for replay. *)
LEMMA DispatchTyped ==
  ASSUME NEW n \in Nat, NEW eager, NEW ubatch, NEW d \in Dispatch(n, eager, ubatch)
  PROVE  d \in [mode : {"eager", "replay"}, stages : {1, 2}, tokens : Nat]
<1>1. \A s \in {1, 2} : \A g : NativeDispatch(s, n, g)
         \subseteq [mode : {"eager", "replay"}, stages : {1, 2}, tokens : Nat]
  <2> SUFFICES ASSUME NEW s \in {1, 2}, NEW g, NEW e \in NativeDispatch(s, n, g)
               PROVE  e \in [mode : {"eager", "replay"}, stages : {1, 2}, tokens : Nat]
    OBVIOUS
  <2>1. \A i \in Fulls(s, n) : Descs[i].tokens \in Nat
    BY DescsTyped DEF Fulls, Desc
  <2>2. QED BY <2>1 DEF NativeDispatch
<1>2. QED BY <1>1 DEF Dispatch

(* A new runner: clean flags, nothing announced, outside of every call. *)
LEMMA InitIInv == Init => IInv
<1> SUFFICES ASSUME Init PROVE IInv
  OBVIOUS
<1>1. Types
  BY CleanTyped DEF Types, Init, Outside, At, NoBatch, Batch, NoTracker
<1>2. Saved /\ RunnerPlaces /\ Batches /\ Fresh /\ Sent /\ Suppressed
  BY DEF Init, Saved, RunnerPlaces, Batches, Fresh, Sent, Suppressed, Outside, At, NoBatch
<1>3. QED BY <1>1, <1>2 DEF IInv

(* The finally blocks restore the initial state, whatever happened. *)
LEMMA LeaveKeeps ==
  ASSUME IInv, NEW result, Leave(result),
         result /= "raised" => ahead = <<>>
  PROVE  IInv'
<1> USE DEF IInv
<1>1. fl' = CleanFlags /\ saved' = CleanFlags /\ scope' = "none" /\ seams' = {}
      /\ native' = Outside /\ tracker' = NoTracker /\ txn' = txn /\ ahead' = ahead
      /\ outcome' = result
  BY DEF Leave, Restored, Saved
<1>2. Types'
  BY <1>1, CleanTyped DEF Types, Outside, At, NoBatch, Batch, NoTracker
<1>3. (Saved /\ RunnerPlaces /\ Batches /\ Fresh /\ Suppressed)'
  BY <1>1 DEF Saved, RunnerPlaces, Batches, Fresh, Suppressed, Outside, At, NoBatch
<1>4. Sent'
  BY <1>1 DEF Sent, Outside, At, NoBatch
<1>5. QED BY <1>2, <1>3, <1>4

(* execute_model starts from clean flags, with nothing announced. *)
LEMMA ExecuteKeeps == ASSUME IInv, Execute PROVE IInv'
<1> USE DEF IInv
<1>1. scope = "none" /\ outcome /= "raised" /\ fl = CleanFlags /\ ahead = <<>>
  BY DEF Execute, MayCall, RunnerPlaces, Fresh, Sent
<1>2. saved' = CleanFlags /\ scope' = "execute" /\ UNCHANGED <<tracker, txn, ahead, outcome>>
  BY <1>1 DEF Execute
<1>3. PICK n \in 0 .. MaxTokens, profile \in BOOLEAN, decode \in BOOLEAN :
        \E d \in Dispatch(n, profile \/ ~decode \/ ~captured, UBatching) :
         LET batch == [mode |-> d.mode, stages |-> d.stages, tokens |-> d.tokens,
                        real |-> n, profile |-> profile /\ Ascend]
         IN  /\ native' = IF n = 0 THEN At("after", NoBatch) ELSE At("begin", batch)
             /\ fl' = [fl EXCEPT !.rep = FALSE, !.profile = profile /\ Ascend]
  BY DEF Execute
<1>4. PICK d \in Dispatch(n, profile \/ ~decode \/ ~captured, UBatching) :
         /\ native' = IF n = 0 THEN At("after", NoBatch)
                      ELSE At("begin", [mode |-> d.mode, stages |-> d.stages,
                                        tokens |-> d.tokens, real |-> n,
                                        profile |-> profile /\ Ascend])
         /\ fl' = [fl EXCEPT !.rep = FALSE, !.profile = profile /\ Ascend]
  BY <1>3
<1>5. n \in Nat
  BY BoundsAssumption
<1>6. d \in [mode : {"eager", "replay"}, stages : {1, 2}, tokens : Nat]
  BY <1>5, DispatchTyped
<1>7. (profile /\ Ascend) \in BOOLEAN
  BY Zenon
<1>8. PICK q \in BOOLEAN : q = (profile /\ Ascend)
  BY <1>7
<1>9. fl' = [CleanFlags EXCEPT !.profile = q]
  <2>1. fl' = [[fl EXCEPT !.rep = FALSE] EXCEPT !.profile = q]
    BY <1>4, <1>8, Zenon
  <2>2. [CleanFlags EXCEPT !.rep = FALSE] = CleanFlags
    <3>1. CleanFlags.rep = FALSE
      BY DEF CleanFlags
    <3>2. QED BY <3>1, CleanTyped DEF Flags
  <2>3. QED BY <1>1, <2>1, <2>2, Zenon
<1>10. Types'
  <2>1. fl' \in Flags
    BY <1>9, CleanTyped DEF Flags, CleanFlags
  <2>2. native' \in [at : {"begin", "after"}, batch : Batch]
    BY <1>4, <1>5, <1>6, <1>8 DEF At, NoBatch, Batch
  <2>3. QED BY <1>2, <2>1, <2>2 DEF Types
<1>11. \/ native' = At("after", NoBatch)
       \/ native' = At("begin", [mode |-> d.mode, stages |-> d.stages,
                                 tokens |-> d.tokens, real |-> n, profile |-> q])
  BY <1>4, <1>8
<1>12. (Saved /\ RunnerPlaces /\ Batches /\ Fresh)'
  BY <1>2, <1>6, <1>9, <1>11 DEF Saved, RunnerPlaces, Batches, Fresh, At, NoBatch
<1>13. (Sent /\ Suppressed)'
  BY <1>1, <1>2, <1>11 DEF Sent, Suppressed, At, NoBatch
<1>14. QED BY <1>10, <1>12, <1>13

(* capture_model starts from clean flags, and expects a warm-up and a
   capture of each descriptor. *)
LEMMA CaptureKeeps == ASSUME IInv, Capture PROVE IInv'
<1> USE DEF IInv
<1>1. scope = "none" /\ outcome /= "raised" /\ fl = CleanFlags /\ ahead = <<>>
  BY DEF Capture, MayCall, RunnerPlaces, Fresh, Sent
<1>2. /\ saved' = CleanFlags /\ scope' = "capture" /\ native' = At("events", NoBatch)
      /\ UNCHANGED <<fl, txn, ahead, outcome>>
  BY <1>1 DEF Capture
<1>3. PICK k \in 1 .. Len(Descs) :
         tracker' = [expected |-> [i \in 1 .. 2 * k |->
                                     [desc |-> Descs[(i + 1) \div 2], warm |-> i % 2 = 1]],
                     index |-> 0]
  BY DEF Capture
<1>4. \A i \in DOMAIN Descs : Descs[i] \in Desc
  BY DescsTyped
<1>5. Len(Descs) \in Nat /\ DOMAIN Descs = 1 .. Len(Descs)
  BY DescsTyped
<1>6. \A i \in 1 .. 2 * k : (i + 1) \div 2 \in DOMAIN Descs
  <2> SUFFICES ASSUME NEW i \in 1 .. 2 * k PROVE (i + 1) \div 2 \in 1 .. Len(Descs)
    BY <1>5
  <2>1. i \in Int /\ k \in Int /\ 1 <= i /\ i <= 2 * k /\ k <= Len(Descs)
    BY <1>5
  <2>2. 1 <= (i + 1) \div 2 /\ (i + 1) \div 2 <= k /\ (i + 1) \div 2 \in Int
    BY <2>1, Z3
  <2>3. QED BY <2>1, <2>2, <1>5
<1>7. \A i \in 1 .. 2 * k : (i % 2 = 1) \in BOOLEAN
  BY Zenon
<1>8. \A i \in 1 .. 2 * k : [desc |-> Descs[(i + 1) \div 2], warm |-> i % 2 = 1] \in Events
  BY <1>4, <1>6, <1>7 DEF Events
<1>9. tracker' \in [expected : Seq(Events), index : Nat]
  <2>1. 2 * k \in Nat
    BY <1>5
  <2>2. [i \in 1 .. 2 * k |-> [desc |-> Descs[(i + 1) \div 2], warm |-> i % 2 = 1]]
          \in Seq(Events)
    BY <1>8, <2>1
  <2>3. QED BY <1>3, <2>2
<1>10. Types'
  BY <1>2, <1>9 DEF Types, At, NoBatch, Batch
<1>11. (Saved /\ RunnerPlaces /\ Batches /\ Fresh /\ Sent /\ Suppressed)'
  BY <1>1, <1>2 DEF Saved, RunnerPlaces, Batches, Fresh, Sent, Suppressed, At, NoBatch, CleanFlags
<1>12. QED BY <1>10, <1>11

(* The steps of a step of the engine.  A context made for the model run of an
   eager step sends the one payload; the dispatch has set no flag. *)
LEMMA CreateContextKeeps == ASSUME IInv, CreateContext PROVE IInv'
<1> USE DEF IInv
<1>1. /\ scope = "execute" /\ native.at = "begin"
      /\ native.batch.mode = "eager" /\ native.batch.stages = 1
      /\ native' = [native EXCEPT !.at = "run"]
      /\ UNCHANGED <<saved, scope, seams, tracker, outcome>>
  BY DEF CreateContext
<1>2. /\ fl = [CleanFlags EXCEPT !.profile = native.batch.profile] /\ ahead = <<>>
      /\ fl.pending = NoSidecar /\ fl.suppress = FALSE
      /\ native.batch \in Batch /\ txn \in Nat
  BY <1>1 DEF Fresh, Sent, Types, CleanFlags
<1> DEFINE side == Sidecar(<<native.batch.tokens>>, <<native.batch.tokens>>)
<1>3. /\ fl' = [fl EXCEPT !.pending = side]
      /\ txn' = txn + 1
      /\ Publish(fl, side.lens)
  BY <1>2 DEF CreateContext, InstallMetadata
<1>4. ahead' = << Payload(fl, <<native.batch.tokens>>) >>
  BY <1>2, <1>3 DEF Publish, Sidecar
<1>5. Types'
  <2>1. side \in SidecarType
    BY <1>2 DEF Sidecar, SidecarType, Batch
  <2>2. fl \in Flags
    BY DEF Types
  <2> HIDE DEF side
  <2>3. fl' \in Flags
    BY <1>3, <2>1, <2>2 DEF Flags
  <2>4. QED BY <1>1, <1>2, <1>3, <2>3 DEF Types
<1>6. (Saved /\ RunnerPlaces /\ Batches /\ Fresh /\ Suppressed)'
  BY <1>1 DEF Saved, RunnerPlaces, Batches, Fresh, Suppressed, Types
<1>7. Sent'
  <2>1. Split(native.batch.tokens, native.batch.stages) = <<native.batch.tokens>>
    BY <1>1 DEF Split
  <2>2. Payload(fl, <<native.batch.tokens>>) = Announcement(native.batch)[1]
    BY <1>1, <1>2, <2>1 DEF Payload, Announcement, CleanFlags
  <2>3. QED BY <1>1, <1>4, <2>2 DEF Sent, Types, Announcement
<1>8. QED BY <1>5, <1>6, <1>7

(* A KV-only context is not AFD's, and sends nothing. *)
LEMMA KVKeeps == ASSUME IInv, CreateKVContext \/ KVDone PROVE IInv'
<1> USE DEF IInv
<1>1. /\ native.at \in {"after", "kv"}
      /\ \/ native' = [native EXCEPT !.at = "kv"]
         \/ native' = [native EXCEPT !.at = "after"]
      /\ UNCHANGED <<fl, saved, scope, seams, tracker, txn, ahead, outcome>>
  BY DEF CreateKVContext, KVDone, IsKVOnly
<1>2. scope = "execute"
  BY <1>1 DEF RunnerPlaces
<1>3. Types'
  BY <1>1 DEF Types
<1>4. (Saved /\ RunnerPlaces /\ Batches /\ Fresh /\ Sent /\ Suppressed)'
  BY <1>1, <1>2 DEF Saved, RunnerPlaces, Batches, Fresh, Sent, Suppressed, Types
<1>5. QED BY <1>3, <1>4

(* The sidecar of the stages of a batch. *)
LEMMA StagesTyped ==
  ASSUME Types, NEW b \in Batch
  PROVE  /\ SidecarOfStages(b) \in SidecarType
         /\ SidecarOfStages(b).lens = Split(b.tokens, b.stages)
<1>1. Split(b.tokens, b.stages) \in Seq(Nat)
  BY SplitTyped DEF Batch
<1>2. UnpaddedLens(Split(b.tokens, b.stages), b.real) \in Seq(Nat)
  BY <1>1, UnpaddedTyped DEF Batch
<1>3. QED BY <1>1, <1>2 DEF SidecarOfStages, Sidecar, SidecarType, Types

(* Preparing two stages sends one payload with the flags set before it. *)
LEMMA PrepareKeeps == ASSUME IInv, PrepareUBatches PROVE IInv'
<1> USE DEF IInv
<1>1. /\ scope = "execute" /\ native.at = "begin" /\ native.batch.stages = 2
      /\ fl' = PreparedFlags(native.batch)
      /\ txn' = txn + 1
      /\ Publish(PreparedFlags(native.batch), Split(native.batch.tokens, 2))
      /\ native' = [native EXCEPT !.at = IF native.batch.mode = "replay"
                                         THEN "prepared" ELSE "run"]
      /\ UNCHANGED <<saved, scope, seams, tracker, outcome>>
  BY DEF PrepareUBatches
<1>2. /\ fl = [CleanFlags EXCEPT !.profile = native.batch.profile] /\ ahead = <<>>
      /\ native.batch \in Batch /\ txn \in Nat /\ fl \in Flags
      /\ native.batch.mode \in {"eager", "replay"}
  BY <1>1 DEF Fresh, Sent, Types, Batches
<1>3. PICK rep \in BOOLEAN : rep = (native.batch.mode = "replay")
  BY Zenon
<1>4. fl' = [fl EXCEPT !.rep = rep, !.suppress = TRUE,
                       !.pending = SidecarOfStages(native.batch)]
  BY <1>1, <1>3 DEF PreparedFlags
<1>5. SidecarOfStages(native.batch) \in SidecarType
  BY <1>2, StagesTyped
<1>6. Types'
  <2>1. fl' \in Flags
    BY <1>2, <1>4, <1>5 DEF Flags
  <2>2. QED BY <1>1, <1>2, <2>1 DEF Types
<1>7. (Saved /\ RunnerPlaces /\ Batches /\ Fresh)'
  BY <1>1, <1>2 DEF Saved, RunnerPlaces, Batches, Fresh, Types
<1>8. fl'.suppress = TRUE
  BY <1>2, <1>4 DEF Flags
<1>9. Suppressed'
  BY <1>8 DEF Suppressed
<1>10. Sent'
  <2>1. ahead' = << Payload(fl', Split(native.batch.tokens, 2)) >>
    BY <1>1, <1>2 DEF Publish
  <2>2. /\ fl'.warm = FALSE /\ fl'.cap = FALSE /\ fl'.rep = rep
        /\ fl'.profile = native.batch.profile
    BY <1>2, <1>4 DEF CleanFlags
  <2>3. /\ (native.batch.mode = "warmup") = FALSE
        /\ (native.batch.mode = "capture") = FALSE
    BY <1>2
  <2>4. << Payload(fl', Split(native.batch.tokens, 2)) >> = Announcement(native.batch)
    BY <1>1, <1>3, <2>2, <2>3 DEF Payload, Announcement
  <2>5. native'.batch = native.batch /\ native'.at \in {"prepared", "run"}
    BY <1>1 DEF Types
  <2>6. QED BY <2>1, <2>4, <2>5 DEF Sent
<1>11. QED BY <1>6, <1>7, <1>9, <1>10

(* The replay hook: flags, sidecar, payload, in this order. *)
LEMMA RunFullgraphKeeps == ASSUME IInv, RunFullgraph PROVE IInv'
<1> USE DEF IInv
<1>1. /\ scope = "execute" /\ native.at = "begin"
      /\ native.batch.mode = "replay" /\ native.batch.stages = 1
      /\ fl' = HookFlags(native.batch)
      /\ txn' = txn + 1
      /\ Publish(HookFlags(native.batch), HookSidecar(native.batch).lens)
      /\ native' = [native EXCEPT !.at = "run"]
      /\ UNCHANGED <<saved, scope, seams, tracker, outcome>>
  BY DEF RunFullgraph
<1>2. /\ fl = [CleanFlags EXCEPT !.profile = native.batch.profile] /\ ahead = <<>>
      /\ native.batch \in Batch /\ txn \in Nat /\ fl \in Flags
  BY <1>1 DEF Fresh, Sent, Types
<1>3. HookSidecar(native.batch) \in SidecarType
      /\ HookSidecar(native.batch).lens = <<native.batch.tokens>>
  BY <1>2 DEF HookSidecar, Sidecar, SidecarType, Batch
<1>4. /\ fl' \in Flags /\ fl'.suppress = TRUE
      /\ fl'.warm = FALSE /\ fl'.cap = FALSE /\ fl'.rep = TRUE
      /\ fl'.profile = native.batch.profile
  <2>1. fl.profile = native.batch.profile
    BY <1>2 DEF CleanFlags
  <2>2. fl' = [fl EXCEPT !.pending = HookSidecar(native.batch), !.suppress = TRUE,
                         !.warm = FALSE, !.cap = FALSE, !.rep = TRUE]
    BY <1>1 DEF HookFlags
  <2>3. QED BY <1>2, <1>3, <2>1, <2>2 DEF Flags
<1>5. Types'
  BY <1>1, <1>2, <1>4 DEF Types
<1>6. (Saved /\ RunnerPlaces /\ Batches /\ Fresh)'
  BY <1>1 DEF Saved, RunnerPlaces, Batches, Fresh, Types
<1>7. Suppressed'
  BY <1>4 DEF Suppressed
<1>8. Sent'
  <2>1. ahead' = << Payload(fl', <<native.batch.tokens>>) >>
    BY <1>1, <1>2, <1>3 DEF Publish
  <2>2. Split(native.batch.tokens, native.batch.stages) = <<native.batch.tokens>>
    BY <1>1 DEF Split
  <2>3. << Payload(fl', <<native.batch.tokens>>) >> = Announcement(native.batch)
    BY <1>1, <1>4, <2>2 DEF Payload, Announcement
  <2>4. native'.batch = native.batch /\ native'.at = "run"
    BY <1>1 DEF Types
  <2>5. QED BY <2>1, <2>3, <2>4 DEF Sent
<1>9. QED BY <1>5, <1>6, <1>7, <1>8

(* The hook for stages sends nothing: the stages are announced. *)
LEMMA RunFullgraphStagesKeeps == ASSUME IInv, RunFullgraphStages PROVE IInv'
<1> USE DEF IInv
<1>1. /\ scope = "execute" /\ native.at = "prepared"
      /\ native' = [native EXCEPT !.at = "run"]
      /\ UNCHANGED <<fl, saved, scope, seams, tracker, txn, ahead, outcome>>
  BY DEF RunFullgraphStages
<1>2. Types'
  BY <1>1 DEF Types
<1>3. (Saved /\ RunnerPlaces /\ Batches /\ Fresh /\ Sent /\ Suppressed)'
  BY <1>1 DEF Saved, RunnerPlaces, Batches, Fresh, Sent, Suppressed, Types
<1>4. QED BY <1>2, <1>3

(* The run takes the payload; on Ascend a replay still updates its graph. *)
LEMMA RunKeeps == ASSUME IInv, Run PROVE IInv'
<1> USE DEF IInv
<1> DEFINE updates == Ascend /\ native.batch.mode = "replay"
<1>1. /\ native.at = "run"
      /\ ahead' = <<>>
      /\ fl' = IF updates THEN fl ELSE HookReturns(native.batch)
      /\ native' = IF scope = "capture" THEN At("events", NoBatch)
                   ELSE [native EXCEPT !.at = IF updates THEN "update" ELSE "after"]
      /\ UNCHANGED <<saved, scope, seams, tracker, txn, outcome>>
  BY DEF Run
<1>2. fl \in Flags /\ scope \in {"execute", "capture"} /\ saved = CleanFlags
  BY <1>1 DEF Types, RunnerPlaces, Saved
<1>3. /\ fl' \in Flags /\ fl'.suppress = fl.suppress /\ fl'.profile = fl.profile
  <2>1. CleanFlags.rep = FALSE
    BY DEF CleanFlags
  <2>2. HookReturns(native.batch) \in {fl, [fl EXCEPT !.rep = FALSE]}
    BY <1>2, <2>1 DEF HookReturns
  <2>3. fl' \in {fl, [fl EXCEPT !.rep = FALSE]}
    BY <1>1, <2>2
  <2>4. QED BY <1>2, <2>3 DEF Flags
<1>4. Types'
  <2>1. native' \in [at : {"events", "update", "after"}, batch : Batch]
    BY <1>1 DEF Types, At, NoBatch, Batch
  <2>2. QED BY <1>1, <1>3, <2>1 DEF Types
<1>5. /\ native'.at \in {"events", "update", "after"}
      /\ native'.at = "events" <=> scope = "capture"
      /\ native'.at = "update" => native.batch.mode = "replay"
  BY <1>1, <1>2 DEF Types, At
<1>6. (Saved /\ RunnerPlaces /\ Batches /\ Fresh /\ Sent)'
  <2>1. scope' = scope /\ saved' = saved /\ ahead' = <<>>
    BY <1>1
  <2>2. scope = "capture" => fl.profile = FALSE
    BY DEF Fresh
  <2> HIDE DEF updates
  <2>3. Saved' /\ RunnerPlaces' /\ Batches' /\ Sent'
    BY <1>2, <1>5, <2>1 DEF Saved, RunnerPlaces, Batches, Sent
  <2>4. Fresh'
    BY <1>2, <1>3, <1>5, <2>1, <2>2 DEF Fresh
  <2>5. QED BY <2>3, <2>4
<1>7. Suppressed'
  <2>1. native.batch.mode = "replay" => fl.suppress = TRUE
    BY <1>1 DEF Suppressed
  <2>2. QED BY <1>3, <1>5, <2>1 DEF Suppressed
<1>8. QED BY <1>4, <1>6, <1>7

(* The context of a graph update is suppressed. *)
LEMMA UpdateContextKeeps == ASSUME IInv, CreateUpdateContext PROVE IInv'
<1> USE DEF IInv
<1>1. /\ native.at = "update" /\ fl.suppress = TRUE /\ fl \in Flags
      /\ scope = "execute" /\ ahead = <<>> /\ saved = CleanFlags
  BY DEF CreateUpdateContext, Suppressed, Types, RunnerPlaces, Sent, Saved
<1>2. /\ fl' = HookReturns(native.batch) /\ native' = [native EXCEPT !.at = "after"]
      /\ UNCHANGED <<saved, scope, seams, tracker, txn, ahead, outcome>>
  BY <1>1 DEF CreateUpdateContext
<1>3. fl' \in Flags
  BY <1>1, <1>2 DEF HookReturns, Flags, CleanFlags
<1>4. Types'
  BY <1>2, <1>3 DEF Types
<1>5. native'.at = "after"
  BY <1>2 DEF Types
<1>6. (Saved /\ RunnerPlaces /\ Batches /\ Fresh /\ Sent /\ Suppressed)'
  BY <1>1, <1>2, <1>5 DEF Saved, RunnerPlaces, Batches, Fresh, Sent, Suppressed
<1>7. QED BY <1>4, <1>6

(* An expected capture event: one payload, with the flags of the event. *)
LEMMA PrepareCaptureKeeps == ASSUME IInv, PrepareCapture PROVE IInv'
<1> USE DEF IInv
<1>1. PICK d \in Range(Descs) :
         /\ fl' = CaptureFlags(d)
         /\ Publish(CaptureFlags(d), Split(d.tokens, d.stages))
         /\ native' = At(IF d.stages = 2 THEN "run" ELSE "context",
              [mode |-> IF Expected.warm THEN "warmup" ELSE "capture", stages |-> d.stages,
               tokens |-> d.tokens, real |-> d.tokens, profile |-> FALSE])
  BY DEF PrepareCapture
<1>2. /\ scope = "capture" /\ native.at = "events"
      /\ tracker.index < Len(tracker.expected)
      /\ txn' = txn + 1 /\ tracker' = [tracker EXCEPT !.index = @ + 1]
      /\ UNCHANGED <<saved, scope, seams, outcome>>
  BY DEF PrepareCapture
<1>3. d \in Desc
  BY DescsTyped DEF Range
<1>4. fl \in Flags /\ txn \in Nat /\ tracker \in [expected : Seq(Events), index : Nat]
      /\ fl.profile = FALSE /\ ahead = <<>>
  BY <1>2 DEF Types, Fresh, Sent
<1>5. Expected \in Events
  <2>1. tracker.index + 1 \in 1 .. Len(tracker.expected)
    BY <1>2, <1>4
  <2>2. QED BY <1>4, <2>1 DEF Expected
<1>6. PICK w \in BOOLEAN : w = Expected.warm
  BY <1>5 DEF Events
<1> DEFINE lens == Split(d.tokens, d.stages)
<1>7. lens \in Seq(Nat)
  BY <1>3, SplitTyped DEF Desc
<1>8. Sidecar(lens, lens) \in SidecarType
  BY <1>4, <1>7 DEF Sidecar, SidecarType
<1>9. PICK c \in BOOLEAN : c = ~w
  BY Zenon
<1>10. fl' = [fl EXCEPT !.warm = w, !.cap = c, !.rep = FALSE, !.suppress = TRUE,
                        !.pending = Sidecar(lens, lens)]
  BY <1>1, <1>6, <1>9 DEF CaptureFlags
<1> DEFINE b == [mode |-> IF w THEN "warmup" ELSE "capture", stages |-> d.stages,
                 tokens |-> d.tokens, real |-> d.tokens, profile |-> FALSE]
<1>11. native' = At(IF d.stages = 2 THEN "run" ELSE "context", b)
  BY <1>1, <1>6
<1>12. ahead' = << Payload(fl', lens) >>
  BY <1>1, <1>4 DEF Publish
<1> HIDE DEF lens
<1>13. /\ fl' \in Flags /\ fl'.suppress = TRUE /\ fl'.profile = FALSE
       /\ fl'.warm = w /\ fl'.cap = c /\ fl'.rep = FALSE
  BY <1>4, <1>8, <1>10 DEF Flags
<1>14. b \in Batch /\ native'.batch = b /\ native'.at \in {"run", "context"}
       /\ native' = [at |-> native'.at, batch |-> b]
  BY <1>3, <1>11 DEF Batch, Desc, At
<1>15. Types'
  <2>1. tracker' \in [expected : Seq(Events), index : Nat]
    BY <1>2, <1>4
  <2>2. native' \in [at : {"outside", "begin", "prepared", "context", "run", "update",
                           "after", "kv", "events"}, batch : Batch]
    BY <1>14
  <2>3. scope' = "capture" /\ txn' \in Nat
    BY <1>2, <1>4
  <2>4. QED BY <1>13, <2>1, <2>2, <2>3 DEF Types
<1>16. (Saved /\ RunnerPlaces /\ Batches /\ Fresh /\ Suppressed)'
  BY <1>2, <1>13, <1>14 DEF Saved, RunnerPlaces, Batches, Fresh, Suppressed
<1>17. Sent'
  <2>1. w = (b.mode = "warmup") /\ c = (b.mode = "capture") /\ FALSE = (b.mode = "replay")
    <3>1. CASE w = TRUE
      BY <3>1, <1>9
    <3>2. CASE w = FALSE
      BY <3>2, <1>9
    <3>3. QED BY <3>1, <3>2
  <2>2. lens = Split(b.tokens, b.stages) /\ b.profile = FALSE
    BY DEF lens
  <2> HIDE DEF b
  <2>3. << Payload(fl', lens) >> = Announcement(b)
    BY <1>13, <2>1, <2>2 DEF Payload, Announcement
  <2>4. QED BY <1>12, <1>14, <2>3 DEF Sent
<1>18. QED BY <1>15, <1>16, <1>17

(* The forward's own context takes the staged sidecar and sends nothing. *)
LEMMA CaptureContextKeeps == ASSUME IInv, CreateCaptureContext PROVE IInv'
<1> USE DEF IInv
<1>1. /\ native.at = "context" /\ scope = "capture" /\ fl.suppress = TRUE
      /\ native' = [native EXCEPT !.at = "run"]
      /\ UNCHANGED <<saved, scope, seams, tracker, outcome>>
  BY DEF CreateCaptureContext, Suppressed, RunnerPlaces
<1> DEFINE side == IF fl.pending = NoSidecar
                   THEN Sidecar(<<native.batch.tokens>>, <<native.batch.tokens>>)
                   ELSE fl.pending
<1>2. /\ fl' = [fl EXCEPT !.pending = side]
      /\ txn' = IF fl.pending = NoSidecar THEN txn + 1 ELSE txn
      /\ ahead' = ahead
  BY <1>1 DEF CreateCaptureContext, InstallMetadata
<1>3. fl \in Flags /\ txn \in Nat /\ native.batch \in Batch
  BY DEF Types
<1>4. side \in SidecarType
  BY <1>3 DEF Flags, Sidecar, SidecarType, Batch
<1> HIDE DEF side
<1>5. fl' \in Flags /\ fl'.suppress = TRUE /\ fl'.profile = fl.profile
  BY <1>1, <1>2, <1>3, <1>4 DEF Flags
<1>6. Types'
  BY <1>1, <1>2, <1>3, <1>5 DEF Types
<1>7. native'.at = "run" /\ native'.batch = native.batch
  BY <1>1 DEF Types
<1>8. (Saved /\ RunnerPlaces /\ Batches /\ Fresh /\ Suppressed)'
  BY <1>1, <1>5, <1>7 DEF Saved, RunnerPlaces, Batches, Fresh, Suppressed
<1>9. Sent'
  BY <1>1, <1>2, <1>7 DEF Sent
<1>10. QED BY <1>6, <1>8, <1>9

(* A step that changes nothing keeps the invariant. *)
LEMMA StutterKeeps == ASSUME IInv, UNCHANGED vars PROVE IInv'
BY DEF vars, IInv, Types, Saved, RunnerPlaces, Batches, Fresh, Sent, Suppressed

(* Every step keeps the invariant. *)
LEMMA NextKeeps == IInv /\ [Next]_vars => IInv'
<1> SUFFICES ASSUME IInv, [Next]_vars PROVE IInv'
  OBVIOUS
<1>1. CASE Raise \/ CaptureDrifts
  BY <1>1, LeaveKeeps DEF Raise, CaptureDrifts
<1>2. CASE ReturnExecute
  <2>1. ahead = <<>> /\ Leave("ok")
    BY <1>2 DEF ReturnExecute, IInv, Sent
  <2>2. QED BY <2>1, LeaveKeeps
<1>3. CASE ReturnCapture
  <2>1. ahead = <<>> /\ \E r : Leave(r)
    BY <1>3 DEF ReturnCapture, IInv, Sent
  <2>2. QED BY <2>1, LeaveKeeps
<1>4. QED
  BY <1>1, <1>2, <1>3, ExecuteKeeps, CaptureKeeps, CreateContextKeeps, KVKeeps,
     PrepareKeeps, RunFullgraphKeeps, RunFullgraphStagesKeeps, RunKeeps,
     UpdateContextKeeps, PrepareCaptureKeeps, CaptureContextKeeps, StutterKeeps
     DEF Next

(* Every state of every run satisfies the invariant. *)
LEMMA SpecIInv == Spec => []IInv
BY InitIInv, NextKeeps, PTL DEF Spec

(* When the model runs, exactly one payload has gone ahead of it and it
   describes this run (attention_model_runner_v2.py:146-176, :288-321,
   attention_metadata.py:211-257), for every list of FULL descriptors. *)
THEOREM EveryRunAnnounced == Spec => []RunsAnnounced
<1>1. IInv => RunsAnnounced
  BY DEF IInv, Sent, RunsAnnounced, Announcement
<1>2. QED BY <1>1, SpecIInv, PTL

(* A call that returned has sent no payload it did not run: KV-only and
   update contexts are silent (attention_model_runner_v2.py:448-462). *)
THEOREM NoUnrunAnnouncement == Spec => []NothingLeftAnnounced
<1>1. IInv => NothingLeftAnnounced
  BY DEF IInv, Sent, RunnerPlaces, NothingLeftAnnounced
<1>2. QED BY <1>1, SpecIInv, PTL

(* Whatever a call did and however it ended, the next one finds the runner
   as it was made (attention_model_runner_v2.py:368-373, :606-611). *)
THEOREM CallsLeaveNothing == Spec => []CleanBetweenCalls
<1>1. IInv => CleanBetweenCalls
  BY DEF IInv, Fresh, CleanBetweenCalls
<1>2. QED BY <1>1, SpecIInv, PTL

(* The FFN ranks are told of every run and of nothing else. *)
THEOREM AnnouncementsExact == Spec => []AnnouncedAsRun
  BY EveryRunAnnounced, NoUnrunAnnouncement, PTL DEF AnnouncedAsRun

----------------------------------------------------------------------------
(* The sidecar.  A batch native code has picked leaves no stage without a
   scheduled token ... *)
BatchFits ==
    LET b == native.batch IN
    native.at = "begin" =>
        /\ b.mode = "eager" => b.tokens = b.real
        /\ b.stages = 2 => b.real >= 2 /\ b.real <= b.tokens /\ b.tokens <= 2 * b.real

Describes(side, b) ==
    /\ side.lens = Split(b.tokens, b.stages)
    /\ RealTokens(side) = b.real
    /\ b.stages = 2 => side.real[1] = side.lens[1] /\ side.real[1] > 0

(* ... and whatever seam staged the sidecar, it took a new transaction id. *)
Staged ==
    native.at \in {"context", "prepared", "run"} =>
        /\ Describes(fl.pending, native.batch)
        /\ lastTxn < fl.pending.txn /\ fl.pending.txn < txn

LastTxn == lastTxn \in Int /\ -1 <= lastTxn /\ lastTxn < txn

SideInv == BatchFits /\ Staged /\ LastTxn

(* Graphs that fit a batch have at least its tokens. *)
LEMMA NativeDispatchFits ==
  ASSUME NEW s \in {1, 2}, NEW n \in Nat, NEW g, NEW e \in NativeDispatch(s, n, g)
  PROVE  /\ e.stages = s /\ e.tokens \in Nat /\ e.mode \in {"eager", "replay"}
         /\ n <= e.tokens /\ (e.mode = "eager" => e.tokens = n)
<1>1. \A i \in Fulls(s, n) : Descs[i].tokens \in Nat /\ Descs[i].tokens >= n
  BY DescsTyped DEF Fulls, Desc
<1>2. CASE g /\ Fulls(s, n) /= {}
  <2>1. PICK i \in Fulls(s, n) :
          e = [mode |-> "replay", stages |-> s, tokens |-> Descs[i].tokens]
    BY <1>2 DEF NativeDispatch
  <2>2. QED BY <2>1, <1>1
<1>3. CASE ~(g /\ Fulls(s, n) /= {})
  BY <1>3 DEF NativeDispatch
<1>4. QED BY <1>2, <1>3

(* The guard against an empty trailing stage (gpu_mrv2_ubatching.py:221-223)
   is what bounds the padding of a split batch. *)
LEMMA DispatchFits ==
  ASSUME NEW n \in Nat, NEW eager, NEW ubatch, NEW d \in Dispatch(n, eager, ubatch)
  PROVE  /\ d.mode = "eager" => d.tokens = n
         /\ d.stages = 2 => n >= 2 /\ n <= d.tokens /\ d.tokens <= 2 * n
<1>1. CASE ubatch /\ n >= 2 /\ n >= Threshold
  <2>1. PICK e \in NativeDispatch(2, n, ~eager) :
          d = IF 2 * n < e.tokens THEN [mode |-> "eager", stages |-> 2, tokens |-> n] ELSE e
    BY <1>1 DEF Dispatch
  <2>2. e.tokens \in Nat /\ n <= e.tokens /\ (e.mode = "eager" => e.tokens = n)
    BY NativeDispatchFits
  <2>3. CASE 2 * n < e.tokens
    BY <1>1, <2>1, <2>3
  <2>4. CASE ~(2 * n < e.tokens)
    BY <1>1, <2>1, <2>2, <2>4
  <2>5. QED BY <2>3, <2>4
<1>2. CASE ~(ubatch /\ n >= 2 /\ n >= Threshold)
  <2>1. d \in NativeDispatch(1, n, ~eager)
    BY <1>2 DEF Dispatch
  <2>2. d.stages = 1 /\ (d.mode = "eager" => d.tokens = n)
    BY <2>1, NativeDispatchFits
  <2>3. QED BY <2>2
<1>3. QED BY <1>1, <1>2

(* The padding of two halves is in the second one, if it is less than half. *)
LEMMA UnpaddedHalves ==
  ASSUME NEW t \in Nat, NEW r \in Nat, r >= 2, r <= t, t <= 2 * r
  PROVE  LET u == UnpaddedLens(Split(t, 2), r)
         IN  Len(u) = 2 /\ u[1] = Split(t, 2)[1] /\ u[1] > 0 /\ u[1] + u[2] = r
<1> DEFINE h == t \div 2
           lens == Split(t, 2)
           u == UnpaddedLens(lens, r)
<1>1. h \in Nat /\ 1 <= h /\ h <= r /\ h <= t
  BY Z3
<1> HIDE DEF h
<1>2. lens = <<h, t - h>>
  BY DEF Split, h
<1>3. u = [i \in 1 .. 2 |-> Max0(Least(Start(lens, i) + lens[i], r) - Start(lens, i))]
  BY <1>2 DEF UnpaddedLens
<1>4. u[1] = Max0(Least(0 + h, r) - 0) /\ u[2] = Max0(Least(h + (t - h), r) - h)
  BY <1>2, <1>3 DEF Start
<1>5. u[1] = h /\ u[2] = r - h
  BY <1>1, <1>4 DEF Max0, Least
<1>6. Len(u) = 2
  BY <1>3
<1> HIDE DEF u, lens
<1>7. QED BY <1>1, <1>2, <1>5, <1>6 DEF u, lens

(* The sidecar of the prepared stages describes their batch. *)
LEMMA StagesDescribed ==
  ASSUME NEW b \in Batch, b.stages = 2, b.real >= 2, b.real <= b.tokens,
         b.tokens <= 2 * b.real
  PROVE  Describes(SidecarOfStages(b), b) /\ SidecarOfStages(b).txn = txn
<1>1. b.tokens \in Nat /\ b.real \in Nat
  BY DEF Batch
<1> DEFINE lens == Split(b.tokens, 2)
           u == UnpaddedLens(lens, b.real)
<1>2. Len(u) = 2 /\ u[1] = lens[1] /\ u[1] > 0 /\ u[1] + u[2] = b.real
  BY <1>1, UnpaddedHalves
<1>3. SidecarOfStages(b) = [txn |-> txn, lens |-> lens, real |-> u]
  BY DEF SidecarOfStages, Sidecar
<1> HIDE DEF lens, u
<1>4. RealTokens(SidecarOfStages(b)) = b.real
  BY <1>2, <1>3 DEF RealTokens
<1>5. QED BY <1>2, <1>3, <1>4 DEF Describes, lens

(* Before a capture there is no padding: the halves are the scheduled rows. *)
LEMMA CaptureDescribed ==
  ASSUME NEW d \in Desc, NEW b, b.tokens = d.tokens, b.stages = d.stages, b.real = d.tokens
  PROVE  Describes(Sidecar(Split(d.tokens, d.stages), Split(d.tokens, d.stages)), b)
<1>1. d.tokens \in Nat /\ d.stages \in {1, 2} /\ d.tokens >= d.stages
  BY DEF Desc
<1>2. CASE d.stages = 1
  BY <1>1, <1>2 DEF Describes, Sidecar, Split, RealTokens
<1>3. CASE d.stages = 2
  <2>1. PICK h \in Nat : h = d.tokens \div 2 /\ 1 <= h /\ h <= d.tokens
    BY <1>1, <1>3, Z3
  <2>2. Split(d.tokens, d.stages) = <<h, d.tokens - h>>
    BY <1>3, <2>1 DEF Split
  <2>3. h + (d.tokens - h) = d.tokens
    BY <1>1
  <2> DEFINE side == Sidecar(<<h, d.tokens - h>>, <<h, d.tokens - h>>)
  <2>4. /\ side.lens = <<h, d.tokens - h>> /\ side.real = <<h, d.tokens - h>>
        /\ Len(side.real) = 2 /\ side.real[1] = h /\ side.lens[1] = h
        /\ side.real[2] = d.tokens - h
    BY DEF Sidecar
  <2> HIDE DEF side
  <2>5. RealTokens(side) = d.tokens
    BY <2>3, <2>4 DEF RealTokens
  <2>6. Describes(side, b)
    BY <1>3, <2>1, <2>2, <2>4, <2>5 DEF Describes
  <2>7. QED BY <2>2, <2>6 DEF side
<1>4. QED BY <1>1, <1>2, <1>3

(* A batch of one stage is its own slice. *)
LEMMA OneStageDescribed ==
  ASSUME NEW b, b.stages = 1, NEW side, side.lens = <<b.tokens>>, side.real = <<b.real>>
  PROVE  Describes(side, b)
BY DEF Describes, Split, RealTokens

(* A new runner has no sidecar. *)
LEMMA InitSide == Init => SideInv
BY DEF Init, SideInv, BatchFits, Staged, LastTxn, Outside, At, NoBatch

(* Calls begin and end outside of the places where a sidecar is staged. *)
LEMMA LeaveSide == ASSUME IInv, SideInv, NEW r, Leave(r) PROVE SideInv'
BY DEF SideInv, Leave, BatchFits, Staged, LastTxn, Outside, At, NoBatch

(* Starting a capture stages nothing. *)
LEMMA CaptureSide == ASSUME IInv, SideInv, Capture PROVE SideInv'
BY DEF SideInv, Capture, BatchFits, Staged, LastTxn, At, NoBatch

(* A batch as it is dispatched has room for its tokens. *)
LEMMA ExecuteSide == ASSUME IInv, SideInv, Execute PROVE SideInv'
<1>1. UNCHANGED <<txn, lastTxn>>
  BY DEF Execute
<1>2. PICK n \in 0 .. MaxTokens, profile \in BOOLEAN, decode \in BOOLEAN :
        \E d \in Dispatch(n, profile \/ ~decode \/ ~captured, UBatching) :
         LET batch == [mode |-> d.mode, stages |-> d.stages, tokens |-> d.tokens,
                        real |-> n, profile |-> profile /\ Ascend]
         IN  /\ native' = IF n = 0 THEN At("after", NoBatch) ELSE At("begin", batch)
             /\ fl' = [fl EXCEPT !.rep = FALSE, !.profile = profile /\ Ascend]
  BY DEF Execute
<1>3. PICK d \in Dispatch(n, profile \/ ~decode \/ ~captured, UBatching) :
         native' = IF n = 0 THEN At("after", NoBatch)
                   ELSE At("begin", [mode |-> d.mode, stages |-> d.stages,
                                     tokens |-> d.tokens, real |-> n,
                                     profile |-> profile /\ Ascend])
  BY <1>2
<1>4. n \in Nat
  BY BoundsAssumption
<1>5. /\ d.mode = "eager" => d.tokens = n
      /\ d.stages = 2 => n >= 2 /\ n <= d.tokens /\ d.tokens <= 2 * n
  BY <1>4, DispatchFits
<1>6. CASE n = 0
  BY <1>1, <1>3, <1>6 DEF SideInv, BatchFits, Staged, LastTxn, At
<1>7. CASE n /= 0
  <2>1. /\ native'.at = "begin" /\ native'.batch.mode = d.mode
        /\ native'.batch.stages = d.stages /\ native'.batch.tokens = d.tokens
        /\ native'.batch.real = n
    BY <1>3, <1>7 DEF At
  <2>2. QED BY <1>1, <1>5, <2>1 DEF SideInv, BatchFits, Staged, LastTxn
<1>8. QED BY <1>6, <1>7

(* A single-stage run takes the next transaction and describes its batch. *)
LEMMA CreateContextSide == ASSUME IInv, SideInv, CreateContext PROVE SideInv'
<1>1. /\ native.at = "begin" /\ native.batch.mode = "eager" /\ native.batch.stages = 1
      /\ native' = [native EXCEPT !.at = "run"]
      /\ lastTxn' = lastTxn
  BY DEF CreateContext
<1>2. /\ fl.pending = NoSidecar /\ fl \in Flags /\ txn \in Nat
      /\ native.batch.tokens = native.batch.real
  BY <1>1 DEF IInv, Types, Fresh, SideInv, BatchFits, CleanFlags
<1> DEFINE side == Sidecar(<<native.batch.tokens>>, <<native.batch.tokens>>)
<1>3. fl' = [fl EXCEPT !.pending = side] /\ txn' = txn + 1
  BY <1>2 DEF CreateContext, InstallMetadata
<1>4. Describes(side, native.batch) /\ side.txn = txn
  BY <1>1, <1>2, OneStageDescribed DEF Sidecar
<1> HIDE DEF side
<1>5. fl'.pending = side /\ native'.batch = native.batch /\ native'.at = "run"
  BY <1>1, <1>2, <1>3 DEF Flags, IInv, Types
<1>6. QED BY <1>1, <1>2, <1>3, <1>4, <1>5 DEF SideInv, BatchFits, Staged, LastTxn

(* A run of two microbatches likewise, before the graph or the threads run. *)
LEMMA PrepareSide == ASSUME IInv, SideInv, PrepareUBatches PROVE SideInv'
<1>1. /\ native.at = "begin" /\ native.batch.stages = 2
      /\ fl' = PreparedFlags(native.batch) /\ txn' = txn + 1 /\ lastTxn' = lastTxn
      /\ native' = [native EXCEPT !.at = IF native.batch.mode = "replay"
                                         THEN "prepared" ELSE "run"]
  BY DEF PrepareUBatches
<1>2. fl \in Flags /\ txn \in Nat /\ native.batch \in Batch
  BY DEF IInv, Types
<1>3. Describes(SidecarOfStages(native.batch), native.batch)
      /\ SidecarOfStages(native.batch).txn = txn
  BY <1>1, <1>2, StagesDescribed DEF SideInv, BatchFits
<1>4. fl'.pending = SidecarOfStages(native.batch)
  BY <1>1, <1>2 DEF PreparedFlags, Flags
<1>5. native'.batch = native.batch /\ native'.at \in {"prepared", "run"}
  BY <1>1 DEF IInv, Types
<1>6. QED BY <1>1, <1>2, <1>3, <1>4, <1>5 DEF SideInv, BatchFits, Staged, LastTxn

(* A replay of a single-stage graph stages its sidecar in the hook. *)
LEMMA RunFullgraphSide == ASSUME IInv, SideInv, RunFullgraph PROVE SideInv'
<1>1. /\ native.at = "begin" /\ native.batch.stages = 1
      /\ fl' = HookFlags(native.batch) /\ txn' = txn + 1 /\ lastTxn' = lastTxn
      /\ native' = [native EXCEPT !.at = "run"]
  BY DEF RunFullgraph
<1>2. fl \in Flags /\ txn \in Nat
  BY DEF IInv, Types
<1>3. Describes(HookSidecar(native.batch), native.batch)
      /\ HookSidecar(native.batch).txn = txn
  BY <1>1, OneStageDescribed DEF HookSidecar, Sidecar
<1>4. fl'.pending = HookSidecar(native.batch)
  BY <1>1, <1>2 DEF HookFlags, Flags
<1>5. native'.batch = native.batch /\ native'.at = "run"
  BY <1>1 DEF IInv, Types
<1>6. QED BY <1>1, <1>2, <1>3, <1>4, <1>5 DEF SideInv, BatchFits, Staged, LastTxn

(* A replay of two microbatches uses the sidecar already staged. *)
LEMMA RunFullgraphStagesSide == ASSUME IInv, SideInv, RunFullgraphStages PROVE SideInv'
BY DEF RunFullgraphStages, SideInv, BatchFits, Staged, LastTxn, IInv, Types

(* The run is the last use of the transaction; the next one is larger. *)
LEMMA RunSide == ASSUME IInv, SideInv, Run PROVE SideInv'
<1>1. /\ native.at = "run" /\ lastTxn' = fl.pending.txn /\ txn' = txn
      /\ \/ native' = At("events", NoBatch)
         \/ native' = [native EXCEPT !.at = "update"]
         \/ native' = [native EXCEPT !.at = "after"]
  BY DEF Run
<1>2. native'.at \in {"events", "update", "after"}
  BY <1>1 DEF IInv, Types, At
<1>3. /\ lastTxn < fl.pending.txn /\ fl.pending.txn < txn
      /\ fl.pending.txn \in Int /\ lastTxn \in Int /\ -1 <= lastTxn /\ txn \in Nat
  BY <1>1 DEF SideInv, Staged, LastTxn, IInv, Types, Flags, SidecarType
<1>4. QED BY <1>1, <1>2, <1>3 DEF SideInv, BatchFits, Staged, LastTxn

(* After the run nothing stages a sidecar. *)
LEMMA AfterSide ==
  ASSUME IInv, SideInv, CreateKVContext \/ KVDone \/ CreateUpdateContext
  PROVE  SideInv'
<1>1. native' = [native EXCEPT !.at = "kv"] \/ native' = [native EXCEPT !.at = "after"]
  BY DEF CreateKVContext, KVDone, CreateUpdateContext
<1>2. UNCHANGED <<txn, lastTxn>>
  BY DEF CreateKVContext, KVDone, CreateUpdateContext, IsKVOnly
<1>3. native'.at \in {"kv", "after"}
  BY <1>1 DEF IInv, Types
<1>4. QED BY <1>2, <1>3 DEF SideInv, BatchFits, Staged, LastTxn

(* A capture or its warm-up describes the descriptor, padded as it is. *)
LEMMA PrepareCaptureSide == ASSUME IInv, SideInv, PrepareCapture PROVE SideInv'
<1>1. PICK d \in Range(Descs) :
         /\ fl' = CaptureFlags(d)
         /\ native' = At(IF d.stages = 2 THEN "run" ELSE "context",
              [mode |-> IF Expected.warm THEN "warmup" ELSE "capture", stages |-> d.stages,
               tokens |-> d.tokens, real |-> d.tokens, profile |-> FALSE])
  BY DEF PrepareCapture
<1>2. txn' = txn + 1 /\ lastTxn' = lastTxn /\ fl \in Flags /\ txn \in Nat
  BY DEF PrepareCapture, IInv, Types
<1>3. d \in Desc
  BY DescsTyped DEF Range
<1>4. /\ native'.batch.tokens = d.tokens /\ native'.batch.stages = d.stages
      /\ native'.batch.real = d.tokens /\ native'.at \in {"run", "context"}
  BY <1>1 DEF At
<1> DEFINE side == Sidecar(Split(d.tokens, d.stages), Split(d.tokens, d.stages))
<1>5. Describes(side, native'.batch)
  BY <1>3, <1>4, CaptureDescribed
<1>6. side.txn = txn
  BY DEF Sidecar
<1>7. fl'.pending = side
  BY <1>1, <1>2 DEF CaptureFlags, Flags
<1> HIDE DEF side
<1>8. QED BY <1>2, <1>4, <1>5, <1>6, <1>7 DEF SideInv, BatchFits, Staged, LastTxn

(* The forward's own context takes the staged sidecar; it makes none. *)
LEMMA CaptureContextSide == ASSUME IInv, SideInv, CreateCaptureContext PROVE SideInv'
<1>1. /\ native.at = "context" /\ native' = [native EXCEPT !.at = "run"]
      /\ lastTxn' = lastTxn /\ fl \in Flags /\ txn \in Nat
  BY DEF CreateCaptureContext, IInv, Types
<1>2. fl.pending /= NoSidecar
  BY <1>1 DEF SideInv, Staged, LastTxn, NoSidecar
<1>3. fl' = [fl EXCEPT !.pending = fl.pending] /\ txn' = txn
  BY <1>2 DEF CreateCaptureContext, InstallMetadata
<1>4. fl'.pending = fl.pending
  BY <1>1, <1>3 DEF Flags
<1>5. native'.batch = native.batch /\ native'.at = "run"
  BY <1>1 DEF IInv, Types
<1>6. QED BY <1>1, <1>3, <1>4, <1>5 DEF SideInv, BatchFits, Staged, LastTxn

(* Every step keeps the sidecars in step with their batches. *)
LEMMA NextSide == IInv /\ SideInv /\ [Next]_vars => SideInv'
<1> SUFFICES ASSUME IInv, SideInv, [Next]_vars PROVE SideInv'
  OBVIOUS
<1>1. CASE Raise \/ CaptureDrifts \/ ReturnExecute \/ ReturnCapture
  <2>1. \E r : Leave(r)
    BY <1>1 DEF Raise, CaptureDrifts, ReturnExecute, ReturnCapture
  <2>2. QED BY <2>1, LeaveSide
<1>2. CASE UNCHANGED vars
  BY <1>2 DEF vars, SideInv, BatchFits, Staged, LastTxn
<1>3. QED
  BY <1>1, <1>2, CaptureSide, ExecuteSide, CreateContextSide, PrepareSide,
     RunFullgraphSide, RunFullgraphStagesSide, RunSide, AfterSide,
     PrepareCaptureSide, CaptureContextSide DEF Next

(* The sidecar next to the tensors of a run is of this run: a transaction no
   earlier run had, its transfer lengths, its scheduled rows
   (attention_metadata.py:118-148), and a first stage without padding
   (gpu_mrv2_ubatching.py:221-223), for every list of FULL descriptors. *)
THEOREM SidecarsFit == Spec => []SidecarFits
<1>1. SideInv => SidecarFits
  BY DEF SideInv, Staged, Describes, SidecarFits, SidecarOfThisRun, FirstStageIsReal
<1>2. QED BY <1>1, SpecIInv, InitSide, NextSide, PTL DEF Spec

----------------------------------------------------------------------------
(* A capture has announced what its tracker has consumed, and no more. *)
CaptureInv ==
    scope = "capture" =>
        /\ tracker.index <= Len(tracker.expected)
        /\ events = [i \in 1 .. tracker.index |-> EventPayload(tracker.expected[i])]

(* The payload of a run of a capture is the one expected at its index. *)
LEMMA PrepareCaptureEvents == ASSUME IInv, CaptureInv, PrepareCapture PROVE CaptureInv'
<1>1. PICK d \in Range(Descs) :
         /\ ~Drifts(d)
         /\ fl' = CaptureFlags(d)
         /\ Publish(CaptureFlags(d), Split(d.tokens, d.stages))
  BY DEF PrepareCapture
<1>2. /\ scope = "capture" /\ scope' = "capture"
      /\ tracker.index < Len(tracker.expected)
      /\ tracker' = [tracker EXCEPT !.index = @ + 1]
  BY DEF PrepareCapture
<1> DEFINE n == tracker.index
           ex == tracker.expected
<1>3. n \in Nat /\ ex \in Seq(Events) /\ Len(ex) \in Nat /\ fl \in Flags /\ fl.profile = FALSE
  BY <1>2 DEF IInv, Types, Fresh
<1>4. tracker'.index = n + 1 /\ tracker'.expected = ex
  BY <1>2 DEF IInv, Types
<1>5. Payload(CaptureFlags(d), Split(d.tokens, d.stages)) = EventPayload(ex[n + 1])
  <2>1. ex[n + 1].desc = d
    BY <1>1 DEF Drifts, Expected
  <2>2. /\ CaptureFlags(d).warm = ex[n + 1].warm /\ CaptureFlags(d).cap = ~ex[n + 1].warm
        /\ CaptureFlags(d).rep = FALSE /\ CaptureFlags(d).profile = FALSE
    BY <1>3 DEF CaptureFlags, Flags, Expected
  <2>3. QED BY <2>1, <2>2 DEF Payload, EventPayload
<1>6. events' = Append(events, EventPayload(ex[n + 1]))
  BY <1>1, <1>2, <1>5 DEF Publish
<1>7. events = [i \in 1 .. n |-> EventPayload(ex[i])]
  BY <1>2 DEF CaptureInv
<1> HIDE DEF n, ex
<1>8. events' = [i \in 1 .. n + 1 |-> EventPayload(ex[i])]
  BY <1>3, <1>6, <1>7
<1>9. n + 1 <= Len(ex)
  BY <1>2, <1>3 DEF n, ex
<1>10. QED BY <1>4, <1>8, <1>9 DEF CaptureInv

(* Outside of a capture nothing is said of the announcements. *)
LEMMA InitEvents == Init => CaptureInv
BY DEF Init, CaptureInv

(* A capture starts with nothing announced and nothing run. *)
LEMMA CaptureEvents == ASSUME IInv, CaptureInv, Capture PROVE CaptureInv'
<1>1. PICK k \in 1 .. Len(Descs) :
         tracker' = [expected |-> [i \in 1 .. 2 * k |->
                                     [desc |-> Descs[(i + 1) \div 2], warm |-> i % 2 = 1]],
                     index |-> 0]
  BY DEF Capture
<1>2. events' = <<>>
  BY DEF Capture
<1>3. 2 * k \in Nat
  BY DescsTyped
<1>4. tracker'.index = 0 /\ Len(tracker'.expected) \in Nat
  BY <1>1, <1>3
<1>5. QED BY <1>2, <1>4 DEF CaptureInv

(* No other step of a capture moves its tracker or announces anything. *)
LEMMA OtherEvents ==
  ASSUME IInv, CaptureInv, [Next]_vars, ~Capture, ~PrepareCapture
  PROVE  CaptureInv'
<1>1. CASE Raise \/ CaptureDrifts \/ ReturnExecute \/ ReturnCapture
  BY <1>1 DEF Raise, CaptureDrifts, ReturnExecute, ReturnCapture, Leave, CaptureInv
<1>2. CASE Execute \/ CreateContext \/ CreateKVContext \/ PrepareUBatches \/ RunFullgraph
  BY <1>2 DEF Execute, CreateContext, CreateKVContext, PrepareUBatches, RunFullgraph,
              CaptureInv
<1>3. CASE KVDone \/ RunFullgraphStages \/ Run \/ UNCHANGED vars
  BY <1>3 DEF KVDone, RunFullgraphStages, Run, vars, CaptureInv
<1>4. CASE CreateUpdateContext \/ CreateCaptureContext
  <2>1. fl.suppress = TRUE
    BY <1>4 DEF IInv, Suppressed, CreateUpdateContext, CreateCaptureContext
  <2>2. UNCHANGED <<scope, tracker, events>>
    BY <1>4, <2>1 DEF CreateUpdateContext, CreateCaptureContext, InstallMetadata
  <2>3. QED BY <2>2 DEF CaptureInv
<1>5. QED BY <1>1, <1>2, <1>3, <1>4 DEF Next

(* Every step keeps the announcements of a capture those already expected. *)
LEMMA NextEvents == IInv /\ CaptureInv /\ [Next]_vars => CaptureInv'
BY CaptureEvents, PrepareCaptureEvents, OtherEvents

(* The step that ends a capture with success. *)
LEMMA CaptureEnds ==
  ASSUME IInv, CaptureInv, [Next]_vars,
         scope = "capture", scope' = "none", outcome' = "ok"
  PROVE  events = [i \in DOMAIN tracker.expected |-> EventPayload(tracker.expected[i])]
<1>1. ReturnCapture
  <2>1. ~Raise /\ ~CaptureDrifts
    BY DEF Raise, CaptureDrifts, Leave
  <2>2. ~Execute /\ ~Capture /\ ~ReturnExecute /\ ~CreateContext /\ ~CreateKVContext
        /\ ~PrepareUBatches /\ ~RunFullgraph /\ ~RunFullgraphStages
    BY DEF Execute, Capture, ReturnExecute, CreateContext, CreateKVContext,
           PrepareUBatches, RunFullgraph, RunFullgraphStages
  <2>3. ~KVDone /\ ~Run /\ ~CreateUpdateContext /\ ~PrepareCapture /\ ~CreateCaptureContext
        /\ ~UNCHANGED vars
    BY DEF KVDone, Run, CreateUpdateContext, PrepareCapture, CreateCaptureContext, vars
  <2>4. QED BY <2>1, <2>2, <2>3 DEF Next
<1>2. tracker.index = Len(tracker.expected)
  BY <1>1 DEF ReturnCapture, Leave, Complete
<1>3. tracker.expected \in Seq(Events)
  BY DEF IInv, Types
<1>4. DOMAIN tracker.expected = 1 .. tracker.index
  BY <1>2, <1>3
<1>5. QED BY <1>4 DEF CaptureInv

(* A capture that returns has announced the warmup and the capture of each of
   its FULL descriptors, in order: the tracker turns every other order or
   number of native events into an exception
   (attention_model_runner_v2.py:60-101), for every list of descriptors. *)
THEOREM CapturesAnnounced == Spec => CaptureAnnouncesAll
<1>1. IInv /\ CaptureInv /\ [Next]_vars =>
        [(scope = "capture" /\ scope' = "none" /\ outcome' = "ok") =>
           events = [i \in DOMAIN tracker.expected |->
                       EventPayload(tracker.expected[i])]]_vars
  BY CaptureEnds
<1>2. QED
  BY <1>1, SpecIInv, InitEvents, NextEvents, PTL DEF Spec, CaptureAnnouncesAll

(***************************************************************************)
(* The microbatch threads.                                                 *)
(***************************************************************************)
(* A failure is recorded for the thread. *)
LEMMA FailedTyped ==
  ASSUME TypeOK, NEW t \in Threads, failed' = [failed EXCEPT ![t] = TRUE]
  PROVE  failed' \in [Threads -> BOOLEAN]
  BY Zenon DEF TypeOK

(* What a thread that fails leaves behind is a state. *)
LEMMA RaisesTyped ==
  ASSUME TypeOK, NEW t \in Threads, Raises(t)
  PROVE  failed' \in [Threads -> BOOLEAN] /\ event' \in [Threads -> BOOLEAN]
<1>1. failed' \in [Threads -> BOOLEAN]
  BY Zenon DEF TypeOK, Raises
<1>2. event' \in [Threads -> BOOLEAN]
  BY Zenon DEF TypeOK, Raises, AllAwake
<1>3. QED
  BY <1>1, <1>2

(* The call that a thread receives leaves the window, with its own data. *)
Takes(c) ==
    /\ c \in Calls /\ c \notin started /\ window = <<c>>
    /\ started' = started \cup {c} /\ window' = <<>>
    /\ rx' = Append(rx, [call |-> c, data |-> c])

(* A receive of a call that is in the window, or was received before, takes
   that call out of the window or does nothing. *)
LEMMA ReceivesOwn ==
  ASSUME NEW c \in Calls \cup {NoCall}, Receives(c),
         c /= NoCall => c \in started \/ window = <<c>>
  PROVE  UNCHANGED <<started, rx, window>> \/ Takes(c)
<1>1. CASE c = NoCall \/ c \in started
  BY <1>1 DEF Receives
<1>2. CASE ~(c = NoCall \/ c \in started)
  <2>1. c \in Calls /\ c \notin started /\ window = <<c>>
    BY <1>2
  <2>2. window /= <<>> /\ Head(window) = c /\ Tail(window) = <<>>
    BY <2>1
  <2>3. /\ started' = started \cup {c}
        /\ rx' = Append(rx, [call |-> c, data |-> IF window = <<>> THEN NoCall ELSE Head(window)])
        /\ window' = IF window = <<>> THEN window ELSE Tail(window)
    BY <1>2, Zenon DEF Receives
  <2>4. QED
    BY <2>1, <2>2, <2>3 DEF Takes
<1>3. QED
  BY <1>1, <1>2

(* What was received stays received once, and its own. *)
LEMMA TakesKeeps ==
  ASSUME HandoffInv, NEW c \in Calls, Takes(c)
  PROVE  /\ started' \subseteq Calls /\ window' \in Seq(Calls)
         /\ rx' \in Seq([call : Calls, data : Calls])
         /\ ReceivesOwnTransfer'
         /\ \A i \in DOMAIN rx' : rx'[i].call \in started'
<1> USE DEF HandoffInv, TypeOK, Takes
<1>1. /\ started' \subseteq Calls /\ window' \in Seq(Calls)
      /\ [call |-> c, data |-> c] \in [call : Calls, data : Calls]
  OBVIOUS
<1>2. rx' \in Seq([call : Calls, data : Calls]) /\ Len(rx') = Len(rx) + 1
  BY <1>1
<1>3. \A i \in DOMAIN rx' :
         \/ i \in DOMAIN rx /\ rx'[i] = rx[i]
         \/ i = Len(rx) + 1 /\ rx'[i] = [call |-> c, data |-> c]
  BY <1>1, <1>2
<1>4. \A i \in DOMAIN rx' : rx'[i].call = rx'[i].data /\ rx'[i].call \in started'
  BY <1>3 DEF ReceivesOwnTransfer
<1>5. \A i, j \in DOMAIN rx' : rx'[i].call = rx'[j].call => i = j
  BY <1>3 DEF ReceivesOwnTransfer
<1>6. QED
  BY <1>1, <1>2, <1>4, <1>5 DEF ReceivesOwnTransfer

(* Every initial state satisfies the invariant. *)
LEMMA InitHandoffInv == HandoffInit => HandoffInv
<1> SUFFICES ASSUME HandoffInit PROVE HandoffInv
  OBVIOUS
<1> USE LayersAssumption, HandoffAssumption DEF HandoffInit, Threads, Parties, Main, Peer, InModel,
        Active, Holds, Intact
<1>1. TypeOK
  BY DEF TypeOK, Places
<1>2. BarrierInv /\ HolderInv
  BY DEF BarrierInv, HolderInv
<1>3. HookInv /\ CallInv /\ WindowInv
  BY DEF HookInv, CallInv, WindowInv
<1>4. QED
  BY <1>1, <1>2, <1>3 DEF HandoffInv, ReceivesOwnTransfer

(* begin_capturable_run: only ended threads are behind an intact barrier. *)
LEMMA BeginKeeps == HandoffInv /\ Begin => HandoffInv'
<1> SUFFICES ASSUME HandoffInv, Begin PROVE HandoffInv'
  OBVIOUS
<1> USE LayersAssumption, HandoffAssumption
    DEF Begin, Arrive, HandoffInv, Goto, AllAwake,
        Threads, Parties, Main, Peer, Call, InModel, Active, Holds, Intact, hostVars
<1>a. Intact => arrived = {} /\ barrier = "filling"
  BY DEF TypeOK, BarrierInv
<1>b. Intact => arrived' = {Main} /\ barrier' = "filling"
  <2>1. {2} /= {0, 1} \cup {2}
    <3>1. 0 \in {0, 1} \cup {2} /\ 0 \notin {2}
      OBVIOUS
    <3>2. QED
      BY <3>1
  <2>2. QED
    BY <1>a, <2>1
<1>c. ~Intact => ~Intact'
  OBVIOUS
<1>1. TypeOK'
  BY DEF TypeOK, Places, Calls, NoCall
<1>2. BarrierInv'
  BY <1>a, <1>b, <1>c DEF TypeOK, BarrierInv
<1>3. HolderInv'
  BY DEF TypeOK, BarrierInv, HolderInv
<1>4. HookInv'
  BY DEF TypeOK, HolderInv, HookInv, CallInv, WindowInv
<1>5. CallInv'
  BY DEF TypeOK, BarrierInv, HolderInv, HookInv, CallInv, WindowInv, Taken, Calls, NoCall
<1>6. WindowInv'
  BY DEF TypeOK, HolderInv, HookInv, CallInv, WindowInv
<1>7. (ReceivesOwnTransfer /\ \A i \in DOMAIN rx : rx[i].call \in started)'
  BY DEF ReceivesOwnTransfer
<1>8. QED
  BY <1>1, <1>2, <1>3, <1>4, <1>5, <1>6, <1>7

(* The runner passes the barrier. *)
LEMMA BeginReturnsKeeps == HandoffInv /\ BeginReturns => HandoffInv'
<1> SUFFICES ASSUME HandoffInv, BeginReturns PROVE HandoffInv'
  OBVIOUS
<1> USE LayersAssumption, HandoffAssumption
    DEF BeginReturns, Pass, HandoffInv, Goto, AllAwake,
        Threads, Parties, Main, Peer, Call, InModel, Active, Holds, Intact, hostVars
<1>1. TypeOK'
  BY DEF TypeOK, Places, Calls, NoCall
<1>2. BarrierInv'
  BY DEF TypeOK, BarrierInv
<1>3. HolderInv'
  BY DEF TypeOK, BarrierInv, HolderInv
<1>4. HookInv'
  BY DEF TypeOK, HolderInv, HookInv, CallInv, WindowInv
<1>5. CallInv'
  BY DEF TypeOK, BarrierInv, HolderInv, HookInv, CallInv, WindowInv, Taken, Calls, NoCall
<1>6. WindowInv'
  BY DEF TypeOK, HolderInv, HookInv, CallInv, WindowInv
<1>7. (ReceivesOwnTransfer /\ \A i \in DOMAIN rx : rx[i].call \in started)'
  BY DEF ReceivesOwnTransfer
<1>8. QED
  BY <1>1, <1>2, <1>3, <1>4, <1>5, <1>6, <1>7

(* The runner leaves a broken or timed out barrier, which stays broken. *)
LEMMA BeginRaisesKeeps == HandoffInv /\ BeginRaises => HandoffInv'
<1> SUFFICES ASSUME HandoffInv, BeginRaises PROVE HandoffInv'
  OBVIOUS
<1> USE LayersAssumption, HandoffAssumption
    DEF BeginRaises, Broken, TimesOut, HandoffInv, Goto, AllAwake,
        Threads, Parties, Main, Peer, Call, InModel, Active, Holds, Intact, hostVars
<1>1. TypeOK'
  BY DEF TypeOK, Places, Calls, NoCall
<1>2. BarrierInv'
  BY DEF TypeOK, BarrierInv
<1>3. HolderInv'
  BY DEF TypeOK, BarrierInv, HolderInv
<1>4. HookInv'
  BY DEF TypeOK, HolderInv, HookInv, CallInv, WindowInv
<1>5. CallInv'
  BY DEF TypeOK, BarrierInv, HolderInv, HookInv, CallInv, WindowInv, Taken, Calls, NoCall
<1>6. WindowInv'
  BY DEF TypeOK, HolderInv, HookInv, CallInv, WindowInv
<1>7. (ReceivesOwnTransfer /\ \A i \in DOMAIN rx : rx[i].call \in started)'
  BY DEF ReceivesOwnTransfer
<1>8. QED
  BY <1>1, <1>2, <1>3, <1>4, <1>5, <1>6, <1>7

(* finish wakes thread 0, the first holder of the device. *)
LEMMA FinishStartsKeeps == HandoffInv /\ FinishStarts => HandoffInv'
<1> SUFFICES ASSUME HandoffInv, FinishStarts PROVE HandoffInv'
  OBVIOUS
<1> USE LayersAssumption, HandoffAssumption
    DEF FinishStarts, HandoffInv, Goto, AllAwake,
        Threads, Parties, Main, Peer, Call, InModel, Active, Holds, Intact, hostVars
<1>1. TypeOK'
  BY DEF TypeOK, Places, Calls, NoCall
<1>2. BarrierInv'
  BY DEF TypeOK, BarrierInv
<1>3. HolderInv'
  BY DEF TypeOK, BarrierInv, HolderInv
<1>4. HookInv'
  BY DEF TypeOK, HolderInv, HookInv, CallInv, WindowInv
<1>5. CallInv'
  BY DEF TypeOK, BarrierInv, HolderInv, HookInv, CallInv, WindowInv, Taken, Calls, NoCall
<1>6. WindowInv'
  BY DEF TypeOK, HolderInv, HookInv, CallInv, WindowInv
<1>7. (ReceivesOwnTransfer /\ \A i \in DOMAIN rx : rx[i].call \in started)'
  BY DEF ReceivesOwnTransfer
<1>8. QED
  BY <1>1, <1>2, <1>3, <1>4, <1>5, <1>6, <1>7

(* The runner joins the ended threads. *)
LEMMA FinishJoinsKeeps == HandoffInv /\ FinishJoins => HandoffInv'
<1> SUFFICES ASSUME HandoffInv, FinishJoins PROVE HandoffInv'
  OBVIOUS
<1> USE LayersAssumption, HandoffAssumption
    DEF FinishJoins, HandoffInv, Goto, AllAwake,
        Threads, Parties, Main, Peer, Call, InModel, Active, Holds, Intact, hostVars
<1>1. TypeOK'
  BY DEF TypeOK, Places, Calls, NoCall
<1>2. BarrierInv'
  BY DEF TypeOK, BarrierInv
<1>3. HolderInv'
  BY DEF TypeOK, BarrierInv, HolderInv
<1>4. HookInv'
  BY DEF TypeOK, HolderInv, HookInv, CallInv, WindowInv
<1>5. CallInv'
  BY DEF TypeOK, BarrierInv, HolderInv, HookInv, CallInv, WindowInv, Taken, Calls, NoCall
<1>6. WindowInv'
  BY DEF TypeOK, HolderInv, HookInv, CallInv, WindowInv
<1>7. (ReceivesOwnTransfer /\ \A i \in DOMAIN rx : rx[i].call \in started)'
  BY DEF ReceivesOwnTransfer
<1>8. QED
  BY <1>1, <1>2, <1>3, <1>4, <1>5, <1>6, <1>7

(* __enter__ registers and arrives. *)
LEMMA EnterKeeps == \A t \in Threads : HandoffInv /\ Enter(t) => HandoffInv'
<1> SUFFICES ASSUME NEW t \in Threads, HandoffInv, Enter(t) PROVE HandoffInv'
  OBVIOUS
<1> USE LayersAssumption, HandoffAssumption
    DEF Enter, Arrive, HandoffInv, Goto, AllAwake,
        Threads, Parties, Main, Peer, Call, InModel, Active, Holds, Intact, hostVars
<1>1. TypeOK'
  BY DEF TypeOK, Places, Calls, NoCall
<1>2. BarrierInv'
  BY DEF TypeOK, BarrierInv
<1>3. HolderInv'
  BY DEF TypeOK, BarrierInv, HolderInv
<1>4. HookInv'
  BY DEF TypeOK, HolderInv, HookInv, CallInv, WindowInv
<1>5. CallInv'
  BY DEF TypeOK, BarrierInv, HolderInv, HookInv, CallInv, WindowInv, Taken, Calls, NoCall
<1>6. WindowInv'
  BY DEF TypeOK, HolderInv, HookInv, CallInv, WindowInv
<1>7. (ReceivesOwnTransfer /\ \A i \in DOMAIN rx : rx[i].call \in started)'
  BY DEF ReceivesOwnTransfer
<1>8. QED
  BY <1>1, <1>2, <1>3, <1>4, <1>5, <1>6, <1>7

(* A thread leaves the barrier without holding the device. *)
LEMMA EnterPassesKeeps == \A t \in Threads : HandoffInv /\ EnterPasses(t) => HandoffInv'
<1> SUFFICES ASSUME NEW t \in Threads, HandoffInv, EnterPasses(t) PROVE HandoffInv'
  OBVIOUS
<1> USE LayersAssumption, HandoffAssumption
    DEF EnterPasses, Pass, HandoffInv, Goto, AllAwake,
        Threads, Parties, Main, Peer, Call, InModel, Active, Holds, Intact, hostVars
<1>1. TypeOK'
  BY DEF TypeOK, Places, Calls, NoCall
<1>2. BarrierInv'
  BY DEF TypeOK, BarrierInv
<1>3. HolderInv'
  BY DEF TypeOK, BarrierInv, HolderInv
<1>4. HookInv'
  BY DEF TypeOK, HolderInv, HookInv, CallInv, WindowInv
<1>5. CallInv'
  BY DEF TypeOK, BarrierInv, HolderInv, HookInv, CallInv, WindowInv, Taken, Calls, NoCall
<1>6. WindowInv'
  BY DEF TypeOK, HolderInv, HookInv, CallInv, WindowInv
<1>7. (ReceivesOwnTransfer /\ \A i \in DOMAIN rx : rx[i].call \in started)'
  BY DEF ReceivesOwnTransfer
<1>8. QED
  BY <1>1, <1>2, <1>3, <1>4, <1>5, <1>6, <1>7

(* A thread leaves a broken barrier, whose state no thread uses again. *)
LEMMA EnterBrokenKeeps == \A t \in Threads : HandoffInv /\ EnterBroken(t) => HandoffInv'
<1> SUFFICES ASSUME NEW t \in Threads, HandoffInv, EnterBroken(t) PROVE HandoffInv'
  OBVIOUS
<1> USE LayersAssumption, HandoffAssumption
    DEF EnterBroken, EnterUnwinds, Broken, TimesOut, HandoffInv, Goto, AllAwake,
        Threads, Parties, Main, Peer, Call, InModel, Active, Holds, Intact, hostVars
<1>1. TypeOK'
  BY DEF TypeOK, Places, Calls, NoCall
<1>2. BarrierInv'
  BY DEF TypeOK, BarrierInv
<1>3. HolderInv'
  BY DEF TypeOK, BarrierInv, HolderInv
<1>4. HookInv'
  BY DEF TypeOK, HolderInv, HookInv, CallInv, WindowInv
<1>5. CallInv'
  BY DEF TypeOK, BarrierInv, HolderInv, HookInv, CallInv, WindowInv, Taken, Calls, NoCall
<1>6. WindowInv'
  BY DEF TypeOK, HolderInv, HookInv, CallInv, WindowInv
<1>7. (ReceivesOwnTransfer /\ \A i \in DOMAIN rx : rx[i].call \in started)'
  BY DEF ReceivesOwnTransfer
<1>8. QED
  BY <1>1, <1>2, <1>3, <1>4, <1>5, <1>6, <1>7

(* The parked thread takes over the wake-up it held. *)
LEMMA UnparkKeeps == \A t \in Threads : HandoffInv /\ Unpark(t) => HandoffInv'
<1> SUFFICES ASSUME NEW t \in Threads, HandoffInv, Unpark(t) PROVE HandoffInv'
  OBVIOUS
<1> USE LayersAssumption, HandoffAssumption
    DEF Unpark, HandoffInv, Goto, AllAwake,
        Threads, Parties, Main, Peer, Call, InModel, Active, Holds, Intact, hostVars
<1>1. TypeOK'
  BY DEF TypeOK, Places, Calls, NoCall
<1>2. BarrierInv'
  BY DEF TypeOK, BarrierInv
<1>3. HolderInv'
  BY DEF TypeOK, BarrierInv, HolderInv
<1>4. HookInv'
  BY DEF TypeOK, HolderInv, HookInv, CallInv, WindowInv
<1>5. CallInv'
  BY DEF TypeOK, BarrierInv, HolderInv, HookInv, CallInv, WindowInv, Taken, Calls, NoCall
<1>6. WindowInv'
  BY DEF TypeOK, HolderInv, HookInv, CallInv, WindowInv
<1>7. (ReceivesOwnTransfer /\ \A i \in DOMAIN rx : rx[i].call \in started)'
  BY DEF ReceivesOwnTransfer
<1>8. QED
  BY <1>1, <1>2, <1>3, <1>4, <1>5, <1>6, <1>7

(* The check of __enter__ lets the holder alone into the model. *)
LEMMA CheckEnteredKeeps == \A t \in Threads : HandoffInv /\ CheckEntered(t) => HandoffInv'
<1> SUFFICES ASSUME NEW t \in Threads, HandoffInv, CheckEntered(t) PROVE HandoffInv'
  OBVIOUS
<1> USE LayersAssumption, HandoffAssumption
    DEF CheckEntered, EnterUnwinds, Cancelled, HandoffInv, Goto, AllAwake,
        Threads, Parties, Main, Peer, Call, InModel, Active, Holds, Intact, hostVars
<1>1. TypeOK'
  <2>1. CASE Intact
    <3>1. pc' \in [Threads -> Places] /\ UNCHANGED <<failed, event, arrived, barrier, registry>>
      BY <2>1 DEF TypeOK, Places
    <3>2. QED
      BY <3>1 DEF TypeOK
  <2>2. CASE ~Intact
    <3>1. failed' \in [Threads -> BOOLEAN]
      <4>1. failed' = [failed EXCEPT ![t] = TRUE]
        BY <2>2
      <4>2. QED
        BY <4>1, FailedTyped
    <3>2. event' \in [Threads -> BOOLEAN]
      BY <2>2, Zenon DEF TypeOK
    <3>3. pc' \in [Threads -> Places]
      BY <2>2 DEF TypeOK, Places
    <3>4. arrived' \subseteq Parties /\ registry' \subseteq Threads
      BY <2>2, Zenon DEF TypeOK
    <3>5. barrier' \in {"filling", "draining", "broken"}
      BY <2>2
    <3>6. QED
      BY <3>1, <3>2, <3>3, <3>4, <3>5 DEF TypeOK
  <2>3. QED
    BY <2>1, <2>2
<1>2. BarrierInv'
  BY DEF TypeOK, BarrierInv
<1>3. HolderInv'
  BY DEF TypeOK, BarrierInv, HolderInv
<1>4. HookInv'
  BY DEF TypeOK, HolderInv, HookInv, CallInv, WindowInv
<1>5. CallInv'
  BY SMTT(30) DEF TypeOK, BarrierInv, HolderInv, HookInv, CallInv, WindowInv, Taken, Calls, NoCall
<1>6. WindowInv'
  BY DEF TypeOK, HolderInv, HookInv, CallInv, WindowInv
<1>7. (ReceivesOwnTransfer /\ \A i \in DOMAIN rx : rx[i].call \in started)'
  BY DEF ReceivesOwnTransfer
<1>8. QED
  BY <1>1, <1>2, <1>3, <1>4, <1>5, <1>6, <1>7

(* The receive of the peer, submitted before the own send, empties the window. *)
LEMMA BeforeSendKeeps == \A t \in Threads : HandoffInv /\ BeforeSend(t) => HandoffInv'
<1> SUFFICES ASSUME NEW t \in Threads, HandoffInv, BeforeSend(t) PROVE HandoffInv'
  OBVIOUS
<1> USE LayersAssumption, HandoffAssumption
    DEF BeforeSend, DrainPeer, RunHook, HandoffInv, Goto, AllAwake,
        Threads, Parties, Main, Peer, Call, InModel, Active, Holds, Intact, hostVars
<1>a. hook[t] \in Calls \cup {NoCall}
  BY DEF TypeOK, Calls
<1>b. UNCHANGED <<started, rx, window>> \/ Takes(hook[t])
  <2>1. hook[t] /= NoCall => hook[t] \in started \/ window = <<hook[t]>>
    BY DEF TypeOK, HolderInv, HookInv, CallInv, Taken
  <2>2. QED
    BY <1>a, <2>1, ReceivesOwn
<1>c. /\ started' \subseteq Calls /\ window' \in Seq(Calls)
      /\ rx' \in Seq([call : Calls, data : Calls])
      /\ ReceivesOwnTransfer'
      /\ \A i \in DOMAIN rx' : rx'[i].call \in started'
  <2>1. CASE UNCHANGED <<started, rx, window>>
    BY <2>1 DEF TypeOK, ReceivesOwnTransfer
  <2>2. CASE Takes(hook[t])
    BY <2>2, TakesKeeps DEF Takes
  <2>3. QED
    BY <1>b, <2>1, <2>2
<1>d. (hook[t] = NoCall \/ hook[t] \in started') /\ started \subseteq started'
      /\ (window' = window \/ (window' = <<>> /\ window = <<hook[t]>>))
      /\ started' \subseteq started \cup {hook[t]}
      /\ (hook[t] = NoCall => started' = started /\ window' = window)
      /\ (window' /= <<>> => started' = started)
  <2>1. NoCall \notin Calls
    BY DEF Calls, NoCall
  <2>2. Receives(hook[t])
    BY Zenon DEF BeforeSend, DrainPeer, RunHook
  <2>3. CASE UNCHANGED <<started, rx, window>>
    <3>1. hook[t] = NoCall \/ hook[t] \in started
      <4> SUFFICES ASSUME hook[t] /= NoCall, hook[t] \notin started PROVE FALSE
        OBVIOUS
      <4>1. started' = started \cup {hook[t]}
        BY <2>2, Zenon DEF Receives
      <4>2. QED
        BY <2>3, <4>1
    <3>2. started' = started /\ window' = window
      BY <2>3
    <3>3. (hook[t] = NoCall \/ hook[t] \in started') /\ started \subseteq started'
      BY <3>1, <3>2, Zenon
    <3>4. started' \subseteq started \cup {hook[t]}
      BY <3>2
    <3>5. window' = window \/ (window' = <<>> /\ window = <<hook[t]>>)
      BY <3>2, Zenon
    <3>6. QED
      BY <3>2, <3>3, <3>4, <3>5, Zenon
  <2>4. CASE Takes(hook[t])
    BY <2>1, <2>4 DEF Takes
  <2>5. QED
    BY <1>b, <2>3, <2>4
<1>1. TypeOK'
  BY <1>c DEF TypeOK, Places, Calls, NoCall
<1>2. BarrierInv'
  BY <1>d DEF TypeOK, BarrierInv
<1>3. HolderInv'
  BY <1>d DEF TypeOK, BarrierInv, HolderInv
<1>4. HookInv'
  BY <1>d DEF TypeOK, HolderInv, HookInv, CallInv, WindowInv
<1>5. CallInv'
  BY <1>d DEF TypeOK, BarrierInv, HolderInv, HookInv, CallInv, WindowInv, Taken, Calls,
     NoCall
<1>6. WindowInv'
  BY <1>d DEF TypeOK, HolderInv, HookInv, CallInv, WindowInv
<1>7. (ReceivesOwnTransfer /\ \A i \in DOMAIN rx : rx[i].call \in started)'
  BY <1>c
<1>8. QED
  BY <1>1, <1>2, <1>3, <1>4, <1>5, <1>6, <1>7

(* The send finds the window empty and its call not received. *)
LEMMA SendKeeps == \A t \in Threads : HandoffInv /\ Send(t) => HandoffInv'
<1> SUFFICES ASSUME NEW t \in Threads, HandoffInv, Send(t) PROVE HandoffInv'
  OBVIOUS
<1> USE LayersAssumption, HandoffAssumption
    DEF Send, HandoffInv, Goto, AllAwake,
        Threads, Parties, Main, Peer, Call, InModel, Active, Holds, Intact, hostVars
<1>a. Intact /\ Call(t) \in Calls
  BY DEF TypeOK, HolderInv, Calls
<1>b. window = <<>>
  <2> SUFFICES ASSUME window /= <<>> PROVE FALSE
    OBVIOUS
  <2>1. PICK o \in Threads : /\ window = <<Call(o)>> /\ pc[o] \in {"sent", "yield", "yielded"}
                             /\ Call(o) \notin started
    BY <1>a DEF WindowInv
  <2>2. o /= t /\ o = Peer(t) /\ t = Peer(o)
    BY <2>1
  <2>3. pc[o] = "yielded"
    BY <1>a, <2>1, <2>2 DEF HolderInv
  <2>4. hook[Peer(o)] = Call(o)
    BY <1>a, <2>1, <2>3 DEF CallInv
  <2>5. hook[t] = NoCall
    BY <1>a DEF CallInv
  <2>6. Call(o) \in Calls /\ NoCall \notin Calls
    BY <2>1 DEF TypeOK, Calls, NoCall
  <2>7. QED
    BY <2>2, <2>4, <2>5, <2>6
<1>c. window' = <<Call(t)>>
  BY <1>b
<1>d. Call(t) \notin started
  <2>1. \A c \in started : c.owner = t => c.layer < layer[t]
    BY <1>a DEF CallInv
  <2>2. Call(t).owner = t /\ Call(t).layer = layer[t] /\ layer[t] \in Int
    BY DEF TypeOK
  <2>3. QED
    BY <2>1, <2>2
<1>1. TypeOK'
  BY <1>a, <1>b, <1>c, <1>d DEF TypeOK, Places, Calls, NoCall
<1>2. BarrierInv'
  BY <1>a, <1>b, <1>c, <1>d DEF TypeOK, BarrierInv
<1>3. HolderInv'
  BY <1>a, <1>b, <1>c, <1>d DEF TypeOK, BarrierInv, HolderInv
<1>4. HookInv'
  BY <1>a, <1>b, <1>c, <1>d DEF TypeOK, HolderInv, HookInv, CallInv, WindowInv
<1>5. CallInv'
  BY <1>a, <1>b, <1>c, <1>d DEF TypeOK, BarrierInv, HolderInv, HookInv, CallInv,
     WindowInv, Taken, Calls, NoCall
<1>6. WindowInv'
  BY <1>a, <1>b, <1>c, <1>d DEF TypeOK, HolderInv, HookInv, CallInv, WindowInv
<1>7. (ReceivesOwnTransfer /\ \A i \in DOMAIN rx : rx[i].call \in started)'
  BY <1>a, <1>b, <1>c, <1>d DEF ReceivesOwnTransfer
<1>8. QED
  BY <1>1, <1>2, <1>3, <1>4, <1>5, <1>6, <1>7

(* The call in the window is registered with the parked peer. *)
LEMMA RegisterKeeps == \A t \in Threads : HandoffInv /\ Register(t) => HandoffInv'
<1> SUFFICES ASSUME NEW t \in Threads, HandoffInv, Register(t) PROVE HandoffInv'
  OBVIOUS
<1> USE LayersAssumption, HandoffAssumption
    DEF Register, Raises, HandoffInv, Goto, AllAwake,
        Threads, Parties, Main, Peer, Call, InModel, Active, Holds, Intact, hostVars
<1>1. TypeOK'
  <2>1. failed' \in [Threads -> BOOLEAN] /\ event' \in [Threads -> BOOLEAN]
    <3>1. CASE Raises(t)
      BY <3>1, RaisesTyped
    <3>2. CASE ~Raises(t)
      <4>1. UNCHANGED <<failed, event>>
        BY <3>2
      <4>2. QED
        BY <4>1, Zenon DEF TypeOK
    <3>3. QED
      BY <3>1, <3>2
  <2>2. QED
    BY <2>1 DEF TypeOK, Places, Calls, NoCall
<1>2. BarrierInv'
  BY DEF TypeOK, BarrierInv
<1>3. HolderInv'
  BY DEF TypeOK, BarrierInv, HolderInv
<1>4. HookInv'
  BY DEF TypeOK, HolderInv, HookInv, CallInv, WindowInv
<1>5. CallInv'
  BY DEF TypeOK, BarrierInv, HolderInv, HookInv, CallInv, WindowInv, Taken, Calls, NoCall
<1>6. WindowInv'
  BY DEF TypeOK, HolderInv, HookInv, CallInv, WindowInv
<1>7. (ReceivesOwnTransfer /\ \A i \in DOMAIN rx : rx[i].call \in started)'
  BY DEF ReceivesOwnTransfer
<1>8. QED
  BY <1>1, <1>2, <1>3, <1>4, <1>5, <1>6, <1>7

(* The yield hands the device over with the wake-up of the peer. *)
LEMMA YieldKeeps == \A t \in Threads : HandoffInv /\ Yield(t) => HandoffInv'
<1> SUFFICES ASSUME NEW t \in Threads, HandoffInv, Yield(t) PROVE HandoffInv'
  OBVIOUS
<1> USE LayersAssumption, HandoffAssumption
    DEF Yield, Cancelled, Raises, HandoffInv, Goto, AllAwake,
        Threads, Parties, Main, Peer, Call, InModel, Active, Holds, Intact, hostVars
<1>1. TypeOK'
  <2>1. failed' \in [Threads -> BOOLEAN] /\ event' \in [Threads -> BOOLEAN]
    <3>1. CASE Raises(t)
      BY <3>1, RaisesTyped
    <3>2. CASE ~Raises(t)
      <4>1. UNCHANGED failed /\ event' = [event EXCEPT ![Peer(t)] = TRUE]
        BY <3>2
      <4>2. QED
        BY <4>1, Zenon DEF TypeOK
    <3>3. QED
      BY <3>1, <3>2
  <2>2. QED
    BY <2>1 DEF TypeOK, Places, Calls, NoCall
<1>2. BarrierInv'
  BY DEF TypeOK, BarrierInv
<1>3. HolderInv'
  BY DEF TypeOK, BarrierInv, HolderInv
<1>4. HookInv'
  BY DEF TypeOK, HolderInv, HookInv, CallInv, WindowInv
<1>5. CallInv'
  BY SMTT(30) DEF TypeOK, BarrierInv, HolderInv, HookInv, CallInv, WindowInv, Taken, Calls, NoCall
<1>6. WindowInv'
  BY DEF TypeOK, HolderInv, HookInv, CallInv, WindowInv
<1>7. (ReceivesOwnTransfer /\ \A i \in DOMAIN rx : rx[i].call \in started)'
  BY DEF ReceivesOwnTransfer
<1>8. QED
  BY <1>1, <1>2, <1>3, <1>4, <1>5, <1>6, <1>7

(* Who is woken finds its call received by the peer that woke it. *)
LEMMA YieldWakesKeeps == \A t \in Threads : HandoffInv /\ YieldWakes(t) => HandoffInv'
<1> SUFFICES ASSUME NEW t \in Threads, HandoffInv, YieldWakes(t) PROVE HandoffInv'
  OBVIOUS
<1> USE LayersAssumption, HandoffAssumption
    DEF YieldWakes, HandoffInv, Goto, AllAwake,
        Threads, Parties, Main, Peer, Call, InModel, Active, Holds, Intact, hostVars
<1>a. hook' = hook /\ layer' = layer /\ started' = started /\ window' = window
  OBVIOUS
<1>b. Intact => Call(t) \in started /\ hook[Peer(t)] = NoCall
  BY DEF TypeOK, CallInv, Taken
<1>c. \A u \in Threads : u /= t => pc'[u] = pc[u]
  BY DEF TypeOK
<1>1. TypeOK'
  BY <1>a, <1>b, <1>c DEF TypeOK, Places, Calls, NoCall
<1>2. BarrierInv'
  BY <1>a, <1>b, <1>c DEF TypeOK, BarrierInv
<1>3. HolderInv'
  BY <1>a, <1>b, <1>c DEF TypeOK, BarrierInv, HolderInv
<1>4. HookInv'
  BY <1>a, <1>b, <1>c DEF TypeOK, HolderInv, HookInv, CallInv, WindowInv
<1>5. CallInv'
  BY <1>a, <1>b, <1>c DEF TypeOK, BarrierInv, HolderInv, HookInv, CallInv, WindowInv,
     Taken, Calls, NoCall
<1>6. WindowInv'
  BY <1>a, <1>b, <1>c DEF TypeOK, HolderInv, HookInv, CallInv, WindowInv
<1>7. (ReceivesOwnTransfer /\ \A i \in DOMAIN rx : rx[i].call \in started)'
  BY <1>a, <1>b, <1>c DEF ReceivesOwnTransfer
<1>8. QED
  BY <1>1, <1>2, <1>3, <1>4, <1>5, <1>6, <1>7

(* The check after the yield lets the holder alone back into the model. *)
LEMMA CheckResumedKeeps == \A t \in Threads : HandoffInv /\ CheckResumed(t) => HandoffInv'
<1> SUFFICES ASSUME NEW t \in Threads, HandoffInv, CheckResumed(t) PROVE HandoffInv'
  OBVIOUS
<1> USE LayersAssumption, HandoffAssumption
    DEF CheckResumed, Cancelled, Raises, HandoffInv, Goto, AllAwake,
        Threads, Parties, Main, Peer, Call, InModel, Active, Holds, Intact, hostVars
<1>1. TypeOK'
  <2>1. failed' \in [Threads -> BOOLEAN] /\ event' \in [Threads -> BOOLEAN]
    <3>1. CASE Raises(t)
      BY <3>1, RaisesTyped
    <3>2. CASE ~Raises(t)
      <4>1. UNCHANGED <<failed, event>>
        BY <3>2
      <4>2. QED
        BY <4>1, Zenon DEF TypeOK
    <3>3. QED
      BY <3>1, <3>2
  <2>2. QED
    BY <2>1 DEF TypeOK, Places, Calls, NoCall
<1>2. BarrierInv'
  BY DEF TypeOK, BarrierInv
<1>3. HolderInv'
  BY DEF TypeOK, BarrierInv, HolderInv
<1>4. HookInv'
  BY DEF TypeOK, HolderInv, HookInv, CallInv, WindowInv
<1>5. CallInv'
  BY SMTT(60) DEF TypeOK, HolderInv, CallInv, Taken
<1>6. WindowInv'
  BY DEF TypeOK, HolderInv, HookInv, CallInv, WindowInv
<1>7. (ReceivesOwnTransfer /\ \A i \in DOMAIN rx : rx[i].call \in started)'
  BY DEF ReceivesOwnTransfer
<1>8. QED
  BY <1>1, <1>2, <1>3, <1>4, <1>5, <1>6, <1>7

(* The own receive was submitted by the peer, so that nothing is taken from the window. *)
LEMMA ConsumeKeeps == \A t \in Threads : HandoffInv /\ Consume(t) => HandoffInv'
<1> SUFFICES ASSUME NEW t \in Threads, HandoffInv, Consume(t) PROVE HandoffInv'
  OBVIOUS
<1> USE LayersAssumption, HandoffAssumption
    DEF Consume, More, HandoffInv, Goto, AllAwake,
        Threads, Parties, Main, Peer, Call, InModel, Active, Holds, Intact, hostVars
<1>a. Call(t) \in started /\ hook[Peer(t)] = NoCall /\ Intact
  BY DEF TypeOK, HolderInv, CallInv, Taken
<1>b. UNCHANGED <<started, rx, window>>
  BY <1>a DEF Receives
<1>1. TypeOK'
  BY SMTT(30), <1>a, <1>b DEF TypeOK, Places, Calls, NoCall
<1>2. BarrierInv'
  BY <1>a, <1>b DEF TypeOK, BarrierInv
<1>3. HolderInv'
  BY <1>a, <1>b DEF TypeOK, BarrierInv, HolderInv
<1>4. HookInv'
  BY <1>a, <1>b DEF TypeOK, HolderInv, HookInv, CallInv, WindowInv
<1>5. CallInv'
  BY <1>a, <1>b DEF TypeOK, BarrierInv, HolderInv, HookInv, CallInv, WindowInv, Taken,
     Calls, NoCall
<1>6. WindowInv'
  BY <1>a, <1>b DEF TypeOK, HolderInv, HookInv, CallInv, WindowInv
<1>7. (ReceivesOwnTransfer /\ \A i \in DOMAIN rx : rx[i].call \in started)'
  BY <1>a, <1>b DEF ReceivesOwnTransfer
<1>8. QED
  BY <1>1, <1>2, <1>3, <1>4, <1>5, <1>6, <1>7

(* __exit__ unregisters the context of the holder. *)
LEMMA ExitUnregistersKeeps == \A t \in Threads : HandoffInv /\ ExitUnregisters(t) => HandoffInv'
<1> SUFFICES ASSUME NEW t \in Threads, HandoffInv, ExitUnregisters(t) PROVE HandoffInv'
  OBVIOUS
<1> USE LayersAssumption, HandoffAssumption
    DEF ExitUnregisters, HandoffInv, Goto, AllAwake,
        Threads, Parties, Main, Peer, Call, InModel, Active, Holds, Intact, hostVars
<1>1. TypeOK'
  BY DEF TypeOK, Places, Calls, NoCall
<1>2. BarrierInv'
  BY DEF TypeOK, BarrierInv
<1>3. HolderInv'
  BY DEF TypeOK, BarrierInv, HolderInv
<1>4. HookInv'
  BY DEF TypeOK, HolderInv, HookInv, CallInv, WindowInv
<1>5. CallInv'
  BY DEF TypeOK, BarrierInv, HolderInv, HookInv, CallInv, WindowInv, Taken, Calls, NoCall
<1>6. WindowInv'
  BY DEF TypeOK, HolderInv, HookInv, CallInv, WindowInv
<1>7. (ReceivesOwnTransfer /\ \A i \in DOMAIN rx : rx[i].call \in started)'
  BY DEF ReceivesOwnTransfer
<1>8. QED
  BY <1>1, <1>2, <1>3, <1>4, <1>5, <1>6, <1>7

(* __exit__ submits the receive of the peer and hands the device over for good. *)
LEMMA ExitSignalsKeeps == \A t \in Threads : HandoffInv /\ ExitSignals(t) => HandoffInv'
<1> SUFFICES ASSUME NEW t \in Threads, HandoffInv, ExitSignals(t) PROVE HandoffInv'
  OBVIOUS
<1> USE LayersAssumption, HandoffAssumption
    DEF ExitSignals, RunHook, HandoffInv, Goto, AllAwake,
        Threads, Parties, Main, Peer, Call, InModel, Active, Holds, Intact, hostVars
<1>a. hook[t] \in Calls \cup {NoCall}
  BY DEF TypeOK, Calls
<1>b. UNCHANGED <<started, rx, window>> \/ Takes(hook[t])
  <2>1. hook[t] /= NoCall => hook[t] \in started \/ window = <<hook[t]>>
    BY DEF TypeOK, HolderInv, HookInv, CallInv, Taken
  <2>2. QED
    BY <1>a, <2>1, ReceivesOwn
<1>c. /\ started' \subseteq Calls /\ window' \in Seq(Calls)
      /\ rx' \in Seq([call : Calls, data : Calls])
      /\ ReceivesOwnTransfer'
      /\ \A i \in DOMAIN rx' : rx'[i].call \in started'
  <2>1. CASE UNCHANGED <<started, rx, window>>
    BY <2>1 DEF TypeOK, ReceivesOwnTransfer
  <2>2. CASE Takes(hook[t])
    BY <2>2, TakesKeeps DEF Takes
  <2>3. QED
    BY <1>b, <2>1, <2>2
<1>d. (hook[t] = NoCall \/ hook[t] \in started') /\ started \subseteq started'
      /\ (window' = window \/ (window' = <<>> /\ window = <<hook[t]>>))
      /\ started' \subseteq started \cup {hook[t]}
      /\ (hook[t] = NoCall => started' = started /\ window' = window)
      /\ (window' /= <<>> => started' = started)
  <2>1. NoCall \notin Calls
    BY DEF Calls, NoCall
  <2>2. Receives(hook[t])
    BY Zenon DEF ExitSignals, RunHook
  <2>3. CASE UNCHANGED <<started, rx, window>>
    <3>1. hook[t] = NoCall \/ hook[t] \in started
      <4> SUFFICES ASSUME hook[t] /= NoCall, hook[t] \notin started PROVE FALSE
        OBVIOUS
      <4>1. started' = started \cup {hook[t]}
        BY <2>2, Zenon DEF Receives
      <4>2. QED
        BY <2>3, <4>1
    <3>2. started' = started /\ window' = window
      BY <2>3
    <3>3. (hook[t] = NoCall \/ hook[t] \in started') /\ started \subseteq started'
      BY <3>1, <3>2, Zenon
    <3>4. started' \subseteq started \cup {hook[t]}
      BY <3>2
    <3>5. window' = window \/ (window' = <<>> /\ window = <<hook[t]>>)
      BY <3>2, Zenon
    <3>6. QED
      BY <3>2, <3>3, <3>4, <3>5, Zenon
  <2>4. CASE Takes(hook[t])
    BY <2>1, <2>4 DEF Takes
  <2>5. QED
    BY <1>b, <2>3, <2>4
<1>1. TypeOK'
  BY <1>c DEF TypeOK, Places, Calls, NoCall
<1>2. BarrierInv'
  BY <1>d DEF TypeOK, BarrierInv
<1>3. HolderInv'
  BY <1>d DEF TypeOK, BarrierInv, HolderInv
<1>4. HookInv'
  BY <1>d DEF TypeOK, HolderInv, HookInv, CallInv, WindowInv
<1>5. CallInv'
  BY <1>d DEF TypeOK, BarrierInv, HolderInv, HookInv, CallInv, WindowInv, Taken, Calls,
     NoCall
<1>6. WindowInv'
  BY <1>d DEF TypeOK, HolderInv, HookInv, CallInv, WindowInv
<1>7. (ReceivesOwnTransfer /\ \A i \in DOMAIN rx : rx[i].call \in started)'
  BY <1>c
<1>8. QED
  BY <1>1, <1>2, <1>3, <1>4, <1>5, <1>6, <1>7

(* A thread that ends before __enter__ never held anything. *)
LEMMA InitFailsKeeps == \A t \in Threads : HandoffInv /\ InitFails(t) => HandoffInv'
<1> SUFFICES ASSUME NEW t \in Threads, HandoffInv, InitFails(t) PROVE HandoffInv'
  OBVIOUS
<1> USE LayersAssumption, HandoffAssumption
    DEF InitFails, Fault, HandoffInv, Goto, AllAwake,
        Threads, Parties, Main, Peer, Call, InModel, Active, Holds, Intact, hostVars
<1>1. TypeOK'
  BY DEF TypeOK, Places, Calls, NoCall
<1>2. BarrierInv'
  BY DEF TypeOK, BarrierInv
<1>3. HolderInv'
  BY DEF TypeOK, BarrierInv, HolderInv
<1>4. HookInv'
  BY DEF TypeOK, HolderInv, HookInv, CallInv, WindowInv
<1>5. CallInv'
  BY SMTT(30) DEF TypeOK, BarrierInv, HolderInv, HookInv, CallInv, WindowInv, Taken, Calls, NoCall
<1>6. WindowInv'
  BY DEF TypeOK, HolderInv, HookInv, CallInv, WindowInv
<1>7. (ReceivesOwnTransfer /\ \A i \in DOMAIN rx : rx[i].call \in started)'
  BY DEF ReceivesOwnTransfer
<1>8. QED
  BY <1>1, <1>2, <1>3, <1>4, <1>5, <1>6, <1>7

(* A failure in __enter__ breaks the barrier, and no thread is in the model. *)
LEMMA SetDeviceFailsKeeps == \A t \in Threads : HandoffInv /\ SetDeviceFails(t) => HandoffInv'
<1> SUFFICES ASSUME NEW t \in Threads, HandoffInv, SetDeviceFails(t) PROVE HandoffInv'
  OBVIOUS
<1> USE LayersAssumption, HandoffAssumption
    DEF SetDeviceFails, Fault, EnterUnwinds, HandoffInv, Goto, AllAwake,
        Threads, Parties, Main, Peer, Call, InModel, Active, Holds, Intact, hostVars
<1>1. TypeOK'
  BY DEF TypeOK, Places, Calls, NoCall
<1>2. BarrierInv'
  BY DEF TypeOK, BarrierInv
<1>3. HolderInv'
  BY DEF TypeOK, BarrierInv, HolderInv
<1>4. HookInv'
  BY DEF TypeOK, HolderInv, HookInv, CallInv, WindowInv
<1>5. CallInv'
  BY DEF TypeOK, BarrierInv, HolderInv, HookInv, CallInv, WindowInv, Taken, Calls, NoCall
<1>6. WindowInv'
  BY DEF TypeOK, HolderInv, HookInv, CallInv, WindowInv
<1>7. (ReceivesOwnTransfer /\ \A i \in DOMAIN rx : rx[i].call \in started)'
  BY DEF ReceivesOwnTransfer
<1>8. QED
  BY <1>1, <1>2, <1>3, <1>4, <1>5, <1>6, <1>7

(* A failure in the model breaks the barrier, and the other thread was outside the model. *)
LEMMA ModelFailsKeeps == \A t \in Threads : HandoffInv /\ ModelFails(t) => HandoffInv'
<1> SUFFICES ASSUME NEW t \in Threads, HandoffInv, ModelFails(t) PROVE HandoffInv'
  OBVIOUS
<1> USE LayersAssumption, HandoffAssumption
    DEF ModelFails, Fault, Raises, HandoffInv, Goto, AllAwake,
        Threads, Parties, Main, Peer, Call, InModel, Active, Holds, Intact, hostVars
<1>1. TypeOK'
  BY DEF TypeOK, Places, Calls, NoCall
<1>2. BarrierInv'
  BY DEF TypeOK, BarrierInv
<1>3. HolderInv'
  BY DEF TypeOK, BarrierInv, HolderInv
<1>4. HookInv'
  BY DEF TypeOK, HolderInv, HookInv, CallInv, WindowInv
<1>5. CallInv'
  BY DEF TypeOK, BarrierInv, HolderInv, HookInv, CallInv, WindowInv, Taken, Calls, NoCall
<1>6. WindowInv'
  BY DEF TypeOK, HolderInv, HookInv, CallInv, WindowInv
<1>7. (ReceivesOwnTransfer /\ \A i \in DOMAIN rx : rx[i].call \in started)'
  BY DEF ReceivesOwnTransfer
<1>8. QED
  BY <1>1, <1>2, <1>3, <1>4, <1>5, <1>6, <1>7

(* The same when the receive that a hook submits fails. *)
LEMMA HookFailsKeeps == \A t \in Threads : HandoffInv /\ HookFails(t) => HandoffInv'
<1> SUFFICES ASSUME NEW t \in Threads, HandoffInv, HookFails(t) PROVE HandoffInv'
  OBVIOUS
<1> USE LayersAssumption, HandoffAssumption
    DEF HookFails, Fault, Raises, HandoffInv, Goto, AllAwake,
        Threads, Parties, Main, Peer, Call, InModel, Active, Holds, Intact, hostVars
<1>1. TypeOK'
  BY DEF TypeOK, Places, Calls, NoCall
<1>2. BarrierInv'
  BY DEF TypeOK, BarrierInv
<1>3. HolderInv'
  BY DEF TypeOK, BarrierInv, HolderInv
<1>4. HookInv'
  BY DEF TypeOK, HolderInv, HookInv, CallInv, WindowInv
<1>5. CallInv'
  BY DEF TypeOK, BarrierInv, HolderInv, HookInv, CallInv, WindowInv, Taken, Calls, NoCall
<1>6. WindowInv'
  BY DEF TypeOK, HolderInv, HookInv, CallInv, WindowInv
<1>7. (ReceivesOwnTransfer /\ \A i \in DOMAIN rx : rx[i].call \in started)'
  BY DEF ReceivesOwnTransfer
<1>8. QED
  BY <1>1, <1>2, <1>3, <1>4, <1>5, <1>6, <1>7

(* The same when it fails in __exit__. *)
LEMMA ExitHookFailsKeeps == \A t \in Threads : HandoffInv /\ ExitHookFails(t) => HandoffInv'
<1> SUFFICES ASSUME NEW t \in Threads, HandoffInv, ExitHookFails(t) PROVE HandoffInv'
  OBVIOUS
<1> USE LayersAssumption, HandoffAssumption
    DEF ExitHookFails, Fault, ExitHookRaises, HandoffInv, Goto, AllAwake,
        Threads, Parties, Main, Peer, Call, InModel, Active, Holds, Intact, hostVars
<1>1. TypeOK'
  BY DEF TypeOK, Places, Calls, NoCall
<1>2. BarrierInv'
  BY DEF TypeOK, BarrierInv
<1>3. HolderInv'
  BY DEF TypeOK, BarrierInv, HolderInv
<1>4. HookInv'
  BY DEF TypeOK, HolderInv, HookInv, CallInv, WindowInv
<1>5. CallInv'
  BY DEF TypeOK, BarrierInv, HolderInv, HookInv, CallInv, WindowInv, Taken, Calls, NoCall
<1>6. WindowInv'
  BY DEF TypeOK, HolderInv, HookInv, CallInv, WindowInv
<1>7. (ReceivesOwnTransfer /\ \A i \in DOMAIN rx : rx[i].call \in started)'
  BY DEF ReceivesOwnTransfer
<1>8. QED
  BY <1>1, <1>2, <1>3, <1>4, <1>5, <1>6, <1>7

(* Every step keeps the invariant. *)
LEMMA NextHandoffInv == HandoffInv /\ [HandoffNext]_handoffVars => HandoffInv'
<1> SUFFICES ASSUME HandoffInv, [HandoffNext]_handoffVars PROVE HandoffInv'
  OBVIOUS
<1>1. CASE UNCHANGED handoffVars
  BY ZenonT(60), <1>1 DEF handoffVars, HandoffInv, TypeOK, BarrierInv, HolderInv, HookInv, CallInv, WindowInv,
     ReceivesOwnTransfer,
     Call, Taken, InModel, Active, Holds, Intact
<1>2. CASE Begin \/ MainStep
  BY <1>2, BeginKeeps, BeginReturnsKeeps, BeginRaisesKeeps, FinishStartsKeeps,
     FinishJoinsKeeps DEF MainStep
<1>3. ASSUME NEW t \in Threads, ThreadStep(t) PROVE HandoffInv'
  BY <1>3, EnterKeeps, EnterPassesKeeps, EnterBrokenKeeps, UnparkKeeps,
     CheckEnteredKeeps, BeforeSendKeeps, SendKeeps, RegisterKeeps, YieldKeeps,
     YieldWakesKeeps, CheckResumedKeeps, ConsumeKeeps, ExitUnregistersKeeps,
     ExitSignalsKeeps DEF ThreadStep
<1>4. ASSUME NEW t \in Threads,
             InitFails(t) \/ SetDeviceFails(t) \/ ModelFails(t) \/ HookFails(t) \/ ExitHookFails(t)
      PROVE  HandoffInv'
  BY <1>4, InitFailsKeeps, SetDeviceFailsKeeps, ModelFailsKeeps, HookFailsKeeps,
     ExitHookFailsKeeps
<1>5. QED
  BY <1>1, <1>2, <1>3, <1>4 DEF HandoffNext

(* The inductive invariant of the handover: while nothing has failed one
   thread at most is awake or about to wake, and afterwards none is in the
   model. *)
THEOREM SpecHandoffInv == HandoffSpec => []HandoffInv
<1>1. HandoffInit => HandoffInv
  BY InitHandoffInv
<1>2. HandoffInv /\ [HandoffNext]_handoffVars => HandoffInv'
  BY NextHandoffInv
<1>3. QED
  BY <1>1, <1>2, PTL DEF HandoffSpec

(* The window holds one transfer at most. *)
LEMMA OneTransfer == WindowInv => WindowNotOverwritten
<1> SUFFICES ASSUME WindowInv PROVE Len(window) <= 1
  BY DEF WindowNotOverwritten
<1>1. CASE window = <<>>
  BY <1>1
<1>2. CASE \E c \in Calls : window = <<c>>
  BY <1>2
<1>3. QED
  BY <1>1, <1>2 DEF WindowInv

(* Both threads are never in model code together, the window is never
   overwritten and every receive takes its own transfer, whichever thread
   submits it and wherever one of them fails (mrv2_ubatching.py,
   async_cam_dbo.py). *)
THEOREM Handover == HandoffSpec => []HandedOver
<1>1. HandoffInv => ~(InModel(0) /\ InModel(1))
  BY DEF HandoffInv, HolderInv, Holds, Active, Threads
<1>2. HandoffInv => HandedOver
  BY <1>1, OneTransfer DEF HandoffInv, HandedOver
<1>3. QED
  BY <1>2, SpecHandoffInv, PTL

(* Only __enter__ registers a context, and every way out removes it. *)
LEMMA RegistryKept == TypeOK /\ RegistryInv /\ [HandoffNext]_handoffVars => RegistryInv'
<1> SUFFICES ASSUME TypeOK, RegistryInv, [HandoffNext]_handoffVars PROVE RegistryInv'
  OBVIOUS
<1> USE DEF TypeOK, RegistryInv, Threads, Goto
<1>1. CASE UNCHANGED handoffVars
  BY <1>1 DEF handoffVars
<1>2. CASE Begin \/ MainStep
  BY <1>2 DEF Begin, MainStep, BeginReturns, BeginRaises, FinishStarts, FinishJoins
<1>3. ASSUME NEW t \in Threads,
             \/ Enter(t) \/ EnterPasses(t) \/ Unpark(t) \/ CheckEntered(t) \/ EnterBroken(t)
             \/ SetDeviceFails(t) \/ InitFails(t) \/ ExitUnregisters(t)
      PROVE  RegistryInv'
  BY <1>3 DEF Enter, EnterPasses, Unpark, CheckEntered, EnterBroken, SetDeviceFails,
     InitFails,
              ExitUnregisters, EnterUnwinds
<1>4. ASSUME NEW t \in Threads,
             \/ BeforeSend(t) \/ Send(t) \/ Register(t) \/ Yield(t) \/ YieldWakes(t)
             \/ CheckResumed(t) \/ Consume(t)
      PROVE  RegistryInv'
  BY <1>4 DEF BeforeSend, Send, Register, Yield, YieldWakes, CheckResumed, Consume, Raises
<1>5. ASSUME NEW t \in Threads,
             ModelFails(t) \/ HookFails(t) \/ ExitSignals(t) \/ ExitHookFails(t)
      PROVE  RegistryInv'
  BY <1>5 DEF ModelFails, HookFails, ExitSignals, ExitHookFails, ExitHookRaises, Raises
<1>6. QED
  BY <1>1, <1>2, <1>3, <1>4, <1>5 DEF HandoffNext, ThreadStep

(* Wherever a thread fails, the ended threads leave no entry in the registry,
   and no thread sends after the barrier was broken (mrv2_ubatching.py:85-86,
   :100-106). *)
THEOREM FailuresStay == HandoffSpec => FailureContained
<1>1. HandoffInit => RegistryInv
  BY DEF HandoffInit, RegistryInv
<1>2. HandoffInv => TypeOK
  BY DEF HandoffInv
<1>3. HandoffSpec => [](HandoffInv /\ RegistryInv)
  BY <1>1, <1>2, RegistryKept, SpecHandoffInv, PTL DEF HandoffSpec
<1>4. HandoffInv /\ RegistryInv /\ HandoffInv' /\ RegistryInv' =>
        /\ RegistryEmptied'
        /\ barrier = "broken" => \A t \in Threads : ~Sends(t)
  <2> SUFFICES ASSUME HandoffInv, RegistryInv, HandoffInv', RegistryInv'
               PROVE  /\ RegistryEmptied'
                      /\ barrier = "broken" => \A t \in Threads : ~Sends(t)
    OBVIOUS
  <2>1. RegistryEmptied'
    BY DEF HandoffInv, TypeOK, RegistryInv, RegistryEmptied
  <2>2. ASSUME barrier = "broken", NEW t \in Threads PROVE ~Sends(t)
    BY <2>2 DEF HandoffInv, HolderInv, Intact, InModel, Sends
  <2>3. QED
    BY <2>1, <2>2
<1>5. QED
  BY <1>3, <1>4, PTL DEF FailureContained

=============================================================================
