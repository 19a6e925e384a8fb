---------------------------- MODULE AsyncFFNProofs ----------------------------
(***************************************************************************)
(* Proofs about an asynchronous Ascend deployment.  First the two-stream   *)
(* executor of an FFN rank, for every batch length, number of warmups and  *)
(* number of transactions.  Then the startup of all ranks through the      *)
(* Store, for every number of Attention and FFN ranks, all plans and all   *)
(* transports.  Last the Async CAM transfers, for every number of groups,  *)
(* ranks, FFN ranks, experts and layers, every batch and every routing.    *)
(***************************************************************************)
EXTENDS FFNTwoStream, GraphStartup, AsyncCAM, TLAPS, FiniteSetTheorems, SequenceTheorems,
        WellFoundedInduction

(***************************************************************************)
(* The two-stream executor.                                                *)
(***************************************************************************)
\* A sequence number always names one of the two slots.
LEMMA SlotType == ASSUME NEW n \in Nat PROVE n % 2 \in Slots
BY DEF Slots

\* Every initial state satisfies the invariant.
LEMMA InitIInv == Init => IInv
<1> SUFFICES ASSUME Init PROVE IInv
  OBVIOUS
<1> USE LayersAssumption, WarmupsAssumption, MaxAssumption
    DEF Init, Transaction, Slots
<1>1. TypeOK
  <2>1. /\ pending \in BOOLEAN /\ failure \in BOOLEAN /\ closed \in BOOLEAN
        /\ captured \in BOOLEAN /\ receiver_exited \in BOOLEAN
        /\ computing \in BOOLEAN /\ sending \in BOOLEAN
        /\ submitted \in [Slots -> BOOLEAN]
    BY Zenon
  <2>2. QED
    BY <2>1 DEF TypeOK
<1>2. CountInv /\ HostInv /\ RecordInv
  BY DEF CountInv, HostInv, RecordInv, Submitting
<1>3. /\ NoOverwrite /\ RetainedUntilSent /\ FenceCoversBatch
      /\ CloseOnlyWhenIdle
  BY DEF NoOverwrite, RetainedUntilSent, FenceCoversBatch, CloseOnlyWhenIdle,
         Started
<1>4. QED
  BY <1>1, <1>2, <1>3 DEF IInv


\* What enqueuing a compute leaves behind: its wait covers every earlier send
\* of its slot, and an eager one is retained.
ComputeQueued ==
  /\ computes' \in 0..MaxTransactions /\ computes' = computes + 1
  /\ slotOf' \in [Transaction -> Slots]
  /\ computeWait' \in [Transaction -> Nat]
  /\ held' \in SUBSET Transaction
  /\ \A n \in held' : n < computes + 1
  /\ slotOf'[computes] = Slot
  /\ \A n \in 0..computes - 1 : slotOf'[n] = slotOf[n]
  /\ \A n \in 0..computes : \A m \in 0..n - 1 :
       slotOf'[m] = slotOf'[n] => computeWait'[n] > m
  /\ ~captured /\ ~closed => sent..computes \subseteq held'

\* AddCompute establishes it.
LEMMA ComputeAdded ==
  ASSUME IInv, host = "compute", AddCompute PROVE ComputeQueued
<1> USE MaxAssumption DEF AddCompute, Transaction
<1>1. Slot \in Slots /\ computes \in Transaction
  BY SlotType DEF IInv, TypeOK, HostInv, Submitting, Slot
<1>2. (IF submitted[Slot] THEN done[Slot] ELSE 0) \in Nat
  BY <1>1 DEF IInv, TypeOK
<1>3. /\ computes' \in 0..MaxTransactions /\ computes' = computes + 1
      /\ slotOf' \in [Transaction -> Slots]
      /\ computeWait' \in [Transaction -> Nat]
  BY <1>1, <1>2 DEF IInv, TypeOK
<1>4. /\ held' \in SUBSET Transaction
      /\ \A n \in held' : n < computes + 1
  <2>1. \A n \in held' : n \in held \/ n = computes
    BY Zenon
  <2>2. \A n \in held : n \in Transaction /\ n < computes + 1
    BY DEF IInv, TypeOK, CountInv
  <2>3. computes < computes + 1
    BY <1>1
  <2>4. QED
    BY <1>1, <2>1, <2>2, <2>3, Zenon
<1>5. /\ slotOf'[computes] = Slot
      /\ computeWait'[computes] = IF submitted[Slot] THEN done[Slot] ELSE 0
      /\ \A n \in 0..computes - 1 : /\ slotOf'[n] = slotOf[n]
                                   /\ computeWait'[n] = computeWait[n]
  BY <1>1 DEF IInv, TypeOK
<1>6. \A m \in 0..computes - 1 :
        slotOf[m] = Slot => computeWait'[computes] > m
  BY <1>1, <1>5 DEF IInv, TypeOK, HostInv, RecordInv
<1>7. \A n \in 0..computes : \A m \in 0..n - 1 :
        slotOf'[m] = slotOf'[n] => computeWait'[n] > m
  BY SMTT(30), <1>1, <1>5, <1>6 DEF IInv, TypeOK, RecordInv
<1>8. ~captured /\ ~closed => sent..computes \subseteq held'
  <2> SUFFICES ASSUME ~captured, ~closed, NEW n \in sent..computes
               PROVE  n \in held'
    OBVIOUS
  <2>1. CASE n = computes
    BY <2>1
  <2>2. CASE n # computes
    BY SMTT(30), <2>2, <1>1 DEF IInv, TypeOK, HostInv, RetainedUntilSent
  <2>3. QED
    BY <2>1, <2>2
<1>9. QED
  BY <1>3, <1>4, <1>5, <1>7, <1>8 DEF ComputeQueued

\* What enqueuing a send leaves behind: it waits for its own compute.
SendQueued ==
  /\ sends \in Transaction
  /\ sends' \in 0..MaxTransactions /\ sends' = sends + 1
  /\ sendWait' \in [Transaction -> Nat]
  /\ \A n \in 0..sends : sendWait'[n] > n

\* AddSend establishes it.
LEMMA SendAdded ==
  ASSUME IInv, host = "send", AddSend PROVE SendQueued
<1> USE MaxAssumption DEF AddSend, Transaction
<1>1. /\ Slot \in Slots /\ sends \in Transaction
      /\ ready[Slot] = sends + 1
  BY SlotType DEF IInv, TypeOK, HostInv, Submitting, Slot
<1>2. /\ sends' \in 0..MaxTransactions /\ sends' = sends + 1
      /\ sendWait' \in [Transaction -> Nat]
  BY SMTT(30), <1>1 DEF IInv, TypeOK
<1>3. \A n \in 0..sends : sendWait'[n] > n
  BY SMTT(30), <1>1 DEF IInv, TypeOK, RecordInv
<1>4. QED
  BY <1>1, <1>2, <1>3 DEF SendQueued

\* Every step of the host, of the device and of the owner preserves it.
LEMMA NextIInv == IInv /\ [Next]_vars => IInv'
<1> SUFFICES ASSUME IInv, [Next]_vars PROVE IInv'
  OBVIOUS
<1> USE LayersAssumption, WarmupsAssumption, MaxAssumption
    DEF IInv, Transaction, hostVars, slotVars, queueVars, deviceVars
<1>1. CASE Warmup
  <2> USE <1>1 DEF Warmup, Submit, CheckLive, Starting
  <2>0. Slot \in Slots
    BY SlotType DEF TypeOK, Slot
  <2>1. pending' \in BOOLEAN
    BY Zenon
  <2>2. TypeOK'
    BY <2>0, <2>1 DEF TypeOK, CountInv, HostInv, Submitting
  <2>3. CountInv'
    BY <2>0 DEF TypeOK, CountInv, HostInv, RecordInv, Submitting
  <2>4. HostInv'
    BY <2>0 DEF TypeOK, CountInv, HostInv, RecordInv, RetainedUntilSent, Submitting, Slot, Slots
  <2>5. RecordInv'
    BY <2>0 DEF TypeOK, CountInv, HostInv, RecordInv, Submitting
  <2>6. NoOverwrite'
    BY <2>0 DEF TypeOK, CountInv, HostInv, RecordInv, NoOverwrite, Started
  <2>7. RetainedUntilSent'
    BY <2>0 DEF TypeOK, CountInv, HostInv, RecordInv, RetainedUntilSent, FenceCoversBatch, Submitting
  <2>8. FenceCoversBatch'
    BY <2>0 DEF TypeOK, CountInv, HostInv, RecordInv, FenceCoversBatch, Submitting, Slots
  <2>9. CloseOnlyWhenIdle'
    BY <2>0 DEF TypeOK, CountInv, HostInv, FenceCoversBatch, CloseOnlyWhenIdle, Submitting
  <2>10. QED
    BY <2>2, <2>3, <2>4, <2>5, <2>6, <2>7, <2>8, <2>9
<1>2. CASE Serve
  <2> USE <1>2 DEF Serve, Submit, CheckLive, Starting
  <2>0. Slot \in Slots
    BY SlotType DEF TypeOK, Slot
  <2>1. pending' \in BOOLEAN
    BY Zenon
  <2>2. TypeOK'
    BY <2>0, <2>1 DEF TypeOK, CountInv, HostInv, Submitting
  <2>3. CountInv'
    BY <2>0 DEF TypeOK, CountInv, HostInv, RecordInv, Submitting
  <2>4. HostInv'
    BY <2>0 DEF TypeOK, CountInv, HostInv, RecordInv, RetainedUntilSent, Submitting, Slot, Slots
  <2>5. RecordInv'
    BY <2>0 DEF TypeOK, CountInv, HostInv, RecordInv, Submitting
  <2>6. NoOverwrite'
    BY <2>0 DEF TypeOK, CountInv, HostInv, RecordInv, NoOverwrite, Started
  <2>7. RetainedUntilSent'
    BY <2>0 DEF TypeOK, CountInv, HostInv, RecordInv, RetainedUntilSent, FenceCoversBatch, Submitting
  <2>8. FenceCoversBatch'
    BY <2>0 DEF TypeOK, CountInv, HostInv, RecordInv, FenceCoversBatch, Submitting, Slots
  <2>9. CloseOnlyWhenIdle'
    BY <2>0 DEF TypeOK, CountInv, HostInv, FenceCoversBatch, CloseOnlyWhenIdle, Submitting
  <2>10. QED
    BY <2>2, <2>3, <2>4, <2>5, <2>6, <2>7, <2>8, <2>9
<1>3. CASE Capture
  <2> USE <1>3 DEF Capture, CheckLive, Starting
  <2>0. Slot \in Slots
    BY SlotType DEF TypeOK, Slot
  <2>1. captured' \in BOOLEAN
    BY Zenon
  <2>2. TypeOK'
    BY SMTT(30), <2>0, <2>1 DEF TypeOK, CountInv, HostInv, Submitting
  <2>3. CountInv'
    BY <2>0 DEF TypeOK, CountInv, HostInv, RecordInv, Submitting
  <2>4. HostInv'
    BY <2>0 DEF TypeOK, CountInv, HostInv, RecordInv, RetainedUntilSent, Submitting, Slot, Slots
  <2>5. RecordInv'
    BY <2>0 DEF TypeOK, CountInv, HostInv, RecordInv, Submitting
  <2>6. NoOverwrite'
    BY <2>0 DEF TypeOK, CountInv, HostInv, RecordInv, NoOverwrite, Started
  <2>7. RetainedUntilSent'
    BY <2>0 DEF TypeOK, CountInv, HostInv, RecordInv, RetainedUntilSent, FenceCoversBatch, Submitting
  <2>8. FenceCoversBatch'
    BY <2>0 DEF TypeOK, CountInv, HostInv, RecordInv, FenceCoversBatch, Submitting, Slots
  <2>9. CloseOnlyWhenIdle'
    BY <2>0 DEF TypeOK, CountInv, HostInv, FenceCoversBatch, CloseOnlyWhenIdle, Submitting
  <2>10. QED
    BY <2>2, <2>3, <2>4, <2>5, <2>6, <2>7, <2>8, <2>9
<1>4. CASE AcquireSlot
  <2> USE <1>4 DEF AcquireSlot, Release
  <2>0. Slot \in Slots
    BY SlotType DEF TypeOK, Slot
  <2>1. TypeOK'
    BY <2>0 DEF TypeOK, CountInv, HostInv, Submitting
  <2>2. CountInv'
    BY <2>0 DEF TypeOK, CountInv, HostInv, RecordInv, Submitting
  <2>3. HostInv'
    <3>1. ~captured => \A n \in held' : slotOf[n] # Slot
      <4>1. CASE submitted[Slot] /\ ~captured
        BY <4>1
      <4>2. CASE ~submitted[Slot]
        <5>1. \A n \in held : n \in 0..sends - 1
          BY DEF TypeOK, CountInv, HostInv
        <5>2. \A n \in 0..sends - 1 : submitted[slotOf[n]]
          BY DEF RecordInv
        <5>3. QED
          BY <4>2, <5>1, <5>2
      <4>3. QED
        BY <4>1, <4>2
    <3>2. QED
      BY <3>1 DEF TypeOK, HostInv, Submitting, Slot
  <2>4. RecordInv'
    BY <2>0 DEF TypeOK, CountInv, HostInv, RecordInv, Submitting
  <2>5. NoOverwrite'
    BY <2>0 DEF TypeOK, CountInv, HostInv, RecordInv, NoOverwrite, Started
  <2>6. RetainedUntilSent'
    <3>1. CASE submitted[Slot] /\ ~captured
      <4>1. \A n \in 0..sends - 1 : slotOf[n] = Slot => n < sent
        BY <3>1, <2>0 DEF TypeOK, RecordInv
      <4>2. \A n \in sent..computes - 1 : n \in 0..sends - 1 /\ ~(n < sent)
        BY DEF TypeOK, HostInv
      <4>3. QED
        BY <3>1, <4>1, <4>2 DEF RetainedUntilSent
    <3>2. CASE ~(submitted[Slot] /\ ~captured)
      BY <3>2 DEF RetainedUntilSent
    <3>3. QED
      BY <3>1, <3>2
  <2>7. FenceCoversBatch'
    BY <2>0 DEF TypeOK, CountInv, HostInv, RecordInv, FenceCoversBatch, Submitting, Slots
  <2>8. CloseOnlyWhenIdle'
    BY <2>0 DEF TypeOK, CountInv, HostInv, FenceCoversBatch, CloseOnlyWhenIdle, Submitting
  <2>9. QED
    BY <2>1, <2>2, <2>3, <2>4, <2>5, <2>6, <2>7, <2>8
<1>5. CASE EnqueueCompute
  <2> USE <1>5 DEF EnqueueCompute, AddCompute
  <2>0. Slot \in Slots
    BY SlotType DEF TypeOK, Slot
  <2>queued. ComputeQueued
    BY ComputeAdded
  <2>1. TypeOK'
    <3>1. ready' \in [Slots -> Nat]
      BY <2>0 DEF TypeOK
    <3>2. QED
      BY <3>1, <2>queued DEF ComputeQueued, TypeOK
  <2>2. CountInv'
    BY ComputeAdded DEF TypeOK, CountInv
  <2>3. HostInv'
    <3>1. slotOf'[sends] = Slot' /\ ready'[Slot'] = computes'
      BY <2>0, <2>queued DEF ComputeQueued, TypeOK, HostInv, Slot
    <3>2. QED
      BY <3>1 DEF TypeOK, HostInv, Submitting
  <2>4. RecordInv'
    <3>1. computes' - 1 = computes
      BY <2>queued DEF ComputeQueued, TypeOK
    <3>2. \A n \in 0..sends - 1 : slotOf'[n] = slotOf[n]
      BY <2>queued DEF ComputeQueued, HostInv
    <3>3. QED
      BY <2>queued, <3>1, <3>2 DEF ComputeQueued, RecordInv
  <2>5. NoOverwrite'
    <3>1. Started' = Started /\ Started \in Nat /\ Started <= computes
      BY DEF Started, TypeOK, CountInv
    <3>2. QED
      BY <3>1, <2>queued DEF ComputeQueued, NoOverwrite, TypeOK
  <2>6. RetainedUntilSent'
    <3>1. computes' - 1 = computes
      BY <2>queued DEF ComputeQueued, TypeOK
    <3>2. QED
      BY <2>queued, <3>1 DEF ComputeQueued, RetainedUntilSent
  <2>7. FenceCoversBatch'
    BY <2>0 DEF TypeOK, CountInv, HostInv, RecordInv, FenceCoversBatch, Submitting, Slots
  <2>8. CloseOnlyWhenIdle'
    BY <2>0 DEF TypeOK, CountInv, HostInv, FenceCoversBatch, CloseOnlyWhenIdle, Submitting
  <2>9. QED
    BY <2>1, <2>2, <2>3, <2>4, <2>5, <2>6, <2>7, <2>8
<1>6. CASE EnqueueSend
  <2> USE <1>6 DEF EnqueueSend, AddSend
  <2>0. Slot \in Slots
    BY SlotType DEF TypeOK, Slot
  <2>queued. SendQueued
    BY SendAdded
  <2>1. TypeOK'
    <3>1. /\ sends \in Transaction /\ sends + 1 \in 0..MaxTransactions
          /\ sequence + 1 \in 0..MaxTransactions /\ left - 1 \in Nat
      BY DEF TypeOK, HostInv, Submitting
    <3>2. submitted' \in [Slots -> BOOLEAN]
      BY <2>0, Zenon DEF TypeOK
    <3>3. done' \in [Slots -> Nat]
      BY <2>0, <3>1 DEF TypeOK
    <3>4. QED
      BY <3>1, <3>2, <3>3, <2>queued DEF SendQueued, TypeOK
  <2>2. CountInv'
    BY <2>0 DEF TypeOK, CountInv, HostInv, RecordInv, Submitting
  <2>3. HostInv'
    BY <2>0 DEF TypeOK, CountInv, HostInv, RecordInv, RetainedUntilSent, Submitting, Slot, Slots
  <2>4. RecordInv'
    <3>1. /\ sends \in Transaction /\ slotOf[sends] = Slot
          /\ ready[Slot] = sends + 1
      BY DEF TypeOK, HostInv, Submitting
    <3>2. \A n \in 0..sends : slotOf[n] \in Slots
      BY <3>1 DEF TypeOK
    <3>3. \A s \in Slots :
            /\ submitted'[s] = (IF s = Slot THEN TRUE ELSE submitted[s])
            /\ done'[s] = IF s = Slot THEN sends + 1 ELSE done[s]
      BY <2>0 DEF TypeOK
    <3>4. \A n \in 0..sends : submitted'[slotOf[n]] /\ done'[slotOf[n]] > n
      BY <3>1, <3>2, <3>3 DEF TypeOK, HostInv, RecordInv
    <3>5. \A s \in Slots : done'[s] <= sends'
      BY <3>3 DEF TypeOK, RecordInv
    <3>6. QED
      BY <3>4, <3>5, <2>queued DEF SendQueued, TypeOK, RecordInv
  <2>5. NoOverwrite'
    BY <2>0 DEF TypeOK, CountInv, HostInv, RecordInv, NoOverwrite, Started
  <2>6. RetainedUntilSent'
    BY <2>0 DEF TypeOK, CountInv, HostInv, RecordInv, RetainedUntilSent, FenceCoversBatch, Submitting
  <2>7. FenceCoversBatch'
    BY <2>0 DEF TypeOK, CountInv, HostInv, RecordInv, FenceCoversBatch, Submitting, Slots
  <2>8. CloseOnlyWhenIdle'
    BY <2>0 DEF TypeOK, CountInv, HostInv, FenceCoversBatch, CloseOnlyWhenIdle, Submitting
  <2>9. QED
    BY <2>1, <2>2, <2>3, <2>4, <2>5, <2>6, <2>7, <2>8
<1>7. CASE NativeCallFails
  <2> USE <1>7 DEF NativeCallFails, Starting
  <2>0. failure' \in BOOLEAN
    BY Zenon
  <2>1. CASE UNCHANGED <<queueVars, held>>
    <3>1. /\ host \in {"idle", "slot", "compute", "send", "complete"}
          /\ host = "idle" => ~receiver_exited
      BY <2>1 DEF HostInv
    <3>2. TypeOK'
      BY <2>0, <2>1 DEF TypeOK
    <3>3. CountInv' /\ RecordInv'
      BY <2>1 DEF CountInv, RecordInv
    <3>4. HostInv'
      BY <2>1, <3>1 DEF HostInv, Submitting
    <3>5. (NoOverwrite /\ RetainedUntilSent)'
      BY <2>1 DEF NoOverwrite, Started, RetainedUntilSent
    <3>6. (FenceCoversBatch /\ CloseOnlyWhenIdle)'
      BY <2>1 DEF FenceCoversBatch, CloseOnlyWhenIdle
    <3>7. QED
      BY <3>2, <3>3, <3>4, <3>5, <3>6
  <2>2. CASE host = "compute" /\ AddCompute /\ UNCHANGED <<sendWait, sends>>
    <3>0. ComputeQueued
      BY <2>2, ComputeAdded
    <3>1. TypeOK'
      BY <2>0, <2>2, <3>0 DEF ComputeQueued, TypeOK
    <3>2. CountInv'
      BY <2>2, <3>0 DEF ComputeQueued, TypeOK, CountInv
    <3>3. HostInv'
      BY <2>2 DEF TypeOK, HostInv, Submitting
    <3>4. RecordInv'
      BY <2>2, <3>0 DEF ComputeQueued, TypeOK, RecordInv
    <3>5. Started' = Started /\ Started \in Nat /\ Started <= computes
      BY DEF Started, TypeOK, CountInv
    <3>6. NoOverwrite'
      BY <2>2, <3>5, <3>0 DEF ComputeQueued, NoOverwrite, TypeOK
    <3>7. RetainedUntilSent'
      BY <2>2, <3>0 DEF ComputeQueued, RetainedUntilSent, TypeOK
    <3>8. (FenceCoversBatch /\ CloseOnlyWhenIdle)'
      BY <2>2 DEF FenceCoversBatch, CloseOnlyWhenIdle, HostInv, Submitting
    <3>9. QED
      BY <3>1, <3>2, <3>3, <3>4, <3>6, <3>7, <3>8
  <2>3. CASE /\ host = "send" /\ AddSend
             /\ UNCHANGED <<slotOf, computeWait, computes, held>>
    <3>0. SendQueued
      BY <2>3, SendAdded
    <3>1. TypeOK'
      BY <2>0, <2>3, <3>0 DEF SendQueued, TypeOK
    <3>2. CountInv'
      BY <2>3, <3>0 DEF SendQueued, TypeOK, CountInv, HostInv
    <3>3. HostInv'
      BY <2>3, <3>0 DEF SendQueued, TypeOK, HostInv, Submitting
    <3>4. RecordInv'
      BY <2>3, <3>0 DEF SendQueued, TypeOK, RecordInv
    <3>5. (NoOverwrite /\ RetainedUntilSent)'
      BY <2>3 DEF NoOverwrite, Started, RetainedUntilSent
    <3>6. (FenceCoversBatch /\ CloseOnlyWhenIdle)'
      BY <2>3 DEF FenceCoversBatch, CloseOnlyWhenIdle, HostInv, Submitting
    <3>7. QED
      BY <3>1, <3>2, <3>3, <3>4, <3>5, <3>6
  <2>4. QED
    BY <2>1, <2>2, <2>3
<1>8. CASE Complete
  <2> USE <1>8 DEF Complete, Release, Fence, Starting
  <2>0. Slot \in Slots
    BY SlotType DEF TypeOK, Slot
  <2>1. pending' \in BOOLEAN
    BY Zenon
  <2>2. TypeOK'
    BY <2>0, <2>1 DEF TypeOK, CountInv, HostInv, Submitting
  <2>3. CountInv'
    BY <2>0 DEF TypeOK, CountInv, HostInv, RecordInv, Submitting
  <2>4. HostInv'
    BY <2>0 DEF TypeOK, CountInv, HostInv, RecordInv, RetainedUntilSent, Submitting, Slot, Slots
  <2>5. RecordInv'
    BY <2>0 DEF TypeOK, CountInv, HostInv, RecordInv, Submitting
  <2>6. NoOverwrite'
    BY <2>0 DEF TypeOK, CountInv, HostInv, RecordInv, NoOverwrite, Started
  <2>7. RetainedUntilSent'
    BY <2>0 DEF TypeOK, CountInv, HostInv, RecordInv, RetainedUntilSent, FenceCoversBatch, Submitting
  <2>8. FenceCoversBatch'
    BY <2>0 DEF TypeOK, CountInv, HostInv, RecordInv, FenceCoversBatch, Submitting, Slots
  <2>9. CloseOnlyWhenIdle'
    BY <2>0 DEF TypeOK, CountInv, HostInv, FenceCoversBatch, CloseOnlyWhenIdle, Submitting
  <2>10. QED
    BY <2>2, <2>3, <2>4, <2>5, <2>6, <2>7, <2>8, <2>9
<1>9. CASE ReceiverExits
  <2> USE <1>9 DEF ReceiverExits, Starting
  <2>0. Slot \in Slots
    BY SlotType DEF TypeOK, Slot
  <2>1. receiver_exited' \in BOOLEAN
    BY Zenon
  <2>2. TypeOK'
    BY <2>0, <2>1 DEF TypeOK, CountInv, HostInv, Submitting
  <2>3. CountInv'
    BY <2>0 DEF TypeOK, CountInv, HostInv, RecordInv, Submitting
  <2>4. HostInv'
    BY <2>0 DEF TypeOK, CountInv, HostInv, RecordInv, RetainedUntilSent, Submitting, Slot, Slots
  <2>5. RecordInv'
    BY <2>0 DEF TypeOK, CountInv, HostInv, RecordInv, Submitting
  <2>6. NoOverwrite'
    BY <2>0 DEF TypeOK, CountInv, HostInv, RecordInv, NoOverwrite, Started
  <2>7. RetainedUntilSent'
    BY <2>0 DEF TypeOK, CountInv, HostInv, RecordInv, RetainedUntilSent, FenceCoversBatch, Submitting
  <2>8. FenceCoversBatch'
    BY <2>0 DEF TypeOK, CountInv, HostInv, RecordInv, FenceCoversBatch, Submitting, Slots
  <2>9. CloseOnlyWhenIdle'
    BY <2>0 DEF TypeOK, CountInv, HostInv, FenceCoversBatch, CloseOnlyWhenIdle, Submitting
  <2>10. QED
    BY <2>2, <2>3, <2>4, <2>5, <2>6, <2>7, <2>8, <2>9
<1>10. CASE Close
  <2> USE <1>10 DEF Close, MayClose
  <2>0. Slot \in Slots
    BY SlotType DEF TypeOK, Slot
  <2>1. closed' \in BOOLEAN
    BY Zenon
  <2>2. TypeOK'
    BY <2>0, <2>1 DEF TypeOK, CountInv, HostInv, Submitting
  <2>3. CountInv'
    BY <2>0 DEF TypeOK, CountInv, HostInv, RecordInv, Submitting
  <2>4. HostInv'
    BY <2>0 DEF TypeOK, CountInv, HostInv, RecordInv, RetainedUntilSent, Submitting, Slot, Slots
  <2>5. RecordInv'
    BY <2>0 DEF TypeOK, CountInv, HostInv, RecordInv, Submitting
  <2>6. NoOverwrite'
    BY <2>0 DEF TypeOK, CountInv, HostInv, RecordInv, NoOverwrite, Started
  <2>7. RetainedUntilSent'
    BY <2>0 DEF TypeOK, CountInv, HostInv, RecordInv, RetainedUntilSent, FenceCoversBatch, Submitting
  <2>8. FenceCoversBatch'
    BY <2>0 DEF TypeOK, CountInv, HostInv, RecordInv, FenceCoversBatch, Submitting, Slots
  <2>9. CloseOnlyWhenIdle'
    BY <2>0 DEF TypeOK, CountInv, HostInv, FenceCoversBatch, CloseOnlyWhenIdle, Submitting
  <2>10. QED
    BY <2>2, <2>3, <2>4, <2>5, <2>6, <2>7, <2>8, <2>9
<1>11. CASE StartCompute
  <2> USE <1>11 DEF StartCompute
  <2>0. Slot \in Slots
    BY SlotType DEF TypeOK, Slot
  <2>1. computing' \in BOOLEAN
    BY Zenon
  <2>2. TypeOK'
    BY <2>0, <2>1 DEF TypeOK, CountInv, HostInv, Submitting
  <2>3. CountInv'
    BY <2>0 DEF TypeOK, CountInv, HostInv, RecordInv, Submitting
  <2>4. HostInv'
    BY <2>0 DEF TypeOK, CountInv, HostInv, RecordInv, RetainedUntilSent, Submitting, Slot, Slots
  <2>5. RecordInv'
    BY <2>0 DEF TypeOK, CountInv, HostInv, RecordInv, Submitting
  <2>6. NoOverwrite'
    <3>1. Started = computed /\ Started' = computed + 1
      BY DEF Started, TypeOK
    <3>2. \A m \in 0..computed - 1 : slotOf[m] = slotOf[computed] => m < sent
      BY DEF TypeOK, CountInv, RecordInv
    <3>3. SUFFICES ASSUME NEW n \in 0..computed, NEW m \in 0..n - 1,
                          slotOf[m] = slotOf[n]
                   PROVE  m < sent
      BY <3>1 DEF NoOverwrite, TypeOK
    <3>4. CASE n = computed
      BY <3>2, <3>3, <3>4
    <3>5. CASE n # computed
      BY <3>1, <3>3, <3>5 DEF NoOverwrite, TypeOK
    <3>6. QED
      BY <3>4, <3>5
  <2>7. RetainedUntilSent'
    BY <2>0 DEF TypeOK, CountInv, HostInv, RecordInv, RetainedUntilSent, FenceCoversBatch, Submitting
  <2>8. FenceCoversBatch'
    BY <2>0 DEF TypeOK, CountInv, HostInv, RecordInv, FenceCoversBatch, Submitting, Slots
  <2>9. CloseOnlyWhenIdle'
    BY <2>0 DEF TypeOK, CountInv, HostInv, FenceCoversBatch, CloseOnlyWhenIdle, Submitting
  <2>10. QED
    BY <2>2, <2>3, <2>4, <2>5, <2>6, <2>7, <2>8, <2>9
<1>12. CASE EndCompute
  <2> USE <1>12 DEF EndCompute
  <2>0. Slot \in Slots
    BY SlotType DEF TypeOK, Slot
  <2>1. computing' \in BOOLEAN
    BY Zenon
  <2>2. TypeOK'
    <3>1. computed' \in 0..MaxTransactions
      BY DEF TypeOK, CountInv
    <3>2. QED
      BY <2>1, <3>1 DEF TypeOK
  <2>3. CountInv'
    BY <2>0 DEF TypeOK, CountInv, HostInv, RecordInv, Submitting
  <2>4. HostInv'
    BY <2>0 DEF TypeOK, CountInv, HostInv, RecordInv, RetainedUntilSent, Submitting, Slot, Slots
  <2>5. RecordInv'
    BY <2>0 DEF TypeOK, CountInv, HostInv, RecordInv, Submitting
  <2>6. NoOverwrite'
    BY <2>0 DEF TypeOK, CountInv, HostInv, RecordInv, NoOverwrite, Started
  <2>7. RetainedUntilSent'
    BY <2>0 DEF TypeOK, CountInv, HostInv, RecordInv, RetainedUntilSent, FenceCoversBatch, Submitting
  <2>8. FenceCoversBatch'
    BY <2>0 DEF TypeOK, CountInv, HostInv, RecordInv, FenceCoversBatch, Submitting, Slots
  <2>9. CloseOnlyWhenIdle'
    BY <2>0 DEF TypeOK, CountInv, HostInv, FenceCoversBatch, CloseOnlyWhenIdle, Submitting
  <2>10. QED
    BY <2>2, <2>3, <2>4, <2>5, <2>6, <2>7, <2>8, <2>9
<1>13. CASE StartSend
  <2> USE <1>13 DEF StartSend
  <2>0. Slot \in Slots
    BY SlotType DEF TypeOK, Slot
  <2>1. sending' \in BOOLEAN
    BY Zenon
  <2>2. TypeOK'
    BY <2>0, <2>1 DEF TypeOK, CountInv, HostInv, Submitting
  <2>3. CountInv'
    BY <2>0 DEF TypeOK, CountInv, HostInv, RecordInv, Submitting
  <2>4. HostInv'
    BY <2>0 DEF TypeOK, CountInv, HostInv, RecordInv, RetainedUntilSent, Submitting, Slot, Slots
  <2>5. RecordInv'
    BY <2>0 DEF TypeOK, CountInv, HostInv, RecordInv, Submitting
  <2>6. NoOverwrite'
    BY <2>0 DEF TypeOK, CountInv, HostInv, RecordInv, NoOverwrite, Started
  <2>7. RetainedUntilSent'
    BY <2>0 DEF TypeOK, CountInv, HostInv, RecordInv, RetainedUntilSent, FenceCoversBatch, Submitting
  <2>8. FenceCoversBatch'
    BY <2>0 DEF TypeOK, CountInv, HostInv, RecordInv, FenceCoversBatch, Submitting, Slots
  <2>9. CloseOnlyWhenIdle'
    BY <2>0 DEF TypeOK, CountInv, HostInv, FenceCoversBatch, CloseOnlyWhenIdle, Submitting
  <2>10. QED
    BY <2>2, <2>3, <2>4, <2>5, <2>6, <2>7, <2>8, <2>9
<1>14. CASE EndSend
  <2> USE <1>14 DEF EndSend
  <2>0. Slot \in Slots
    BY SlotType DEF TypeOK, Slot
  <2>1. sending' \in BOOLEAN
    BY Zenon
  <2>2. TypeOK'
    BY SMTT(30), <2>0, <2>1 DEF TypeOK, CountInv, HostInv, Submitting
  <2>3. CountInv'
    BY <2>0 DEF TypeOK, CountInv, HostInv, RecordInv, Submitting
  <2>4. HostInv'
    BY <2>0 DEF TypeOK, CountInv, HostInv, RecordInv, RetainedUntilSent, Submitting, Slot, Slots
  <2>5. RecordInv'
    BY <2>0 DEF TypeOK, CountInv, HostInv, RecordInv, Submitting
  <2>6. NoOverwrite'
    BY SMTT(30), <2>0 DEF TypeOK, CountInv, HostInv, RecordInv, NoOverwrite, Started
  <2>7. RetainedUntilSent'
    BY <2>0 DEF TypeOK, CountInv, HostInv, RecordInv, RetainedUntilSent, FenceCoversBatch, Submitting
  <2>8. FenceCoversBatch'
    BY <2>0 DEF TypeOK, CountInv, HostInv, RecordInv, FenceCoversBatch, Submitting, Slots
  <2>9. CloseOnlyWhenIdle'
    BY <2>0 DEF TypeOK, CountInv, HostInv, FenceCoversBatch, CloseOnlyWhenIdle, Submitting
  <2>10. QED
    BY <2>2, <2>3, <2>4, <2>5, <2>6, <2>7, <2>8, <2>9
<1>15. CASE UNCHANGED vars
  BY SMTT(30), <1>15 DEF vars, TypeOK, CountInv, HostInv, RecordInv, NoOverwrite,
    RetainedUntilSent, FenceCoversBatch, CloseOnlyWhenIdle, Started, Slot
<1>16. QED
  BY <1>1, <1>2, <1>3, <1>4, <1>5, <1>6, <1>7, <1>8, <1>9, <1>10, <1>11, <1>12, <1>13, <1>14, <1>15
  DEF Next, HostNext, DeviceNext

\* The invariant holds in every behaviour.
THEOREM SpecIInv == Spec => []IInv
BY InitIInv, NextIInv, PTL DEF Spec

\* No slot is ever recomputed before its last output was sent.
THEOREM SlotsNotOverwritten == Spec => []NoOverwrite
<1>1. IInv => NoOverwrite
  BY DEF IInv
<1>2. QED
  BY <1>1, SpecIInv, PTL

\* A send transmits the output of its own transaction.
THEOREM SendsOwn == Spec => []SendsOwnOutput
<1>1. IInv => SendsOwnOutput
  BY MaxAssumption DEF IInv, TypeOK, CountInv, NoOverwrite, SendsOwnOutput, Started,
     Transaction
<1>2. QED
  BY <1>1, SpecIInv, PTL

\* Eager tensors outlive their send.
THEOREM TensorsRetained == Spec => []RetainedUntilSent
<1>1. IInv => RetainedUntilSent
  BY DEF IInv
<1>2. QED
  BY <1>1, SpecIInv, PTL

\* Waiting for the last slot's send event is as good as a device fence.
THEOREM FenceSound == Spec => []FenceCoversBatch
<1>1. IInv => FenceCoversBatch
  BY DEF IInv
<1>2. QED
  BY <1>1, SpecIInv, PTL

\* Closing finds both streams idle.
THEOREM CloseSafe == Spec => []CloseOnlyWhenIdle
<1>1. IInv => CloseOnlyWhenIdle
  BY DEF IInv
<1>2. QED
  BY <1>1, SpecIInv, PTL

(* A slot carries one transaction, of the compute it belongs to. *)
THEOREM SlotsSafe == Spec => []SlotSafe
  BY SlotsNotOverwritten, SendsOwn, PTL DEF SlotSafe

(* Nothing the streams still use is freed, or taken for finished. *)
THEOREM BatchesSafe == Spec => []BatchSafe
  BY TensorsRetained, FenceSound, PTL DEF BatchSafe

----------------------------------------------------------------------------
(***************************************************************************)
(* The startup.                                                            *)
(***************************************************************************)
\* The ranks of the two roles, and the rank whose plan stands for the world's.
LEMMA RankTypes ==
  /\ Attention \subseteq Ranks /\ FFN \subseteq Ranks /\ First \in FFN
  /\ \A r \in Ranks : r \in Attention \/ r \in FFN
  /\ \A r \in Attention : r \notin FFN
BY SizeAssumption DEF Attention, FFN, Ranks, First, WorldSize

\* Where the phases stand in the order.
LEMMA IndexValues ==
  /\ Index("boot") = 0 /\ Index("plan") = 1 /\ Index("streams") = 2
  /\ Index("validated") = 3 /\ Index("hccl") = 4 /\ Index("warmup") = 5
  /\ Index("captured") = 6 /\ Index("service") = 7 /\ Index("serving") = 8
BY DEF Index

\* The order is total.
LEMMA IndexTypes ==
  /\ \A p \in Phases : Index(p) \in Nat
  /\ \A p, q \in Phases : Index(p) = Index(q) => p = q
<1>1. ASSUME NEW p \in Phases
      PROVE  \/ p = "boot" \/ p = "plan" \/ p = "streams" \/ p = "validated"
             \/ p = "hccl" \/ p = "warmup" \/ p = "captured"
             \/ p = "service" \/ p = "serving"
  BY DEF Phases, Barriers
<1>2. QED
  BY <1>1, IndexValues

\* What the route of a world contains.
LEMMA RouteFacts ==
  /\ Route \subseteq Phases
  /\ "boot" \in Route /\ "plan" \in Route /\ "serving" \in Route
  /\ plan[First].requested = "full" =>
       {"validated", "warmup", "captured", "service"} \subseteq Route
BY DEF Route, Phases, Barriers, UsesExecutor

\* Advancing passes no barrier of the route but the one the rank leaves.
LEMMA AdvancePasses ==
  ASSUME NEW s \in Phases, NEW q \in Phases, Follows(q, s),
         NEW p \in Barriers \cap Route, Index(q) > Index(p)
  PROVE  p = s \/ Index(s) > Index(p)
<1>1. p \in Phases /\ p \in Route
  BY DEF Phases
<1>2. ~(Index(p) > Index(s))
  BY <1>1, IndexTypes DEF Follows
<1>3. QED
  BY <1>1, <1>2, IndexTypes

\* Every initial state satisfies the invariant.
LEMMA InitStartupInv == StartupInit => StartupInv
<1> SUFFICES ASSUME StartupInit PROVE StartupInv
  OBVIOUS
<1> USE RankTypes DEF StartupInit
<1>1. StartupTypeOK
  BY Zenon DEF StartupTypeOK, Phases
<1>2. RouteInv /\ BarrierHolds /\ ServiceInv
  BY IndexValues, IndexTypes, RouteFacts DEF RouteInv, BarrierHolds, ServiceInv, Phases
<1>3. QED
  BY <1>1, <1>2 DEF StartupInv

\* Moving on inside a phase, with the Store as it was, disturbs nothing.
LEMMA GoToKeeps ==
  ASSUME StartupInv, NEW r \in Ranks,
         NEW s \in {"prepare", "publish", "look", "keys", "raised", "failed"},
         GoTo(r, s), UNCHANGED <<plan, transport, published>>,
         s = "publish" => stage[r] \in Barriers, stage[r] # "boot" \/ s = "failed"
  PROVE  RouteInv' /\ BarrierHolds' /\ ServiceInv'
<1> USE DEF GoTo
<1>1. /\ Route' = Route /\ ModeRefused' = ModeRefused
      /\ TransportRefused' = TransportRefused
  BY DEF Route, ModeRefused, TransportRefused, UsesExecutor, TwoStream, First
<1>2. RouteInv'
  BY <1>1 DEF StartupInv, StartupTypeOK, RouteInv, First
<1>3. BarrierHolds' /\ ServiceInv'
  BY <1>1 DEF StartupInv, BarrierHolds, ServiceInv
<1>4. QED
  BY <1>2, <1>3

\* Going on to the next phase keeps the rank on the route and behind the
\* barriers, given what the phase it leaves must have established.
LEMMA AdvanceKeeps ==
  ASSUME StartupInv, NEW r \in Ranks, NEW m \in {"eager", "full"}, Advance(r, m),
         UNCHANGED <<plan, transport>>,
         \A p \in Barriers : published[p] \subseteq published'[p],
         published' \in [Phases -> SUBSET Ranks],
         stage[r] \in Barriers => Ranks \subseteq published[stage[r]],
         stage[r] # "boot" => /\ ~ModeRefused /\ ~TransportRefused
                             /\ m = plan[First].requested
  PROVE  /\ stage' \in [Ranks -> Phases] /\ mode' \in [Ranks -> {"eager", "full"}]
         /\ RouteInv' /\ BarrierHolds'
         /\ Follows(stage'[r], stage[r]) /\ mode'[r] = m
         /\ \A q \in Ranks \ {r} : stage'[q] = stage[q] /\ mode'[q] = mode[q]
<1>1. /\ Route' = Route /\ ModeRefused' = ModeRefused
      /\ TransportRefused' = TransportRefused
  BY DEF Route, ModeRefused, TransportRefused, UsesExecutor, TwoStream, First
<1>2. PICK q \in Phases : Follows(q, stage[r]) /\ stage' = [stage EXCEPT ![r] = q]
  BY DEF Advance
<1>3. /\ stage' \in [Ranks -> Phases] /\ mode' \in [Ranks -> {"eager", "full"}]
      /\ step'[r] = "prepare" /\ mode'[r] = m /\ stage'[r] = q
      /\ \A o \in Ranks \ {r} : /\ stage'[o] = stage[o] /\ mode'[o] = mode[o]
                               /\ step'[o] = step[o]
  BY <1>2 DEF StartupInv, StartupTypeOK, Advance
<1>4. RouteInv'
  <2> SUFFICES ASSUME NEW o \in Ranks
               PROVE  /\ stage'[o] \in Route
                      /\ step'[o] = "publish" => stage'[o] \in Barriers
                      /\ stage'[o] = "boot" => step'[o] \in {"prepare", "failed"}
                      /\ Index(stage'[o]) > Index("plan") =>
                           /\ ~ModeRefused /\ ~TransportRefused
                           /\ mode'[o] = plan[First].requested
    BY <1>1 DEF RouteInv, First
  <2>1. CASE o # r
    BY <1>3, <2>1 DEF StartupInv, RouteInv
  <2>2. CASE o = r
    <3>1. q \in Route /\ step'[o] = "prepare"
      BY <1>2, <1>3, <2>2 DEF Follows
    <3>2. ASSUME stage[r] = "boot" PROVE Index(q) <= Index("plan")
      BY <1>2, <3>2, IndexValues, RouteFacts DEF Follows
    <3>3. QED
      BY <1>3, <2>2, <3>1, <3>2, IndexTypes, IndexValues, RouteFacts
  <2>3. QED
    BY <2>1, <2>2
<1>5. BarrierHolds'
  <2> SUFFICES ASSUME NEW o \in Ranks, NEW p \in Barriers \cap Route,
                      Index(stage'[o]) > Index(p)
               PROVE  published[p] = Ranks
    <3>1. ASSUME NEW p \in Barriers, published[p] = Ranks
          PROVE  published'[p] = Ranks
      BY <3>1 DEF Phases
    <3>2. QED
      BY <1>1, <3>1 DEF BarrierHolds
  <2>1. CASE o # r
    BY <1>3, <2>1 DEF StartupInv, BarrierHolds
  <2>2. CASE o = r
    <3>1. p = stage[r] \/ Index(stage[r]) > Index(p)
      BY <1>2, <1>3, <2>2, AdvancePasses DEF StartupInv, StartupTypeOK
    <3>2. published[p] \subseteq Ranks
      BY DEF StartupInv, StartupTypeOK, Phases
    <3>3. QED
      BY <3>1, <3>2 DEF StartupInv, BarrierHolds
  <2>3. QED
    BY <2>1, <2>2
<1>6. QED
  BY <1>2, <1>3, <1>4, <1>5

\* A rank of a FULL world enters service only from the service phase.
LEMMA ServingAfterService ==
  ASSUME NEW s \in Phases, Follows("serving", s),
         plan[First].requested = "full"
  PROVE  s = "service"
<1>1. ~(Index("service") > Index(s)) /\ Index("serving") > Index(s)
  BY IndexTypes, IndexValues, RouteFacts DEF Follows
<1>2. Index(s) = 7
  BY <1>1, IndexTypes, IndexValues
<1>3. QED
  BY <1>2, IndexTypes, IndexValues DEF Phases

\* Every step of a rank, of its clock and of the Store preserves the invariant.
LEMMA NextStartupInv == StartupInv /\ [StartupNext]_startupVars => StartupInv'
<1> SUFFICES ASSUME StartupInv, [StartupNext]_startupVars PROVE StartupInv'
  OBVIOUS
<1> USE RankTypes DEF storeVars
<1>1. ASSUME NEW r \in Ranks, Join(r) PROVE StartupInv'
  <2> USE <1>1 DEF Join, At
  <2>1. /\ stage' \in [Ranks -> Phases] /\ mode' \in [Ranks -> {"eager", "full"}]
        /\ RouteInv' /\ BarrierHolds' /\ Follows(stage'[r], "boot")
        /\ \A q \in Ranks \ {r} : stage'[q] = stage[q] /\ mode'[q] = mode[q]
    BY AdvanceKeeps DEF StartupInv, StartupTypeOK, Barriers
  <2>2. StartupTypeOK'
    <3>1. nonce' \in BOOLEAN
      BY Zenon
    <3>2. step' \in [Ranks -> {"prepare", "publish", "look", "keys", "raised", "failed"}]
      BY DEF StartupInv, StartupTypeOK, Advance
    <3>3. QED
      BY <2>1, <3>1, <3>2 DEF StartupInv, StartupTypeOK
  <2>3. stage'[r] # "serving"
    BY <2>1, IndexValues, RouteFacts DEF Follows
  <2>4. ServiceInv'
    BY <2>1, <2>3 DEF StartupInv, ServiceInv
  <2>5. QED
    BY <2>1, <2>2, <2>4 DEF StartupInv
<1>2. ASSUME NEW r \in Ranks,
             Prepare(r) \/ PrepareRaises(r) \/ Look(r) \/ WaitMore(r)
             \/ CreateGroupRaises(r) \/ BeginService(r) \/ Fail(r) \/ Crash(r)
      PROVE  StartupInv'
  <2>1. PICK s \in {"prepare", "publish", "look", "keys", "raised", "failed"} :
          /\ GoTo(r, s)
          /\ s = "publish" => stage[r] \in Barriers
          /\ stage[r] # "boot" \/ s = "failed"
    BY <1>2 DEF Prepare, PrepareRaises, Look, WaitMore, CreateGroupRaises,
                BeginService, Fail, Crash, At, Barriers, StartupInv, RouteInv
  <2>2. UNCHANGED <<plan, transport, nonce, published, expired>>
    BY <1>2 DEF Prepare, PrepareRaises, Look, WaitMore, CreateGroupRaises,
                BeginService, Fail, Crash
  <2>3. errors' \in SUBSET Ranks
    BY <1>2 DEF Prepare, PrepareRaises, Look, WaitMore, CreateGroupRaises,
                BeginService, Fail, Crash, StartupInv, StartupTypeOK
  <2>4. StartupTypeOK'
    <3>1. /\ step' \in [Ranks -> {"prepare", "publish", "look", "keys", "raised", "failed"}]
          /\ stage' = stage /\ mode' = mode
      BY <2>1 DEF GoTo, StartupInv, StartupTypeOK
    <3>2. QED
      BY <2>2, <2>3, <3>1 DEF StartupInv, StartupTypeOK
  <2>5. RouteInv' /\ BarrierHolds' /\ ServiceInv'
    BY <2>1, <2>2, GoToKeeps
  <2>6. QED
    BY <2>4, <2>5 DEF StartupInv
<1>3. ASSUME NEW r \in Ranks, Publish(r) PROVE StartupInv'
  <2> USE <1>3 DEF Publish, GoTo
  <2>1. stage[r] \in Barriers /\ stage[r] \in Phases /\ stage[r] # "service"
    BY DEF StartupInv, StartupTypeOK, RouteInv, Barriers
  <2>2. /\ published' \in [Phases -> SUBSET Ranks]
        /\ published'["service"] = published["service"]
        /\ \A p \in Barriers : published[p] = Ranks => published'[p] = Ranks
    BY <2>1 DEF StartupInv, StartupTypeOK, Phases
  <2>3. StartupTypeOK'
    <3>1. expired' \in [Ranks -> BOOLEAN]
      BY Zenon DEF StartupInv, StartupTypeOK
    <3>2. QED
      BY <2>2, <3>1 DEF StartupInv, StartupTypeOK
  <2>4. /\ Route' = Route /\ ModeRefused' = ModeRefused
        /\ TransportRefused' = TransportRefused
    BY DEF Route, ModeRefused, TransportRefused, UsesExecutor, TwoStream, First
  <2>5. RouteInv'
    BY <2>1, <2>4 DEF StartupInv, StartupTypeOK, RouteInv, First, Barriers
  <2>6. BarrierHolds' /\ ServiceInv'
    BY <2>2, <2>4 DEF StartupInv, BarrierHolds, ServiceInv
  <2>7. QED
    BY <2>3, <2>5, <2>6 DEF StartupInv
<1>4. ASSUME NEW r \in Ranks, PassBarrier(r) PROVE StartupInv'
  <2> USE <1>4 DEF PassBarrier
  <2>1. stage[r] # "boot" /\ stage[r] \in Phases
    BY DEF StartupInv, StartupTypeOK, RouteInv
  <2>2. CASE GoTo(r, "raised")
    <3>1. StartupTypeOK'
      BY <2>2 DEF GoTo, StartupInv, StartupTypeOK
    <3>2. QED
      BY <2>1, <2>2, <3>1, GoToKeeps DEF StartupInv
  <2>3. CASE ~GoTo(r, "raised")
    <3>1. PICK m \in {"eager", "full"} :
            /\ Advance(r, m) /\ ~ModeRefused /\ ~TransportRefused
            /\ m = plan[First].requested
      <4>1. CASE stage[r] = "plan"
        <5>1. plan[First].requested \in {"eager", "full"}
          BY PlansAssumption DEF StartupInv, StartupTypeOK, Plan
        <5>2. QED
          BY <2>3, <4>1, <5>1
      <4>2. CASE stage[r] # "plan"
        <5>1. Index(stage[r]) > Index("plan")
          BY <2>1, <4>2, IndexTypes, IndexValues DEF Phases, Barriers
        <5>2. QED
          BY <4>2, <5>1 DEF StartupInv, StartupTypeOK, RouteInv
      <4>3. QED
        BY <4>1, <4>2
    <3>2. stage[r] \in Barriers => Ranks \subseteq published[stage[r]]
      BY DEF Awaited, Barriers
    <3>3. /\ stage' \in [Ranks -> Phases] /\ mode' \in [Ranks -> {"eager", "full"}]
          /\ RouteInv' /\ BarrierHolds' /\ Follows(stage'[r], stage[r])
          /\ mode'[r] = m
          /\ \A q \in Ranks \ {r} : stage'[q] = stage[q] /\ mode'[q] = mode[q]
      BY <2>1, <3>1, <3>2, AdvanceKeeps DEF StartupInv, StartupTypeOK
    <3>4. StartupTypeOK'
      BY <3>1, <3>3 DEF Advance, StartupInv, StartupTypeOK
    <3>5. ASSUME r \in Attention, stage'[r] = "serving", m = "full"
          PROVE  FFN \subseteq published["service"]
      BY <2>1, <3>1, <3>3, <3>5, ServingAfterService DEF Awaited
    <3>6. ASSUME r \in FFN PROVE r \notin published["service"]
      <4>1. stage[r] # "serving"
        BY <2>1, <3>3, IndexTypes, IndexValues, RouteFacts DEF Follows, Phases, Barriers
      <4>2. QED
        BY <3>6, <4>1 DEF StartupInv, ServiceInv
    <3>7. ServiceInv'
      BY <3>3, <3>5, <3>6 DEF StartupInv, ServiceInv
    <3>8. QED
      BY <3>3, <3>4, <3>7 DEF StartupInv
  <2>4. QED
    BY <2>2, <2>3
<1>5. ASSUME NEW r \in Ranks, CreateGroup(r) PROVE StartupInv'
  <2> USE <1>5 DEF CreateGroup, At
  <2>1. /\ ~ModeRefused /\ ~TransportRefused /\ mode[r] = plan[First].requested
        /\ mode[r] \in {"eager", "full"}
    BY IndexValues DEF StartupInv, StartupTypeOK, RouteInv
  <2>2. /\ stage' \in [Ranks -> Phases] /\ mode' \in [Ranks -> {"eager", "full"}]
        /\ RouteInv' /\ BarrierHolds' /\ Follows(stage'[r], "hccl")
        /\ mode'[r] = mode[r]
        /\ \A q \in Ranks \ {r} : stage'[q] = stage[q] /\ mode'[q] = mode[q]
    BY <2>1, AdvanceKeeps DEF StartupInv, StartupTypeOK, Barriers
  <2>3. StartupTypeOK'
    BY <2>2 DEF Advance, StartupInv, StartupTypeOK
  <2>4. mode[r] = "full" => stage'[r] # "serving"
    BY <2>1, <2>2, ServingAfterService DEF Phases, Barriers
  <2>5. ServiceInv'
    BY <2>2, <2>4 DEF StartupInv, ServiceInv
  <2>6. QED
    BY <2>2, <2>3, <2>5 DEF StartupInv
<1>6. ASSUME NEW r \in Ranks, AwaitService(r) PROVE StartupInv'
  <2> USE <1>6 DEF AwaitService, At
  <2>1. expired' \in [Ranks -> BOOLEAN]
    BY Zenon DEF StartupInv, StartupTypeOK
  <2>2. CASE mode[r] = "full"
    <3>1. StartupTypeOK'
      BY <2>1, <2>2 DEF GoTo, StartupInv, StartupTypeOK
    <3>2. QED
      BY <2>2, <3>1, GoToKeeps DEF StartupInv
  <2>3. CASE mode[r] # "full"
    <3>1. /\ ~ModeRefused /\ ~TransportRefused /\ mode[r] = plan[First].requested
          /\ mode[r] \in {"eager", "full"}
      BY IndexValues DEF StartupInv, StartupTypeOK, RouteInv
    <3>2. /\ stage' \in [Ranks -> Phases] /\ mode' \in [Ranks -> {"eager", "full"}]
          /\ RouteInv' /\ BarrierHolds' /\ mode'[r] = mode[r]
          /\ \A q \in Ranks \ {r} : stage'[q] = stage[q] /\ mode'[q] = mode[q]
      BY <2>3, <3>1, AdvanceKeeps DEF StartupInv, StartupTypeOK, Barriers
    <3>3. StartupTypeOK'
      BY <2>1, <2>3, <3>2 DEF Advance, StartupInv, StartupTypeOK
    <3>4. ServiceInv'
      BY <2>3, <3>2 DEF StartupInv, ServiceInv
    <3>5. QED
      BY <3>2, <3>3, <3>4 DEF StartupInv
  <2>4. QED
    BY <2>2, <2>3
<1>7. ASSUME NEW r \in Ranks, AnnounceService(r) PROVE StartupInv'
  <2> USE <1>7 DEF AnnounceService, At
  <2>1. /\ ~ModeRefused /\ ~TransportRefused /\ mode[r] = plan[First].requested
        /\ mode[r] \in {"eager", "full"}
    BY IndexValues DEF StartupInv, StartupTypeOK, RouteInv
  <2>2. /\ published' \in [Phases -> SUBSET Ranks]
        /\ published'["service"] = published["service"] \cup {r}
        /\ \A p \in Barriers : published'[p] = published[p]
    BY DEF StartupInv, StartupTypeOK, Phases, Barriers
  <2>3. /\ stage' \in [Ranks -> Phases] /\ mode' \in [Ranks -> {"eager", "full"}]
        /\ RouteInv' /\ BarrierHolds' /\ Follows(stage'[r], "service")
        /\ mode'[r] = mode[r]
        /\ \A q \in Ranks \ {r} : stage'[q] = stage[q] /\ mode'[q] = mode[q]
    BY <2>1, <2>2, AdvanceKeeps DEF Barriers
  <2>4. StartupTypeOK'
    BY <2>2, <2>3 DEF Advance, StartupInv, StartupTypeOK
  <2>5. stage'[r] = "serving"
    <3>1. Index(stage'[r]) = 8
      BY <2>3, IndexTypes, IndexValues, RouteFacts DEF Follows
    <3>2. QED
      BY <2>3, <3>1, IndexTypes, IndexValues, RouteFacts
  <2>6. ServiceInv'
    BY <2>2, <2>3, <2>5 DEF StartupInv, ServiceInv
  <2>7. QED
    BY <2>3, <2>4, <2>6 DEF StartupInv
<1>8. ASSUME UNCHANGED <<plan, transport, nonce, published, errors, stage, step, mode>>,
             expired' \in [Ranks -> BOOLEAN]
      PROVE  StartupInv'
  <2>1. StartupTypeOK'
    BY <1>8 DEF StartupInv, StartupTypeOK
  <2>2. /\ Route' = Route /\ ModeRefused' = ModeRefused
        /\ TransportRefused' = TransportRefused
    BY <1>8 DEF Route, ModeRefused, TransportRefused, UsesExecutor, TwoStream, First
  <2>3. RouteInv' /\ BarrierHolds' /\ ServiceInv'
    BY <1>8, <2>2 DEF StartupInv, RouteInv, BarrierHolds, ServiceInv, First
  <2>4. QED
    BY <2>1, <2>3 DEF StartupInv
<1>9. ASSUME NEW r \in Ranks, Tick(r) PROVE StartupInv'
  <2>1. expired' \in [Ranks -> BOOLEAN]
    BY <1>9, Zenon DEF Tick, StartupInv, StartupTypeOK
  <2>2. QED
    BY <1>8, <1>9, <2>1 DEF Tick
<1>10. CASE UNCHANGED startupVars
  BY <1>8, <1>10 DEF startupVars, rankVars, StartupInv, StartupTypeOK
<1>11. QED
  BY <1>1, <1>2, <1>3, <1>4, <1>5, <1>6, <1>7, <1>9, <1>10
  DEF StartupNext, RankStep, Done

\* The invariant holds in every behaviour.
THEOREM StartupInvHolds == StartupSpec => []StartupInv
BY InitStartupInv, NextStartupInv, PTL DEF StartupSpec

\* No rank is ever past a phase that some rank has not published.
THEOREM BarriersHold == StartupSpec => []BarrierHolds
<1>1. StartupInv => BarrierHolds
  BY DEF StartupInv
<1>2. QED
  BY <1>1, StartupInvHolds, PTL

\* An Attention rank serves only a world whose graphs are captured and whose
\* receive threads have announced themselves.
THEOREM ServesReady == StartupSpec => []ServesOnlyReadyWorld
<1>1. StartupInv => ServesOnlyReadyWorld
  <2> SUFFICES ASSUME StartupInv, NEW a \in Attention, stage[a] = "serving",
                      mode[a] = "full"
               PROVE  /\ published["captured"] = Ranks
                      /\ \A f \in FFN : /\ stage[f] = "serving"
                                        /\ f \in published["service"]
    BY DEF ServesOnlyReadyWorld
  <2>1. plan[First].requested = "full"
    BY RankTypes, IndexValues DEF StartupInv, RouteInv
  <2>2. published["captured"] = Ranks
    BY <2>1, RankTypes, RouteFacts, IndexValues DEF StartupInv, BarrierHolds, Barriers
  <2>3. QED
    BY <2>2 DEF StartupInv, ServiceInv
<1>2. QED
  BY <1>1, StartupInvHolds, PTL

\* Nobody gets past the negotiation in a world whose plans are incompatible, or
\* as far as the group while a rank has not shown its plan or passed a check.
THEOREM AgreementReached == StartupSpec => []AgreedBeforeGroup
<1>1. ~ModeRefused /\ ~TransportRefused => Compatible
  <2> SUFFICES ASSUME ~ModeRefused, ~TransportRefused PROVE Compatible
    OBVIOUS
  <2> USE RankTypes DEF ModeRefused, TransportRefused, Differ
  <2>1. \A f, g \in FFN : /\ plan[f].requested = plan[g].requested
                          /\ plan[f].stream = plan[g].stream
    OBVIOUS
  <2>2. \A f \in FFN : ~plan[f].streamError
    OBVIOUS
  <2>3. ASSUME UsesExecutor
        PROVE  /\ \A f, g \in FFN : plan[f].layers = plan[g].layers
               /\ \A f \in FFN : ~plan[f].graphError
               /\ plan[First].signature # "" /\ plan[First].layers # ""
               /\ \A q, r \in Ranks : transport[q] = transport[r]
    BY <2>3
  <2>4. ASSUME UsesExecutor
        PROVE  \A f, g \in FFN : plan[f].signature = plan[g].signature
    BY <2>3, <2>4
  <2>5. QED
    BY <2>1, <2>2, <2>3, <2>4 DEF Compatible
<1>2. StartupInv => AgreedBeforeGroup
  <2> SUFFICES ASSUME StartupInv, NEW r \in Ranks
               PROVE  /\ Index(stage[r]) > Index("plan") =>
                           Compatible /\ \A f \in FFN : mode[r] = plan[f].requested
                      /\ \A p \in {"plan", "streams", "validated"} \cap Route :
                           Index(stage[r]) > Index(p) => published[p] = Ranks
    BY DEF AgreedBeforeGroup
  <2>1. ASSUME Index(stage[r]) > Index("plan")
        PROVE  Compatible /\ mode[r] = plan[First].requested
    BY <1>1, <2>1 DEF StartupInv, RouteInv
  <2>2. \A p \in {"plan", "streams", "validated"} \cap Route :
          Index(stage[r]) > Index(p) => published[p] = Ranks
    BY DEF StartupInv, BarrierHolds, Barriers
  <2>3. QED
    BY <2>1, <2>2, RankTypes DEF Compatible
<1>3. QED
  BY <1>2, StartupInvHolds, PTL

\* A rank that goes on does not skip a phase of its world: it was before p, so
\* it is still before p, or about to prepare p.
LEMMA AdvanceHeld ==
  ASSUME StartupInv, NEW r \in Ranks, NEW m, Advance(r, m),
         NEW p \in Barriers \cap Route, Index(stage[r]) < Index(p)
  PROVE  Index(stage'[r]) < Index(p) \/ (stage'[r] = p /\ step'[r] # "keys")
<1>1. PICK q \in Phases : Follows(q, stage[r]) /\ stage' = [stage EXCEPT ![r] = q]
  BY DEF Advance
<1>2. stage'[r] = q /\ step'[r] = "prepare"
  BY <1>1 DEF Advance, StartupInv, StartupTypeOK
<1>3. p \in Phases /\ p \in Route /\ stage[r] \in Phases
  BY DEF Phases, StartupInv, StartupTypeOK
<1>4. Index(q) <= Index(p)
  BY <1>1, <1>3, IndexTypes DEF Follows
<1>5. QED
  BY <1>2, <1>3, <1>4, IndexTypes

\* No step takes an error back, and only a look with no error published or the
\* end of a wait lets a rank on.
LEMMA HeldStep ==
  ASSUME StartupInv, [StartupNext]_startupVars, NEW r \in Ranks, NEW p \in Barriers \cap Route, Held(r, p)
  PROVE  Held(r, p)'
<1> USE DEF storeVars
<1>1. errors' # {}
  <2>1. CASE UNCHANGED startupVars
    BY <2>1 DEF startupVars, Held
  <2>2. CASE Done
    BY <2>2 DEF Done, startupVars, Held
  <2>3. ASSUME NEW q \in Ranks, RankStep(q) \/ Tick(q) \/ Crash(q)
        PROVE  errors \subseteq errors'
    BY <2>3 DEF RankStep, Join, Prepare, PrepareRaises, Publish, Look, PassBarrier,
        WaitMore, CreateGroup, CreateGroupRaises, AwaitService, BeginService,
        AnnounceService, Fail, Tick, Crash
  <2>4. QED
    BY <2>1, <2>2, <2>3 DEF StartupNext, Held
<1>2. ASSUME stage'[r] = stage[r], step'[r] # "keys" \/ step'[r] = step[r]
      PROVE  Held(r, p)'
  BY <1>1, <1>2 DEF Held
<1>3. ASSUME NEW m, Advance(r, m), stage[r] \in Barriers => step[r] = "keys"
      PROVE  Held(r, p)'
  <2>1. Index(stage[r]) < Index(p)
    BY <1>3 DEF Held
  <2>2. QED
    BY <1>1, <1>3, <2>1, AdvanceHeld DEF Held
<1>4. ASSUME NEW q \in Ranks, q # r, RankStep(q) \/ Tick(q) \/ Crash(q)
      PROVE  Held(r, p)'
  <2>1. stage'[r] = stage[r] /\ step'[r] = step[r]
    <3>1. ASSUME NEW s, GoTo(q, s) PROVE stage'[r] = stage[r] /\ step'[r] = step[r]
      BY <1>4, <3>1 DEF GoTo, StartupInv, StartupTypeOK
    <3>2. ASSUME NEW m, Advance(q, m) PROVE stage'[r] = stage[r] /\ step'[r] = step[r]
      BY <1>4, <3>2 DEF Advance, StartupInv, StartupTypeOK
    <3>3. CASE Tick(q)
      BY <3>3 DEF Tick
    <3>4. CASE Join(q) \/ PassBarrier(q) \/ CreateGroup(q) \/ AwaitService(q)
               \/ AnnounceService(q)
      BY <3>1, <3>2, <3>4 DEF Join, PassBarrier, CreateGroup, AwaitService,
                              AnnounceService
    <3>5. CASE Prepare(q) \/ PrepareRaises(q) \/ Publish(q) \/ Look(q) \/ WaitMore(q)
               \/ CreateGroupRaises(q) \/ BeginService(q) \/ Fail(q) \/ Crash(q)
      BY <3>1, <3>5 DEF Prepare, PrepareRaises, Publish, Look, WaitMore,
                        CreateGroupRaises, BeginService, Fail, Crash
    <3>6. QED
      BY <1>4, <3>3, <3>4, <3>5 DEF RankStep
  <2>2. QED
    BY <1>2, <2>1
<1>5. ASSUME RankStep(r) \/ Tick(r) \/ Crash(r) PROVE Held(r, p)'
  <2>1. ASSUME NEW s, GoTo(r, s), s # "keys" PROVE Held(r, p)'
    <3>1. stage'[r] = stage[r] /\ step'[r] = s
      BY <2>1 DEF GoTo, StartupInv, StartupTypeOK
    <3>2. QED
      BY <1>2, <2>1, <3>1
  <2>2. CASE Tick(r)
    BY <1>2, <2>2 DEF Tick
  <2>3. CASE Look(r)
    <3>1. GoTo(r, "raised")
      BY <2>3 DEF Look, Held
    <3>2. QED
      BY <2>1, <3>1
  <2>4. CASE Prepare(r) \/ PrepareRaises(r) \/ Publish(r) \/ WaitMore(r)
             \/ CreateGroupRaises(r) \/ BeginService(r) \/ Fail(r) \/ Crash(r)
    BY <2>1, <2>4 DEF Prepare, PrepareRaises, Publish, WaitMore, CreateGroupRaises,
                      BeginService, Fail, Crash
  <2>5. CASE Join(r) \/ CreateGroup(r)
    BY <1>3, <2>5 DEF Join, CreateGroup, At, Barriers
  <2>6. CASE PassBarrier(r)
    BY <1>3, <2>1, <2>6 DEF PassBarrier
  <2>7. CASE AwaitService(r) \/ AnnounceService(r)
    BY <1>3, <2>1, <2>7 DEF AwaitService, AnnounceService, At, Barriers
  <2>8. QED
    BY <1>5, <2>2, <2>3, <2>4, <2>5, <2>6, <2>7 DEF RankStep
<1>6. CASE UNCHANGED startupVars \/ Done
  BY <1>2, <1>6 DEF Done, startupVars, rankVars
<1>7. QED
  BY <1>4, <1>5, <1>6 DEF StartupNext

\* Once an error is published, a rank that has not yet looked for one in the
\* wait of a phase never passes that phase: check_failure comes before every
\* return of _wait, however late the rank is (async_cam_startup.py).
THEOREM LatecomersStopped == StartupSpec => FailureStopsLatecomers
<1>1. StartupInv /\ [StartupNext]_startupVars =>
        [\A r \in Ranks, p \in Barriers \cap Route : Held(r, p) => Held(r, p)']_startupVars
  BY HeldStep
<1>2. QED
  BY <1>1, StartupInvHolds, PTL DEF StartupSpec, FailureStopsLatecomers

(***************************************************************************)
(* The Async CAM transfers.                                                *)
(* The invariant CamInv relates, for each FFN rank and each group, what is *)
(* in the slots of the receive window, in the work items and in the        *)
(* combine windows to the payloads of the ranks: Lane below.               *)
(***************************************************************************)
(***************************************************************************)
(* Sums.                                                                   *)
(***************************************************************************)
(* A set of numbers that has 0, and with every number the next one, has all. *)
LEMMA NatLeast ==
    ASSUME NEW T \in SUBSET Nat, 0 \in T, \A n \in Nat : n \in T => n + 1 \in T
    PROVE  T = Nat
  <1> DEFINE R == {ss \in Nat \X Nat : ss[1] < ss[2]}
             B == Nat \ T
  <1>1. IsWellFoundedOn(R, Nat)
    BY NatLessThanWellFounded DEF OpToRel
  <1>2. \A x, y \in Nat : x < y => <<x, y>> \in R
    OBVIOUS
  <1>3. ASSUME B /= {} PROVE FALSE
    <2>1. B \subseteq Nat
      OBVIOUS
    <2> HIDE DEF R, B
    <2>2. PICK b \in B : \A y \in B : ~(<<y, b>> \in R)
      BY <1>1, <1>3, <2>1, WFMin, Zenon
    <2>3. b \in Nat /\ b \notin T
      BY DEF B
    <2>4. b /= 0 /\ b - 1 \in Nat /\ b - 1 < b /\ (b - 1) + 1 = b
      BY <2>3
    <2>5. b - 1 \notin T
      BY <2>3, <2>4
    <2>6. b - 1 \in B
      BY <2>4, <2>5 DEF B
    <2> QED BY <1>2, <2>2, <2>3, <2>4, <2>6
  <1> QED BY <1>3

(* f is what SumFrom recurses to, as far as n. *)
SumsTo(f, h, lo, n) == f = [i \in 0 .. n |-> IF i <= lo THEN 0 ELSE f[i - 1] + h[i - 1]]
Sums(s, h, lo) == s = [i \in Nat |-> IF i <= lo THEN 0 ELSE s[i - 1] + h[i - 1]]

LEMMA SumsToExists ==
    ASSUME NEW h, NEW lo \in Nat, NEW m \in Nat
    PROVE  \E f : SumsTo(f, h, lo, m)
  <1> DEFINE T == {n \in Nat : \E f : SumsTo(f, h, lo, n)}
  <1>1. 0 \in T
    <2>1. PICK f : f = [i \in 0 .. 0 |-> 0]
      OBVIOUS
    <2>2. \A i \in 0 .. 0 : i <= lo
      OBVIOUS
    <2>3. f = [i \in 0 .. 0 |-> IF i <= lo THEN 0 ELSE f[i - 1] + h[i - 1]]
      BY <2>1, <2>2
    <2> QED BY <2>3 DEF SumsTo
  <1>2. ASSUME NEW n \in Nat, n \in T PROVE n + 1 \in T
    <2>1. PICK f : SumsTo(f, h, lo, n)
      BY <1>2
    <2>2. PICK g : g = [i \in 0 .. n + 1 |->
                          IF i <= lo THEN 0
                          ELSE IF i = n + 1 THEN f[n] + h[n] ELSE f[i]]
      OBVIOUS
    <2>3. ASSUME NEW i \in 0 .. n PROVE g[i] = f[i]
      <3>1. i \in 0 .. n + 1 /\ i /= n + 1
        OBVIOUS
      <3>2. f[i] = IF i <= lo THEN 0 ELSE f[i - 1] + h[i - 1]
        BY <2>1 DEF SumsTo
      <3> QED BY <2>2, <3>1, <3>2
    <2>4. ASSUME NEW i \in 0 .. n + 1
          PROVE  g[i] = IF i <= lo THEN 0 ELSE g[i - 1] + h[i - 1]
      <3>1. CASE i <= lo
        BY <2>2, <3>1
      <3>2. CASE i = n + 1 /\ ~(i <= lo)
        <4>1. n \in 0 .. n /\ i - 1 = n
          BY <3>2
        <4>2. g[i - 1] = f[n]
          BY <2>3, <4>1
        <4>3. g[i] = f[n] + h[n]
          BY <2>2, <3>2
        <4> QED BY <3>2, <4>1, <4>2, <4>3
      <3>3. CASE i \in 0 .. n /\ ~(i <= lo)
        <4>1. i - 1 \in 0 .. n
          BY <3>3
        <4>2. g[i - 1] = f[i - 1] /\ g[i] = f[i]
          BY <2>3, <3>3, <4>1
        <4>3. f[i] = f[i - 1] + h[i - 1]
          BY <2>1, <3>3 DEF SumsTo
        <4> QED BY <3>3, <4>2, <4>3
      <3>4. i \in 0 .. n \/ i = n + 1
        OBVIOUS
      <3> QED BY <3>1, <3>2, <3>3, <3>4
    <2>5. g = [i \in 0 .. n + 1 |-> g[i]]
      BY <2>2
    <2>6. SumsTo(g, h, lo, n + 1)
      BY <2>4, <2>5 DEF SumsTo
    <2> QED BY <2>6
  <1> HIDE DEF T
  <1>3. T = Nat
    <2>1. T \in SUBSET Nat
      BY DEF T
    <2> QED BY <1>1, <1>2, <2>1, NatLeast
  <1>4. m \in T
    BY <1>3
  <1> QED BY <1>4 DEF T

LEMMA SumsToAgree ==
    ASSUME NEW h, NEW lo \in Nat, NEW m \in Nat, NEW n \in Nat, m <= n,
           NEW f, SumsTo(f, h, lo, m), NEW g, SumsTo(g, h, lo, n)
    PROVE  f[m] = g[m]
  <1> DEFINE T == {k \in Nat : k <= m => f[k] = g[k]}
  <1>1. ASSUME NEW k \in 0 .. m
        PROVE  /\ f[k] = IF k <= lo THEN 0 ELSE f[k - 1] + h[k - 1]
               /\ g[k] = IF k <= lo THEN 0 ELSE g[k - 1] + h[k - 1]
    <2>1. k \in 0 .. n
      OBVIOUS
    <2> QED BY <1>1, <2>1 DEF SumsTo
  <1>2. 0 \in T
    BY <1>1
  <1>3. ASSUME NEW k \in Nat, k \in T PROVE k + 1 \in T
    <2> SUFFICES ASSUME k + 1 <= m PROVE f[k + 1] = g[k + 1]
      OBVIOUS
    <2>1. k + 1 \in 0 .. m /\ (k + 1) - 1 = k
      OBVIOUS
    <2>2. f[k] = g[k]
      BY <1>3
    <2> QED BY <1>1, <2>1, <2>2
  <1> HIDE DEF T
  <1>4. T = Nat
    <2>1. T \in SUBSET Nat
      BY DEF T
    <2> QED BY <1>2, <1>3, <2>1, NatLeast
  <1>5. m \in T
    BY <1>4
  <1> QED BY <1>5 DEF T

LEMMA SumsExist ==
    ASSUME NEW h, NEW lo \in Nat
    PROVE  \E s : Sums(s, h, lo)
  <1> DEFINE to(n) == CHOOSE f : SumsTo(f, h, lo, n)
  <1>1. ASSUME NEW n \in Nat PROVE SumsTo(to(n), h, lo, n)
    BY SumsToExists, Zenon
  <1> HIDE DEF to
  <1>2. PICK s : s = [i \in Nat |-> to(i)[i]]
    OBVIOUS
  <1>3. ASSUME NEW i \in Nat PROVE s[i] = IF i <= lo THEN 0 ELSE s[i - 1] + h[i - 1]
    <2>1. SumsTo(to(i), h, lo, i)
      BY <1>1
    <2>2. i \in 0 .. i
      OBVIOUS
    <2>3. to(i)[i] = IF i <= lo THEN 0 ELSE to(i)[i - 1] + h[i - 1]
      BY <2>1, <2>2 DEF SumsTo
    <2>4. CASE i <= lo
      BY <1>2, <2>3, <2>4
    <2>5. CASE ~(i <= lo)
      <3>1. i - 1 \in Nat /\ i - 1 <= i
        BY <2>5
      <3>2. SumsTo(to(i - 1), h, lo, i - 1)
        BY <1>1, <3>1
      <3>3. to(i - 1)[i - 1] = to(i)[i - 1]
        BY <2>1, <3>1, <3>2, SumsToAgree
      <3>4. s[i] = to(i)[i] /\ s[i - 1] = to(i - 1)[i - 1]
        BY <1>2, <3>1
      <3> QED BY <2>3, <2>5, <3>3, <3>4
    <2> QED BY <2>4, <2>5
  <1>4. s = [i \in Nat |-> s[i]]
    BY <1>2
  <1>5. Sums(s, h, lo)
    BY <1>3, <1>4 DEF Sums
  <1> QED BY <1>5

(* The sum up to one more. *)
LEMMA SumRec ==
    ASSUME NEW h, NEW lo \in Nat, NEW k \in Nat
    PROVE  /\ k <= lo => SumFrom(h, lo, k) = 0
           /\ k >= lo => SumFrom(h, lo, k + 1) = SumFrom(h, lo, k) + h[k]
  <1> DEFINE s == CHOOSE f : f = [i \in Nat |-> IF i <= lo THEN 0 ELSE f[i - 1] + h[i - 1]]
  <1>1. \A j : SumFrom(h, lo, j) = s[j]
    BY DEF SumFrom
  <1>2. \E f : f = [i \in Nat |-> IF i <= lo THEN 0 ELSE f[i - 1] + h[i - 1]]
    BY SumsExist DEF Sums
  <1>3. s = [i \in Nat |-> IF i <= lo THEN 0 ELSE s[i - 1] + h[i - 1]]
    BY <1>2, ZenonT(40)
  <1> HIDE DEF s
  <1>4. k <= lo => s[k] = 0
    BY <1>3
  <1>5. ASSUME k >= lo PROVE s[k + 1] = s[k] + h[k]
    <2>1. k + 1 \in Nat /\ (k + 1) - 1 = k /\ ~(k + 1 <= lo)
      BY <1>5
    <2> QED BY <1>3, <2>1
  <1> QED BY <1>1, <1>4, <1>5

LEMMA SumZero ==
    ASSUME NEW h, NEW k \in Nat
    PROVE  SumFrom(h, k, k) = 0
  <1>1. k <= k
    OBVIOUS
  <1> QED BY <1>1, SumRec

(* h has numbers from lo to before hi. *)
Numbers(h, lo, hi) == \A i \in lo .. hi - 1 : h[i] \in Nat

LEMMA SumNat ==
    ASSUME NEW h, NEW lo \in Nat, NEW hi \in Nat, Numbers(h, lo, hi)
    PROVE  SumFrom(h, lo, hi) \in Nat
  <1> DEFINE T == {n \in Nat : n <= hi => SumFrom(h, lo, n) \in Nat}
  <1>1. 0 \in T
    BY SumRec
  <1>2. ASSUME NEW n \in Nat, n \in T PROVE n + 1 \in T
    <2> SUFFICES ASSUME n + 1 <= hi PROVE SumFrom(h, lo, n + 1) \in Nat
      OBVIOUS
    <2>1. CASE n + 1 <= lo
      <3>1. n + 1 \in Nat
        OBVIOUS
      <3>2. SumFrom(h, lo, n + 1) = 0
        BY <2>1, <3>1, SumRec
      <3> QED BY <3>2
    <2>2. CASE n >= lo
      <3>1. h[n] \in Nat
        BY <2>2 DEF Numbers
      <3>2. SumFrom(h, lo, n) \in Nat
        BY <1>2
      <3>3. SumFrom(h, lo, n + 1) = SumFrom(h, lo, n) + h[n]
        BY <2>2, SumRec
      <3> QED BY <3>1, <3>2, <3>3
    <2> QED BY <2>1, <2>2
  <1> HIDE DEF T
  <1>3. T = Nat
    <2>1. T \in SUBSET Nat
      BY DEF T
    <2> QED BY <1>1, <1>2, <2>1, NatLeast
  <1>4. hi \in T
    BY <1>3
  <1> QED BY <1>4 DEF T

(* A sum is that as far as some place, and that from there. *)
LEMMA SumSplit ==
    ASSUME NEW h, NEW lo \in Nat, NEW mid \in Nat, NEW hi \in Nat, lo <= mid, mid <= hi,
           Numbers(h, lo, hi)
    PROVE  SumFrom(h, lo, hi) = SumFrom(h, lo, mid) + SumFrom(h, mid, hi)
  <1> DEFINE T == {n \in Nat : (mid <= n /\ n <= hi) =>
                      SumFrom(h, lo, n) = SumFrom(h, lo, mid) + SumFrom(h, mid, n)}
  <1>1. ASSUME NEW n \in Nat, n <= hi PROVE SumFrom(h, lo, n) \in Nat /\ SumFrom(h, mid, n) \in Nat
    <2>1. Numbers(h, lo, n) /\ Numbers(h, mid, n)
      BY <1>1 DEF Numbers
    <2> QED BY <2>1, SumNat
  <1>2. SumFrom(h, mid, mid) = 0
    BY SumRec
  <1>3. 0 \in T
    <2>1. mid <= 0 => mid = 0
      OBVIOUS
    <2> QED BY <1>1, <1>2, <2>1
  <1>4. ASSUME NEW n \in Nat, n \in T PROVE n + 1 \in T
    <2> SUFFICES ASSUME mid <= n + 1, n + 1 <= hi
                 PROVE  SumFrom(h, lo, n + 1) = SumFrom(h, lo, mid) + SumFrom(h, mid, n + 1)
      OBVIOUS
    <2>1. CASE mid = n + 1
      BY <1>1, <1>2, <2>1
    <2>2. CASE mid <= n
      <3>1. SumFrom(h, lo, n) = SumFrom(h, lo, mid) + SumFrom(h, mid, n)
        BY <1>4, <2>2
      <3>2. SumFrom(h, lo, n + 1) = SumFrom(h, lo, n) + h[n]
        BY <2>2, SumRec
      <3>3. SumFrom(h, mid, n + 1) = SumFrom(h, mid, n) + h[n]
        BY <2>2, SumRec
      <3>4. h[n] \in Nat
        BY <2>2 DEF Numbers
      <3>5. SumFrom(h, lo, n) \in Nat /\ SumFrom(h, lo, mid) \in Nat /\ SumFrom(h, mid, n) \in Nat
        BY <1>1, <2>2
      <3> QED BY <3>1, <3>2, <3>3, <3>4, <3>5
    <2> QED BY <2>1, <2>2
  <1> HIDE DEF T
  <1>5. T = Nat
    <2>1. T \in SUBSET Nat
      BY DEF T
    <2> QED BY <1>3, <1>4, <2>1, NatLeast
  <1>6. hi \in T
    BY <1>5
  <1> QED BY <1>6 DEF T

(* The part of a list behind b is a list of its own. *)
LEMMA SumShift ==
    ASSUME NEW h, NEW u, NEW b \in Nat, NEW n \in Nat, \A i \in 0 .. n - 1 : u[i] = h[b + i]
    PROVE  SumFrom(u, 0, n) = SumFrom(h, b, b + n)
  <1> DEFINE T == {k \in Nat : k <= n => SumFrom(u, 0, k) = SumFrom(h, b, b + k)}
  <1>1. 0 \in T
    <2>1. SumFrom(u, 0, 0) = 0 /\ SumFrom(h, b, b) = 0 /\ b + 0 = b
      BY SumRec
    <2> QED BY <2>1
  <1>2. ASSUME NEW k \in Nat, k \in T PROVE k + 1 \in T
    <2> SUFFICES ASSUME k + 1 <= n PROVE SumFrom(u, 0, k + 1) = SumFrom(h, b, b + (k + 1))
      OBVIOUS
    <2>1. SumFrom(u, 0, k) = SumFrom(h, b, b + k)
      BY <1>2
    <2>2. u[k] = h[b + k]
      OBVIOUS
    <2>3. SumFrom(u, 0, k + 1) = SumFrom(u, 0, k) + u[k]
      BY SumRec
    <2>4. b + k \in Nat /\ b + k >= b /\ b + (k + 1) = (b + k) + 1
      OBVIOUS
    <2>5. SumFrom(h, b, (b + k) + 1) = SumFrom(h, b, b + k) + h[b + k]
      BY <2>4, SumRec
    <2> QED BY <2>1, <2>2, <2>3, <2>4, <2>5
  <1> HIDE DEF T
  <1>3. T = Nat
    <2>1. T \in SUBSET Nat
      BY DEF T
    <2> QED BY <1>1, <1>2, <2>1, NatLeast
  <1>4. n \in T
    BY <1>3
  <1> QED BY <1>4 DEF T

(* What stands at a place of a list of stretches is behind the stretches before. *)
LEMMA SumPlace ==
    ASSUME NEW h, NEW lo \in Nat, NEW k \in Nat, NEW hi \in Nat, lo <= k, k < hi,
           Numbers(h, lo, hi), NEW o \in 1 .. h[k]
    PROVE  /\ SumFrom(h, lo, k) \in Nat /\ h[k] \in Nat /\ SumFrom(h, lo, hi) \in Nat
           /\ SumFrom(h, lo, k) + o <= SumFrom(h, lo, hi)
  <1>1. h[k] \in Nat /\ k + 1 \in Nat
    BY DEF Numbers
  <1>2. Numbers(h, lo, k) /\ Numbers(h, k + 1, hi)
    BY DEF Numbers
  <1>3. SumFrom(h, lo, k) \in Nat /\ SumFrom(h, k + 1, hi) \in Nat
    BY <1>1, <1>2, SumNat
  <1>4. SumFrom(h, lo, k + 1) = SumFrom(h, lo, k) + h[k]
    BY SumRec
  <1>5. SumFrom(h, lo, hi) = SumFrom(h, lo, k + 1) + SumFrom(h, k + 1, hi)
    BY <1>1, SumSplit
  <1> QED BY <1>1, <1>3, <1>4, <1>5

(* Two places in two stretches, or in one, differ. *)
LEMMA PlacesDiffer ==
    ASSUME NEW h, NEW lo \in Nat, NEW k \in Nat, NEW m \in Nat, NEW hi \in Nat,
           lo <= k, k < hi, lo <= m, m < hi,
           Numbers(h, lo, hi), NEW o \in 1 .. h[k], NEW u \in 1 .. h[m],
           SumFrom(h, lo, k) + o = SumFrom(h, lo, m) + u
    PROVE  k = m /\ o = u
  <1>1. h[k] \in Nat /\ h[m] \in Nat
    BY DEF Numbers
  <1>2. Numbers(h, lo, k) /\ Numbers(h, lo, m)
    BY DEF Numbers
  <1>3. SumFrom(h, lo, k) \in Nat /\ SumFrom(h, lo, m) \in Nat
    BY <1>2, SumNat
  <1>4. CASE k < m
    <2>1. SumFrom(h, lo, k) + o <= SumFrom(h, lo, m)
      BY <1>2, <1>4, SumPlace
    <2> QED BY <1>1, <1>3, <2>1
  <1>5. CASE m < k
    <2>1. SumFrom(h, lo, m) + u <= SumFrom(h, lo, k)
      BY <1>2, <1>5, SumPlace
    <2> QED BY <1>1, <1>3, <2>1
  <1>6. CASE k = m
    BY <1>1, <1>3, <1>6
  <1> QED BY <1>4, <1>5, <1>6

(***************************************************************************)
(* The rows of a payload.                                                  *)
(***************************************************************************)
LEMMA CamSizes ==
    /\ Groups \in Nat \ {0} /\ TP \in Nat \ {0} /\ FFNs \in Nat \ {0} /\ Local \in Nat \ {0}
    /\ TopK \in Nat \ {0} /\ MaxTokens \in Nat \ {0} /\ TopK <= FFNs * Local
  BY SizesAssumption

LEMMA ExpertsAre ==
    /\ FFNs * Local \in Nat \ {0} /\ Experts = 0 .. FFNs * Local - 1 /\ Experts \subseteq Nat
    /\ \A f \in Fs : f * Local \in Nat /\ (f + 1) * Local = f * Local + Local
                     /\ (f + 1) * Local <= FFNs * Local /\ f \in Nat
  <1>1. FFNs * Local \in Nat \ {0}
    BY CamSizes, Z3
  <1>2. ASSUME NEW f \in Fs
        PROVE  f * Local \in Nat /\ (f + 1) * Local = f * Local + Local
               /\ (f + 1) * Local <= FFNs * Local
    <2>1. f \in Nat /\ f + 1 <= FFNs
      BY CamSizes DEF Fs
    <2> QED BY <2>1, CamSizes, Z3
  <1> QED BY <1>1, <1>2, CamSizes DEF Experts, Fs

Row == [tok : Nat, ids : [1 .. TopK -> Experts]]
Pairs(p) == (1 .. Len(p)) \X (1 .. TopK)

LEMMA PairsFinite ==
    ASSUME NEW p \in Seq(Row)
    PROVE  /\ IsFiniteSet(Pairs(p)) /\ Cardinality(Pairs(p)) = Len(p) * TopK
           /\ Len(p) * TopK \in Nat
           /\ \A S \in SUBSET Pairs(p) : /\ IsFiniteSet(S) /\ Cardinality(S) \in Nat
                                         /\ Cardinality(S) <= Len(p) * TopK
  <1>1. Len(p) \in Nat /\ TopK \in Nat
    BY CamSizes
  <1>2. IsFiniteSet(1 .. Len(p)) /\ Cardinality(1 .. Len(p)) = Len(p)
    BY <1>1, FS_Interval
  <1>3. IsFiniteSet(1 .. TopK) /\ Cardinality(1 .. TopK) = TopK
    BY <1>1, FS_Interval
  <1>4. IsFiniteSet(Pairs(p)) /\ Cardinality(Pairs(p)) = Len(p) * TopK
    BY <1>2, <1>3, FS_Product DEF Pairs
  <1>5. Len(p) * TopK \in Nat
    BY <1>1
  <1>6. ASSUME NEW S \in SUBSET Pairs(p)
        PROVE  IsFiniteSet(S) /\ Cardinality(S) \in Nat /\ Cardinality(S) <= Len(p) * TopK
    <2>1. IsFiniteSet(S) /\ Cardinality(S) <= Cardinality(Pairs(p))
      BY <1>4, FS_Subset
    <2>2. Cardinality(S) \in Nat
      BY <2>1, FS_CardinalityType
    <2> QED BY <1>4, <2>1, <2>2
  <1> QED BY <1>4, <1>5, <1>6

LEMMA CountNat ==
    ASSUME NEW p \in Seq(Row), NEW e
    PROVE  /\ IsFiniteSet(Mentions(p, e)) /\ Count(p, e) \in Nat /\ Count(p, e) <= Len(p) * TopK
           /\ Mentions(p, e) \subseteq Pairs(p)
  <1>1. Mentions(p, e) \in SUBSET Pairs(p)
    BY DEF Mentions, Pairs
  <1>2. /\ IsFiniteSet(Mentions(p, e)) /\ Cardinality(Mentions(p, e)) \in Nat
        /\ Cardinality(Mentions(p, e)) <= Len(p) * TopK
    BY <1>1, PairsFinite
  <1> QED BY <1>1, <1>2 DEF Count

(* the mentions of an expert before m *)
Precedes(n, m) == n[1] < m[1] \/ (n[1] = m[1] /\ n[2] < m[2])
Earlier(p, e, m) == {n \in Mentions(p, e) : Precedes(n, m)}

LEMMA OccurrenceIs ==
    ASSUME NEW p \in Seq(Row), NEW e, NEW m \in Mentions(p, e)
    PROVE  /\ Occurrence(p, m) = Cardinality(Earlier(p, e, m))
           /\ IsFiniteSet(Earlier(p, e, m)) /\ Occurrence(p, m) \in Nat
           /\ Occurrence(p, m) + 1 <= Count(p, e)
  <1>1. p[m[1]].ids[m[2]] = e
    BY DEF Mentions
  <1>2. Occurrence(p, m) = Cardinality(Earlier(p, e, m))
    BY <1>1 DEF Occurrence, Earlier, Precedes
  <1>3. Earlier(p, e, m) \in SUBSET Mentions(p, e)
    BY DEF Earlier
  <1>4. m[1] \in Nat /\ m[2] \in Nat
    BY CamSizes DEF Mentions
  <1>5. m \notin Earlier(p, e, m)
    BY <1>4 DEF Earlier, Precedes
  <1>6. IsFiniteSet(Mentions(p, e)) /\ Cardinality(Mentions(p, e)) = Count(p, e) /\ Count(p, e) \in Nat
    BY CountNat DEF Count
  <1>7. /\ IsFiniteSet(Earlier(p, e, m)) /\ Cardinality(Earlier(p, e, m)) <= Count(p, e)
        /\ Count(p, e) = Cardinality(Earlier(p, e, m)) => Mentions(p, e) = Earlier(p, e, m)
    BY <1>3, <1>6, FS_Subset
  <1>8. Cardinality(Earlier(p, e, m)) /= Count(p, e)
    BY <1>5, <1>7
  <1>9. Cardinality(Earlier(p, e, m)) \in Nat
    BY <1>7, FS_CardinalityType
  <1> QED BY <1>2, <1>6, <1>7, <1>8, <1>9

(* No two mentions of an expert have the same number. *)
LEMMA OccurrencesLess ==
    ASSUME NEW p \in Seq(Row), NEW e, NEW m \in Mentions(p, e), NEW n \in Mentions(p, e),
           Precedes(n, m)
    PROVE  Occurrence(p, n) < Occurrence(p, m)
  <1>1. m[1] \in Nat /\ m[2] \in Nat /\ n[1] \in Nat /\ n[2] \in Nat
    BY CamSizes DEF Mentions
  <1>2. \A k \in Mentions(p, e) : k[1] \in Nat /\ k[2] \in Nat
    BY CamSizes DEF Mentions
  <1>3. Earlier(p, e, n) \in SUBSET Earlier(p, e, m)
    BY <1>1, <1>2 DEF Earlier, Precedes
  <1>4. n \in Earlier(p, e, m) /\ n \notin Earlier(p, e, n)
    BY <1>1 DEF Earlier, Precedes
  <1>5. /\ Occurrence(p, n) = Cardinality(Earlier(p, e, n)) /\ Occurrence(p, n) \in Nat
        /\ Occurrence(p, m) = Cardinality(Earlier(p, e, m)) /\ Occurrence(p, m) \in Nat
        /\ IsFiniteSet(Earlier(p, e, m))
    BY OccurrenceIs
  <1>6. /\ Cardinality(Earlier(p, e, n)) <= Cardinality(Earlier(p, e, m))
        /\ Cardinality(Earlier(p, e, m)) = Cardinality(Earlier(p, e, n))
             => Earlier(p, e, m) = Earlier(p, e, n)
    BY <1>3, <1>5, FS_Subset
  <1> QED BY <1>4, <1>5, <1>6

LEMMA OccurrencesDiffer ==
    ASSUME NEW p \in Seq(Row), NEW e, NEW m \in Mentions(p, e), NEW n \in Mentions(p, e),
           Occurrence(p, n) = Occurrence(p, m)
    PROVE  n = m
  <1>1. m \in Pairs(p) /\ n \in Pairs(p)
    BY CountNat
  <1>2. m = <<m[1], m[2]>> /\ n = <<n[1], n[2]>>
    BY <1>1 DEF Pairs
  <1>3. m[1] \in Nat /\ m[2] \in Nat /\ n[1] \in Nat /\ n[2] \in Nat
    BY CamSizes DEF Mentions
  <1>4. Precedes(n, m) \/ Precedes(m, n) \/ (n[1] = m[1] /\ n[2] = m[2])
    BY <1>3 DEF Precedes
  <1>5. Occurrence(p, n) \in Nat /\ Occurrence(p, m) \in Nat
    BY OccurrenceIs
  <1>6. ~Precedes(n, m) /\ ~Precedes(m, n)
    BY <1>5, OccurrencesLess
  <1> QED BY <1>2, <1>4, <1>6

(* The numbers of rows of all experts add up to what fits in a window. *)
Start(p, e) == SumFrom(Counts(p), 0, e)
Upto(p, e) == {m \in Pairs(p) : p[m[1]].ids[m[2]] < e}

LEMMA CountsAre ==
    ASSUME NEW p \in Seq(Row)
    PROVE  /\ Numbers(Counts(p), 0, FFNs * Local)
           /\ \A e \in Experts : Counts(p)[e] = Count(p, e) /\ Count(p, e) \in Nat
  <1>1. \A e \in Experts : Counts(p)[e] = Count(p, e) /\ Count(p, e) \in Nat
    BY CountNat DEF Counts
  <1> QED BY <1>1, ExpertsAre DEF Numbers

LEMMA IdsAre ==
    ASSUME NEW p \in Seq(Row), NEW m \in Pairs(p)
    PROVE  p[m[1]].ids[m[2]] \in Experts /\ p[m[1]].ids[m[2]] \in Nat
  <1>1. m[1] \in 1 .. Len(p) /\ m[2] \in 1 .. TopK
    BY DEF Pairs
  <1>2. p[m[1]] \in Row
    BY <1>1
  <1>3. p[m[1]].ids \in [1 .. TopK -> Experts]
    BY <1>2 DEF Row
  <1> QED BY <1>1, <1>3, ExpertsAre

LEMMA StartIs ==
    ASSUME NEW p \in Seq(Row), NEW n \in Nat, n <= FFNs * Local
    PROVE  Start(p, n) = Cardinality(Upto(p, n))
  <1> DEFINE T == {e \in Nat : e <= FFNs * Local => Start(p, e) = Cardinality(Upto(p, e))}
  <1>1. 0 \in T
    <2>1. Upto(p, 0) = {}
      BY IdsAre DEF Upto
    <2>2. Start(p, 0) = 0
      <3>1. SumFrom(Counts(p), 0, 0) = 0
        BY SumZero
      <3> QED BY <3>1 DEF Start
    <2> QED BY <2>1, <2>2, FS_EmptySet
  <1>2. ASSUME NEW e \in Nat, e \in T PROVE e + 1 \in T
    <2> SUFFICES ASSUME e + 1 <= FFNs * Local PROVE Start(p, e + 1) = Cardinality(Upto(p, e + 1))
      OBVIOUS
    <2>1. Start(p, e) = Cardinality(Upto(p, e))
      BY <1>2, ExpertsAre
    <2>2. e \in Experts
      BY ExpertsAre
    <2>3. Start(p, e + 1) = Start(p, e) + Count(p, e)
      <3>1. SumFrom(Counts(p), 0, e + 1) = SumFrom(Counts(p), 0, e) + Counts(p)[e]
        BY SumRec
      <3> QED BY <2>2, <3>1, CountsAre DEF Start
    <2>4. Upto(p, e) \in SUBSET Pairs(p) /\ Mentions(p, e) \in SUBSET Pairs(p)
      BY CountNat DEF Upto
    <2>5. IsFiniteSet(Upto(p, e)) /\ IsFiniteSet(Mentions(p, e))
      BY <2>4, PairsFinite
    <2>6. Upto(p, e + 1) = Upto(p, e) \cup Mentions(p, e)
      <3>1. Mentions(p, e) = {m \in Pairs(p) : p[m[1]].ids[m[2]] = e}
        BY DEF Mentions, Pairs
      <3>2. \A m \in Pairs(p) : p[m[1]].ids[m[2]] \in Nat
        BY IdsAre
      <3> QED BY <3>1, <3>2 DEF Upto
    <2>7. Upto(p, e) \cap Mentions(p, e) = {}
      BY DEF Upto, Mentions
    <2>8. Cardinality(Upto(p, e + 1))
            = Cardinality(Upto(p, e)) + Cardinality(Mentions(p, e)) - Cardinality({})
      BY <2>5, <2>6, <2>7, FS_Union
    <2>9. Cardinality({}) = 0 /\ Cardinality(Upto(p, e)) \in Nat /\ Count(p, e) \in Nat
      BY <2>5, FS_EmptySet, FS_CardinalityType, CountNat
    <2> QED BY <2>1, <2>3, <2>8, <2>9 DEF Count
  <1> HIDE DEF T
  <1>3. T = Nat
    <2>1. T \in SUBSET Nat
      BY DEF T
    <2> QED BY <1>1, <1>2, <2>1, NatLeast
  <1>4. n \in T
    BY <1>3
  <1> QED BY <1>4 DEF T

LEMMA StartBounded ==
    ASSUME NEW p \in Seq(Row)
    PROVE  Start(p, FFNs * Local) \in Nat /\ Start(p, FFNs * Local) <= Len(p) * TopK
  <1>1. FFNs * Local \in Nat
    BY ExpertsAre
  <1>2. Start(p, FFNs * Local) = Cardinality(Upto(p, FFNs * Local))
    BY <1>1, StartIs
  <1>3. Upto(p, FFNs * Local) \in SUBSET Pairs(p)
    BY DEF Upto
  <1> QED BY <1>2, <1>3, PairsFinite

(***************************************************************************)
(* Windows.                                                                *)
(***************************************************************************)
LayerId(t) == IF t = 0 THEN Min(LayerIds) ELSE ForwardLayers[t].id

RowsOf(p, t, a, e) ==
    LET mention(o) == CHOOSE m \in Mentions(p, e) : Occurrence(p, m) = o - 1
    IN  [o \in 1 .. Count(p, e) |->
            [rank |-> a, at |-> t, tok |-> p[mention(o)[1]].tok, expert |-> e]]

(* what rank a sends to FFN rank f in layer t if its payload is p *)
CountsTo(p, f) == [e \in 0 .. Local - 1 |-> Count(p, f * Local + e)]
RowsTo(p, t, a, f) == [e \in 0 .. Local - 1 |-> RowsOf(p, t, a, f * Local + e)]
Dispatched(p, t, a, f) ==
    [flag |-> RowsOfFfn(p, f) + 1, layer |-> LayerId(t), prefix |-> Start(p, f * Local),
     counts |-> CountsTo(p, f), rows |-> RowsTo(p, t, a, f)]

(* Experts fall into blocks of FFN ranks. *)
LEMMA ExpertOf ==
    ASSUME NEW f \in Fs, NEW e \in 0 .. Local - 1
    PROVE  /\ f * Local + e \in Experts /\ FfnOf(f * Local + e) = f
           /\ f * Local \in Nat /\ f * Local + e \in Nat
  <1>1. f \in Nat /\ e \in Nat /\ e < Local /\ Local \in Nat \ {0}
    BY CamSizes DEF Fs
  <1>2. f * Local \in Nat /\ (f + 1) * Local = f * Local + Local /\ (f + 1) * Local <= FFNs * Local
    BY ExpertsAre
  <1>3. (f * Local + e) \div Local = f
    BY <1>1, Z3
  <1> QED BY <1>1, <1>2, <1>3, ExpertsAre DEF FfnOf

LEMMA BlockOf ==
    ASSUME NEW x \in Experts
    PROVE  /\ FfnOf(x) \in Fs /\ FfnOf(x) * Local \in Nat /\ FfnOf(x) * Local <= x
           /\ x - FfnOf(x) * Local \in 0 .. Local - 1
           /\ x = FfnOf(x) * Local + (x - FfnOf(x) * Local)
  <1>1. x \in Nat /\ x < FFNs * Local /\ Local \in Nat \ {0} /\ FFNs \in Nat \ {0}
    BY ExpertsAre, CamSizes
  <1>2. PICK q : q = x \div Local
    OBVIOUS
  <1>3. q \in Nat /\ Local * q <= x /\ x < Local * q + Local
    BY <1>1, <1>2, Z3
  <1>4. q < FFNs
    <2>1. ~(q >= FFNs)
      BY <1>1, <1>3, Z3
    <2> QED BY <1>1, <1>3, <2>1
  <1>5. q * Local = Local * q /\ q * Local \in Nat
    BY <1>1, <1>3, Z3
  <1>6. q \in Fs
    BY <1>1, <1>3, <1>4 DEF Fs
  <1>7. FfnOf(x) = q
    BY <1>2 DEF FfnOf
  <1> QED BY <1>1, <1>3, <1>5, <1>6, <1>7

(* The rows to the experts of an FFN rank follow those to the ranks before. *)
LEMMA PlaceIs ==
    ASSUME NEW p \in Seq(Row), NEW f \in Fs, NEW e \in 0 .. Local - 1
    PROVE  /\ Start(p, f * Local) + SumFrom(CountsTo(p, f), 0, e) = Start(p, f * Local + e)
           /\ SumFrom(CountsTo(p, f), 0, e) = SumFrom(Counts(p), f * Local, f * Local + e)
           /\ Start(p, f * Local) \in Nat /\ SumFrom(CountsTo(p, f), 0, e) \in Nat
           /\ CountsTo(p, f)[e] = Count(p, f * Local + e)
  <1>1. PICK b : b = f * Local
    OBVIOUS
  <1>2. b \in Nat /\ e \in Nat /\ b + e \in Experts /\ b + e < FFNs * Local /\ FFNs * Local \in Nat
    BY <1>1, ExpertOf, ExpertsAre
  <1>3. \A i \in 0 .. e - 1 : i \in 0 .. Local - 1
    BY CamSizes
  <1>4. ASSUME NEW i \in 0 .. Local - 1
        PROVE  CountsTo(p, f)[i] = Counts(p)[b + i] /\ CountsTo(p, f)[i] = Count(p, b + i)
    <2>1. b + i \in Experts
      BY <1>1, ExpertOf
    <2> QED BY <1>1, <2>1 DEF CountsTo, Counts
  <1>5. SumFrom(CountsTo(p, f), 0, e) = SumFrom(Counts(p), b, b + e)
    <2>1. \A i \in 0 .. e - 1 : CountsTo(p, f)[i] = Counts(p)[b + i]
      BY <1>3, <1>4
    <2> QED BY <1>2, <2>1, SumShift
  <1>6. Numbers(Counts(p), 0, b + e) /\ Numbers(Counts(p), 0, b) /\ Numbers(Counts(p), b, b + e)
    BY <1>2, CountsAre DEF Numbers
  <1>7. SumFrom(Counts(p), 0, b + e) = SumFrom(Counts(p), 0, b) + SumFrom(Counts(p), b, b + e)
    BY <1>2, <1>6, SumSplit
  <1>8. SumFrom(Counts(p), 0, b) \in Nat /\ SumFrom(Counts(p), b, b + e) \in Nat
    BY <1>2, <1>6, SumNat
  <1> QED BY <1>1, <1>4, <1>5, <1>7, <1>8 DEF Start

(* ... so that the rows to different experts never share a place, *)
LEMMA PlacesApart ==
    ASSUME NEW p \in Seq(Row), NEW x \in Experts, NEW y \in Experts,
           NEW o \in 1 .. Count(p, x), NEW u \in 1 .. Count(p, y),
           Start(p, x) + o = Start(p, y) + u
    PROVE  x = y /\ o = u
  <1>1. x \in Nat /\ y \in Nat /\ x < FFNs * Local /\ y < FFNs * Local /\ FFNs * Local \in Nat
    BY ExpertsAre
  <1>2. Counts(p)[x] = Count(p, x) /\ Counts(p)[y] = Count(p, y) /\ Numbers(Counts(p), 0, FFNs * Local)
    BY CountsAre
  <1>3. o \in 1 .. Counts(p)[x] /\ u \in 1 .. Counts(p)[y]
    BY <1>2
  <1>4. SumFrom(Counts(p), 0, x) + o = SumFrom(Counts(p), 0, y) + u
    BY DEF Start
  <1>5. 0 <= x /\ 0 <= y
    BY <1>1
  <1> QED BY <1>1, <1>2, <1>3, <1>4, <1>5, PlacesDiffer

(* ... and each has a place in the window. *)
Fits(p) == p \in Seq(Row) /\ Len(p) <= MaxTokens \div TP

LEMMA PlaceFits ==
    ASSUME NEW p, Fits(p), NEW x \in Experts, NEW o \in 1 .. Count(p, x)
    PROVE  /\ Start(p, x) \in Nat /\ Start(p, x) + o - 1 \in Positions
           /\ o \in 1 .. TopK * CeilDiv(MaxTokens, TP)
  <1>1. p \in Seq(Row) /\ Len(p) \in Nat /\ Len(p) <= MaxTokens \div TP
    BY DEF Fits
  <1>2. x \in Nat /\ x < FFNs * Local /\ FFNs * Local \in Nat /\ 0 <= x
    BY ExpertsAre
  <1>3. Counts(p)[x] = Count(p, x) /\ Numbers(Counts(p), 0, FFNs * Local) /\ Count(p, x) \in Nat
    BY <1>1, CountsAre
  <1>4. o \in 1 .. Counts(p)[x]
    BY <1>3
  <1>5. Start(p, x) \in Nat /\ Start(p, x) + o <= Start(p, FFNs * Local)
    BY <1>2, <1>3, <1>4, SumPlace DEF Start
  <1>6. Start(p, FFNs * Local) \in Nat /\ Start(p, FFNs * Local) <= Len(p) * TopK
    BY <1>1, StartBounded
  <1>7. Count(p, x) <= Len(p) * TopK
    BY <1>1, CountNat
  <1>8. PICK m : m = CeilDiv(MaxTokens, TP)
    OBVIOUS
  <1>9. m \in Nat /\ MaxTokens \div TP <= m /\ MaxTokens \div TP \in Nat
    BY <1>8, CamSizes, Z3 DEF CeilDiv
  <1>10. Len(p) * TopK <= m * TopK /\ m * TopK \in Nat /\ m * TopK = TopK * m /\ Len(p) * TopK \in Nat
    <2>1. PICK n, k : n = Len(p) /\ k = TopK
      OBVIOUS
    <2>2. n \in Nat /\ k \in Nat /\ n <= m
      BY <1>1, <1>9, <2>1, CamSizes
    <2>3. n * k <= m * k /\ m * k \in Nat /\ m * k = k * m /\ n * k \in Nat
      BY <1>9, <2>2, Z3
    <2> QED BY <2>1, <2>3
  <1>11. Start(p, x) + o - 1 \in 0 .. m * TopK - 1
    BY <1>5, <1>6, <1>10
  <1>12. o \in 1 .. TopK * m
    BY <1>3, <1>7, <1>10
  <1> QED BY <1>5, <1>8, <1>11, <1>12 DEF Positions

(***************************************************************************)
(* Work items.                                                             *)
(***************************************************************************)
(* for each TP rank a number for each expert *)
CountsOK(n) == \A i \in 0 .. TP - 1 : \A e \in 0 .. Local - 1 : n[i][e] \in Nat

LEMMA TpCountsAre ==
    ASSUME NEW n, CountsOK(n)
    PROVE  /\ Numbers(TpCounts(n), 0, Local)
           /\ \A e \in 0 .. Local - 1 : /\ TpCounts(n)[e] = SumFrom(ForExpert(n, e), 0, TP)
                                        /\ TpCounts(n)[e] \in Nat
                                        /\ Numbers(ForExpert(n, e), 0, TP)
                                        /\ \A i \in 0 .. TP - 1 : ForExpert(n, e)[i] = n[i][e]
  <1>1. ASSUME NEW e \in 0 .. Local - 1
        PROVE  /\ TpCounts(n)[e] = SumFrom(ForExpert(n, e), 0, TP)
               /\ TpCounts(n)[e] \in Nat
               /\ Numbers(ForExpert(n, e), 0, TP)
               /\ \A i \in 0 .. TP - 1 : ForExpert(n, e)[i] = n[i][e]
    <2>1. \A i \in 0 .. TP - 1 : ForExpert(n, e)[i] = n[i][e] /\ n[i][e] \in Nat
      BY DEF ForExpert, CountsOK
    <2>2. Numbers(ForExpert(n, e), 0, TP)
      BY <2>1 DEF Numbers
    <2>3. SumFrom(ForExpert(n, e), 0, TP) \in Nat
      BY <2>2, CamSizes, SumNat
    <2> QED BY <2>1, <2>2, <2>3 DEF TpCounts
  <1> QED BY <1>1 DEF Numbers

(* the number of a cell among those of its expert *)
Inner(n, c) == SumFrom(ForExpert(n, c[2]), 0, c[1]) + c[3]

LEMMA InnerIs ==
    ASSUME NEW n, CountsOK(n), NEW first \in Nat, NEW last \in Nat, last < Local,
           NEW c \in Cells(n, first, last)
    PROVE  /\ c[1] \in 0 .. TP - 1 /\ c[2] \in first .. last /\ c[2] \in 0 .. Local - 1
           /\ c[3] \in 1 .. n[c[1]][c[2]] /\ c = <<c[1], c[2], c[3]>>
           /\ Inner(n, c) \in 1 .. TpCounts(n)[c[2]]
           /\ SumFrom(TpCounts(n), first, c[2]) \in Nat
           /\ ReceivedAt(n, first, c) = SumFrom(TpCounts(n), first, c[2]) + Inner(n, c)
  <1>1. /\ c[1] \in 0 .. TP - 1 /\ c[2] \in first .. last /\ c[3] \in 1 .. TopK * CeilDiv(MaxTokens, TP)
        /\ c[3] <= n[c[1]][c[2]] /\ c = <<c[1], c[2], c[3]>>
    BY DEF Cells
  <1>2. c[2] \in 0 .. Local - 1
    BY <1>1, CamSizes
  <1>3. n[c[1]][c[2]] \in Nat
    BY <1>1, <1>2 DEF CountsOK
  <1>4. c[3] \in 1 .. n[c[1]][c[2]]
    <2>1. PICK m : m = TopK * CeilDiv(MaxTokens, TP)
      OBVIOUS
    <2>2. c[3] \in 1 .. m
      BY <1>1, <2>1
    <2>3. c[3] \in Int /\ c[3] >= 1
      BY <2>2
    <2> QED BY <1>1, <1>3, <2>3
  <1>5. PICK h, i, e, o : h = ForExpert(n, c[2]) /\ i = c[1] /\ e = c[2] /\ o = c[3]
    OBVIOUS
  <1>6. /\ Numbers(h, 0, TP) /\ h[i] = n[i][e] /\ i \in Nat /\ 0 <= i /\ i < TP
        /\ TpCounts(n)[e] = SumFrom(h, 0, TP)
    BY <1>1, <1>2, <1>5, TpCountsAre, CamSizes
  <1>7. /\ SumFrom(h, 0, i) \in Nat /\ SumFrom(h, 0, TP) \in Nat
        /\ SumFrom(h, 0, i) + o <= SumFrom(h, 0, TP)
    BY <1>4, <1>5, <1>6, CamSizes, SumPlace
  <1>8. Inner(n, c) = SumFrom(h, 0, i) + o
    BY <1>5 DEF Inner
  <1>9. Inner(n, c) \in 1 .. TpCounts(n)[c[2]]
    BY <1>3, <1>4, <1>5, <1>6, <1>7, <1>8
  <1>10. Numbers(TpCounts(n), first, e)
    BY <1>2, <1>5, TpCountsAre, CamSizes DEF Numbers
  <1>11. SumFrom(TpCounts(n), first, e) \in Nat
    BY <1>2, <1>5, <1>10, SumNat
  <1>12. ReceivedAt(n, first, c) = SumFrom(TpCounts(n), first, c[2]) + Inner(n, c)
    <2>1. PICK r, s : r = SumFrom(TpCounts(n), first, c[2]) /\ s = SumFrom(ForExpert(n, c[2]), 0, c[1])
      OBVIOUS
    <2>2. r \in Nat /\ s \in Nat /\ c[3] \in Nat
      BY <1>3, <1>4, <1>5, <1>7, <1>11, <2>1
    <2>3. (r + s) + c[3] = r + (s + c[3])
      BY <2>2
    <2> QED BY <2>1, <2>3 DEF ReceivedAt, Inner
  <1> QED BY <1>1, <1>2, <1>4, <1>5, <1>9, <1>11, <1>12

(* A receive puts every row of a chunk, and each where no other is. *)
LEMMA ReceivedIn ==
    ASSUME NEW n, CountsOK(n), NEW first \in Nat, NEW last \in Nat, first <= last, last < Local,
           NEW c \in Cells(n, first, last)
    PROVE  ReceivedAt(n, first, c) \in 1 .. SumFrom(TpCounts(n), first, last + 1)
  <1>1. PICK h, k, o : h = TpCounts(n) /\ k = c[2] /\ o = Inner(n, c)
    OBVIOUS
  <1>2. /\ k \in first .. last /\ o \in 1 .. h[k] /\ SumFrom(h, first, k) \in Nat
        /\ ReceivedAt(n, first, c) = SumFrom(h, first, k) + o
    BY <1>1, InnerIs
  <1>3. Numbers(h, first, last + 1)
    BY <1>1, TpCountsAre, CamSizes DEF Numbers
  <1>4. k \in Nat /\ first <= k /\ k < last + 1 /\ last + 1 \in Nat
    BY <1>2
  <1>5. /\ h[k] \in Nat /\ SumFrom(h, first, last + 1) \in Nat
        /\ SumFrom(h, first, k) + o <= SumFrom(h, first, last + 1)
    BY <1>2, <1>3, <1>4, SumPlace
  <1> QED BY <1>1, <1>2, <1>5

LEMMA ReceivedApart ==
    ASSUME NEW n, CountsOK(n), NEW first \in Nat, NEW last \in Nat, first <= last, last < Local,
           NEW c \in Cells(n, first, last), NEW d \in Cells(n, first, last),
           ReceivedAt(n, first, c) = ReceivedAt(n, first, d)
    PROVE  c = d
  <1>1. PICK h, k, o, m, u : h = TpCounts(n) /\ k = c[2] /\ o = Inner(n, c) /\ m = d[2] /\ u = Inner(n, d)
    OBVIOUS
  <1>2. k \in first .. last /\ o \in 1 .. h[k] /\ m \in first .. last /\ u \in 1 .. h[m]
    BY <1>1, InnerIs
  <1>3. SumFrom(h, first, k) + o = SumFrom(h, first, m) + u
    BY <1>1, InnerIs
  <1>4. Numbers(h, first, last + 1)
    BY <1>1, TpCountsAre, CamSizes DEF Numbers
  <1>5. k \in Nat /\ first <= k /\ k < last + 1 /\ last + 1 \in Nat
    BY <1>2
  <1>6. m \in Nat /\ first <= m /\ m < last + 1
    BY <1>2
  <1>7. k = m /\ o = u
    BY <1>2, <1>3, <1>4, <1>5, <1>6, PlacesDiffer
  <1>8. PICK z : z = ForExpert(n, k)
    OBVIOUS
  <1>9. k \in 0 .. Local - 1
    BY <1>1, InnerIs
  <1>10. Numbers(z, 0, TP) /\ \A i \in 0 .. TP - 1 : z[i] = n[i][k]
    BY <1>8, <1>9, TpCountsAre
  <1>11. PICK i, j, v, w : i = c[1] /\ v = c[3] /\ j = d[1] /\ w = d[3]
    OBVIOUS
  <1>12. /\ i \in 0 .. TP - 1 /\ v \in 1 .. n[i][k] /\ c = <<i, k, v>>
         /\ j \in 0 .. TP - 1 /\ w \in 1 .. n[j][k] /\ d = <<j, k, w>>
    <2>1. i \in 0 .. TP - 1 /\ v \in 1 .. n[c[1]][c[2]] /\ c = <<c[1], c[2], c[3]>>
      BY <1>11, InnerIs
    <2>2. j \in 0 .. TP - 1 /\ w \in 1 .. n[d[1]][d[2]] /\ d = <<d[1], d[2], d[3]>>
      BY <1>11, InnerIs
    <2>3. c[1] = i /\ c[2] = k /\ c[3] = v /\ d[1] = j /\ d[2] = k /\ d[3] = w
      BY <1>1, <1>7, <1>11
    <2> QED BY <2>1, <2>2, <2>3
  <1>13. SumFrom(z, 0, i) + v = SumFrom(z, 0, j) + w
    BY <1>1, <1>7, <1>8, <1>11 DEF Inner
  <1>14. v \in 1 .. z[i] /\ w \in 1 .. z[j]
    BY <1>10, <1>12
  <1>15. i \in Nat /\ 0 <= i /\ i < TP /\ j \in Nat /\ 0 <= j /\ j < TP /\ TP \in Nat
    BY <1>12, CamSizes
  <1>16. i = j /\ v = w
    BY <1>10, <1>13, <1>14, <1>15, PlacesDiffer
  <1> QED BY <1>12, <1>16

(* A combine finds every row of its item where the receive has put it. *)
RowsReceived(n, first, last, w) ==
    LET cell(x) == CHOOSE c \in Cells(n, first, last) : ReceivedAt(n, first, c) = x
    IN  [x \in 1 .. SumFrom(TpCounts(n), first, last + 1) |->
            LET c == cell(x) IN w[c[1]][c[2]][c[3]]]

LEMMA RowOfCell ==
    ASSUME NEW n, CountsOK(n), NEW first \in Nat, NEW last \in Nat, first <= last, last < Local,
           NEW w, NEW it, it.counts = n, it.first = first, it.rows = RowsReceived(n, first, last, w),
           NEW c \in Cells(n, first, last)
    PROVE  RowsSent(it)[SentFrom(it, c)] = w[c[1]][c[2]][c[3]]
  <1>1. PICK x : x = ReceivedAt(n, first, c)
    OBVIOUS
  <1>2. SentFrom(it, c) = x
    BY <1>1 DEF SentFrom, ReceivedAt
  <1>3. PICK N : N = SumFrom(TpCounts(n), first, last + 1)
    OBVIOUS
  <1>4. x \in 1 .. N
    BY <1>1, <1>3, ReceivedIn
  <1>5. PICK d : d = CHOOSE b \in Cells(n, first, last) : ReceivedAt(n, first, b) = x
    OBVIOUS
  <1>6. d \in Cells(n, first, last) /\ ReceivedAt(n, first, d) = x
    BY <1>1, <1>5
  <1>7. d = c
    BY <1>1, <1>6, ReceivedApart
  <1>8. RowsReceived(n, first, last, w)[x] = w[d[1]][d[2]][d[3]]
    BY <1>3, <1>4, <1>5 DEF RowsReceived
  <1>9. DOMAIN it.rows = 1 .. N
    BY <1>3 DEF RowsReceived
  <1>10. it.rows /= <<>>
    <2>1. DOMAIN <<>> = {}
      OBVIOUS
    <2> QED BY <1>4, <1>9, <2>1
  <1> QED BY <1>2, <1>7, <1>8, <1>10 DEF RowsSent

(***************************************************************************)
(* Weights.                                                                *)
(***************************************************************************)
LEMMA LeastOf ==
    ASSUME NEW S \in SUBSET Nat, S /= {}
    PROVE  \E x \in S : \A y \in S : x <= y
  <1> DEFINE R == {ss \in Nat \X Nat : ss[1] < ss[2]}
  <1>1. IsWellFoundedOn(R, Nat)
    BY NatLessThanWellFounded DEF OpToRel
  <1>2. \A x, y \in Nat : x < y => <<x, y>> \in R
    OBVIOUS
  <1>3. PICK x \in S : \A y \in S : ~(<<y, x>> \in R)
    <2> HIDE DEF R
    <2> QED BY <1>1, WFMin, Zenon
  <1>4. \A y \in S : x <= y
    <2> SUFFICES ASSUME NEW y \in S PROVE x <= y
      OBVIOUS
    <2>1. x \in Nat /\ y \in Nat /\ ~(<<y, x>> \in R)
      BY <1>3
    <2>2. ~(y < x)
      <3> HIDE DEF R
      <3> QED BY <1>2, <2>1
    <2> QED BY <2>1, <2>2
  <1> QED BY <1>4

LEMMA MinOf ==
    ASSUME NEW S \in SUBSET Nat, S /= {}
    PROVE  Min(S) \in S /\ \A y \in S : Min(S) <= y
  BY LeastOf DEF Min

LEMMA MaxOf ==
    ASSUME NEW S \in SUBSET Nat, S /= {}, NEW b \in Nat, \A y \in S : y <= b
    PROVE  Max(S) \in S /\ \A y \in S : y <= Max(S)
  <1>1. PICK U : U = {b - y : y \in S}
    OBVIOUS
  <1>2. U \in SUBSET Nat /\ U /= {}
    <2>1. \A y \in S : b - y \in Nat
      OBVIOUS
    <2>2. PICK y : y \in S
      OBVIOUS
    <2>3. b - y \in U
      BY <1>1, <2>2
    <2> QED BY <1>1, <2>1, <2>3
  <1>3. PICK u \in U : \A v \in U : u <= v
    BY <1>2, LeastOf
  <1>4. PICK x \in S : u = b - x
    BY <1>1
  <1>5. \A y \in S : x >= y
    <2> SUFFICES ASSUME NEW y \in S PROVE x >= y
      OBVIOUS
    <2>1. u <= b - y
      BY <1>1, <1>3
    <2> QED BY <1>4, <2>1
  <1>6. \E z \in S : \A y \in S : z >= y
    BY <1>5
  <1>7. Max(S) \in S /\ \A y \in S : Max(S) >= y
    BY <1>6 DEF Max
  <1> QED BY <1>7

(* s goes through the numbers of S upwards *)
Rises(s, n, S) == s \in [1 .. n -> S] /\ \A i, j \in 1 .. n : i < j => s[i] < s[j]

LEMMA RisesExists ==
    ASSUME NEW S \in SUBSET Nat, IsFiniteSet(S)
    PROVE  \E s : Rises(s, Cardinality(S), S)
  <1> DEFINE T == {n \in Nat : \A U \in SUBSET Nat :
                      IsFiniteSet(U) /\ Cardinality(U) = n => \E s : Rises(s, n, U)}
  <1>1. 0 \in T
    <2>1. ASSUME NEW U \in SUBSET Nat PROVE \E s : Rises(s, 0, U)
      <3>1. 1 .. 0 = {}
        OBVIOUS
      <3>2. PICK s : s = [i \in {} |-> 0]
        OBVIOUS
      <3>3. s \in [{} -> U]
        BY <3>2
      <3> QED BY <3>1, <3>3 DEF Rises
    <2> QED BY <2>1
  <1>2. ASSUME NEW n \in Nat, n \in T PROVE n + 1 \in T
    <2> SUFFICES ASSUME NEW U \in SUBSET Nat, IsFiniteSet(U), Cardinality(U) = n + 1
                 PROVE  \E s : Rises(s, n + 1, U)
      OBVIOUS
    <2>1. U /= {}
      BY FS_EmptySet
    <2>2. PICK x \in U : \A y \in U : x <= y
      BY <2>1, LeastOf
    <2>3. PICK V : V = U \ {x}
      OBVIOUS
    <2>4. IsFiniteSet(V) /\ Cardinality(V) = n
      <3>1. IsFiniteSet(V) /\ Cardinality(V) = Cardinality(U) - 1
        BY <2>2, <2>3, FS_RemoveElement
      <3> QED BY <3>1
    <2>5. V \in SUBSET Nat
      BY <2>3
    <2>6. PICK s : Rises(s, n, V)
      BY <1>2, <2>4, <2>5
    <2>7. PICK r : r = [i \in 1 .. n + 1 |-> IF i = 1 THEN x ELSE s[i - 1]]
      OBVIOUS
    <2>8. \A i \in 1 .. n + 1 : i /= 1 => i - 1 \in 1 .. n
      OBVIOUS
    <2>9. \A i \in 1 .. n : s[i] \in U /\ s[i] \in Nat /\ x < s[i]
      <3> SUFFICES ASSUME NEW i \in 1 .. n PROVE s[i] \in U /\ s[i] \in Nat /\ x < s[i]
        OBVIOUS
      <3>1. s[i] \in V
        BY <2>6 DEF Rises
      <3>2. s[i] \in U /\ s[i] /= x
        BY <2>3, <3>1
      <3>3. s[i] \in Nat /\ x \in Nat /\ x <= s[i]
        BY <2>2, <3>2
      <3> QED BY <3>2, <3>3
    <2>10. r \in [1 .. n + 1 -> U]
      BY <2>7, <2>8, <2>9
    <2>11. ASSUME NEW i \in 1 .. n + 1, NEW j \in 1 .. n + 1, i < j PROVE r[i] < r[j]
      <3>1. j /= 1 /\ j - 1 \in 1 .. n /\ r[j] = s[j - 1]
        BY <2>7, <2>11
      <3>2. CASE i = 1
        BY <2>7, <2>9, <3>1, <3>2
      <3>3. CASE i /= 1
        <4>1. i - 1 \in 1 .. n /\ r[i] = s[i - 1] /\ i - 1 < j - 1
          BY <2>7, <2>11, <3>3
        <4>2. \A k, m \in 1 .. n : k < m => s[k] < s[m]
          BY <2>6 DEF Rises
        <4> QED BY <3>1, <4>1, <4>2
      <3> QED BY <3>2, <3>3
    <2>12. Rises(r, n + 1, U)
      BY <2>10, <2>11 DEF Rises
    <2> QED BY <2>12
  <1> HIDE DEF T
  <1>3. T = Nat
    <2>1. T \in SUBSET Nat
      BY DEF T
    <2> QED BY <1>1, <1>2, <2>1, NatLeast
  <1>4. Cardinality(S) \in T
    BY <1>3, FS_CardinalityType
  <1> QED BY <1>4 DEF T

(* ... which reaches all of them, *)
Reaches(s, n, S) == \A x \in S : \E i \in 1 .. n : s[i] = x

LEMMA RisesOnto ==
    ASSUME NEW S \in SUBSET Nat, IsFiniteSet(S), NEW n \in Nat, n = Cardinality(S), NEW s, Rises(s, n, S)
    PROVE  Reaches(s, n, S)
  <1>1. IsFiniteSet(1 .. n) /\ Cardinality(1 .. n) = n
    BY FS_Interval
  <1>2. s \in Injection(1 .. n, S)
    <2>1. ASSUME NEW i \in 1 .. n, NEW j \in 1 .. n, s[i] = s[j] PROVE i = j
      <3>1. s[i] \in Nat /\ s[j] \in Nat
        BY DEF Rises
      <3>2. ~(i < j) /\ ~(j < i)
        BY <2>1, <3>1 DEF Rises
      <3> QED BY <3>2
    <2>2. s \in [1 .. n -> S]
      BY DEF Rises
    <2> QED BY <2>1, <2>2 DEF Injection, IsInjective
  <1>3. s \in Surjection(1 .. n, S)
    BY <1>1, <1>2, FS_Injection
  <1> QED BY <1>3 DEF Surjection, Reaches

(* ... and, if they are those below n, counts. *)
LEMMA RisesCounts ==
    ASSUME NEW n \in Nat, NEW s, Rises(s, n, 0 .. n - 1), NEW i \in 1 .. n
    PROVE  s[i] = i - 1
  <1>1. \A k \in 1 .. n : s[k] \in 0 .. n - 1
    BY DEF Rises
  <1>2. \A k, m \in 1 .. n : k < m => s[k] < s[m]
    BY DEF Rises
  <1> DEFINE T == {k \in Nat : k + 1 <= n => s[k + 1] >= k}
             B == {k \in Nat : k < n => s[n - k] <= n - k - 1}
  <1>3. 0 \in T
    BY <1>1
  <1>4. ASSUME NEW k \in Nat, k \in T PROVE k + 1 \in T
    <2> SUFFICES ASSUME (k + 1) + 1 <= n PROVE s[(k + 1) + 1] >= k + 1
      OBVIOUS
    <2>1. k + 1 \in 1 .. n /\ (k + 1) + 1 \in 1 .. n
      OBVIOUS
    <2>2. s[k + 1] >= k
      BY <1>4
    <2>3. s[k + 1] < s[(k + 1) + 1] /\ s[k + 1] \in Int /\ s[(k + 1) + 1] \in Int
      BY <1>1, <1>2, <2>1
    <2> QED BY <2>2, <2>3
  <1>5. 0 \in B
    BY <1>1
  <1>6. ASSUME NEW k \in Nat, k \in B PROVE k + 1 \in B
    <2> SUFFICES ASSUME k + 1 < n PROVE s[n - (k + 1)] <= n - (k + 1) - 1
      OBVIOUS
    <2>1. PICK u, v : u = n - (k + 1) /\ v = n - k
      OBVIOUS
    <2>2. u \in 1 .. n /\ v \in 1 .. n /\ v = u + 1
      BY <2>1
    <2>3. s[v] <= v - 1
      BY <1>6, <2>1
    <2>4. s[u] < s[v] /\ s[u] \in Int /\ s[v] \in Int
      BY <1>1, <1>2, <2>2
    <2>5. s[u] <= u - 1
      BY <2>2, <2>3, <2>4
    <2> QED BY <2>1, <2>5
  <1> HIDE DEF T, B
  <1>7. T = Nat
    <2>1. T \in SUBSET Nat
      BY DEF T
    <2> QED BY <1>3, <1>4, <2>1, NatLeast
  <1>8. B = Nat
    <2>1. B \in SUBSET Nat
      BY DEF B
    <2> QED BY <1>5, <1>6, <2>1, NatLeast
  <1>9. s[i] >= i - 1
    <2>1. i - 1 \in T /\ (i - 1) + 1 = i
      BY <1>7
    <2> QED BY <2>1 DEF T
  <1>10. s[i] <= i - 1
    <2>1. n - i \in B /\ n - (n - i) = i
      BY <1>8
    <2> QED BY <2>1 DEF B
  <1> QED BY <1>1, <1>9, <1>10

(* Each layer is computed with its own weights. *)
LEMMA WeightsOf ==
    ASSUME NEW layer \in LayerIds
    PROVE  Weights(layer) = layer
  <1>1. LayerIds \in SUBSET Nat /\ IsFiniteSet(LayerIds)
    BY ForwardLayersAssumption
  <1>2. PICK n : n = Cardinality(LayerIds)
    OBVIOUS
  <1>3. n \in Nat
    BY <1>1, <1>2, FS_CardinalityType
  <1>4. PICK s : s = SlotLayers
    OBVIOUS
  <1>5. Rises(s, n, LayerIds)
    <2>1. PICK r : Rises(r, n, LayerIds)
      BY <1>1, <1>2, RisesExists
    <2>2. r \in [1 .. n -> LayerIds] /\ \A i, j \in DOMAIN r : i < j => r[i] < r[j]
      BY <2>1 DEF Rises
    <2>3. s = CHOOSE x \in [1 .. n -> LayerIds] : \A i, j \in DOMAIN x : i < j => x[i] < x[j]
      BY <1>2, <1>4 DEF SlotLayers
    <2>4. s \in [1 .. n -> LayerIds] /\ \A i, j \in DOMAIN s : i < j => s[i] < s[j]
      BY <2>2, <2>3
    <2> QED BY <2>4 DEF Rises
  <1>6. Len(s) = n
    BY <1>3, <1>5 DEF Rises
  <1>7. CASE Direct
    <2>1. LayerIds = 0 .. n - 1
      BY <1>2, <1>7 DEF Direct
    <2>2. layer + 1 \in 1 .. n /\ layer \in Int /\ layer < n
      BY <1>3, <2>1
    <2>3. s[layer + 1] = layer
      BY <1>3, <1>5, <2>1, <2>2, RisesCounts
    <2>4. SlotOf(layer) = layer
      BY <1>7 DEF SlotOf
    <2> QED BY <1>4, <1>6, <2>2, <2>3, <2>4 DEF Weights
  <1>8. CASE ~Direct
    <2>1. \E i \in 1 .. n : s[i] = layer
      <3>1. PICK S : S = LayerIds
        OBVIOUS
      <3>2. \A x \in S : \E i \in 1 .. n : s[i] = x
        <4>1. S \in SUBSET Nat /\ IsFiniteSet(S) /\ n = Cardinality(S) /\ Rises(s, n, S)
          BY <1>1, <1>2, <1>5, <3>1
        <4>2. Reaches(s, n, S)
          BY <1>3, <4>1, RisesOnto
        <4> QED BY <4>2 DEF Reaches
      <3> QED BY <3>1, <3>2
    <2>2. PICK x \in 0 .. n - 1 : s[x + 1] = layer
      <3>1. PICK i \in 1 .. n : s[i] = layer
        BY <2>1
      <3>2. i - 1 \in 0 .. n - 1 /\ (i - 1) + 1 = i
        BY <1>3
      <3> QED BY <3>1, <3>2
    <2>3. PICK q : q = SlotOf(layer)
      OBVIOUS
    <2>4. q = CHOOSE y \in 0 .. n - 1 : s[y + 1] = layer
      BY <1>4, <1>6, <1>8, <2>3 DEF SlotOf
    <2>5. q \in 0 .. n - 1 /\ s[q + 1] = layer
      BY <2>2, <2>4
    <2>6. q < n
      BY <1>3, <2>5
    <2> QED BY <1>4, <1>6, <2>3, <2>5, <2>6 DEF Weights
  <1> QED BY <1>7, <1>8

(***************************************************************************)
(* Sequences of any elements.                                              *)
(***************************************************************************)
IsSequence(s) == \E n \in Nat : s = [i \in 1 .. n |-> s[i]]

LEMMA SequenceOf ==
    ASSUME NEW s, IsSequence(s), NEW e
    PROVE  \E T : s \in Seq(T) /\ e \in T
  <1> PICK n \in Nat : s = [i \in 1 .. n |-> s[i]]
    BY DEF IsSequence
  <1> DEFINE T == {s[i] : i \in 1 .. n} \cup {e}
  <1>1. s \in [1 .. n -> T]
    OBVIOUS
  <1>2. s \in Seq(T)
    <2> HIDE DEF T
    <2> QED BY <1>1
  <1> QED BY <1>2

(* A sequence of any elements has a length, and is empty if that is 0. *)
LEMMA SequenceLen ==
    ASSUME NEW s, IsSequence(s)
    PROVE  Len(s) \in Nat /\ DOMAIN s = 1 .. Len(s) /\ (s = <<>> <=> Len(s) = 0)
  <1> PICK T : s \in Seq(T)
    BY SequenceOf
  <1> QED BY LenProperties, EmptySeq

(* The empty sequence, and its length. *)
LEMMA EmptySequence == IsSequence(<<>>) /\ Len(<<>>) = 0
  <1>1. <<>> = [i \in 1 .. 0 |-> <<>>[i]]
    OBVIOUS
  <1> QED BY <1>1 DEF IsSequence

(* A sequence over a set is one of any elements. *)
LEMMA IsSequenceOf == ASSUME NEW T, NEW s \in Seq(T) PROVE IsSequence(s)
  <1> PICK n \in Nat : s \in [1 .. n -> T]
    OBVIOUS
  <1>1. s = [i \in 1 .. n |-> s[i]]
    OBVIOUS
  <1> QED BY <1>1 DEF IsSequence

(* What Append does to a sequence of any elements. *)
LEMMA SequenceAppend ==
    ASSUME NEW s, IsSequence(s), NEW e
    PROVE  /\ IsSequence(Append(s, e)) /\ Len(Append(s, e)) = Len(s) + 1
           /\ \A i \in 1 .. Len(s) : Append(s, e)[i] = s[i]
           /\ Append(s, e)[Len(s) + 1] = e
  <1> PICK T : s \in Seq(T) /\ e \in T
    BY SequenceOf
  <1>1. /\ Append(s, e) \in Seq(T) /\ Len(Append(s, e)) = Len(s) + 1
        /\ Append(s, e)[Len(s) + 1] = e
    BY AppendProperties
  <1>2. \A i \in 1 .. Len(s) : Append(s, e)[i] = s[i]
    BY AppendProperties
  <1>3. IsSequence(Append(s, e))
    BY <1>1, IsSequenceOf
  <1> QED BY <1>1, <1>2, <1>3

(* What Head and Tail return of a non-empty one. *)
LEMMA SequenceTail ==
    ASSUME NEW s, IsSequence(s), s /= <<>>
    PROVE  /\ Len(s) > 0 /\ Head(s) = s[1]
           /\ IsSequence(Tail(s)) /\ Len(Tail(s)) = Len(s) - 1
           /\ \A i \in 1 .. Len(s) - 1 : Tail(s)[i] = s[i + 1]
  <1> PICK T : s \in Seq(T)
    BY SequenceOf
  <1>1. /\ Tail(s) \in Seq(T) /\ Len(Tail(s)) = Len(s) - 1
        /\ \A i \in 1 .. Len(Tail(s)) : Tail(s)[i] = s[i + 1]
    BY HeadTailProperties
  <1>2. Len(s) \in Nat /\ Len(s) > 0 /\ Head(s) = s[1]
    BY SequenceLen
  <1> QED BY <1>1, <1>2, IsSequenceOf

(***************************************************************************)
(* Token layouts.                                                          *)
(***************************************************************************)
Flattens(f, s, m) == f = [i \in 1 .. m |-> IF i = 1 THEN s[i] ELSE f[i - 1] \o s[i]]

LEMMA FlattensExists ==
    ASSUME NEW s, NEW m \in Nat
    PROVE  \E f : Flattens(f, s, m)
  <1> DEFINE T == {n \in Nat : \E f : Flattens(f, s, n)}
  <1>1. 0 \in T
    <2>1. PICK f : f = [i \in 1 .. 0 |-> IF i = 1 THEN s[i] ELSE s[i]]
      OBVIOUS
    <2>2. 1 .. 0 = {}
      OBVIOUS
    <2>3. f = [i \in 1 .. 0 |-> IF i = 1 THEN s[i] ELSE f[i - 1] \o s[i]]
      BY <2>1, <2>2
    <2> QED BY <2>3 DEF Flattens
  <1>2. ASSUME NEW n \in Nat, n \in T PROVE n + 1 \in T
    <2>1. PICK f : Flattens(f, s, n)
      BY <1>2
    <2>2. PICK g : g = [i \in 1 .. n + 1 |->
                          IF i = 1 THEN s[i]
                          ELSE IF i = n + 1 THEN f[n] \o s[i] ELSE f[i]]
      OBVIOUS
    <2>3. ASSUME NEW i \in 1 .. n PROVE g[i] = f[i]
      <3>1. i \in 1 .. n + 1 /\ i /= n + 1
        OBVIOUS
      <3>2. f[i] = IF i = 1 THEN s[i] ELSE f[i - 1] \o s[i]
        BY <2>1 DEF Flattens
      <3> QED BY <2>2, <3>1, <3>2
    <2>4. ASSUME NEW i \in 1 .. n + 1
          PROVE  g[i] = IF i = 1 THEN s[i] ELSE g[i - 1] \o s[i]
      <3>1. CASE i = 1
        BY <2>2, <3>1
      <3>2. CASE i = n + 1 /\ i /= 1
        <4>1. n \in 1 .. n /\ i - 1 = n
          BY <3>2
        <4>2. g[i - 1] = f[n]
          BY <2>3, <4>1
        <4>3. g[i] = f[n] \o s[i]
          BY <2>2, <3>2
        <4> QED BY <3>2, <4>2, <4>3
      <3>3. CASE i \in 1 .. n /\ i /= 1
        <4>1. i - 1 \in 1 .. n
          BY <3>3
        <4>2. g[i - 1] = f[i - 1] /\ g[i] = f[i]
          BY <2>3, <3>3, <4>1
        <4>3. f[i] = f[i - 1] \o s[i]
          BY <2>1, <3>3 DEF Flattens
        <4> QED BY <3>3, <4>2, <4>3
      <3>4. i \in 1 .. n \/ i = n + 1
        OBVIOUS
      <3> QED BY <3>1, <3>2, <3>3, <3>4
    <2>5. g = [i \in 1 .. n + 1 |-> g[i]]
      BY <2>2
    <2>6. Flattens(g, s, n + 1)
      BY <2>4, <2>5 DEF Flattens
    <2> QED BY <2>6
  <1> HIDE DEF T
  <1>3. T = Nat
    <2>1. T \in SUBSET Nat
      BY DEF T
    <2> QED BY <1>1, <1>2, <2>1, NatLeast
  <1>4. m \in T
    BY <1>3
  <1> QED BY <1>4 DEF T

(* FlattenSeq is what it recurses to. *)
LEMMA FlattenSeqIs ==
    ASSUME NEW N \in Nat \ {0}, NEW s, Len(s) = N
    PROVE  \E f : Flattens(f, s, N) /\ FlattenSeq(s) = f[N]
  <1> DEFINE f == CHOOSE f : f = [i \in 1 .. N |->
                                     IF i = 1 THEN s[i] ELSE f[i - 1] \o s[i]]
  <1>1. FlattenSeq(s) = f[N]
    BY DEF FlattenSeq
  <1>2. \E h : h = [i \in 1 .. N |-> IF i = 1 THEN s[i] ELSE h[i - 1] \o s[i]]
    BY FlattensExists DEF Flattens
  <1>3. f = [i \in 1 .. N |-> IF i = 1 THEN s[i] ELSE f[i - 1] \o s[i]]
    BY <1>2, ZenonT(40)
  <1>4. Flattens(f, s, N)
    BY <1>3 DEF Flattens
  <1> QED BY <1>1, <1>4

LEMMA CardIs ==
    ASSUME NEW g \in Gs, NEW i \in 0 .. TP - 1
    PROVE  /\ Card(g, i) \in Attns /\ GroupOf(Card(g, i)) = g /\ TpRank(Card(g, i)) = i
           /\ Card(g, i) \in Members(g)
  <1>1. g \in Nat /\ g + 1 <= Groups /\ i \in Nat /\ i < TP /\ TP \in Nat \ {0} /\ Groups \in Nat
    BY CamSizes DEF Gs
  <1>2. (g * TP + i) \div TP = g /\ (g * TP + i) % TP = i
    BY <1>1, Z3
  <1>3. g * TP + i \in 0 .. Groups * TP - 1
    BY <1>1, Z3
  <1> QED BY <1>2, <1>3 DEF Card, GroupOf, TpRank, Attns, Members

LEMMA RankIs ==
    ASSUME NEW a \in Attns
    PROVE  /\ GroupOf(a) \in Gs /\ TpRank(a) \in 0 .. TP - 1
           /\ a = Card(GroupOf(a), TpRank(a)) /\ a \in Members(GroupOf(a))
  <1>1. a \in Nat /\ a < Groups * TP /\ TP \in Nat \ {0} /\ Groups \in Nat
    <2>1. Groups * TP \in Nat
      BY CamSizes
    <2> QED BY <2>1, CamSizes DEF Attns
  <1>2. PICK q, r : q = a \div TP /\ r = a % TP
    OBVIOUS
  <1>3. q \in Nat /\ r \in 0 .. TP - 1 /\ a = q * TP + r
    BY <1>1, <1>2, Z3
  <1>4. q < Groups
    <2>1. ~(q >= Groups)
      BY <1>1, <1>3, Z3
    <2> QED BY <1>1, <1>3, <2>1
  <1>5. q \in Gs
    BY <1>1, <1>3, <1>4 DEF Gs
  <1> QED BY <1>2, <1>3, <1>5 DEF Card, GroupOf, TpRank, Members

LEMMA MemberIs ==
    ASSUME NEW g \in Gs, NEW a \in Members(g)
    PROVE  a \in Attns /\ GroupOf(a) = g /\ TpRank(a) \in 0 .. TP - 1 /\ a = Card(g, TpRank(a))
  <1>1. a \in Attns /\ GroupOf(a) = g
    BY DEF Members
  <1> QED BY <1>1, RankIs

(* A batch is padded by less than one token for each rank. *)
LEMMA PaddedLen ==
    ASSUME NEW n \in Nat, NEW m, m = LocalTokens(n)
    PROVE  m \in Nat /\ m * TP \in Nat /\ n <= m * TP /\ m * TP <= n + TP - 1
  <1>1. TP \in Nat \ {0}
    BY CamSizes
  <1>2. PICK x : x = n + TP - 1
    OBVIOUS
  <1>3. x \in Nat
    BY <1>1, <1>2
  <1>4. m = x \div TP
    BY <1>2 DEF LocalTokens, CeilDiv
  <1>5. m \in Nat /\ TP * m <= x /\ x < TP * m + TP
    BY <1>1, <1>3, <1>4, Z3
  <1>6. m * TP = TP * m /\ m * TP \in Nat
    BY <1>1, <1>5, Z3
  <1> QED BY <1>1, <1>2, <1>5, <1>6

(* The block of rank i is inside. *)
LEMMA BlockIn ==
    ASSUME NEW m \in Nat, NEW i \in 0 .. TP - 1
    PROVE  /\ i * m \in Nat /\ (i + 1) * m = i * m + m /\ (i + 1) * m <= m * TP /\ (i + 1) * m \in Nat
           /\ m * TP \in Nat
  <1>1. TP \in Nat \ {0} /\ i \in Nat /\ i + 1 <= TP
    BY CamSizes
  <1> QED BY <1>1, Z3

(* n tokens padded to m for each rank *)
Padded(n) == PadFirstDim(Fresh(n), LocalTokens(n) * TP, 0)
BlockOfBatch(n, a) ==
    SubSeq(Padded(n), TpRank(a) * LocalTokens(n) + 1, (TpRank(a) + 1) * LocalTokens(n))

LEMMA PaddedIs ==
    ASSUME NEW n \in Nat, NEW m, m = LocalTokens(n)
    PROVE  /\ Padded(n) \in Seq(0 .. n) /\ Len(Padded(n)) = m * TP
           /\ \A i \in 1 .. m * TP : Padded(n)[i] = IF i <= n THEN i ELSE 0
  <1>1. m * TP \in Nat
    BY PaddedLen
  <1>2. Len(Fresh(n)) = n
    BY DEF Fresh
  <1>3. Padded(n) = [i \in 1 .. m * TP |-> IF i <= n THEN Fresh(n)[i] ELSE 0]
    BY <1>2 DEF Padded, PadFirstDim
  <1>4. \A i \in 1 .. m * TP : i <= n => Fresh(n)[i] = i
    BY <1>1 DEF Fresh
  <1>5. PICK M : M = m * TP
    OBVIOUS
  <1>6. \A i \in 1 .. M : Padded(n)[i] = IF i <= n THEN i ELSE 0
    BY <1>3, <1>4, <1>5
  <1>7. Padded(n) \in [1 .. M -> 0 .. n]
    <2>1. Padded(n) = [i \in 1 .. M |-> Padded(n)[i]]
      BY <1>3, <1>5
    <2>2. \A i \in 1 .. M : Padded(n)[i] \in 0 .. n
      BY <1>1, <1>5, <1>6
    <2> QED BY <2>1, <2>2
  <1> QED BY <1>1, <1>5, <1>6, <1>7

LEMMA BlockOfBatchIs ==
    ASSUME NEW n \in Nat, NEW a \in Attns, NEW m, m = LocalTokens(n)
    PROVE  /\ BlockOfBatch(n, a) \in Seq(0 .. n) /\ Len(BlockOfBatch(n, a)) = m
           /\ \A q \in 1 .. m : /\ TpRank(a) * m + q \in 1 .. m * TP
                                /\ BlockOfBatch(n, a)[q] = Padded(n)[TpRank(a) * m + q]
  <1>1. PICK i, x, y, p : i = TpRank(a) /\ x = i * m /\ y = (i + 1) * m /\ p = Padded(n)
    OBVIOUS
  <1>2. m \in Nat /\ i \in 0 .. TP - 1
    BY <1>1, PaddedLen, RankIs
  <1>3. x \in Nat /\ y = x + m /\ y <= m * TP /\ m * TP \in Nat
    BY <1>1, <1>2, BlockIn
  <1>4. p \in Seq(0 .. n) /\ Len(p) = m * TP
    BY <1>1, PaddedIs
  <1>5. \A k \in x + 1 .. y : p[k] \in 0 .. n
    BY <1>3, <1>4
  <1>6. BlockOfBatch(n, a) = SubSeq(p, x + 1, y)
    BY <1>1 DEF BlockOfBatch
  <1>7. /\ SubSeq(p, x + 1, y) \in Seq(0 .. n)
        /\ Len(SubSeq(p, x + 1, y)) = IF x + 1 <= y THEN y - (x + 1) + 1 ELSE 0
        /\ \A q \in 1 .. y - (x + 1) + 1 : SubSeq(p, x + 1, y)[q] = p[x + 1 + q - 1]
    BY <1>3, <1>5, SubSeqProperties
  <1>8. Len(SubSeq(p, x + 1, y)) = m
    BY <1>2, <1>3, <1>7
  <1>9. ASSUME NEW q \in 1 .. m
        PROVE  x + q \in 1 .. m * TP /\ SubSeq(p, x + 1, y)[q] = p[x + q]
    <2>1. q \in 1 .. y - (x + 1) + 1 /\ x + 1 + q - 1 = x + q
      BY <1>2, <1>3
    <2>2. SubSeq(p, x + 1, y)[q] = p[x + 1 + q - 1]
      BY <1>7, <2>1
    <2> QED BY <1>2, <1>3, <2>1, <2>2
  <1> QED BY <1>1, <1>6, <1>7, <1>8, <1>9

(* Blocks one after the other are what was cut. *)
CutInto(x, T, N, m, parts) ==
    /\ N \in Nat \ {0} /\ m \in Nat /\ x \in Seq(T) /\ Len(x) = m * N /\ Len(parts) = N
    /\ \A i \in 0 .. N - 1 : parts[i + 1] = SubSeq(x, i * m + 1, (i + 1) * m)

LEMMA FlattenBlocks ==
    ASSUME NEW x, NEW T, NEW N, NEW m, NEW parts, CutInto(x, T, N, m, parts)
    PROVE  FlattenSeq(parts) = x
  <1>0. /\ N \in Nat \ {0} /\ m \in Nat /\ x \in Seq(T) /\ Len(x) = m * N /\ Len(parts) = N
        /\ \A i \in 0 .. N - 1 : parts[i + 1] = SubSeq(x, i * m + 1, (i + 1) * m)
    BY DEF CutInto
  <1>1. PICK f : Flattens(f, parts, N) /\ FlattenSeq(parts) = f[N]
    BY <1>0, FlattenSeqIs
  <1>2. ASSUME NEW i \in 0 .. N - 1
        PROVE  /\ i * m \in Nat /\ (i + 1) * m = i * m + m /\ (i + 1) * m <= m * N
               /\ (i + 1) * m \in Nat /\ m * N \in Nat
    <2>1. i \in Nat /\ i + 1 <= N
      BY <1>0
    <2> QED BY <1>0, <2>1, Z3
  <1> DEFINE S == {k \in Nat : k + 1 <= N => f[k + 1] = SubSeq(x, 1, (k + 1) * m)}
  <1>3. 0 \in S
    <2>1. 1 \in 1 .. N /\ 0 \in 0 .. N - 1
      BY <1>0
    <2>2. f[1] = parts[1]
      BY <1>1, <2>1 DEF Flattens
    <2>3. parts[0 + 1] = SubSeq(x, 0 * m + 1, (0 + 1) * m)
      BY <1>0, <2>1
    <2>4. 0 * m + 1 = 1 /\ 0 + 1 = 1
      BY <1>0
    <2> QED BY <2>2, <2>3, <2>4
  <1>4. ASSUME NEW k \in Nat, k \in S PROVE k + 1 \in S
    <2> SUFFICES ASSUME (k + 1) + 1 <= N
                 PROVE  f[(k + 1) + 1] = SubSeq(x, 1, ((k + 1) + 1) * m)
      OBVIOUS
    <2>1. k + 1 \in 0 .. N - 1 /\ k \in 0 .. N - 1 /\ (k + 1) + 1 \in 1 .. N
          /\ (k + 1) + 1 /= 1 /\ ((k + 1) + 1) - 1 = k + 1
      BY <1>0
    <2>2. PICK u, v : u = (k + 1) * m /\ v = ((k + 1) + 1) * m
      OBVIOUS
    <2>3. u \in Nat /\ v \in Nat /\ v = u + m /\ v <= m * N /\ m * N \in Nat
      BY <1>2, <2>1, <2>2
    <2>4. f[k + 1] = SubSeq(x, 1, u)
      <3>1. k + 1 <= N
        BY <1>0, <2>1
      <3>2. f[k + 1] = SubSeq(x, 1, (k + 1) * m)
        BY <1>4, <3>1
      <3> QED BY <2>2, <3>2
    <2>5. parts[(k + 1) + 1] = SubSeq(x, u + 1, v)
      BY <1>0, <2>1, <2>2
    <2>6. f[(k + 1) + 1] = f[k + 1] \o parts[(k + 1) + 1]
      BY <1>1, <2>1 DEF Flattens
    <2>7. SubSeq(x, 1, u) \o SubSeq(x, u + 1, v) = SubSeq(x, 1, v)
      <3>1. 1 \in 1 .. Len(x) + 1 /\ u \in 1 - 1 .. Len(x) /\ v \in u .. Len(x)
        BY <1>0, <2>3
      <3> QED BY <1>0, <3>1, ConcatAdjacentSubSeq
    <2> QED BY <2>2, <2>4, <2>5, <2>6, <2>7
  <1> HIDE DEF S
  <1>5. S = Nat
    <2>1. S \in SUBSET Nat
      BY DEF S
    <2> QED BY <1>3, <1>4, <2>1, NatLeast
  <1>6. f[N] = SubSeq(x, 1, N * m)
    <2>1. N - 1 \in S /\ (N - 1) + 1 = N
      BY <1>0, <1>5
    <2> QED BY <2>1 DEF S
  <1>7. N * m = Len(x)
    BY <1>0, Z3
  <1> QED BY <1>0, <1>1, <1>6, <1>7, SubSeqFull

(* Every rank of a group can have the batch from the blocks of the ranks. *)
LEMMA GatherIs ==
    ASSUME NEW g \in Gs, NEW n \in Nat, NEW part,
           \A i \in 0 .. TP - 1 : part[Card(g, i)] = BlockOfBatch(n, Card(g, i))
    PROVE  SubSeq(Gather(g, part), 1, n) = Fresh(n)
  <1>1. PICK m, x, parts : m = LocalTokens(n) /\ x = Padded(n)
                           /\ parts = [i \in 1 .. TP |-> part[Card(g, i - 1)]]
    OBVIOUS
  <1>2. m \in Nat /\ m * TP \in Nat /\ n <= m * TP
    BY <1>1, PaddedLen
  <1>3. x \in Seq(0 .. n) /\ Len(x) = m * TP /\ \A i \in 1 .. m * TP : x[i] = IF i <= n THEN i ELSE 0
    BY <1>1, PaddedIs
  <1>4. Len(parts) = TP
    BY <1>1, CamSizes
  <1>5. ASSUME NEW i \in 0 .. TP - 1
        PROVE  parts[i + 1] = SubSeq(x, i * m + 1, (i + 1) * m)
    <2>1. i + 1 \in 1 .. TP /\ (i + 1) - 1 = i
      BY CamSizes
    <2>2. parts[i + 1] = part[Card(g, (i + 1) - 1)]
      BY <1>1, <2>1
    <2>3. part[Card(g, i)] = BlockOfBatch(n, Card(g, i))
      OBVIOUS
    <2>4. TpRank(Card(g, i)) = i
      BY CardIs
    <2> QED BY <1>1, <2>1, <2>2, <2>3, <2>4 DEF BlockOfBatch
  <1>6. FlattenSeq(parts) = x
    <2>1. CutInto(x, 0 .. n, TP, m, parts)
      BY <1>2, <1>3, <1>4, <1>5, CamSizes DEF CutInto
    <2> QED BY <2>1, FlattenBlocks
  <1>7. Gather(g, part) = x
    BY <1>1, <1>6 DEF Gather
  <1>8. PICK y : y = SubSeq(x, 1, n)
    OBVIOUS
  <1>9. \A i \in 1 .. n : x[i] \in 0 .. n /\ x[i] = i
    <2> SUFFICES ASSUME NEW i \in 1 .. n PROVE x[i] \in 0 .. n /\ x[i] = i
      OBVIOUS
    <2>1. i \in 1 .. m * TP /\ i <= n
      BY <1>2
    <2> QED BY <1>3, <2>1
  <1>10. /\ y \in Seq(0 .. n) /\ Len(y) = IF 1 <= n THEN n - 1 + 1 ELSE 0
         /\ \A i \in 1 .. n - 1 + 1 : y[i] = x[1 + i - 1]
    BY <1>8, <1>9, SubSeqProperties
  <1>11. Len(y) = n
    BY <1>10
  <1>12. \A i \in 1 .. n : y[i] = i
    <2> SUFFICES ASSUME NEW i \in 1 .. n PROVE y[i] = i
      OBVIOUS
    <2>1. i \in 1 .. n - 1 + 1 /\ 1 + i - 1 = i
      OBVIOUS
    <2> QED BY <1>9, <1>10, <2>1
  <1>13. y = [i \in 1 .. n |-> i]
    <2>1. y = [i \in 1 .. n |-> y[i]]
      BY <1>10, <1>11
    <2> QED BY <1>12, <2>1
  <1> QED BY <1>7, <1>8, <1>13 DEF Fresh

(* What a rank holds before a MoE layer, and what it dispatches in it. *)
Toks(p) == [q \in 1 .. Len(p) |-> p[q].tok]
Holding(n, a) == IF sp /\ TP > 1 THEN BlockOfBatch(n, a) ELSE Fresh(n)
Sent(n, a) == IF TP > 1 THEN BlockOfBatch(n, a) ELSE Fresh(n)
Prepared(n, a, p) == p \in Seq(Row) /\ Toks(p) = Sent(n, a)

Routed(toks, first, route) ==
    [q \in 1 .. Len(toks) |-> [tok |-> toks[q], ids |-> route[first + q]]]

LEMMA RoutedIs ==
    ASSUME NEW toks \in Seq(Nat), NEW first, NEW route,
           \A q \in 1 .. Len(toks) : route[first + q] \in [1 .. TopK -> Experts],
           NEW rows, rows = Routed(toks, first, route)
    PROVE  /\ rows \in Seq(Row) /\ Len(rows) = Len(toks) /\ Toks(rows) = toks
           /\ \A q \in 1 .. Len(toks) : rows[q].tok = toks[q]
  <1>1. PICK n : n = Len(toks)
    OBVIOUS
  <1>2. n \in Nat /\ toks \in [1 .. n -> Nat]
    BY <1>1
  <1>3. ASSUME NEW q \in 1 .. n PROVE rows[q] \in Row /\ rows[q].tok = toks[q]
    <2>1. rows[q] = [tok |-> toks[q], ids |-> route[first + q]]
      BY <1>1 DEF Routed
    <2>2. toks[q] \in Nat /\ route[first + q] \in [1 .. TopK -> Experts]
      BY <1>1, <1>2
    <2> QED BY <2>1, <2>2 DEF Row
  <1>4. rows = [q \in 1 .. n |-> rows[q]]
    BY <1>1 DEF Routed
  <1>5. rows \in [1 .. n -> Row]
    BY <1>3, <1>4
  <1>6. rows \in Seq(Row) /\ Len(rows) = n
    BY <1>2, <1>5
  <1>7. Toks(rows) = toks
    <2>1. Toks(rows) = [q \in 1 .. n |-> rows[q].tok]
      BY <1>6 DEF Toks
    <2>2. toks = [q \in 1 .. n |-> toks[q]]
      BY <1>2
    <2> QED BY <1>3, <2>1, <2>2
  <1> QED BY <1>1, <1>3, <1>6, <1>7

(* The router has an answer for each row of a batch. *)
LEMMA RouteIs ==
    ASSUME NEW route \in Routings, NEW q \in 1 .. MaxTokens + TP
    PROVE  route[q] \in [1 .. TopK -> Experts]
  BY InputsAssumption

LEMMA FreshIs ==
    ASSUME NEW n \in Nat
    PROVE  /\ Fresh(n) \in Seq(Nat) /\ Len(Fresh(n)) = n /\ \A i \in 1 .. n : Fresh(n)[i] = i
  <1>1. Fresh(n) \in [1 .. n -> Nat]
    BY DEF Fresh
  <1> QED BY <1>1 DEF Fresh

ZeroRow == [tok |-> 0, ids |-> Zeros]

(* A rank of plain tensor parallelism cuts its block of the padded rows. *)
Numbered(rows, n) == rows \in Seq(Row) /\ Len(rows) = n /\ \A q \in 1 .. n : rows[q].tok = q
Cut(rows, a, m) == SubSeq(PadFirstDim(rows, m * TP, ZeroRow), TpRank(a) * m + 1, (TpRank(a) + 1) * m)
IsBlock(p, n, a) == p \in Seq(Row) /\ Toks(p) = BlockOfBatch(n, a)

LEMMA CutRows ==
    ASSUME NEW n \in Nat, NEW a \in Attns, NEW m, m = LocalTokens(n), NEW rows, Numbered(rows, n),
           NEW p, p = Cut(rows, a, m)
    PROVE  IsBlock(p, n, a)
  <1>0. rows \in Seq(Row) /\ Len(rows) = n /\ \A q \in 1 .. n : rows[q].tok = q
    BY DEF Numbered
  <1>1. PICK x, M, i : x = PadFirstDim(rows, m * TP, ZeroRow) /\ M = m * TP /\ i = TpRank(a)
    OBVIOUS
  <1>2. PICK lo, hi : lo = i * m /\ hi = (i + 1) * m
    OBVIOUS
  <1>3. m \in Nat /\ M \in Nat /\ n <= M /\ i \in 0 .. TP - 1
    BY <1>1, PaddedLen, RankIs
  <1>4. lo \in Nat /\ hi = lo + m /\ hi <= M
    BY <1>1, <1>2, <1>3, BlockIn
  <1>5. ZeroRow \in Row /\ ZeroRow.tok = 0
    <2>1. Zeros \in [1 .. TopK -> Experts]
      <3>1. 0 \in Experts
        BY ExpertsAre
      <3> QED BY <3>1 DEF Zeros
    <2> QED BY <2>1 DEF ZeroRow, Row
  <1>6. ASSUME NEW k \in 1 .. M
        PROVE  x[k] \in Row /\ x[k].tok = IF k <= n THEN k ELSE 0
    <2>1. x[k] = IF k <= n THEN rows[k] ELSE ZeroRow
      BY <1>0, <1>1 DEF PadFirstDim
    <2>2. CASE k <= n
      <3>1. k \in 1 .. n
        BY <1>3, <2>2
      <3>2. rows[k] \in Row /\ rows[k].tok = k
        BY <1>0, <3>1
      <3> QED BY <2>1, <2>2, <3>2
    <2>3. CASE ~(k <= n)
      BY <1>5, <2>1, <2>3
    <2> QED BY <2>2, <2>3
  <1>7. p = SubSeq(x, lo + 1, hi)
    BY <1>1, <1>2 DEF Cut
  <1>8. \A k \in lo + 1 .. hi : x[k] \in Row
    <2> SUFFICES ASSUME NEW k \in lo + 1 .. hi PROVE x[k] \in Row
      OBVIOUS
    <2>1. k \in 1 .. M
      BY <1>3, <1>4
    <2> QED BY <1>6, <2>1
  <1>9. /\ p \in Seq(Row) /\ Len(p) = IF lo + 1 <= hi THEN hi - (lo + 1) + 1 ELSE 0
        /\ \A q \in 1 .. hi - (lo + 1) + 1 : p[q] = x[lo + 1 + q - 1]
    <2>1. PICK l : l = lo + 1
      OBVIOUS
    <2>2. l \in Int /\ hi \in Int /\ \A k \in l .. hi : x[k] \in Row
      BY <1>3, <1>4, <1>8, <2>1
    <2>3. /\ SubSeq(x, l, hi) \in Seq(Row)
          /\ Len(SubSeq(x, l, hi)) = IF l <= hi THEN hi - l + 1 ELSE 0
          /\ \A q \in 1 .. hi - l + 1 : SubSeq(x, l, hi)[q] = x[l + q - 1]
      BY <2>2, SubSeqProperties
    <2> QED BY <1>7, <2>1, <2>3
  <1>10. Len(p) = m
    BY <1>3, <1>4, <1>9
  <1>11. PICK b : b = BlockOfBatch(n, a)
    OBVIOUS
  <1>12. b \in Seq(0 .. n) /\ Len(b) = m
    BY <1>11, BlockOfBatchIs
  <1>13. ASSUME NEW q \in 1 .. m PROVE p[q].tok = b[q]
    <2>1. q \in 1 .. hi - (lo + 1) + 1 /\ lo + 1 + q - 1 = lo + q /\ lo + q \in 1 .. M
      BY <1>3, <1>4
    <2>2. p[q] = x[lo + q]
      BY <1>9, <2>1
    <2>3. b[q] = Padded(n)[lo + q]
      <3>1. BlockOfBatch(n, a)[q] = Padded(n)[TpRank(a) * m + q]
        BY BlockOfBatchIs
      <3> QED BY <1>1, <1>2, <1>11, <3>1
    <2>4. Padded(n)[lo + q] = IF lo + q <= n THEN lo + q ELSE 0
      <3>1. PICK k : k = lo + q
        OBVIOUS
      <3>2. k \in 1 .. m * TP
        BY <1>1, <2>1, <3>1
      <3>3. Padded(n)[k] = IF k <= n THEN k ELSE 0
        BY <3>2, PaddedIs
      <3> QED BY <3>1, <3>3
    <2>5. x[lo + q].tok = IF lo + q <= n THEN lo + q ELSE 0
      BY <1>6, <2>1
    <2> QED BY <2>2, <2>3, <2>4, <2>5
  <1>14. Toks(p) = b
    <2>1. Toks(p) = [q \in 1 .. m |-> p[q].tok]
      BY <1>10 DEF Toks
    <2>2. b = [q \in 1 .. m |-> b[q]]
      BY <1>12
    <2> QED BY <1>13, <2>1, <2>2
  <1> QED BY <1>9, <1>11, <1>14 DEF IsBlock

LEMMA PayloadPrepared ==
    ASSUME sp \in BOOLEAN, NEW a \in Attns, NEW n \in 1 .. MaxTokens, n = batch[GroupOf(a)],
           NEW toks, toks = Holding(n, a), NEW route \in Routings, NEW p,
           p = PreparePayload(a, SelectExperts(a, toks, route))
    PROVE  Prepared(n, a, p)
  <1>1. PICK m, i, x : m = LocalTokens(n) /\ i = TpRank(a) /\ x = i * m
    OBVIOUS
  <1>2. n \in Nat /\ m \in Nat /\ n <= MaxTokens /\ m * TP <= n + TP - 1 /\ m * TP \in Nat
        /\ i \in 0 .. TP - 1 /\ MaxTokens \in Nat /\ TP \in Nat \ {0}
    BY <1>1, PaddedLen, RankIs, CamSizes
  <1>3. PICK first, rows : first = (IF sp THEN x ELSE 0) /\ rows = Routed(toks, first, route)
    OBVIOUS
  <1>4. SelectExperts(a, toks, route) = rows
    BY <1>1, <1>3 DEF SelectExperts, Routed
  <1>5. /\ toks \in Seq(Nat)
        /\ \A q \in 1 .. Len(toks) : first + q \in 1 .. MaxTokens + TP
    <2>1. CASE sp /\ TP > 1
      <3>1. toks = BlockOfBatch(n, a)
        BY <2>1 DEF Holding
      <3>2. toks \in Seq(0 .. n) /\ Len(toks) = m
        <4>1. BlockOfBatch(n, a) \in Seq(0 .. n) /\ Len(BlockOfBatch(n, a)) = m
          BY <1>1, <1>2, BlockOfBatchIs
        <4> QED BY <3>1, <4>1
      <3>3. \A q \in 1 .. m : x + q \in 1 .. m * TP
        BY <1>1, <1>2, BlockOfBatchIs
      <3>4. toks \in Seq(Nat)
        BY <1>2, <3>2
      <3>5. \A q \in 1 .. m : x + q \in 1 .. MaxTokens + TP
        <4> SUFFICES ASSUME NEW q \in 1 .. m PROVE x + q \in 1 .. MaxTokens + TP
          OBVIOUS
        <4>1. x + q \in 1 .. m * TP
          BY <3>3
        <4> QED BY <1>2, <4>1
      <3> QED BY <1>3, <2>1, <3>2, <3>4, <3>5
    <2>2. CASE ~(sp /\ TP > 1)
      <3>1. toks = Fresh(n)
        BY <2>2 DEF Holding
      <3>2. toks \in Seq(Nat) /\ Len(toks) = n
        BY <1>2, <3>1, FreshIs
      <3>3. first = 0
        <4>1. CASE sp
          <5>1. TP = 1
            BY <1>2, <2>2, <4>1
          <5>2. i = 0
            BY <1>2, <5>1
          <5> QED BY <1>1, <1>2, <1>3, <5>2
        <4>2. CASE ~sp
          BY <1>3, <4>2
        <4> QED BY <4>1, <4>2
      <3> QED BY <1>2, <3>2, <3>3
    <2> QED BY <2>1, <2>2
  <1>6. \A q \in 1 .. Len(toks) : route[first + q] \in [1 .. TopK -> Experts]
    <2> SUFFICES ASSUME NEW q \in 1 .. Len(toks) PROVE route[first + q] \in [1 .. TopK -> Experts]
      OBVIOUS
    <2>1. PICK k : k = first + q
      OBVIOUS
    <2>2. k \in 1 .. MaxTokens + TP
      BY <1>5, <2>1
    <2> QED BY <2>1, <2>2, RouteIs
  <1>7. /\ rows \in Seq(Row) /\ Len(rows) = Len(toks) /\ Toks(rows) = toks
        /\ \A q \in 1 .. Len(toks) : rows[q].tok = toks[q]
    BY <1>3, <1>5, <1>6, RoutedIs
  <1>8. CASE sp \/ TP <= 1
    <2>1. p = rows
      BY <1>4, <1>8 DEF PreparePayload
    <2>2. toks = Sent(n, a)
      BY <1>2, <1>8 DEF Holding, Sent
    <2> QED BY <1>7, <2>1, <2>2 DEF Prepared
  <1>9. CASE ~(sp \/ TP <= 1)
    <2>1. toks = Fresh(n)
      BY <1>9 DEF Holding
    <2>2. Len(toks) = n /\ \A q \in 1 .. n : toks[q] = q
      BY <1>2, <2>1, FreshIs
    <2>3. Len(rows) = n /\ Numbered(rows, n)
      BY <1>7, <2>2 DEF Numbered
    <2>4. p = Cut(rows, a, m)
      BY <1>1, <1>4, <1>9, <2>3 DEF PreparePayload, ZeroRow, Cut
    <2>5. IsBlock(p, n, a)
      BY <1>1, <1>2, <2>3, <2>4, CutRows
    <2>6. TP > 1
      BY <1>2, <1>9
    <2> QED BY <2>5, <2>6 DEF Prepared, Sent, IsBlock
  <1> QED BY <1>8, <1>9

(***************************************************************************)
(* The invariant.                                                          *)
(***************************************************************************)
Places == {"model", "send", "refused", "wait", "got"}

Grouped(s) == \A k \in DOMAIN s : s[k].group \in Gs

CamTypes ==
    /\ sp \in BOOLEAN /\ batch \in [Gs -> Batches] /\ at \in [Gs -> 0 .. Len(ForwardLayers) + 1]
    /\ pc \in [Attns -> Places]
    /\ DOMAIN hidden = Attns /\ DOMAIN payload = Attns /\ DOMAIN out = Attns
    /\ DOMAIN region = Attns /\ DOMAIN status = Attns
    /\ DOMAIN slot = Fs /\ DOMAIN next = Fs /\ DOMAIN items = Fs
    /\ scan \in [Fs -> Gs]
    /\ \A f \in Fs : DOMAIN slot[f] = Attns /\ DOMAIN next[f] = Gs
                     /\ IsSequence(items[f]) /\ Grouped(items[f])
    /\ \A a \in Attns : DOMAIN status[a] = Fs

(* the tokens a rank holds between two layers *)
ModelOK(g, a) ==
    /\ \A b \in Members(g) : pc[b] = "model"
    /\ at[g] /= 0
    /\ hidden[a] = IF ShardedNow(g) THEN BlockOfBatch(batch[g], a) ELSE Fresh(batch[g])
(* ... and the payload of one that is in a MoE layer or in the warmup *)
MoeOK(g, a) ==
    /\ payload[a] \in Seq(Row)
    /\ at[g] = 0 => hidden[a] = Fresh(batch[g])
    /\ at[g] /= 0 =>
         /\ at[g] \in 1 .. Len(ForwardLayers) /\ ForwardLayers[at[g]].moe
         /\ hidden[a] = Holding(batch[g], a) /\ Toks(payload[a]) = Sent(batch[g], a)

RankOK(g, a) ==
    /\ pc[a] = "model" => ModelOK(g, a)
    /\ pc[a] /= "model" => MoeOK(g, a)
    /\ pc[a] \in {"wait", "got"} => Fits(payload[a])
ForwardOK(g) == \A a \in Members(g) : RankOK(g, a)

Combined(p, t, a) ==
    [q \in 1 .. Len(p) |-> [k \in 1 .. TopK |->
        [rank |-> a, at |-> t, tok |-> p[q].tok, expert |-> p[q].ids[k], weights |-> LayerId(t)]]]
OutOK(g) == \A a \in Members(g) : pc[a] = "got" => out[a] = Combined(payload[a], at[g], a)

(* the work items of a group among those of an FFN rank *)
Of(s, g) == {s[k] : k \in {i \in DOMAIN s : s[i].group = g}}
InTurn(s, g) ==
    \A k, l \in DOMAIN s : k < l /\ s[k].group = g /\ s[l].group = g => s[k].last < s[l].first

(* the experts an FFN rank has received the rows of rank a for *)
Recd(f, g, a) == IF slot[f][a].flag = 0 THEN Local ELSE IF Ready(f, g) THEN next[f][g] ELSE 0
Pending(s, g, e) == \E it \in Of(s, g) : e \in it.first .. it.last

ItemOf(f, g, it) ==
    /\ it.first \in Nat /\ it.last \in Nat /\ it.first <= it.last /\ it.last < Local
    /\ it.group = g /\ it.layer = LayerId(at[g])
    /\ it.counts = [i \in 0 .. TP - 1 |-> CountsTo(payload[Card(g, i)], f)]
    /\ \A i \in 0 .. TP - 1 : it.prefix[i] = Start(payload[Card(g, i)], f * Local)
    /\ \A c \in Cells(it.counts, it.first, it.last) :
          RowsSent(it)[SentFrom(it, c)] = RowsTo(payload[Card(g, c[1])], at[g], Card(g, c[1]), f)[c[2]][c[3]]
ItemOK(f, g, it) ==
    /\ ItemOf(f, g, it)
    /\ \A a \in Members(g) : pc[a] = "wait" /\ status[a][f] = 0 /\ it.last < Recd(f, g, a)

LaneFlags(f, g) ==
    \A a \in Members(g) : slot[f][a].flag /= 0 =>
        pc[a] = "wait" /\ status[a][f] = 0 /\ slot[f][a] = Dispatched(payload[a], at[g], a, f)
LaneGone(f, g) ==
    \A a \in Members(g) : pc[a] \in {"wait", "got"} /\ slot[f][a].flag = 0 =>
        \A b \in Members(g) : pc[b] \in {"wait", "got"} /\ slot[f][b].flag = 0
LaneNext(f, g) ==
    slot[f][Card(g, 0)].flag /= 0 =>
        IF Ready(f, g) THEN next[f][g] \in 0 .. Local - 1 ELSE next[f][g] = 0
LaneItems(f, g) ==
    InTurn(items[f], g) /\ \A it \in Of(items[f], g) : ItemOK(f, g, it)
LaneStatus(f, g) ==
    \A a \in Members(g) : status[a][f] /= 0 =>
        /\ pc[a] = "wait" /\ status[a][f] = Start(payload[a], f * Local) + 1
        /\ Of(items[f], g) = {}

(* what is in the combine window where the rows to expert e belong *)
Returned(r, p, t, a, e) ==
    \A o \in 1 .. Count(p, e) : r[Start(p, e) + o - 1] = Part(RowsOf(p, t, a, e)[o], LayerId(t))
LaneRegion(f, g) ==
    \A a \in Members(g) : pc[a] = "wait" =>
        \A e \in 0 .. Local - 1 : e < Recd(f, g, a) /\ ~Pending(items[f], g, e) =>
            Returned(region[a], payload[a], at[g], a, f * Local + e)
Lane(f, g) ==
    /\ LaneFlags(f, g) /\ LaneGone(f, g) /\ LaneNext(f, g)
    /\ LaneItems(f, g) /\ LaneStatus(f, g) /\ LaneRegion(f, g)

CamInv ==
    /\ CamTypes
    /\ \A g \in Gs : ForwardOK(g) /\ OutOK(g)
    /\ \A f \in Fs : \A g \in Gs : Lane(f, g)

(***************************************************************************)
(* Lists of work items.                                                    *)
(***************************************************************************)
LEMMA OfAppend ==
    ASSUME NEW s, IsSequence(s), NEW x, NEW g
    PROVE  /\ x.group = g => Of(Append(s, x), g) = Of(s, g) \cup {x}
           /\ x.group /= g => Of(Append(s, x), g) = Of(s, g)
           /\ InTurn(s, g) /\ (x.group = g => \A it \in Of(s, g) : it.last < x.first)
                => InTurn(Append(s, x), g)
  <1>1. PICK r, n : r = Append(s, x) /\ n = Len(s)
    OBVIOUS
  <1>2. /\ n \in Nat /\ DOMAIN s = 1 .. n /\ DOMAIN r = 1 .. n + 1
        /\ \A i \in 1 .. n : r[i] = s[i]
        /\ r[n + 1] = x
    <2>1. n \in Nat /\ DOMAIN s = 1 .. n
      BY <1>1, SequenceLen
    <2>2. /\ IsSequence(r) /\ Len(r) = n + 1 /\ \A i \in 1 .. n : r[i] = s[i]
          /\ r[n + 1] = x
      BY <1>1, SequenceAppend
    <2>3. DOMAIN r = 1 .. n + 1
      BY <2>2, SequenceLen
    <2> QED BY <2>1, <2>2, <2>3
  <1>3. \A i \in 1 .. n + 1 : i \in 1 .. n \/ i = n + 1
    BY <1>2
  <1>4. ASSUME x.group = g PROVE Of(r, g) = Of(s, g) \cup {x}
    BY <1>2, <1>3, <1>4 DEF Of
  <1>5. ASSUME x.group /= g PROVE Of(r, g) = Of(s, g)
    BY <1>2, <1>3, <1>5 DEF Of
  <1>6. ASSUME InTurn(s, g), x.group = g => \A it \in Of(s, g) : it.last < x.first
        PROVE  InTurn(r, g)
    <2> SUFFICES ASSUME NEW k \in 1 .. n + 1, NEW l \in 1 .. n + 1, k < l, r[k].group = g, r[l].group = g
                 PROVE  r[k].last < r[l].first
      BY <1>2 DEF InTurn
    <2>1. k \in 1 .. n /\ r[k] = s[k]
      BY <1>2
    <2>2. CASE l \in 1 .. n
      <3>1. r[l] = s[l]
        BY <1>2, <2>2
      <3> QED BY <1>2, <1>6, <2>1, <2>2, <3>1 DEF InTurn
    <2>3. CASE l = n + 1
      <3>1. r[l] = x
        BY <1>2, <2>3
      <3>2. s[k] \in Of(s, g)
        BY <1>2, <2>1 DEF Of
      <3> QED BY <1>6, <2>1, <3>1, <3>2
    <2> QED BY <1>3, <2>2, <2>3
  <1> QED BY <1>1, <1>4, <1>5, <1>6

LEMMA OfTail ==
    ASSUME NEW s, IsSequence(s), s /= <<>>, NEW g, InTurn(s, g)
    PROVE  /\ InTurn(Tail(s), g)
           /\ Head(s).group /= g => Of(Tail(s), g) = Of(s, g)
           /\ Head(s).group = g => /\ Head(s) \in Of(s, g) /\ Of(s, g) = Of(Tail(s), g) \cup {Head(s)}
                                   /\ \A it \in Of(Tail(s), g) : Head(s).last < it.first
  <1>1. PICK r, n, x : r = Tail(s) /\ n = Len(s) /\ x = Head(s)
    OBVIOUS
  <1>2. /\ n \in Nat /\ n > 0 /\ DOMAIN s = 1 .. n /\ DOMAIN r = 1 .. n - 1
        /\ x = s[1] /\ \A i \in 1 .. n - 1 : r[i] = s[i + 1]
    <2>1. n \in Nat /\ DOMAIN s = 1 .. n
      BY <1>1, SequenceLen
    <2>2. /\ n > 0 /\ x = s[1] /\ IsSequence(r) /\ Len(r) = n - 1
          /\ \A i \in 1 .. n - 1 : r[i] = s[i + 1]
      BY <1>1, SequenceTail
    <2>3. DOMAIN r = 1 .. n - 1
      BY <2>2, SequenceLen
    <2> QED BY <2>1, <2>2, <2>3
  <1>3. InTurn(r, g)
    <2> SUFFICES ASSUME NEW k \in 1 .. n - 1, NEW l \in 1 .. n - 1, k < l, r[k].group = g, r[l].group = g
                 PROVE  r[k].last < r[l].first
      BY <1>2 DEF InTurn
    <2>1. k + 1 \in 1 .. n /\ l + 1 \in 1 .. n /\ k + 1 < l + 1
      BY <1>2
    <2>2. r[k] = s[k + 1] /\ r[l] = s[l + 1]
      BY <1>2
    <2> QED BY <1>2, <2>1, <2>2 DEF InTurn
  <1>4. \A i \in 1 .. n : i = 1 \/ (i - 1 \in 1 .. n - 1 /\ r[i - 1] = s[i])
    <2> SUFFICES ASSUME NEW i \in 1 .. n, i /= 1 PROVE i - 1 \in 1 .. n - 1 /\ r[i - 1] = s[i]
      OBVIOUS
    <2>1. i - 1 \in 1 .. n - 1 /\ (i - 1) + 1 = i
      BY <1>2
    <2> QED BY <1>2, <2>1
  <1>5. \A i \in 1 .. n - 1 : i + 1 \in 1 .. n /\ 1 < i + 1
    BY <1>2
  <1>6. 1 \in 1 .. n
    BY <1>2
  <1>7. \A it : it \in Of(s, g) <=> \E i \in 1 .. n : it = s[i] /\ s[i].group = g
    BY <1>2 DEF Of
  <1>8. \A it : it \in Of(r, g) <=> \E i \in 1 .. n - 1 : it = r[i] /\ r[i].group = g
    BY <1>2 DEF Of
  <1>9. \A it \in Of(r, g) : it \in Of(s, g)
    BY <1>2, <1>5, <1>7, <1>8
  <1>10. \A it \in Of(s, g) : it \in Of(r, g) \/ (it = x /\ x.group = g)
    BY <1>2, <1>4, <1>7, <1>8
  <1>11. ASSUME x.group = g
         PROVE  x \in Of(s, g) /\ \A it \in Of(r, g) : x.last < it.first
    <2>1. x \in Of(s, g)
      BY <1>2, <1>6, <1>7, <1>11
    <2>2. ASSUME NEW it \in Of(r, g) PROVE x.last < it.first
      <3>1. PICK i \in 1 .. n - 1 : it = s[i + 1] /\ s[i + 1].group = g
        BY <1>2, <1>8
      <3>2. i + 1 \in 1 .. n /\ 1 < i + 1
        BY <1>5
      <3>3. s[1].last < s[i + 1].first
        BY <1>2, <1>6, <1>11, <3>1, <3>2 DEF InTurn
      <3> QED BY <1>2, <3>1, <3>3
    <2> QED BY <2>1, <2>2
  <1>12. x.group /= g => Of(r, g) = Of(s, g)
    BY <1>9, <1>10
  <1>13. x.group = g => Of(s, g) = Of(r, g) \cup {x}
    BY <1>9, <1>10, <1>11
  <1> QED BY <1>1, <1>3, <1>11, <1>12, <1>13

(***************************************************************************)
(* What a step leaves alone.                                               *)
(***************************************************************************)
SameForward(g) ==
    /\ sp' = sp /\ batch'[g] = batch[g] /\ at'[g] = at[g]
    /\ \A a \in Members(g) : pc'[a] = pc[a] /\ hidden'[a] = hidden[a] /\ payload'[a] = payload[a]

LEMMA ShardedFrame ==
    ASSUME NEW g, sp' = sp, at'[g] = at[g]
    PROVE  ShardedNow(g)' <=> ShardedNow(g)
  BY DEF ShardedNow

LEMMA ForwardFrame ==
    ASSUME NEW g \in Gs, ForwardOK(g), SameForward(g)
    PROVE  ForwardOK(g)'
  <1> SUFFICES ASSUME NEW a \in Members(g) PROVE RankOK(g, a)'
    BY DEF ForwardOK, Members
  <1>1. RankOK(g, a)
    BY DEF ForwardOK
  <1>2. /\ sp' = sp /\ batch'[g] = batch[g] /\ at'[g] = at[g] /\ pc'[a] = pc[a] /\ hidden'[a] = hidden[a]
        /\ payload'[a] = payload[a] /\ \A b \in Members(g) : pc'[b] = pc[b]
    BY DEF SameForward
  <1>3. ShardedNow(g)' <=> ShardedNow(g)
    BY <1>2, ShardedFrame
  <1>4. ASSUME pc'[a] = "model" PROVE ModelOK(g, a)'
    <2>1. ModelOK(g, a)
      BY <1>1, <1>2, <1>4 DEF RankOK
    <2>2. PICK x, y : x = BlockOfBatch(batch[g], a) /\ y = Fresh(batch[g])
      OBVIOUS
    <2>3. x = BlockOfBatch(batch'[g], a) /\ y = Fresh(batch'[g])
      BY <1>2, <2>2
    <2> QED BY <1>2, <1>3, <2>1, <2>2, <2>3 DEF ModelOK
  <1>5. ASSUME pc'[a] /= "model" PROVE MoeOK(g, a)'
    <2>1. MoeOK(g, a)
      BY <1>1, <1>2, <1>5 DEF RankOK
    <2>2. PICK n, p : n = batch[g] /\ p = payload[a]
      OBVIOUS
    <2>3. Holding(n, a)' = Holding(n, a)
      BY <1>2 DEF Holding
    <2>4. batch'[g] = n /\ payload'[a] = p
      BY <1>2, <2>2
    <2> QED BY <1>2, <2>1, <2>2, <2>3, <2>4 DEF MoeOK, Holding
  <1> QED BY <1>1, <1>2, <1>4, <1>5 DEF RankOK

LEMMA OutFrame ==
    ASSUME NEW g \in Gs, OutOK(g), at'[g] = at[g],
           \A a \in Members(g) : pc'[a] = "got" =>
              pc[a] = "got" /\ payload'[a] = payload[a] /\ out'[a] = out[a]
    PROVE  OutOK(g)'
  <1> SUFFICES ASSUME NEW a \in Members(g), pc'[a] = "got" PROVE out'[a] = Combined(payload'[a], at'[g], a)
    BY DEF OutOK
  <1>1. pc[a] = "got" /\ payload'[a] = payload[a] /\ out'[a] = out[a]
    OBVIOUS
  <1> QED BY <1>1 DEF OutOK

RegionKept(f, g, a) ==
    pc[a] = "wait" => \A e \in 0 .. Local - 1 :
        Returned(region[a], payload[a], at[g], a, f * Local + e)
          => Returned(region'[a], payload[a], at[g], a, f * Local + e)
SameFlags(f, g) ==
    /\ at'[g] = at[g] /\ next'[f][g] = next[f][g]
    /\ \A a \in Members(g) : /\ pc'[a] = pc[a] /\ payload'[a] = payload[a]
                             /\ slot'[f][a] = slot[f][a] /\ status'[a][f] = status[a][f]
                             /\ RegionKept(f, g, a)
SameItems(f, g) ==
    Of(items'[f], g) = Of(items[f], g) /\ (InTurn(items[f], g) => InTurn(items'[f], g))

LEMMA ReadyFrame ==
    ASSUME NEW f, NEW g \in Gs, \A a \in Members(g) : slot'[f][a].flag = slot[f][a].flag
    PROVE  Ready(f, g)' <=> Ready(f, g)
  BY CardIs DEF Ready

LEMMA RecdFrame ==
    ASSUME NEW f, NEW g \in Gs, NEW a \in Members(g), next'[f][g] = next[f][g],
           \A b \in Members(g) : slot'[f][b].flag = slot[f][b].flag
    PROVE  Recd(f, g, a)' = Recd(f, g, a)
  BY ReadyFrame DEF Recd

LEMMA ItemOfFrame ==
    ASSUME NEW f, NEW g \in Gs, NEW it, ItemOf(f, g, it), at'[g] = at[g],
           \A a \in Members(g) : payload'[a] = payload[a]
    PROVE  ItemOf(f, g, it)'
  <1>1. \A i \in 0 .. TP - 1 : payload'[Card(g, i)] = payload[Card(g, i)]
    BY CardIs
  <1>2. PICK ns : ns = [i \in 0 .. TP - 1 |-> CountsTo(payload[Card(g, i)], f)]
    OBVIOUS
  <1>3. ns = [i \in 0 .. TP - 1 |-> CountsTo(payload'[Card(g, i)], f)]
    BY <1>1, <1>2
  <1>4. \A c \in Cells(it.counts, it.first, it.last) : c[1] \in 0 .. TP - 1
    BY DEF Cells
  <1> QED BY <1>1, <1>2, <1>3, <1>4 DEF ItemOf

LEMMA LaneFrame ==
    ASSUME NEW f \in Fs, NEW g \in Gs, Lane(f, g), SameFlags(f, g), SameItems(f, g)
    PROVE  Lane(f, g)'
  <1>1. at'[g] = at[g] /\ next'[f][g] = next[f][g]
    BY DEF SameFlags
  <1>2. \A a \in Members(g) : /\ pc'[a] = pc[a] /\ payload'[a] = payload[a]
                              /\ slot'[f][a] = slot[f][a] /\ status'[a][f] = status[a][f]
                              /\ RegionKept(f, g, a)
    BY DEF SameFlags
  <1>3. Ready(f, g)' <=> Ready(f, g)
    BY <1>2, ReadyFrame
  <1>4. \A a \in Members(g) : Recd(f, g, a)' = Recd(f, g, a)
    BY <1>1, <1>2, RecdFrame
  <1>5. Card(g, 0) \in Members(g)
    BY CardIs, CamSizes
  <1>6. LaneFlags(f, g)'
    BY <1>1, <1>2 DEF Lane, LaneFlags
  <1>7. LaneGone(f, g)'
    BY <1>1, <1>2 DEF Lane, LaneGone
  <1>8. LaneNext(f, g)'
    BY <1>1, <1>2, <1>3, <1>5 DEF Lane, LaneNext
  <1>9. LaneItems(f, g)'
    <2>1. InTurn(items[f], g)'
      BY DEF Lane, LaneItems, SameItems
    <2>2. ASSUME NEW it \in Of(items'[f], g) PROVE ItemOK(f, g, it)'
      <3>1. ItemOK(f, g, it)
        BY DEF Lane, LaneItems, SameItems
      <3>2. ItemOf(f, g, it)'
        BY <1>1, <1>2, <3>1, ItemOfFrame DEF ItemOK
      <3>3. ASSUME NEW a \in Members(g) PROVE pc'[a] = "wait" /\ status'[a][f] = 0 /\ it.last < Recd(f, g, a)'
        BY <1>2, <1>4, <3>1 DEF ItemOK
      <3> QED BY <3>2, <3>3 DEF ItemOK
    <2> QED BY <2>1, <2>2 DEF LaneItems
  <1>10. LaneStatus(f, g)'
    BY <1>2 DEF Lane, LaneStatus, SameItems
  <1>11. LaneRegion(f, g)'
    <2> SUFFICES ASSUME NEW a \in Members(g), pc'[a] = "wait", NEW e \in 0 .. Local - 1,
                        e < Recd(f, g, a)', ~Pending(items'[f], g, e)
                 PROVE  Returned(region'[a], payload'[a], at'[g], a, f * Local + e)
      BY DEF LaneRegion
    <2>1. e < Recd(f, g, a) /\ ~Pending(items[f], g, e)
      BY <1>4 DEF SameItems, Pending
    <2>2. pc[a] = "wait" /\ Returned(region[a], payload[a], at[g], a, f * Local + e)
      BY <1>2, <2>1 DEF Lane, LaneRegion
    <2>3. Returned(region'[a], payload[a], at[g], a, f * Local + e)
      BY <1>2, <2>2 DEF RegionKept
    <2> QED BY <1>1, <1>2, <2>3
  <1> QED BY <1>6, <1>7, <1>8, <1>9, <1>10, <1>11 DEF Lane

(* A group between two transfers has nothing in the windows. *)
LEMMA LaneIdle ==
    ASSUME NEW f \in Fs, NEW g \in Gs, Lane(f, g), \A a \in Members(g) : pc[a] /= "wait"
    PROVE  /\ \A a \in Members(g) : slot[f][a].flag = 0 /\ status[a][f] = 0
           /\ Of(items[f], g) = {}
  <1>1. \A a \in Members(g) : slot[f][a].flag = 0
    BY DEF Lane, LaneFlags
  <1>2. \A a \in Members(g) : status[a][f] = 0
    BY DEF Lane, LaneStatus
  <1>3. Of(items[f], g) = {}
    <2>1. PICK a : a \in Members(g)
      BY CardIs, CamSizes
    <2> QED BY <2>1 DEF Lane, LaneItems, ItemOK
  <1> QED BY <1>1, <1>2, <1>3

LEMMA LaneMoves ==
    ASSUME NEW f \in Fs, NEW g \in Gs, Lane(f, g), \A a \in Members(g) : pc[a] /= "wait",
           \A a \in Members(g) : pc'[a] \notin {"wait", "got"},
           slot' = slot, status' = status, items' = items
    PROVE  Lane(f, g)'
  <1>1. /\ \A a \in Members(g) : slot[f][a].flag = 0 /\ status[a][f] = 0
        /\ Of(items[f], g) = {}
    BY LaneIdle
  <1>2. Card(g, 0) \in Members(g)
    BY CardIs, CamSizes
  <1>3. LaneFlags(f, g)' /\ LaneGone(f, g)' /\ LaneNext(f, g)' /\ LaneStatus(f, g)'
    BY <1>1, <1>2 DEF LaneFlags, LaneGone, LaneNext, LaneStatus
  <1>4. LaneItems(f, g)'
    BY <1>1 DEF Lane, LaneItems
  <1>5. LaneRegion(f, g)'
    BY DEF LaneRegion
  <1> QED BY <1>3, <1>4, <1>5 DEF Lane

(***************************************************************************)
(* The steps of a forward.                                                 *)
(***************************************************************************)
(* nothing changes but the forward of group g *)
OnlyForward(g) ==
    /\ sp' = sp /\ \A h \in Gs : h /= g => batch'[h] = batch[h] /\ at'[h] = at[h]
    /\ \A a \in Attns : GroupOf(a) /= g =>
          pc'[a] = pc[a] /\ hidden'[a] = hidden[a] /\ payload'[a] = payload[a] /\ out'[a] = out[a]
    /\ slot' = slot /\ next' = next /\ items' = items /\ region' = region /\ status' = status

LEMMA GroupKeeps ==
    ASSUME CamInv, NEW g \in Gs, OnlyForward(g), CamTypes', ForwardOK(g)',
           \A a \in Members(g) : pc[a] /= "wait",
           \A a \in Members(g) : pc'[a] \notin {"wait", "got"}
    PROVE  CamInv'
  <1>1. ASSUME NEW h \in Gs, h /= g PROVE ForwardOK(h)' /\ OutOK(h)' /\ \A f \in Fs : Lane(f, h)'
    <2>1. ForwardOK(h) /\ OutOK(h) /\ \A f \in Fs : Lane(f, h)
      BY DEF CamInv
    <2>2. \A a \in Members(h) : a \in Attns /\ GroupOf(a) /= g
      BY <1>1 DEF Members
    <2>3. SameForward(h)
      BY <1>1, <2>2 DEF OnlyForward, SameForward
    <2>4. ForwardOK(h)'
      BY <2>1, <2>3, ForwardFrame
    <2>5. OutOK(h)'
      <3>1. at'[h] = at[h] /\ \A a \in Members(h) : pc'[a] = pc[a] /\ payload'[a] = payload[a] /\ out'[a] = out[a]
        BY <1>1, <2>2 DEF OnlyForward
      <3> QED BY <2>1, <3>1, OutFrame
    <2>6. ASSUME NEW f \in Fs PROVE Lane(f, h)'
      <3>1. SameFlags(f, h) /\ SameItems(f, h)
        BY <1>1, <2>2 DEF OnlyForward, SameFlags, SameItems, RegionKept
      <3> QED BY <2>1, <3>1, LaneFrame
    <2> QED BY <2>4, <2>5, <2>6
  <1>2. ASSUME NEW f \in Fs PROVE Lane(f, g)'
    <2>1. Lane(f, g)
      BY DEF CamInv
    <2> QED BY <2>1, LaneMoves DEF OnlyForward
  <1>3. OutOK(g)'
    BY DEF OutOK
  <1> QED BY <1>1, <1>2, <1>3 DEF CamInv

LEMMA BatchIs ==
    ASSUME CamTypes, NEW g \in Gs
    PROVE  batch[g] \in 1 .. MaxTokens /\ batch[g] \in Nat /\ batch[g] \in Batches
  <1>1. batch[g] \in Batches
    BY DEF CamTypes
  <1>2. batch[g] \in 1 .. MaxTokens
    BY <1>1, InputsAssumption
  <1> QED BY <1>1, <1>2, CamSizes

LEMMA MemberOf == ASSUME NEW g, NEW a \in Attns PROVE a \in Members(g) <=> GroupOf(a) = g
  BY DEF Members

(* What the ranks of a group hold in the model. *)
LEMMA InModel ==
    ASSUME CamInv, NEW g \in Gs, AllAt(g, "model"), NEW a \in Members(g)
    PROVE  /\ at[g] /= 0
           /\ hidden[a] = IF ShardedNow(g) THEN BlockOfBatch(batch[g], a) ELSE Fresh(batch[g])
           /\ pc[a] = "model"
  <1>1. RankOK(g, a) /\ pc[a] = "model"
    BY DEF CamInv, ForwardOK, AllAt
  <1> QED BY <1>1 DEF RankOK, ModelOK

LEMMA WholeIs ==
    ASSUME CamInv, NEW g \in Gs, AllAt(g, "model"), NEW a \in Members(g)
    PROVE  Whole(g, a) = Fresh(batch[g])
  <1>1. CASE ShardedNow(g)
    <2>1. ASSUME NEW i \in 0 .. TP - 1 PROVE hidden[Card(g, i)] = BlockOfBatch(batch[g], Card(g, i))
      BY <1>1, CardIs, InModel
    <2>2. batch[g] \in Nat
      BY BatchIs DEF CamInv
    <2>3. SubSeq(Gather(g, hidden), 1, batch[g]) = Fresh(batch[g])
      BY <2>1, <2>2, GatherIs
    <2> QED BY <1>1, <2>3 DEF Whole
  <1>2. CASE ~ShardedNow(g)
    BY <1>2, InModel DEF Whole
  <1> QED BY <1>1, <1>2

LEMMA MoeLayerStep == ASSUME CamInv, NEW g \in Gs, MoeLayer(g) PROVE CamInv'
  <1> DEFINE toks(a) == IF sp /\ TP > 1 /\ ~ShardedNow(g) THEN Shard(a) ELSE hidden[a]
  <1>1. PICK route \in Routings :
          /\ hidden' = [a \in Attns |-> IF GroupOf(a) = g THEN toks(a) ELSE hidden[a]]
          /\ payload' = [a \in Attns |-> IF GroupOf(a) /= g THEN payload[a]
                                        ELSE PreparePayload(a, SelectExperts(a, toks(a), route))]
    BY DEF MoeLayer
  <1>2. /\ AllAt(g, "model") /\ at[g] \in 1 .. Len(ForwardLayers) /\ ForwardLayers[at[g]].moe
        /\ pc' = [a \in Attns |-> IF GroupOf(a) = g THEN "send" ELSE pc[a]]
        /\ sp' = sp /\ batch' = batch /\ at' = at /\ slot' = slot /\ next' = next /\ items' = items
        /\ region' = region /\ status' = status /\ out' = out /\ scan' = scan
    BY DEF MoeLayer, GroupGoto, ffnVars
  <1>3. CamTypes
    BY DEF CamInv
  <1>4. PICK n : n = batch[g]
    OBVIOUS
  <1>5. n \in 1 .. MaxTokens /\ n \in Nat
    BY <1>3, <1>4, BatchIs
  <1>6. ASSUME NEW a \in Members(g)
        PROVE  /\ toks(a) = Holding(n, a) /\ a \in Attns /\ GroupOf(a) = g
               /\ Prepared(n, a, PreparePayload(a, SelectExperts(a, toks(a), route)))
    <2>1. a \in Attns /\ GroupOf(a) = g
      BY MemberIs
    <2>2. hidden[a] = IF ShardedNow(g) THEN BlockOfBatch(n, a) ELSE Fresh(n)
      BY <1>2, <1>4, InModel
    <2>3. Shard(a) = BlockOfBatch(n, a)
      BY <1>4, <2>1 DEF Shard, BlockOfBatch, Padded
    <2>4. ShardedNow(g) => sp /\ TP > 1
      BY DEF ShardedNow
    <2>5. toks(a) = Holding(n, a)
      BY <2>2, <2>3, <2>4 DEF Holding
    <2>6. PICK x, p : x = toks(a) /\ p = PreparePayload(a, SelectExperts(a, x, route))
      OBVIOUS
    <2>7. Prepared(n, a, p)
      BY <1>3, <1>4, <1>5, <2>1, <2>5, <2>6, PayloadPrepared DEF CamTypes
    <2> QED BY <2>1, <2>5, <2>6, <2>7
  <1> HIDE DEF toks
  <1>7. OnlyForward(g)
    BY <1>1, <1>2 DEF OnlyForward
  <1>8. CamTypes'
    <2>1. DOMAIN hidden' = Attns /\ DOMAIN payload' = Attns
      BY <1>1
    <2>2. pc' \in [Attns -> Places]
      BY <1>2, <1>3 DEF CamTypes, Places
    <2> QED BY <1>2, <1>3, <2>1, <2>2 DEF CamTypes
  <1>9. ForwardOK(g)'
    <2> SUFFICES ASSUME NEW a \in Members(g) PROVE RankOK(g, a)'
      BY DEF ForwardOK, Members
    <2>1. /\ toks(a) = Holding(n, a) /\ a \in Attns /\ GroupOf(a) = g
          /\ Prepared(n, a, PreparePayload(a, SelectExperts(a, toks(a), route)))
      BY <1>6
    <2>2. pc'[a] = "send" /\ hidden'[a] = Holding(n, a)
      BY <1>1, <1>2, <2>1
    <2>3. Prepared(n, a, payload'[a])
      BY <1>1, <2>1
    <2>4. Holding(n, a)' = Holding(n, a)
      BY <1>2 DEF Holding
    <2>5. batch'[g] = n /\ at'[g] = at[g] /\ at[g] /= 0
      BY <1>2, <1>4
    <2>6. MoeOK(g, a)'
      BY <1>2, <2>2, <2>3, <2>4, <2>5 DEF MoeOK, Prepared, Holding
    <2> QED BY <2>2, <2>6 DEF RankOK
  <1>10. \A a \in Members(g) : pc[a] /= "wait" /\ pc'[a] \notin {"wait", "got"}
    BY <1>2, <1>6 DEF AllAt
  <1> QED BY <1>7, <1>8, <1>9, <1>10, GroupKeeps

LEMMA DenseLayerStep == ASSUME CamInv, NEW g \in Gs, DenseLayer(g) PROVE CamInv'
  <1>1. /\ AllAt(g, "model") /\ at[g] \in 1 .. Len(ForwardLayers) /\ ~ForwardLayers[at[g]].moe
        /\ hidden' = [a \in Attns |-> IF GroupOf(a) = g THEN Whole(g, a) ELSE hidden[a]]
        /\ at' = [at EXCEPT ![g] = @ + 1]
        /\ sp' = sp /\ batch' = batch /\ pc' = pc /\ payload' = payload /\ slot' = slot /\ next' = next
        /\ items' = items /\ region' = region /\ status' = status /\ out' = out /\ scan' = scan
    BY DEF DenseLayer, ffnVars
  <1>2. CamTypes
    BY DEF CamInv
  <1>3. at' \in [Gs -> 0 .. Len(ForwardLayers) + 1] /\ at'[g] = at[g] + 1 /\ \A h \in Gs : h /= g => at'[h] = at[h]
    <2>1. at \in [Gs -> 0 .. Len(ForwardLayers) + 1] /\ Len(ForwardLayers) \in Nat
      BY <1>2, ForwardLayersAssumption DEF CamTypes
    <2>2. at[g] + 1 \in 0 .. Len(ForwardLayers) + 1
      BY <1>1, <2>1
    <2> QED BY <1>1, <2>1, <2>2
  <1>4. OnlyForward(g)
    BY <1>1, <1>3 DEF OnlyForward
  <1>5. CamTypes'
    BY <1>1, <1>2, <1>3 DEF CamTypes
  <1>6. ~ShardedNow(g)'
    <2>1. PICK t : t = at[g]
      OBVIOUS
    <2>2. t \in Nat /\ t >= 1 /\ at'[g] = t + 1 /\ ~ForwardLayers[t].moe
      <3>1. Len(ForwardLayers) \in Nat
        BY ForwardLayersAssumption
      <3> QED BY <1>1, <1>3, <2>1, <3>1
    <2>3. \A j \in 1 .. t + 1 - 1 : t \in j .. t + 1 - 1
      BY <2>2
    <2> QED BY <2>2, <2>3 DEF ShardedNow
  <1>7. \A a \in Members(g) : pc[a] = "model" /\ a \in Attns /\ GroupOf(a) = g
    BY <1>1, MemberIs DEF AllAt
  <1>8. ForwardOK(g)'
    <2> SUFFICES ASSUME NEW a \in Members(g) PROVE RankOK(g, a)'
      BY DEF ForwardOK, Members
    <2>1. hidden'[a] = Fresh(batch[g])
      BY <1>1, <1>7, WholeIs
    <2>2. at'[g] /= 0
      <3>1. Len(ForwardLayers) \in Nat
        BY ForwardLayersAssumption
      <3> QED BY <1>1, <1>3, <3>1
    <2>3. ModelOK(g, a)'
      BY <1>1, <1>6, <1>7, <2>1, <2>2 DEF ModelOK
    <2> QED BY <1>1, <1>7, <2>3 DEF RankOK
  <1> QED BY <1>1, <1>4, <1>5, <1>7, <1>8, GroupKeeps

LEMMA EndForwardStep == ASSUME CamInv, NEW g \in Gs, EndForward(g) PROVE CamInv'
  <1>1. PICK n \in Batches :
         /\ batch' = [batch EXCEPT ![g] = n]
         /\ hidden' = [a \in Attns |-> IF GroupOf(a) = g THEN Fresh(n) ELSE hidden[a]]
    BY DEF EndForward
  <1>2. /\ AllAt(g, "model") /\ at' = [at EXCEPT ![g] = 1]
        /\ sp' = sp /\ pc' = pc /\ payload' = payload /\ slot' = slot /\ next' = next
        /\ items' = items /\ region' = region /\ status' = status /\ out' = out /\ scan' = scan
    BY DEF EndForward, ffnVars
  <1>3. CamTypes
    BY DEF CamInv
  <1>4. at' \in [Gs -> 0 .. Len(ForwardLayers) + 1] /\ at'[g] = 1 /\ \A h \in Gs : h /= g => at'[h] = at[h]
    <2>1. at \in [Gs -> 0 .. Len(ForwardLayers) + 1] /\ Len(ForwardLayers) \in Nat
      BY <1>3, ForwardLayersAssumption DEF CamTypes
    <2>2. 1 \in 0 .. Len(ForwardLayers) + 1
      BY <2>1
    <2> QED BY <1>2, <2>1, <2>2
  <1>5. batch' \in [Gs -> Batches] /\ batch'[g] = n /\ \A h \in Gs : h /= g => batch'[h] = batch[h]
    BY <1>1, <1>3 DEF CamTypes
  <1>6. OnlyForward(g)
    BY <1>1, <1>2, <1>4, <1>5 DEF OnlyForward
  <1>7. CamTypes'
    <2>1. DOMAIN hidden' = Attns
      BY <1>1
    <2> QED BY <1>2, <1>3, <1>4, <1>5, <2>1 DEF CamTypes
  <1>8. ~ShardedNow(g)'
    <2>1. 1 .. 1 - 1 = {}
      OBVIOUS
    <2> QED BY <1>4, <2>1 DEF ShardedNow
  <1>9. \A a \in Members(g) : pc[a] = "model" /\ a \in Attns /\ GroupOf(a) = g
    BY <1>2, MemberIs DEF AllAt
  <1>10. ForwardOK(g)'
    <2> SUFFICES ASSUME NEW a \in Members(g) PROVE RankOK(g, a)'
      BY DEF ForwardOK, Members
    <2>1. hidden'[a] = Fresh(n)
      BY <1>1, <1>9
    <2>2. ModelOK(g, a)'
      BY <1>2, <1>4, <1>5, <1>8, <1>9, <2>1 DEF ModelOK
    <2> QED BY <1>2, <1>9, <2>2 DEF RankOK
  <1> QED BY <1>2, <1>6, <1>7, <1>9, <1>10, GroupKeeps

(* The tokens of the rows a rank has combined are those it has sent. *)
LEMMA TokensAre ==
    ASSUME CamInv, NEW g \in Gs, NEW a \in Members(g), pc[a] = "got", at[g] /= 0
    PROVE  Tokens(a) = Sent(batch[g], a)
  <1>1. PICK p : p = payload[a]
    OBVIOUS
  <1>2. out[a] = Combined(p, at[g], a) /\ Toks(p) = Sent(batch[g], a)
    BY <1>1 DEF CamInv, OutOK, ForwardOK, RankOK, MoeOK
  <1>3. 1 \in 1 .. TopK
    BY CamSizes
  <1>4. DOMAIN out[a] = 1 .. Len(p) /\ \A q \in 1 .. Len(p) : out[a][q][1].tok = p[q].tok
    BY <1>2, <1>3 DEF Combined
  <1>5. Tokens(a) = [q \in 1 .. Len(p) |-> p[q].tok]
    BY <1>4 DEF Tokens
  <1> QED BY <1>2, <1>5 DEF Toks

LEMMA RestoredAre ==
    ASSUME CamInv, NEW g \in Gs, AllAt(g, "got"), at[g] > 0, NEW part,
           part = [a \in Members(g) |-> Tokens(a)], NEW a \in Members(g)
    PROVE  Restore(g, part, a) = IF sp /\ TP > 1 THEN BlockOfBatch(batch[g], a) ELSE Fresh(batch[g])
  <1>1. PICK n : n = batch[g]
    OBVIOUS
  <1>2. n \in Nat /\ sp \in BOOLEAN /\ TP \in Nat \ {0}
    BY <1>1, BatchIs, CamSizes DEF CamInv, CamTypes
  <1>3. \A b \in Members(g) : part[b] = Sent(n, b)
    <2>1. at[g] /= 0
      BY DEF CamInv, CamTypes
    <2>2. ASSUME NEW b \in Members(g) PROVE part[b] = Sent(n, b)
      <3>1. pc[b] = "got"
        BY DEF AllAt
      <3> QED BY <1>1, <2>1, <3>1, TokensAre
    <2> QED BY <2>2
  <1>4. CASE sp \/ TP <= 1
    BY <1>1, <1>2, <1>3, <1>4 DEF Restore, Sent
  <1>5. CASE ~(sp \/ TP <= 1)
    <2>1. TP > 1
      BY <1>2, <1>5
    <2>2. \A i \in 0 .. TP - 1 : part[Card(g, i)] = BlockOfBatch(n, Card(g, i))
      BY <1>3, <2>1, CardIs DEF Sent
    <2>3. SubSeq(Gather(g, part), 1, n) = Fresh(n)
      BY <1>2, <2>2, GatherIs
    <2> QED BY <1>1, <1>5, <2>3 DEF Restore
  <1> QED BY <1>4, <1>5

LEMMA RestoreRowsStep == ASSUME CamInv, NEW g \in Gs, RestoreRows(g) PROVE CamInv'
  <1>1. PICK part : part = [a \in Members(g) |-> Tokens(a)]
    OBVIOUS
  <1>2. /\ AllAt(g, "got") /\ at[g] > 0
        /\ hidden' = [a \in Attns |-> IF GroupOf(a) = g THEN Restore(g, part, a) ELSE hidden[a]]
        /\ out' = [a \in Attns |-> IF GroupOf(a) = g THEN <<>> ELSE out[a]]
        /\ payload' = [a \in Attns |-> IF GroupOf(a) = g THEN <<>> ELSE payload[a]]
        /\ at' = [at EXCEPT ![g] = @ + 1]
        /\ pc' = [a \in Attns |-> IF GroupOf(a) = g THEN "model" ELSE pc[a]]
        /\ sp' = sp /\ batch' = batch /\ slot' = slot /\ next' = next /\ items' = items
        /\ region' = region /\ status' = status /\ scan' = scan
    BY <1>1 DEF RestoreRows, GroupGoto, ffnVars
  <1>3. CamTypes
    BY DEF CamInv
  <1>4. \A a \in Members(g) : a \in Attns /\ GroupOf(a) = g /\ pc[a] = "got"
    BY <1>2, MemberIs DEF AllAt
  <1>5. PICK t : t = at[g]
    OBVIOUS
  <1>6. t \in 1 .. Len(ForwardLayers) /\ ForwardLayers[t].moe /\ Len(ForwardLayers) \in Nat
    <2>1. PICK a : a \in Members(g)
      BY CardIs, CamSizes
    <2>2. RankOK(g, a) /\ pc[a] = "got" /\ t /= 0
      BY <1>2, <1>3, <1>4, <1>5, <2>1 DEF CamInv, ForwardOK, CamTypes
    <2> QED BY <1>5, <2>2, ForwardLayersAssumption DEF RankOK, MoeOK
  <1>7. at' \in [Gs -> 0 .. Len(ForwardLayers) + 1] /\ at'[g] = t + 1 /\ \A h \in Gs : h /= g => at'[h] = at[h]
    <2>1. t + 1 \in 0 .. Len(ForwardLayers) + 1
      BY <1>6
    <2> QED BY <1>2, <1>3, <1>5, <2>1 DEF CamTypes
  <1>8. OnlyForward(g)
    BY <1>2, <1>7 DEF OnlyForward
  <1>9. CamTypes'
    <2>1. DOMAIN hidden' = Attns /\ DOMAIN payload' = Attns /\ DOMAIN out' = Attns
      BY <1>2
    <2>2. pc' \in [Attns -> Places]
      BY <1>2, <1>3 DEF CamTypes, Places
    <2> QED BY <1>2, <1>3, <1>7, <2>1, <2>2 DEF CamTypes
  <1>10. ShardedNow(g)' <=> sp /\ TP > 1
    <2>1. t \in 1 .. t + 1 - 1 /\ \A i \in t .. t + 1 - 1 : i = t
      BY <1>6
    <2> QED BY <1>2, <1>6, <1>7, <2>1 DEF ShardedNow
  <1>11. ForwardOK(g)'
    <2> SUFFICES ASSUME NEW a \in Members(g) PROVE RankOK(g, a)'
      BY DEF ForwardOK, Members
    <2>1. hidden'[a] = IF sp /\ TP > 1 THEN BlockOfBatch(batch[g], a) ELSE Fresh(batch[g])
      BY <1>1, <1>2, <1>4, RestoredAre
    <2>2. \A b \in Members(g) : pc'[b] = "model"
      BY <1>2, <1>4
    <2>3. at'[g] /= 0
      BY <1>6, <1>7
    <2>4. ModelOK(g, a)'
      BY <1>2, <1>10, <2>1, <2>2, <2>3 DEF ModelOK
    <2> QED BY <2>2, <2>4 DEF RankOK
  <1>12. \A a \in Members(g) : pc[a] /= "wait" /\ pc'[a] \notin {"wait", "got"}
    BY <1>2, <1>4
  <1> QED BY <1>8, <1>9, <1>11, <1>12, GroupKeeps

LEMMA WarmupEndsStep == ASSUME CamInv, NEW g \in Gs, WarmupEnds(g) PROVE CamInv'
  <1>1. /\ AllAt(g, "got") /\ at[g] = 0
        /\ out' = [a \in Attns |-> IF GroupOf(a) = g THEN <<>> ELSE out[a]]
        /\ payload' = [a \in Attns |-> IF GroupOf(a) = g THEN <<>> ELSE payload[a]]
        /\ at' = [at EXCEPT ![g] = 1]
        /\ pc' = [a \in Attns |-> IF GroupOf(a) = g THEN "model" ELSE pc[a]]
        /\ sp' = sp /\ batch' = batch /\ hidden' = hidden /\ slot' = slot /\ next' = next /\ items' = items
        /\ region' = region /\ status' = status /\ scan' = scan
    BY DEF WarmupEnds, GroupGoto, ffnVars
  <1>2. CamTypes
    BY DEF CamInv
  <1>3. \A a \in Members(g) : a \in Attns /\ GroupOf(a) = g /\ pc[a] = "got"
    BY <1>1, MemberIs DEF AllAt
  <1>4. at' \in [Gs -> 0 .. Len(ForwardLayers) + 1] /\ at'[g] = 1 /\ \A h \in Gs : h /= g => at'[h] = at[h]
    <2>1. 1 \in 0 .. Len(ForwardLayers) + 1
      BY ForwardLayersAssumption
    <2> QED BY <1>1, <1>2, <2>1 DEF CamTypes
  <1>5. OnlyForward(g)
    BY <1>1, <1>4 DEF OnlyForward
  <1>6. CamTypes'
    <2>1. DOMAIN payload' = Attns /\ DOMAIN out' = Attns
      BY <1>1
    <2>2. pc' \in [Attns -> Places]
      BY <1>1, <1>2 DEF CamTypes, Places
    <2> QED BY <1>1, <1>2, <1>4, <2>1, <2>2 DEF CamTypes
  <1>7. ~ShardedNow(g)'
    <2>1. 1 .. 1 - 1 = {}
      OBVIOUS
    <2> QED BY <1>4, <2>1 DEF ShardedNow
  <1>8. ForwardOK(g)'
    <2> SUFFICES ASSUME NEW a \in Members(g) PROVE RankOK(g, a)'
      BY DEF ForwardOK, Members
    <2>1. hidden[a] = Fresh(batch[g])
      BY <1>1, <1>3 DEF CamInv, ForwardOK, RankOK, MoeOK
    <2>2. \A b \in Members(g) : pc'[b] = "model"
      BY <1>1, <1>3
    <2>3. ModelOK(g, a)'
      BY <1>1, <1>4, <1>7, <2>1, <2>2 DEF ModelOK
    <2> QED BY <2>2, <2>3 DEF RankOK
  <1>9. \A a \in Members(g) : pc[a] /= "wait" /\ pc'[a] \notin {"wait", "got"}
    BY <1>1, <1>3
  <1> QED BY <1>5, <1>6, <1>8, <1>9, GroupKeeps

(***************************************************************************)
(* The beginning.                                                          *)
(***************************************************************************)
LEMMA WarmRowIs == WarmRow \in Seq(Row)
  <1>1. PICK w : w = [tok |-> 1, ids |-> [k \in 1 .. TopK |-> k - 1]]
    OBVIOUS
  <1>2. w \in Row
    <2>1. [k \in 1 .. TopK |-> k - 1] \in [1 .. TopK -> Experts]
      <3>1. FFNs * Local \in Nat /\ TopK <= FFNs * Local
        BY CamSizes, ExpertsAre
      <3>2. \A k \in 1 .. TopK : k - 1 \in Experts
        BY <3>1, CamSizes DEF Experts
      <3> QED BY <3>2
    <2> QED BY <1>1, <2>1 DEF Row
  <1>3. <<w>> \in Seq(Row)
    BY <1>2
  <1> QED BY <1>1, <1>3 DEF WarmRow

LEMMA CamInitInv == CamInit => CamInv
  <1> SUFFICES ASSUME CamInit PROVE CamInv
    OBVIOUS
  <1>1. /\ sp \in BOOLEAN /\ batch \in [Gs -> Batches]
        /\ at \in {[g \in Gs |-> 0], [g \in Gs |-> 1]}
        /\ pc = [a \in Attns |-> IF at[GroupOf(a)] = 0 THEN "send" ELSE "model"]
        /\ hidden = [a \in Attns |-> Fresh(batch[GroupOf(a)])]
        /\ payload = [a \in Attns |-> IF at[GroupOf(a)] = 0 THEN WarmRow ELSE <<>>]
        /\ slot = [f \in Fs |-> [a \in Attns |-> EmptySlot]]
        /\ next = [f \in Fs |-> [g \in Gs |-> 0]]
        /\ scan = [f \in Fs |-> 0] /\ items = [f \in Fs |-> <<>>]
        /\ region = [a \in Attns |-> [p \in Positions |-> NoPart]]
        /\ status = [a \in Attns |-> [f \in Fs |-> 0]]
        /\ out = [a \in Attns |-> <<>>]
    BY DEF CamInit
  <1>2. \A g \in Gs : (at[g] = 0 \/ at[g] = 1)
    BY <1>1
  <1>3. \A a \in Attns : GroupOf(a) \in Gs
    BY RankIs
  <1>4. CamTypes
    <2>1. at \in [Gs -> 0 .. Len(ForwardLayers) + 1]
      <3>1. 0 \in 0 .. Len(ForwardLayers) + 1 /\ 1 \in 0 .. Len(ForwardLayers) + 1
        BY ForwardLayersAssumption
      <3> QED BY <1>1, <3>1
    <2>2. pc \in [Attns -> Places]
      BY <1>1 DEF Places
    <2>3. scan \in [Fs -> Gs]
      <3>1. 0 \in Gs
        BY CamSizes DEF Gs
      <3> QED BY <1>1, <3>1
    <2>4. ASSUME NEW f \in Fs PROVE DOMAIN slot[f] = Attns /\ DOMAIN next[f] = Gs
                                     /\ IsSequence(items[f]) /\ Grouped(items[f])
      <3>1. slot[f] = [a \in Attns |-> EmptySlot] /\ next[f] = [g \in Gs |-> 0] /\ items[f] = <<>>
        BY <1>1
      <3>2. Grouped(<<>>)
        BY DEF Grouped
      <3> QED BY <3>1, <3>2, EmptySequence
    <2>5. /\ DOMAIN hidden = Attns /\ DOMAIN payload = Attns /\ DOMAIN out = Attns
          /\ DOMAIN region = Attns /\ DOMAIN status = Attns
          /\ DOMAIN slot = Fs /\ DOMAIN next = Fs /\ DOMAIN items = Fs
      BY <1>1
    <2>6. \A a \in Attns : DOMAIN status[a] = Fs
      BY <1>1
    <2> QED BY <1>1, <2>1, <2>2, <2>3, <2>4, <2>5, <2>6 DEF CamTypes
  <1>5. ASSUME NEW g \in Gs, NEW a \in Members(g)
        PROVE  /\ pc[a] = IF at[g] = 0 THEN "send" ELSE "model"
               /\ hidden[a] = Fresh(batch[g]) /\ (at[g] = 0 => payload[a] = WarmRow)
    BY <1>1, MemberIs
  <1>6. ASSUME NEW g \in Gs PROVE ForwardOK(g) /\ OutOK(g)
    <2>1. ASSUME NEW a \in Members(g) PROVE RankOK(g, a) /\ pc[a] /= "got"
      <3>1. CASE at[g] = 0
        <4>1. pc[a] = "send" /\ hidden[a] = Fresh(batch[g]) /\ payload[a] = WarmRow
          BY <1>5, <3>1
        <4>2. MoeOK(g, a)
          BY <3>1, <4>1, WarmRowIs DEF MoeOK
        <4> QED BY <4>1, <4>2 DEF RankOK
      <3>2. CASE at[g] /= 0
        <4>1. hidden[a] = Fresh(batch[g]) /\ pc[a] = "model" /\ \A b \in Members(g) : pc[b] = "model"
          BY <1>5, <3>2
        <4>2. ~ShardedNow(g)
          <5>1. 1 .. 1 - 1 = {} /\ at[g] = 1
            BY <1>2, <3>2
          <5> QED BY <5>1 DEF ShardedNow
        <4>3. ModelOK(g, a)
          BY <3>2, <4>1, <4>2 DEF ModelOK
        <4> QED BY <4>1, <4>3 DEF RankOK
      <3> QED BY <3>1, <3>2
    <2> QED BY <2>1 DEF ForwardOK, OutOK
  <1>7. ASSUME NEW f \in Fs, NEW g \in Gs PROVE Lane(f, g)
    <2>1. \A a \in Members(g) : slot[f][a].flag = 0 /\ status[a][f] = 0 /\ pc[a] \notin {"wait", "got"}
      <3> SUFFICES ASSUME NEW a \in Members(g)
                   PROVE  slot[f][a].flag = 0 /\ status[a][f] = 0 /\ pc[a] \notin {"wait", "got"}
        OBVIOUS
      <3>1. a \in Attns
        BY MemberIs
      <3>2. slot[f][a] = EmptySlot /\ status[a][f] = 0
        BY <1>1, <3>1
      <3> QED BY <1>5, <3>2 DEF EmptySlot
    <2>2. Of(items[f], g) = {} /\ InTurn(items[f], g)
      <3>1. items[f] = <<>> /\ DOMAIN <<>> = {}
        BY <1>1
      <3> QED BY <3>1 DEF Of, InTurn
    <2>3. Card(g, 0) \in Members(g)
      BY CardIs, CamSizes
    <2> QED BY <2>1, <2>2, <2>3 DEF Lane, LaneFlags, LaneGone, LaneNext, LaneItems, LaneStatus, LaneRegion
  <1> QED BY <1>4, <1>6, <1>7 DEF CamInv

(***************************************************************************)
(* The steps of a rank.                                                    *)
(***************************************************************************)
LEMMA NextGroup == ASSUME NEW g \in Gs PROVE (g + 1) % Groups \in Gs
  <1>1. g + 1 \in Nat /\ Groups \in Nat \ {0}
    BY CamSizes DEF Gs
  <1>2. (g + 1) % Groups \in 0 .. Groups - 1
    BY <1>1, Z3
  <1> QED BY <1>2 DEF Gs

LEMMA LookOnStep == ASSUME CamInv, NEW f \in Fs, LookOn(f) PROVE CamInv'
  <1>1. /\ scan' = [scan EXCEPT ![f] = (@ + 1) % Groups]
        /\ sp' = sp /\ batch' = batch /\ at' = at /\ pc' = pc /\ hidden' = hidden /\ payload' = payload
        /\ slot' = slot /\ next' = next /\ items' = items /\ region' = region /\ status' = status /\ out' = out
    BY DEF LookOn, attVars
  <1>2. CamTypes'
    <2>1. scan' \in [Fs -> Gs]
      <3>1. scan \in [Fs -> Gs]
        BY DEF CamInv, CamTypes
      <3>2. (scan[f] + 1) % Groups \in Gs
        BY <3>1, NextGroup
      <3> QED BY <1>1, <3>1, <3>2
    <2> QED BY <1>1, <2>1 DEF CamInv, CamTypes
  <1>3. ASSUME NEW g \in Gs PROVE ForwardOK(g)' /\ OutOK(g)'
    <2>1. ForwardOK(g) /\ OutOK(g)
      BY DEF CamInv
    <2>2. SameForward(g)
      BY <1>1 DEF SameForward
    <2> QED BY <1>1, <2>1, <2>2, ForwardFrame, OutFrame
  <1>4. ASSUME NEW h \in Fs, NEW g \in Gs PROVE Lane(h, g)'
    <2>1. Lane(h, g)
      BY DEF CamInv
    <2>2. SameFlags(h, g) /\ SameItems(h, g)
      BY <1>1 DEF SameFlags, SameItems, RegionKept
    <2> QED BY <2>1, <2>2, LaneFrame
  <1> QED BY <1>2, <1>3, <1>4 DEF CamInv

(* nothing changes but what concerns rank a *)
OnlyRank(a) ==
    /\ sp' = sp /\ batch' = batch /\ at' = at /\ hidden' = hidden /\ payload' = payload
    /\ items' = items /\ scan' = scan
    /\ \A b \in Attns : b /= a =>
          /\ pc'[b] = pc[b] /\ region'[b] = region[b] /\ out'[b] = out[b]
          /\ \A f \in Fs : slot'[f][b] = slot[f][b] /\ status'[b][f] = status[b][f]
    /\ \A f \in Fs : \A h \in Gs : h /= GroupOf(a) => next'[f][h] = next[f][h]

LEMMA RankKeeps ==
    ASSUME CamInv, NEW a \in Attns, OnlyRank(a), CamTypes', RankOK(GroupOf(a), a)',
           pc[a] /= "model", pc'[a] /= "model",
           pc'[a] = "got" => out'[a] = Combined(payload[a], at[GroupOf(a)], a),
           \A f \in Fs : Lane(f, GroupOf(a))'
    PROVE  CamInv'
  <1>1. PICK g : g = GroupOf(a)
    OBVIOUS
  <1>2. g \in Gs /\ a \in Members(g)
    BY <1>1, RankIs
  <1>3. ASSUME NEW h \in Gs, h /= g PROVE ForwardOK(h)' /\ OutOK(h)' /\ \A f \in Fs : Lane(f, h)'
    <2>1. ForwardOK(h) /\ OutOK(h) /\ \A f \in Fs : Lane(f, h)
      BY DEF CamInv
    <2>2. \A b \in Members(h) : b \in Attns /\ b /= a
      BY <1>1, <1>3 DEF Members
    <2>3. SameForward(h)
      BY <2>2 DEF OnlyRank, SameForward
    <2>4. ForwardOK(h)'
      BY <2>1, <2>3, ForwardFrame
    <2>5. OutOK(h)'
      <3>1. at'[h] = at[h] /\ \A b \in Members(h) : pc'[b] = pc[b] /\ payload'[b] = payload[b] /\ out'[b] = out[b]
        BY <2>2 DEF OnlyRank
      <3> QED BY <2>1, <3>1, OutFrame
    <2>6. ASSUME NEW f \in Fs PROVE Lane(f, h)'
      <3>1. at'[h] = at[h] /\ next'[f][h] = next[f][h] /\ items' = items
        BY <1>1, <1>3 DEF OnlyRank
      <3>2. \A b \in Members(h) : /\ pc'[b] = pc[b] /\ payload'[b] = payload[b] /\ slot'[f][b] = slot[f][b]
                                  /\ status'[b][f] = status[b][f] /\ region'[b] = region[b]
        BY <2>2 DEF OnlyRank
      <3>3. SameFlags(f, h) /\ SameItems(f, h)
        BY <3>1, <3>2 DEF SameFlags, SameItems, RegionKept
      <3> QED BY <2>1, <3>3, LaneFrame
    <2> QED BY <2>4, <2>5, <2>6
  <1>4. ForwardOK(g)'
    <2> SUFFICES ASSUME NEW b \in Members(g), b /= a PROVE RankOK(g, b)'
      BY <1>1 DEF ForwardOK, Members
    <2>1. RankOK(g, b) /\ b \in Attns
      BY <1>2, MemberIs DEF CamInv, ForwardOK
    <2>2. pc[b] /= "model"
      BY <1>2, <2>1 DEF RankOK, ModelOK
    <2>3. pc'[b] = pc[b] /\ payload' = payload /\ at' = at /\ hidden' = hidden /\ batch' = batch /\ sp' = sp
      BY <2>1 DEF OnlyRank
    <2> QED BY <2>1, <2>2, <2>3 DEF RankOK, MoeOK, Holding
  <1>5. OutOK(g)'
    <2> SUFFICES ASSUME NEW b \in Members(g), pc'[b] = "got" PROVE out'[b] = Combined(payload'[b], at'[g], b)
      BY DEF OutOK, Members
    <2>1. payload' = payload /\ at' = at
      BY DEF OnlyRank
    <2>2. CASE b = a
      BY <1>1, <2>1, <2>2
    <2>3. CASE b /= a
      <3>1. b \in Attns
        BY <1>2, MemberIs
      <3>2. pc'[b] = pc[b] /\ out'[b] = out[b]
        BY <2>3, <3>1 DEF OnlyRank
      <3>3. out[b] = Combined(payload[b], at[g], b)
        BY <1>2, <3>2 DEF CamInv, OutOK
      <3> QED BY <2>1, <3>2, <3>3
    <2> QED BY <2>2, <2>3
  <1> QED BY <1>1, <1>2, <1>3, <1>4, <1>5 DEF CamInv

(* While one rank of a group has not sent, an FFN rank has received nothing. *)
LEMMA NotYet ==
    ASSUME CamInv, NEW f \in Fs, NEW a \in Attns, NEW g, g = GroupOf(a), pc[a] = "send"
    PROVE  /\ \A b \in Members(g) : pc[b] \in {"wait", "got"} => slot[f][b].flag /= 0
           /\ slot[f][a].flag = 0 /\ status[a][f] = 0 /\ ~Ready(f, g) /\ Of(items[f], g) = {}
           /\ slot[f][Card(g, 0)].flag /= 0 => next[f][g] = 0
  <1>1. g \in Gs /\ a \in Members(g) /\ TpRank(a) \in 0 .. TP - 1 /\ a = Card(g, TpRank(a))
    BY RankIs
  <1>2. Lane(f, g)
    BY <1>1 DEF CamInv
  <1>3. \A b \in Members(g) : pc[b] \in {"wait", "got"} => slot[f][b].flag /= 0
    BY <1>1, <1>2 DEF Lane, LaneGone
  <1>4. slot[f][a].flag = 0
    BY <1>1, <1>2 DEF Lane, LaneFlags
  <1>5. status[a][f] = 0
    BY <1>1, <1>2 DEF Lane, LaneStatus
  <1>6. ~Ready(f, g)
    BY <1>1, <1>4 DEF Ready
  <1>7. Of(items[f], g) = {}
    BY <1>1, <1>2 DEF Lane, LaneItems, ItemOK
  <1>8. slot[f][Card(g, 0)].flag /= 0 => next[f][g] = 0
    BY <1>2, <1>6 DEF Lane, LaneNext
  <1> QED BY <1>3, <1>4, <1>5, <1>6, <1>7, <1>8

LEMMA DispatchedIs ==
    ASSUME NEW f \in Fs, NEW p \in Seq(Row), NEW t, NEW a
    PROVE  Dispatched(p, t, a, f).flag /= 0
  <1>1. /\ f * Local \in Nat /\ (f + 1) * Local = f * Local + Local /\ (f + 1) * Local <= FFNs * Local
        /\ FFNs * Local \in Nat /\ Local \in Nat
    BY ExpertsAre, CamSizes
  <1>2. Numbers(Counts(p), f * Local, (f + 1) * Local)
    BY <1>1, CountsAre DEF Numbers
  <1>3. RowsOfFfn(p, f) \in Nat
    BY <1>1, <1>2, SumNat DEF RowsOfFfn
  <1> QED BY <1>3 DEF Dispatched

LEMMA SentSlots ==
    ASSUME NEW f \in Fs, NEW a
    PROVE  [flag |-> RowsOfFfn(payload[a], f) + 1, layer |-> LayerOf(GroupOf(a)),
            prefix |-> SumFrom(Counts(payload[a]), 0, f * Local),
            counts |-> [e \in 0 .. Local - 1 |-> Count(payload[a], f * Local + e)],
            rows |-> [e \in 0 .. Local - 1 |-> RowsFor(a, f * Local + e)]]
             = Dispatched(payload[a], at[GroupOf(a)], a, f)
  <1>1. PICK p, t : p = payload[a] /\ t = at[GroupOf(a)]
    OBVIOUS
  <1>2. LayerOf(GroupOf(a)) = LayerId(t)
    BY <1>1 DEF LayerOf, LayerId
  <1>3. [e \in 0 .. Local - 1 |-> RowsFor(a, f * Local + e)] = RowsTo(p, t, a, f)
    <2>1. \A e : RowsFor(a, e) = RowsOf(p, t, a, e)
      BY <1>1 DEF RowsFor, RowsOf
    <2> QED BY <2>1 DEF RowsTo
  <1> QED BY <1>1, <1>2, <1>3 DEF Dispatched, Start, CountsTo

LEMMA SendLane ==
    ASSUME CamInv, NEW f \in Fs, NEW a \in Attns, NEW g, g = GroupOf(a), pc[a] = "send",
           at' = at, payload' = payload, items' = items, pc'[a] \in {"refused", "wait"},
           \A b \in Members(g) : status'[b][f] = status[b][f],
           \A b \in Members(g) : b /= a => pc'[b] = pc[b] /\ slot'[f][b] = slot[f][b],
           pc'[a] = "refused" => slot'[f][a] = slot[f][a] /\ next'[f][g] = next[f][g],
           pc'[a] = "wait" => /\ slot'[f][a] = Dispatched(payload[a], at[g], a, f)
                              /\ next'[f][g] = IF a = Card(g, 0) THEN 0 ELSE next[f][g]
    PROVE  Lane(f, g)'
  <1>1. g \in Gs /\ a \in Members(g)
    BY RankIs
  <1>2. Lane(f, g) /\ payload[a] \in Seq(Row)
    BY <1>1 DEF CamInv, ForwardOK, RankOK, MoeOK
  <1>3. Dispatched(payload[a], at[g], a, f).flag /= 0
    BY <1>2, DispatchedIs
  <1>4. /\ \A b \in Members(g) : pc[b] \in {"wait", "got"} => slot[f][b].flag /= 0
        /\ slot[f][a].flag = 0 /\ status[a][f] = 0 /\ ~Ready(f, g) /\ Of(items[f], g) = {}
        /\ slot[f][Card(g, 0)].flag /= 0 => next[f][g] = 0
    BY NotYet
  <1>5. Card(g, 0) \in Members(g)
    BY <1>1, CardIs, CamSizes
  <1>6. ASSUME NEW b \in Members(g), pc'[b] \in {"wait", "got"} PROVE slot'[f][b].flag /= 0
    <2>1. CASE b = a
      BY <1>3, <1>6, <2>1
    <2>2. CASE b /= a
      BY <1>4, <1>6, <2>2
    <2> QED BY <2>1, <2>2
  <1>7. LaneFlags(f, g)'
    <2> SUFFICES ASSUME NEW b \in Members(g), slot'[f][b].flag /= 0
                 PROVE  /\ pc'[b] = "wait" /\ status'[b][f] = 0
                        /\ slot'[f][b] = Dispatched(payload'[b], at'[g], b, f)
      BY DEF LaneFlags, Members
    <2>1. CASE b = a
      BY <1>4, <2>1
    <2>2. CASE b /= a
      <3>1. pc[b] = "wait" /\ status[b][f] = 0 /\ slot[f][b] = Dispatched(payload[b], at[g], b, f)
        BY <1>2, <2>2 DEF Lane, LaneFlags
      <3> QED BY <2>2, <3>1
    <2> QED BY <2>1, <2>2
  <1>8. LaneGone(f, g)'
    BY <1>6 DEF LaneGone, Members
  <1>9. slot'[f][Card(g, 0)].flag /= 0 => (next'[f][g] = 0 \/ (~Ready(f, g)' /\ pc'[a] = "refused"))
    <2>1. CASE pc'[a] = "wait"
      BY <1>4, <1>5, <2>1
    <2>2. CASE pc'[a] = "refused"
      <3>1. slot'[f][a].flag = 0
        BY <1>4, <2>2
      <3>2. TpRank(a) \in 0 .. TP - 1 /\ a = Card(g, TpRank(a))
        BY RankIs
      <3> QED BY <2>2, <3>1, <3>2 DEF Ready
    <2> QED BY <2>1, <2>2
  <1>10. LaneNext(f, g)'
    <2> SUFFICES ASSUME slot'[f][Card(g, 0)].flag /= 0
                 PROVE  IF Ready(f, g)' THEN next'[f][g] \in 0 .. Local - 1 ELSE next'[f][g] = 0
      BY DEF LaneNext
    <2>1. CASE next'[f][g] = 0
      BY <2>1, CamSizes
    <2>2. CASE next'[f][g] /= 0
      <3>1. ~Ready(f, g)' /\ pc'[a] = "refused"
        BY <1>9, <2>2
      <3>2. slot'[f][a] = slot[f][a] /\ next'[f][g] = next[f][g]
        BY <3>1
      <3>3. slot[f][Card(g, 0)].flag /= 0
        BY <1>5, <3>2
      <3> QED BY <1>4, <2>2, <3>2, <3>3
    <2> QED BY <2>1, <2>2
  <1>11. LaneItems(f, g)'
    BY <1>2, <1>4 DEF Lane, LaneItems
  <1>12. LaneStatus(f, g)'
    <2> SUFFICES ASSUME NEW b \in Members(g), status'[b][f] /= 0
                 PROVE  /\ pc'[b] = "wait" /\ status'[b][f] = Start(payload'[b], f * Local) + 1
                        /\ Of(items'[f], g) = {}
      BY DEF LaneStatus, Members
    <2>1. b /= a
      BY <1>4
    <2> QED BY <1>2, <1>4, <2>1 DEF Lane, LaneStatus
  <1>13. LaneRegion(f, g)'
    <2> SUFFICES ASSUME NEW b \in Members(g), pc'[b] = "wait", NEW e \in 0 .. Local - 1, e < Recd(f, g, b)'
                 PROVE  FALSE
      BY DEF LaneRegion, Members
    <2>1. slot'[f][b].flag /= 0
      BY <1>6
    <2>2. Recd(f, g, b)' = IF Ready(f, g)' THEN next'[f][g] ELSE 0
      BY <2>1 DEF Recd
    <2>3. Ready(f, g)' => slot'[f][Card(g, 0)].flag /= 0
      <3>1. 0 \in 0 .. TP - 1
        BY CamSizes
      <3> QED BY <3>1 DEF Ready
    <2>4. Recd(f, g, b)' = 0
      BY <1>9, <2>2, <2>3
    <2> QED BY <2>4, CamSizes
  <1> QED BY <1>7, <1>8, <1>10, <1>11, <1>12, <1>13 DEF Lane

LEMMA DispatchSendStep == ASSUME CamInv, NEW a \in Attns, DispatchSend(a) PROVE CamInv'
  <1>1. PICK g : g = GroupOf(a)
    OBVIOUS
  <1>2. /\ pc[a] = "send" /\ sp' = sp /\ batch' = batch /\ at' = at /\ hidden' = hidden /\ payload' = payload
        /\ items' = items /\ scan' = scan /\ region' = region /\ status' = status /\ out' = out
    BY DEF DispatchSend, ffnVars
  <1>3. g \in Gs /\ a \in Members(g) /\ a = Card(g, TpRank(a))
    BY <1>1, RankIs
  <1>4. CamTypes /\ MoeOK(g, a)
    BY <1>2, <1>3 DEF CamInv, ForwardOK, RankOK
  <1>5. ASSUME NEW place \in {"refused", "wait"}, pc' = [pc EXCEPT ![a] = place],
               \A f \in Fs : /\ DOMAIN slot'[f] = Attns /\ DOMAIN next'[f] = Gs
                             /\ \A b \in Attns : b /= a => slot'[f][b] = slot[f][b]
                             /\ \A h \in Gs : h /= g => next'[f][h] = next[f][h],
               DOMAIN slot' = Fs, DOMAIN next' = Fs,
               place = "wait" => Fits(payload[a]),
               \A f \in Fs : Lane(f, g)'
        PROVE  CamInv'
    <2>1. pc' \in [Attns -> Places] /\ pc'[a] = place /\ \A b \in Attns : b /= a => pc'[b] = pc[b]
      BY <1>4, <1>5 DEF CamTypes, Places
    <2>2. CamTypes'
      BY <1>2, <1>4, <1>5, <2>1 DEF CamTypes
    <2>3. OnlyRank(a)
      BY <1>1, <1>2, <1>5, <2>1 DEF OnlyRank
    <2>4. RankOK(g, a)'
      BY <1>2, <1>4, <1>5, <2>1 DEF RankOK, MoeOK, Fits, Holding
    <2> QED BY <1>1, <1>2, <1>5, <2>1, <2>2, <2>3, <2>4, RankKeeps
  <1>6. CASE Len(payload[a]) > MaxTokens \div TP
    <2>1. pc' = [pc EXCEPT ![a] = "refused"] /\ slot' = slot /\ next' = next
      BY <1>6 DEF DispatchSend
    <2>2. pc'[a] = "refused" /\ \A b \in Attns : b /= a => pc'[b] = pc[b]
      BY <1>4, <2>1 DEF CamTypes
    <2>3. \A f \in Fs : Lane(f, g)'
      BY <1>1, <1>2, <2>1, <2>2, MemberIs, <1>3, SendLane
    <2>4. /\ DOMAIN slot' = Fs /\ DOMAIN next' = Fs
          /\ \A f \in Fs : DOMAIN slot'[f] = Attns /\ DOMAIN next'[f] = Gs
      BY <1>4, <2>1 DEF CamTypes
    <2> QED BY <1>5, <2>1, <2>3, <2>4
  <1>7. CASE ~(Len(payload[a]) > MaxTokens \div TP)
    <2>1. /\ slot' = [f \in Fs |-> [slot[f] EXCEPT ![a] = Dispatched(payload[a], at[g], a, f)]]
          /\ next' = IF TpRank(a) /= 0 THEN next ELSE [f \in Fs |-> [next[f] EXCEPT ![g] = 0]]
          /\ pc' = [pc EXCEPT ![a] = "wait"]
      <3>1. slot' = [f \in Fs |-> [slot[f] EXCEPT ![a] =
                      [flag |-> RowsOfFfn(payload[a], f) + 1, layer |-> LayerOf(GroupOf(a)),
                       prefix |-> SumFrom(Counts(payload[a]), 0, f * Local),
                       counts |-> [e \in 0 .. Local - 1 |-> Count(payload[a], f * Local + e)],
                       rows |-> [e \in 0 .. Local - 1 |-> RowsFor(a, f * Local + e)]]]]
        BY <1>7 DEF DispatchSend
      <3>2. \A f \in Fs :
              [flag |-> RowsOfFfn(payload[a], f) + 1, layer |-> LayerOf(GroupOf(a)),
               prefix |-> SumFrom(Counts(payload[a]), 0, f * Local),
               counts |-> [e \in 0 .. Local - 1 |-> Count(payload[a], f * Local + e)],
               rows |-> [e \in 0 .. Local - 1 |-> RowsFor(a, f * Local + e)]]
                 = Dispatched(payload[a], at[g], a, f)
        BY <1>1, SentSlots
      <3>3. slot' = [f \in Fs |-> [slot[f] EXCEPT ![a] = Dispatched(payload[a], at[g], a, f)]]
        BY <3>1, <3>2
      <3> QED BY <1>1, <1>7, <3>3 DEF DispatchSend
    <2>2. pc'[a] = "wait" /\ \A b \in Attns : b /= a => pc'[b] = pc[b]
      BY <1>4, <2>1 DEF CamTypes
    <2>3. ASSUME NEW f \in Fs
          PROVE  /\ DOMAIN slot'[f] = Attns /\ slot'[f][a] = Dispatched(payload[a], at[g], a, f)
                 /\ \A b \in Attns : b /= a => slot'[f][b] = slot[f][b]
      <3>1. DOMAIN slot[f] = Attns
        BY <1>4 DEF CamTypes
      <3>2. PICK d : d = Dispatched(payload[a], at[g], a, f)
        OBVIOUS
      <3>3. slot'[f] = [slot[f] EXCEPT ![a] = d]
        BY <2>1, <3>2
      <3> QED BY <3>1, <3>2, <3>3
    <2>4. a = Card(g, 0) <=> TpRank(a) = 0
      <3>1. TpRank(a) \in Nat /\ g \in Nat /\ g * TP \in Nat
        BY <1>1, RankIs, CamSizes DEF Gs
      <3>2. PICK r, c : r = TpRank(a) /\ c = g * TP
        OBVIOUS
      <3>3. a = c + r /\ Card(g, 0) = c + 0 /\ r \in Nat /\ c \in Nat
        BY <1>3, <3>1, <3>2 DEF Card
      <3> QED BY <3>2, <3>3
    <2>5. ASSUME NEW f \in Fs
          PROVE  /\ DOMAIN next'[f] = Gs /\ next'[f][g] = IF a = Card(g, 0) THEN 0 ELSE next[f][g]
                 /\ \A h \in Gs : h /= g => next'[f][h] = next[f][h]
      <3>1. DOMAIN next[f] = Gs
        BY <1>4 DEF CamTypes
      <3> QED BY <1>3, <2>1, <2>4, <3>1
    <2>6. ASSUME NEW f \in Fs PROVE Lane(f, g)'
      BY <1>1, <1>2, <1>3, <2>2, <2>3, <2>5, MemberIs, SendLane
    <2>7. Fits(payload[a])
      <3>1. payload[a] \in Seq(Row)
        BY <1>4 DEF MoeOK
      <3>2. MaxTokens \div TP \in Int /\ Len(payload[a]) \in Int
        BY <3>1, CamSizes
      <3> QED BY <1>7, <3>1, <3>2 DEF Fits
    <2>8. DOMAIN slot' = Fs /\ DOMAIN next' = Fs
      BY <1>4, <2>1 DEF CamTypes
    <2> QED BY <1>5, <2>1, <2>3, <2>5, <2>6, <2>7, <2>8
  <1> QED BY <1>6, <1>7

(* An answered rank: every FFN rank has the rows of its group behind it. *)
LEMMA Answered ==
    ASSUME CamInv, NEW f \in Fs, NEW g \in Gs, NEW a \in Members(g), pc[a] = "wait", status[a][f] /= 0
    PROVE  /\ \A b \in Members(g) : slot[f][b].flag = 0 /\ pc[b] \in {"wait", "got"}
           /\ Of(items[f], g) = {} /\ status[a][f] = Start(payload[a], f * Local) + 1
           /\ \A e \in 0 .. Local - 1 : Returned(region[a], payload[a], at[g], a, f * Local + e)
  <1>1. Lane(f, g)
    BY DEF CamInv
  <1>2. slot[f][a].flag = 0
    BY <1>1 DEF Lane, LaneFlags
  <1>3. \A b \in Members(g) : slot[f][b].flag = 0 /\ pc[b] \in {"wait", "got"}
    BY <1>1, <1>2 DEF Lane, LaneGone
  <1>4. Of(items[f], g) = {} /\ status[a][f] = Start(payload[a], f * Local) + 1
    BY <1>1 DEF Lane, LaneStatus
  <1>5. ASSUME NEW e \in 0 .. Local - 1 PROVE Returned(region[a], payload[a], at[g], a, f * Local + e)
    <2>1. e < Recd(f, g, a)
      BY <1>2, CamSizes DEF Recd
    <2>2. ~Pending(items[f], g, e)
      BY <1>4 DEF Pending
    <2> QED BY <1>1, <2>1, <2>2 DEF Lane, LaneRegion
  <1> QED BY <1>3, <1>4, <1>5

(* the part of a row a rank combines for expert k of row q *)
PartFor(a, q, k) ==
    region[a][status[a][FfnOf(payload[a][q].ids[k])] - 1
                + Before(payload[a], FfnOf(payload[a][q].ids[k]), payload[a][q].ids[k])
                + Occurrence(payload[a], <<q, k>>)]

LEMMA LayerIdIn ==
    ASSUME NEW t, t = 0 \/ (t \in 1 .. Len(ForwardLayers) /\ ForwardLayers[t].moe)
    PROVE  LayerId(t) \in LayerIds
  <1>1. CASE t = 0
    BY <1>1, MinOf, ForwardLayersAssumption DEF LayerId
  <1>2. CASE t /= 0
    <2>1. t \in DOMAIN ForwardLayers
      BY <1>2, ForwardLayersAssumption
    <2> QED BY <1>2, <2>1, ForwardLayersAssumption DEF LayerId
  <1> QED BY <1>1, <1>2

LEMMA PartForIs ==
    ASSUME CamInv, NEW g \in Gs, NEW a \in Members(g), pc[a] = "wait", \A f \in Fs : status[a][f] /= 0,
           NEW q \in 1 .. Len(payload[a]), NEW k \in 1 .. TopK
    PROVE  PartFor(a, q, k) = Combined(payload[a], at[g], a)[q][k]
  <1>1. PICK p, t, x, f, e, m, o :
          /\ p = payload[a] /\ t = at[g] /\ x = p[q].ids[k] /\ f = FfnOf(x) /\ e = x - f * Local
          /\ m = <<q, k>> /\ o = Occurrence(p, m) + 1
    OBVIOUS
  <1>2. MoeOK(g, a)
    BY DEF CamInv, ForwardOK, RankOK
  <1>3. p \in Seq(Row) /\ (t = 0 \/ (t \in 1 .. Len(ForwardLayers) /\ ForwardLayers[t].moe))
    BY <1>1, <1>2 DEF MoeOK
  <1>4. m \in Pairs(p) /\ m[1] = q /\ m[2] = k /\ m \in Mentions(p, x)
    BY <1>1 DEF Pairs, Mentions
  <1>5. x \in Experts
    BY <1>1, <1>3, <1>4, IdsAre
  <1>6. f \in Fs /\ e \in 0 .. Local - 1 /\ x = f * Local + e
    BY <1>1, <1>5, BlockOf
  <1>7. Occurrence(p, m) \in Nat /\ o \in 1 .. Count(p, x)
    <2>1. Occurrence(p, m) \in Nat /\ Occurrence(p, m) + 1 <= Count(p, x) /\ Count(p, x) \in Nat
      BY <1>3, <1>4, OccurrenceIs, CountNat
    <2> QED BY <1>1, <2>1
  <1>8. status[a][f] = Start(p, f * Local) + 1 /\ Returned(region[a], p, t, a, x)
    <2>1. status[a][f] /= 0
      BY <1>6
    <2>2. /\ status[a][f] = Start(payload[a], f * Local) + 1
          /\ \A i \in 0 .. Local - 1 : Returned(region[a], payload[a], at[g], a, f * Local + i)
      BY <1>6, <2>1, Answered
    <2>3. Returned(region[a], payload[a], at[g], a, f * Local + e)
      BY <1>6, <2>2
    <2> QED BY <1>1, <1>6, <2>2, <2>3
  <1>9. PartFor(a, q, k) = region[a][Start(p, x) + o - 1]
    <2>1. PICK y, z, w : y = Start(p, f * Local) /\ z = Before(p, f, x) /\ w = Occurrence(p, m)
      OBVIOUS
    <2>2. /\ Start(p, f * Local) + SumFrom(CountsTo(p, f), 0, e) = Start(p, f * Local + e)
          /\ SumFrom(CountsTo(p, f), 0, e) = SumFrom(Counts(p), f * Local, f * Local + e)
          /\ Start(p, f * Local) \in Nat /\ SumFrom(CountsTo(p, f), 0, e) \in Nat
      BY <1>3, <1>6, PlaceIs
    <2>3. y + z = Start(p, x) /\ y \in Nat /\ z \in Nat
      BY <1>6, <2>1, <2>2 DEF Before
    <2>4. w \in Nat /\ o = w + 1 /\ status[a][f] = y + 1
      BY <1>1, <1>7, <1>8, <2>1
    <2>5. ((y + 1) - 1) + z + w = Start(p, x) + o - 1
      BY <2>3, <2>4
    <2>6. PartFor(a, q, k) = region[a][(status[a][f] - 1) + z + w]
      BY <1>1, <2>1 DEF PartFor
    <2> QED BY <2>4, <2>5, <2>6
  <1>10. RowsOf(p, t, a, x)[o] = [rank |-> a, at |-> t, tok |-> p[q].tok, expert |-> x]
    <2>1. PICK n : n = CHOOSE i \in Mentions(p, x) : Occurrence(p, i) = o - 1
      OBVIOUS
    <2>2. o - 1 = Occurrence(p, m)
      BY <1>1, <1>7
    <2>3. n \in Mentions(p, x) /\ Occurrence(p, n) = Occurrence(p, m)
      BY <1>4, <2>1, <2>2
    <2>4. n = m
      BY <1>3, <1>4, <2>3, OccurrencesDiffer
    <2>5. RowsOf(p, t, a, x)[o] = [rank |-> a, at |-> t, tok |-> p[n[1]].tok, expert |-> x]
      BY <1>7, <2>1 DEF RowsOf
    <2> QED BY <1>4, <2>4, <2>5
  <1>11. region[a][Start(p, x) + o - 1] = Part(RowsOf(p, t, a, x)[o], LayerId(t))
    BY <1>7, <1>8 DEF Returned
  <1>12. Weights(LayerId(t)) = LayerId(t)
    BY <1>3, LayerIdIn, WeightsOf
  <1>13. Part(RowsOf(p, t, a, x)[o], LayerId(t))
           = [rank |-> a, at |-> t, tok |-> p[q].tok, expert |-> x, weights |-> LayerId(t)]
    BY <1>10, <1>12 DEF Part
  <1>14. Combined(p, t, a)[q][k]
           = [rank |-> a, at |-> t, tok |-> p[q].tok, expert |-> x, weights |-> LayerId(t)]
    BY <1>1 DEF Combined
  <1> QED BY <1>1, <1>9, <1>11, <1>13, <1>14

LEMMA CombineRecvStep == ASSUME CamInv, NEW a \in Attns, CombineRecv(a) PROVE CamInv'
  <1>1. PICK g : g = GroupOf(a)
    OBVIOUS
  <1>2. g \in Gs /\ a \in Members(g)
    BY <1>1, RankIs
  <1>3. /\ pc[a] = "wait" /\ \A f \in Fs : status[a][f] /= 0
        /\ status' = [status EXCEPT ![a] = [f \in Fs |-> 0]]
        /\ region' = [region EXCEPT ![a] = [p \in Positions |-> NoPart]]
        /\ pc' = [pc EXCEPT ![a] = "got"]
        /\ sp' = sp /\ batch' = batch /\ at' = at /\ hidden' = hidden /\ payload' = payload
        /\ slot' = slot /\ next' = next /\ items' = items /\ scan' = scan
    BY DEF CombineRecv, ffnVars
  <1>4. CamTypes
    BY DEF CamInv
  <1>5. out' = [out EXCEPT ![a] = [q \in 1 .. Len(payload[a]) |-> [k \in 1 .. TopK |-> PartFor(a, q, k)]]]
    BY DEF CombineRecv, PartFor
  <1>6. out'[a] = Combined(payload[a], at[g], a) /\ \A b \in Attns : b /= a => out'[b] = out[b]
    <2>1. ASSUME NEW q \in 1 .. Len(payload[a])
          PROVE  [k \in 1 .. TopK |-> PartFor(a, q, k)] = Combined(payload[a], at[g], a)[q]
      <3>1. \A k \in 1 .. TopK : PartFor(a, q, k) = Combined(payload[a], at[g], a)[q][k]
        BY <1>2, <1>3, PartForIs
      <3>2. PICK c : c = Combined(payload[a], at[g], a)[q]
        OBVIOUS
      <3>3. c = [k \in 1 .. TopK |-> c[k]]
        BY <3>2 DEF Combined
      <3> QED BY <3>1, <3>2, <3>3
    <2>2. PICK d : d = Combined(payload[a], at[g], a)
      OBVIOUS
    <2>3. d = [q \in 1 .. Len(payload[a]) |-> d[q]]
      BY <2>2 DEF Combined
    <2>4. PICK o : o = [q \in 1 .. Len(payload[a]) |-> [k \in 1 .. TopK |-> PartFor(a, q, k)]]
      OBVIOUS
    <2>5. o = d
      BY <2>1, <2>2, <2>3, <2>4
    <2>6. out' = [out EXCEPT ![a] = o] /\ DOMAIN out = Attns
      BY <1>4, <1>5, <2>4 DEF CamTypes
    <2> QED BY <2>2, <2>5, <2>6
  <1>7. /\ pc' \in [Attns -> Places] /\ pc'[a] = "got" /\ \A f \in Fs : status'[a][f] = 0
        /\ \A b \in Attns : b /= a => pc'[b] = pc[b] /\ region'[b] = region[b] /\ status'[b] = status[b]
    BY <1>3, <1>4 DEF CamTypes, Places
  <1>8. CamTypes'
    <2>1. DOMAIN out' = Attns /\ DOMAIN region' = Attns /\ DOMAIN status' = Attns
      BY <1>3, <1>4, <1>5 DEF CamTypes
    <2>2. \A b \in Attns : DOMAIN status'[b] = Fs
      BY <1>3, <1>4 DEF CamTypes
    <2> QED BY <1>3, <1>4, <1>7, <2>1, <2>2 DEF CamTypes
  <1>9. OnlyRank(a)
    BY <1>3, <1>6, <1>7 DEF OnlyRank
  <1>10. RankOK(g, a)'
    <2>1. RankOK(g, a)
      BY <1>2 DEF CamInv, ForwardOK
    <2> QED BY <1>3, <1>7, <2>1 DEF RankOK, MoeOK, Fits, Holding
  <1>11. ASSUME NEW f \in Fs PROVE Lane(f, g)'
    <2>1. Lane(f, g)
      BY <1>2 DEF CamInv
    <2>2. /\ \A b \in Members(g) : slot[f][b].flag = 0 /\ pc[b] \in {"wait", "got"}
          /\ Of(items[f], g) = {}
      BY <1>2, <1>3, Answered
    <2>3. Card(g, 0) \in Members(g)
      BY <1>2, CardIs, CamSizes
    <2>4. \A b \in Members(g) : b \in Attns /\ pc'[b] \in {"wait", "got"}
      BY <1>2, <1>7, <2>2, MemberIs
    <2>5. LaneFlags(f, g)' /\ LaneGone(f, g)' /\ LaneNext(f, g)' /\ LaneItems(f, g)'
      BY <1>3, <2>1, <2>2, <2>3, <2>4 DEF Lane, LaneFlags, LaneGone, LaneNext, LaneItems
    <2>6. LaneStatus(f, g)'
      <3> SUFFICES ASSUME NEW b \in Members(g), status'[b][f] /= 0
                   PROVE  /\ pc'[b] = "wait" /\ status'[b][f] = Start(payload'[b], f * Local) + 1
                          /\ Of(items'[f], g) = {}
        BY DEF LaneStatus, Members
      <3>1. b /= a /\ b \in Attns
        BY <1>7, <2>4
      <3>2. status'[b][f] = status[b][f] /\ pc'[b] = pc[b]
        BY <1>7, <3>1
      <3> QED BY <1>3, <2>1, <3>2 DEF Lane, LaneStatus
    <2>7. LaneRegion(f, g)'
      <3> SUFFICES ASSUME NEW b \in Members(g), pc'[b] = "wait", NEW e \in 0 .. Local - 1
                   PROVE  Returned(region'[b], payload'[b], at'[g], b, f * Local + e)
        BY DEF LaneRegion, Members
      <3>1. b /= a /\ b \in Attns
        BY <1>7, <2>4
      <3>2. region'[b] = region[b] /\ pc[b] = "wait"
        BY <1>7, <3>1
      <3>3. e < Recd(f, g, b) /\ ~Pending(items[f], g, e)
        BY <2>2, CamSizes DEF Recd, Pending
      <3>4. Returned(region[b], payload[b], at[g], b, f * Local + e)
        BY <2>1, <3>2, <3>3 DEF Lane, LaneRegion
      <3> QED BY <1>3, <3>2, <3>4
    <2> QED BY <2>5, <2>6, <2>7 DEF Lane
  <1> QED BY <1>1, <1>3, <1>6, <1>7, <1>8, <1>9, <1>10, <1>11, RankKeeps

(***************************************************************************)
(* The steps of an FFN rank.                                               *)
(***************************************************************************)
(* What an FFN rank finds when a group is ready. *)
LEMMA LaneReady ==
    ASSUME CamInv, NEW f \in Fs, NEW g \in Gs, Ready(f, g)
    PROVE  /\ next[f][g] \in 0 .. Local - 1
           /\ \A a \in Members(g) :
                 /\ slot[f][a].flag /= 0 /\ pc[a] = "wait" /\ status[a][f] = 0
                 /\ slot[f][a] = Dispatched(payload[a], at[g], a, f)
                 /\ Recd(f, g, a) = next[f][g] /\ payload[a] \in Seq(Row)
  <1>1. Lane(f, g)
    BY DEF CamInv
  <1>2. \A a \in Members(g) : slot[f][a].flag /= 0
    <2> SUFFICES ASSUME NEW a \in Members(g) PROVE slot[f][a].flag /= 0
      OBVIOUS
    <2>1. TpRank(a) \in 0 .. TP - 1 /\ a = Card(g, TpRank(a))
      BY MemberIs
    <2> QED BY <2>1 DEF Ready
  <1>3. Card(g, 0) \in Members(g)
    BY CardIs, CamSizes
  <1>4. next[f][g] \in 0 .. Local - 1
    BY <1>1, <1>2, <1>3 DEF Lane, LaneNext
  <1>5. ASSUME NEW a \in Members(g)
        PROVE  /\ pc[a] = "wait" /\ status[a][f] = 0
               /\ slot[f][a] = Dispatched(payload[a], at[g], a, f)
    BY <1>1, <1>2 DEF Lane, LaneFlags
  <1>6. \A a \in Members(g) : Recd(f, g, a) = next[f][g]
    BY <1>2 DEF Recd
  <1>7. \A a \in Members(g) : payload[a] \in Seq(Row)
    BY <1>5 DEF CamInv, ForwardOK, RankOK, MoeOK
  <1> QED BY <1>2, <1>4, <1>5, <1>6, <1>7

LEMMA ReceivedItem ==
    ASSUME CamInv, NEW f \in Fs, NEW g \in Gs, Ready(f, g), NEW last \in next[f][g] .. Local - 1,
           NEW it, it = WorkItem(f, g, last)
    PROVE  ItemOf(f, g, it) /\ it.group = g /\ it.first = next[f][g] /\ it.last = last
  <1>1. PICK first, n, w : first = next[f][g] /\ n = SlotCounts(f, g) /\ w = SlotRows(f, g)
    OBVIOUS
  <1>2. /\ it.group = g /\ it.first = first /\ it.last = last /\ it.counts = n
        /\ it.layer = slot[f][Card(g, 0)].layer
        /\ it.prefix = [i \in 0 .. TP - 1 |-> slot[f][Card(g, i)].prefix]
    BY <1>1 DEF WorkItem
  <1>3. it.rows = RowsReceived(n, first, last, w)
    BY <1>1 DEF WorkItem, RowsReceived
  <1>4. first \in Nat /\ last \in Nat /\ first <= last /\ last < Local
    <2>1. first \in 0 .. Local - 1
      BY <1>1, LaneReady
    <2> QED BY <1>1, <2>1, CamSizes
  <1>5. ASSUME NEW i \in 0 .. TP - 1
        PROVE  /\ slot[f][Card(g, i)] = Dispatched(payload[Card(g, i)], at[g], Card(g, i), f)
               /\ payload[Card(g, i)] \in Seq(Row)
               /\ slot[f][Card(g, i)].layer = LayerId(at[g])
               /\ slot[f][Card(g, i)].prefix = Start(payload[Card(g, i)], f * Local)
               /\ slot[f][Card(g, i)].counts = CountsTo(payload[Card(g, i)], f)
               /\ slot[f][Card(g, i)].rows = RowsTo(payload[Card(g, i)], at[g], Card(g, i), f)
    <2>1. PICK a, p, t : a = Card(g, i) /\ p = payload[a] /\ t = at[g]
      OBVIOUS
    <2>2. a \in Members(g)
      BY <2>1, CardIs
    <2>3. slot[f][a] = Dispatched(p, t, a, f) /\ p \in Seq(Row)
      BY <2>1, <2>2, LaneReady
    <2>4. /\ Dispatched(p, t, a, f).layer = LayerId(t) /\ Dispatched(p, t, a, f).prefix = Start(p, f * Local)
          /\ Dispatched(p, t, a, f).counts = CountsTo(p, f) /\ Dispatched(p, t, a, f).rows = RowsTo(p, t, a, f)
      BY DEF Dispatched
    <2> QED BY <2>1, <2>3, <2>4
  <1>6. it.layer = LayerId(at[g])
    <2>1. 0 \in 0 .. TP - 1
      BY CamSizes
    <2> QED BY <1>2, <1>5, <2>1
  <1>7. \A i \in 0 .. TP - 1 : it.prefix[i] = Start(payload[Card(g, i)], f * Local)
    BY <1>2, <1>5
  <1>8. \A i \in 0 .. TP - 1 : n[i] = CountsTo(payload[Card(g, i)], f)
    BY <1>1, <1>5 DEF SlotCounts
  <1>9. n = [i \in 0 .. TP - 1 |-> CountsTo(payload[Card(g, i)], f)]
    <2>1. n = [i \in 0 .. TP - 1 |-> slot[f][Card(g, i)].counts]
      BY <1>1 DEF SlotCounts
    <2>2. \A i \in 0 .. TP - 1 : slot[f][Card(g, i)].counts = CountsTo(payload[Card(g, i)], f)
      BY <1>5
    <2> QED BY <2>1, <2>2
  <1>10. CountsOK(n)
    <2> SUFFICES ASSUME NEW i \in 0 .. TP - 1, NEW e \in 0 .. Local - 1 PROVE n[i][e] \in Nat
      BY DEF CountsOK
    <2>1. Count(payload[Card(g, i)], f * Local + e) \in Nat
      BY <1>5, CountNat
    <2> QED BY <1>8, <2>1 DEF CountsTo
  <1>11. \A i \in 0 .. TP - 1 : w[i] = RowsTo(payload[Card(g, i)], at[g], Card(g, i), f)
    BY <1>1, <1>5 DEF SlotRows
  <1>12. ASSUME NEW c \in Cells(n, first, last)
         PROVE  RowsSent(it)[SentFrom(it, c)]
                  = RowsTo(payload[Card(g, c[1])], at[g], Card(g, c[1]), f)[c[2]][c[3]]
    <2>1. RowsSent(it)[SentFrom(it, c)] = w[c[1]][c[2]][c[3]]
      BY <1>2, <1>3, <1>4, <1>10, RowOfCell
    <2>2. c[1] \in 0 .. TP - 1
      BY DEF Cells
    <2>3. w[c[1]] = RowsTo(payload[Card(g, c[1])], at[g], Card(g, c[1]), f)
      BY <1>11, <2>2
    <2> QED BY <2>1, <2>3
  <1> QED BY <1>1, <1>2, <1>4, <1>6, <1>7, <1>9, <1>12 DEF ItemOf

(* The lane of the group the rows were received from. *)
LEMMA ReceiveLane ==
    ASSUME CamInv, NEW f \in Fs, NEW g \in Gs, Ready(f, g), NEW last \in next[f][g] .. Local - 1,
           NEW it, it = WorkItem(f, g, last),
           at' = at, payload' = payload, pc' = pc, status' = status, region' = region,
           items'[f] = Append(items[f], it), next'[f][g] = last + 1,
           \A a \in Members(g) : IF last < Local - 1 THEN slot'[f][a] = slot[f][a] ELSE slot'[f][a].flag = 0
    PROVE  Lane(f, g)'
  <1>1. Lane(f, g) /\ IsSequence(items[f])
    BY DEF CamInv, CamTypes
  <1>2. /\ next[f][g] \in 0 .. Local - 1
        /\ \A a \in Members(g) :
              /\ slot[f][a].flag /= 0 /\ pc[a] = "wait" /\ status[a][f] = 0
              /\ slot[f][a] = Dispatched(payload[a], at[g], a, f) /\ Recd(f, g, a) = next[f][g]
    BY LaneReady
  <1>3. ItemOf(f, g, it) /\ it.group = g /\ it.first = next[f][g] /\ it.last = last
    BY ReceivedItem
  <1>4. next[f][g] \in Nat /\ last \in Nat /\ next[f][g] <= last /\ last < Local /\ Local \in Nat
        /\ (~(last < Local - 1) => last + 1 = Local)
    BY <1>2, CamSizes
  <1>5. Card(g, 0) \in Members(g)
    <2>1. 0 \in 0 .. TP - 1
      BY CamSizes
    <2> QED BY <2>1, CardIs
  <1>6. \A a \in Members(g) : Recd(f, g, a)' = last + 1
    <2>1. CASE last < Local - 1
      <3>1. \A a \in Members(g) : slot'[f][a] = slot[f][a]
        BY <2>1
      <3>2. Ready(f, g)'
        BY <3>1, ReadyFrame
      <3> QED BY <1>2, <3>1, <3>2 DEF Recd
    <2>2. CASE ~(last < Local - 1)
      BY <1>4, <2>2 DEF Recd
    <2> QED BY <2>1, <2>2
  <1>7. LaneFlags(f, g)'
    <2> SUFFICES ASSUME NEW a \in Members(g), slot'[f][a].flag /= 0
                 PROVE  /\ pc'[a] = "wait" /\ status'[a][f] = 0
                        /\ slot'[f][a] = Dispatched(payload'[a], at'[g], a, f)
      BY DEF LaneFlags, Members
    <2>1. slot'[f][a] = slot[f][a]
      OBVIOUS
    <2> QED BY <1>2, <2>1
  <1>8. LaneGone(f, g)'
    <2> SUFFICES ASSUME NEW a \in Members(g), slot'[f][a].flag = 0, NEW b \in Members(g)
                 PROVE  pc'[b] \in {"wait", "got"} /\ slot'[f][b].flag = 0
      BY DEF LaneGone, Members
    <2>1. ~(last < Local - 1)
      BY <1>2
    <2> QED BY <1>2, <2>1
  <1>9. LaneNext(f, g)'
    <2> SUFFICES ASSUME slot'[f][Card(g, 0)].flag /= 0
                 PROVE  IF Ready(f, g)' THEN next'[f][g] \in 0 .. Local - 1 ELSE next'[f][g] = 0
      BY DEF LaneNext
    <2>1. last < Local - 1
      BY <1>5
    <2>2. Ready(f, g)'
      BY <2>1, ReadyFrame
    <2> QED BY <1>4, <2>1, <2>2
  <1>10. /\ Of(items'[f], g) = Of(items[f], g) \cup {it} /\ InTurn(items'[f], g)
         /\ \A x \in Of(items[f], g) : ItemOK(f, g, x) /\ x.last < next[f][g]
    <2>1. ASSUME NEW x \in Of(items[f], g) PROVE ItemOK(f, g, x) /\ x.last < next[f][g]
      <3>1. ItemOK(f, g, x)
        BY <1>1 DEF Lane, LaneItems
      <3> QED BY <1>2, <1>5, <3>1 DEF ItemOK
    <2>2. InTurn(items[f], g)
      BY <1>1 DEF Lane, LaneItems
    <2>3. PICK s : s = items[f]
      OBVIOUS
    <2>4. IsSequence(s) /\ InTurn(s, g) /\ it.group = g /\ \A x \in Of(s, g) : x.last < it.first
      BY <1>1, <1>3, <2>1, <2>2, <2>3
    <2>5. Of(Append(s, it), g) = Of(s, g) \cup {it} /\ InTurn(Append(s, it), g)
      BY <2>4, OfAppend
    <2> QED BY <2>1, <2>3, <2>5
  <1>11. LaneItems(f, g)'
    <2>1. ASSUME NEW x \in Of(items'[f], g) PROVE ItemOK(f, g, x)'
      <3>1. ItemOf(f, g, x) /\ x.last < last + 1
        <4>1. CASE x = it
          BY <1>3, <1>4, <4>1
        <4>2. CASE x \in Of(items[f], g)
          <5>1. ItemOf(f, g, x) /\ x.last < next[f][g] /\ x.last \in Nat
            BY <1>10, <4>2 DEF ItemOK, ItemOf
          <5> QED BY <1>4, <5>1
        <4> QED BY <1>10, <4>1, <4>2
      <3>2. ItemOf(f, g, x)'
        BY <3>1, ItemOfFrame
      <3>3. \A a \in Members(g) : pc'[a] = "wait" /\ status'[a][f] = 0 /\ x.last < Recd(f, g, a)'
        BY <1>2, <1>6, <3>1
      <3> QED BY <3>2, <3>3 DEF ItemOK, Members
    <2> QED BY <1>10, <2>1 DEF LaneItems
  <1>12. LaneStatus(f, g)'
    BY <1>2 DEF LaneStatus, Members
  <1>13. LaneRegion(f, g)'
    <2> SUFFICES ASSUME NEW a \in Members(g), NEW e \in 0 .. Local - 1, e < Recd(f, g, a)',
                        ~Pending(items'[f], g, e)
                 PROVE  Returned(region'[a], payload'[a], at'[g], a, f * Local + e)
      BY DEF LaneRegion, Members
    <2>1. ~Pending(items[f], g, e) /\ ~(e \in next[f][g] .. last)
      BY <1>3, <1>10 DEF Pending
    <2>2. e < last + 1
      BY <1>6
    <2>3. e < Recd(f, g, a)
      BY <1>2, <1>4, <2>1, <2>2
    <2>4. Returned(region[a], payload[a], at[g], a, f * Local + e)
      BY <1>1, <1>2, <2>1, <2>3 DEF Lane, LaneRegion
    <2> QED BY <2>4
  <1> QED BY <1>7, <1>8, <1>9, <1>11, <1>12, <1>13 DEF Lane

LEMMA DispatchRecvStep == ASSUME CamInv, NEW f \in Fs, DispatchRecv(f) PROVE CamInv'
  <1>1. PICK g : g = scan[f]
    OBVIOUS
  <1>2. CamTypes /\ g \in Gs /\ Ready(f, g)
    BY <1>1 DEF CamInv, CamTypes, DispatchRecv
  <1>3. /\ sp' = sp /\ batch' = batch /\ at' = at /\ pc' = pc /\ hidden' = hidden /\ payload' = payload
        /\ region' = region /\ status' = status /\ out' = out
    BY DEF DispatchRecv, attVars
  <1>4. ASSUME NEW h \in Gs PROVE ForwardOK(h)' /\ OutOK(h)'
    <2>1. ForwardOK(h) /\ OutOK(h)
      BY DEF CamInv
    <2>2. SameForward(h)
      BY <1>3 DEF SameForward
    <2> QED BY <1>3, <2>1, <2>2, ForwardFrame, OutFrame
  <1>5. ASSUME NEW d \in Fs, NEW h \in Gs, next'[d][h] = next[d][h],
               \A a \in Members(h) : slot'[d][a] = slot[d][a], SameItems(d, h)
        PROVE  Lane(d, h)'
    <2>1. Lane(d, h)
      BY DEF CamInv
    <2>2. SameFlags(d, h)
      BY <1>3, <1>5 DEF SameFlags, RegionKept
    <2> QED BY <1>5, <2>1, <2>2, LaneFrame
  <1>6. CASE ChunkEnds(f, g) = {}
    <2>1. slot' = slot /\ next' = next /\ items' = items /\ scan' = scan
      BY <1>1, <1>6 DEF DispatchRecv
    <2>2. \A d \in Fs : \A h \in Gs : Lane(d, h)'
      BY <1>5, <2>1 DEF SameItems
    <2>3. CamTypes'
      BY <1>2, <1>3, <2>1 DEF CamTypes
    <2> QED BY <1>4, <2>2, <2>3 DEF CamInv
  <1>7. CASE ChunkEnds(f, g) /= {}
    <2>1. PICK last, it, c : /\ last = Max(ChunkEnds(f, g)) /\ it = WorkItem(f, g, last)
                             /\ c = CursorAfter(g, last)
      OBVIOUS
    <2>2. /\ items' = [items EXCEPT ![f] = Append(@, it)]
          /\ next' = [next EXCEPT ![f][g] = last + 1]
          /\ slot' = IF last < Local - 1 THEN slot
                     ELSE [slot EXCEPT ![f] = [a \in Attns |-> IF GroupOf(a) = g THEN EmptySlot ELSE @[a]]]
          /\ scan' = [scan EXCEPT ![f] = c]
      BY <1>1, <1>7, <2>1 DEF DispatchRecv
    <2>3. last \in next[f][g] .. Local - 1
      <3>1. next[f][g] \in 0 .. Local - 1 /\ Local - 1 \in Nat
        BY <1>2, LaneReady, CamSizes
      <3>2. ChunkEnds(f, g) \in SUBSET (next[f][g] .. Local - 1)
        BY DEF ChunkEnds
      <3>3. ChunkEnds(f, g) \in SUBSET Nat /\ \A y \in ChunkEnds(f, g) : y <= Local - 1
        BY <3>1, <3>2
      <3>4. last \in ChunkEnds(f, g)
        BY <1>7, <2>1, <3>1, <3>3, MaxOf
      <3> QED BY <3>2, <3>4
    <2>4. ItemOf(f, g, it) /\ it.group = g
      BY <1>2, <2>1, <2>3, ReceivedItem
    <2>5. items'[f] = Append(items[f], it) /\ DOMAIN items' = Fs /\ \A d \in Fs : d /= f => items'[d] = items[d]
      BY <1>2, <2>2 DEF CamTypes
    <2>6. /\ next'[f][g] = last + 1 /\ DOMAIN next' = Fs /\ DOMAIN next'[f] = Gs
          /\ \A h \in Gs : h /= g => next'[f][h] = next[f][h]
          /\ \A d \in Fs : d /= f => next'[d] = next[d]
      BY <1>2, <2>2 DEF CamTypes
    <2>7. /\ DOMAIN slot' = Fs /\ DOMAIN slot'[f] = Attns
          /\ \A d \in Fs : d /= f => slot'[d] = slot[d]
          /\ \A a \in Attns : GroupOf(a) /= g => slot'[f][a] = slot[f][a]
          /\ \A a \in Attns : GroupOf(a) = g =>
                IF last < Local - 1 THEN slot'[f][a] = slot[f][a] ELSE slot'[f][a].flag = 0
      <3>1. DOMAIN slot = Fs /\ DOMAIN slot[f] = Attns
        BY <1>2 DEF CamTypes
      <3>2. CASE last < Local - 1
        BY <2>2, <3>1, <3>2
      <3>3. CASE ~(last < Local - 1)
        <4>1. slot' = [slot EXCEPT ![f] = [a \in Attns |-> IF GroupOf(a) = g THEN EmptySlot ELSE slot[f][a]]]
          BY <2>2, <3>3
        <4>2. slot'[f] = [a \in Attns |-> IF GroupOf(a) = g THEN EmptySlot ELSE slot[f][a]]
          BY <3>1, <4>1
        <4>3. EmptySlot.flag = 0
          BY DEF EmptySlot
        <4> QED BY <3>1, <3>3, <4>1, <4>2, <4>3
      <3> QED BY <3>2, <3>3
    <2>8. CamTypes'
      <3>1. scan' \in [Fs -> Gs]
        <4>1. c \in Gs
          BY <1>2, <2>1, NextGroup DEF CursorAfter
        <4> QED BY <1>2, <2>2, <4>1 DEF CamTypes
      <3>2. IsSequence(items'[f]) /\ Grouped(items'[f])
        <4>1. PICK s, r : s = items[f] /\ r = items'[f]
          OBVIOUS
        <4>2. IsSequence(s) /\ Grouped(s) /\ r = Append(s, it)
          BY <1>2, <2>5, <4>1 DEF CamTypes
        <4>3. /\ IsSequence(r) /\ Len(r) = Len(s) + 1 /\ \A i \in 1 .. Len(s) : r[i] = s[i]
              /\ r[Len(s) + 1] = it
          BY <4>2, SequenceAppend
        <4>4. Len(s) \in Nat /\ DOMAIN s = 1 .. Len(s) /\ DOMAIN r = 1 .. Len(s) + 1
          BY <4>2, <4>3, SequenceLen
        <4>5. Grouped(r)
          <5> SUFFICES ASSUME NEW k \in 1 .. Len(s) + 1 PROVE r[k].group \in Gs
            BY <4>4 DEF Grouped
          <5>1. CASE k = Len(s) + 1
            BY <1>2, <2>4, <4>3, <5>1
          <5>2. CASE k \in 1 .. Len(s)
            BY <4>2, <4>3, <4>4, <5>2 DEF Grouped
          <5> QED BY <4>4, <5>1, <5>2
        <4> QED BY <4>1, <4>3, <4>5
      <3>3. ASSUME NEW d \in Fs
            PROVE  /\ DOMAIN slot'[d] = Attns /\ DOMAIN next'[d] = Gs
                   /\ IsSequence(items'[d]) /\ Grouped(items'[d])
        <4>1. CASE d = f
          BY <2>6, <2>7, <3>2, <4>1
        <4>2. CASE d /= f
          BY <1>2, <2>5, <2>6, <2>7, <4>2 DEF CamTypes
        <4> QED BY <4>1, <4>2
      <3> QED BY <1>2, <1>3, <2>5, <2>6, <2>7, <3>1, <3>3 DEF CamTypes
    <2>9. ASSUME NEW d \in Fs, NEW h \in Gs PROVE Lane(d, h)'
      <3>1. CASE d /= f
        <4>1. SameItems(d, h)
          BY <2>5, <3>1 DEF SameItems
        <4> QED BY <1>5, <2>6, <2>7, <3>1, <4>1
      <3>2. CASE d = f /\ h /= g
        <4>1. SameItems(f, h)
          <5>1. IsSequence(items[f])
            BY <1>2 DEF CamTypes
          <5> QED BY <2>4, <2>5, <3>2, <5>1, OfAppend DEF SameItems
        <4>2. \A a \in Members(h) : slot'[f][a] = slot[f][a]
          BY <2>7, <3>2, MemberIs
        <4> QED BY <1>5, <2>6, <3>2, <4>1, <4>2
      <3>3. CASE d = f /\ h = g
        <4>1. \A a \in Members(g) :
                IF last < Local - 1 THEN slot'[f][a] = slot[f][a] ELSE slot'[f][a].flag = 0
          BY <1>2, <2>7, MemberIs
        <4> QED BY <1>2, <1>3, <2>1, <2>3, <2>5, <2>6, <3>3, <4>1, ReceiveLane
      <3> QED BY <3>1, <3>2, <3>3
    <2> QED BY <1>4, <2>8, <2>9 DEF CamInv
  <1> QED BY <1>6, <1>7

(* the cells of an item whose rows go to a place of the window of TP rank i *)
To(it, i, z) == {c \in Cells(it.counts, it.first, it.last) : c[1] = i /\ Place(it, c) = z}

LEMMA SendIs ==
    ASSUME NEW f, NEW it, SendFfnOutput(f, it), NEW a \in Attns, GroupOf(a) = it.group, NEW z \in Positions,
           NEW S, S = To(it, TpRank(a), z)
    PROVE  /\ S = {} => region'[a][z] = region[a][z]
           /\ \A c : c = (CHOOSE b \in S : TRUE) /\ S /= {} =>
                 region'[a][z] = Part(RowsSent(it)[SentFrom(it, c)], it.layer)
  <1>1. region' = [b \in Attns |->
             IF GroupOf(b) /= it.group THEN region[b]
             ELSE [p \in Positions |->
                     IF To(it, TpRank(b), p) = {} THEN region[b][p]
                     ELSE Part(RowsSent(it)[SentFrom(it, CHOOSE c \in To(it, TpRank(b), p) : TRUE)], it.layer)]]
    BY DEF SendFfnOutput, To
  <1>2. region'[a] = [p \in Positions |->
                     IF To(it, TpRank(a), p) = {} THEN region[a][p]
                     ELSE Part(RowsSent(it)[SentFrom(it, CHOOSE c \in To(it, TpRank(a), p) : TRUE)], it.layer)]
    BY <1>1
  <1>3. region'[a][z] = IF S = {} THEN region[a][z]
                        ELSE Part(RowsSent(it)[SentFrom(it, CHOOSE c \in S : TRUE)], it.layer)
    BY <1>2
  <1> QED BY <1>3

(* Where the rows of an item go: to the places of its experts, and to no other. *)
LEMMA CellPlace ==
    ASSUME NEW f \in Fs, NEW g \in Gs, NEW it, ItemOf(f, g, it), NEW a \in Members(g),
           NEW p, p = payload[a], p \in Seq(Row),
           NEW c \in Cells(it.counts, it.first, it.last), c[1] = TpRank(a)
    PROVE  /\ c[2] \in it.first .. it.last /\ c[2] \in 0 .. Local - 1
           /\ c[3] \in 1 .. Count(p, f * Local + c[2])
           /\ Place(it, c) = Start(p, f * Local + c[2]) + c[3] - 1
           /\ Start(p, f * Local + c[2]) \in Nat
           /\ RowsSent(it)[SentFrom(it, c)] = RowsOf(p, at[g], a, f * Local + c[2])[c[3]]
  <1>1. PICK i, e, o, n : i = TpRank(a) /\ e = c[2] /\ o = c[3] /\ n = it.counts
    OBVIOUS
  <1>2. i \in 0 .. TP - 1 /\ a = Card(g, i)
    BY <1>1, MemberIs
  <1>3. /\ it.first \in Nat /\ it.last \in Nat /\ it.first <= it.last /\ it.last < Local
        /\ n = [j \in 0 .. TP - 1 |-> CountsTo(payload[Card(g, j)], f)]
        /\ \A j \in 0 .. TP - 1 : it.prefix[j] = Start(payload[Card(g, j)], f * Local)
        /\ \A d \in Cells(n, it.first, it.last) :
              RowsSent(it)[SentFrom(it, d)] = RowsTo(payload[Card(g, d[1])], at[g], Card(g, d[1]), f)[d[2]][d[3]]
    BY <1>1 DEF ItemOf
  <1>4. n[i] = CountsTo(p, f) /\ it.prefix[i] = Start(p, f * Local)
    BY <1>2, <1>3
  <1>5. /\ c[1] = i /\ e \in it.first .. it.last /\ o \in 1 .. TopK * CeilDiv(MaxTokens, TP) /\ o <= n[i][e]
    BY <1>1 DEF Cells
  <1>6. e \in 0 .. Local - 1
    BY <1>3, <1>5, CamSizes
  <1>7. /\ Start(p, f * Local) + SumFrom(CountsTo(p, f), 0, e) = Start(p, f * Local + e)
        /\ Start(p, f * Local) \in Nat /\ SumFrom(CountsTo(p, f), 0, e) \in Nat
        /\ CountsTo(p, f)[e] = Count(p, f * Local + e)
    BY <1>6, PlaceIs
  <1>8. o \in 1 .. Count(p, f * Local + e)
    <2>1. PICK m, k : m = TopK * CeilDiv(MaxTokens, TP) /\ k = Count(p, f * Local + e)
      OBVIOUS
    <2>2. k \in Nat
      BY <2>1, CountNat
    <2>3. o \in 1 .. m /\ o <= k
      BY <1>4, <1>5, <1>7, <2>1
    <2>4. o \in Int /\ 1 <= o
      BY <2>3
    <2> QED BY <2>1, <2>2, <2>3, <2>4
  <1>9. Place(it, c) = Start(p, f * Local + e) + o - 1
    <2>1. PICK x, y : x = Start(p, f * Local) /\ y = SumFrom(CountsTo(p, f), 0, e)
      OBVIOUS
    <2>2. it.prefix[c[1]] = x /\ SumFrom(it.counts[c[1]], 0, c[2]) = y
      BY <1>1, <1>4, <1>5, <2>1
    <2>3. Place(it, c) = x + y + o - 1
      BY <1>1, <2>2 DEF Place
    <2> QED BY <1>7, <2>1, <2>3
  <1>10. RowsSent(it)[SentFrom(it, c)] = RowsOf(p, at[g], a, f * Local + e)[o]
    <2>1. RowsSent(it)[SentFrom(it, c)] = RowsTo(payload[Card(g, c[1])], at[g], Card(g, c[1]), f)[c[2]][c[3]]
      BY <1>1, <1>3
    <2>2. RowsSent(it)[SentFrom(it, c)] = RowsTo(p, at[g], a, f)[e][o]
      BY <1>1, <1>2, <1>5, <2>1
    <2>3. RowsTo(p, at[g], a, f)[e] = RowsOf(p, at[g], a, f * Local + e)
      BY <1>6 DEF RowsTo
    <2> QED BY <2>2, <2>3
  <1>11. Start(p, f * Local + e) \in Nat
    BY <1>7
  <1> QED BY <1>1, <1>5, <1>6, <1>8, <1>9, <1>10, <1>11

LEMMA SentTo ==
    ASSUME NEW f \in Fs, NEW g \in Gs, NEW it, ItemOf(f, g, it), NEW a \in Members(g),
           NEW p, p = payload[a], Fits(p), NEW x \in Experts, NEW o \in 1 .. Count(p, x),
           NEW c \in To(it, TpRank(a), Start(p, x) + o - 1)
    PROVE  x = f * Local + c[2] /\ o = c[3] /\ c[2] \in it.first .. it.last
  <1>1. p \in Seq(Row)
    BY DEF Fits
  <1>2. c \in Cells(it.counts, it.first, it.last) /\ c[1] = TpRank(a) /\ Place(it, c) = Start(p, x) + o - 1
    BY DEF To
  <1>3. PICK y, u : y = f * Local + c[2] /\ u = c[3]
    OBVIOUS
  <1>4. /\ c[2] \in it.first .. it.last /\ c[2] \in 0 .. Local - 1 /\ u \in 1 .. Count(p, y)
        /\ Place(it, c) = Start(p, y) + u - 1 /\ Start(p, y) \in Nat
    BY <1>1, <1>2, <1>3, CellPlace
  <1>5. y \in Experts
    BY <1>3, <1>4, ExpertOf
  <1>6. Start(p, x) \in Nat
    BY PlaceFits
  <1>7. u \in Int /\ o \in Int
    <2>1. PICK k, l : k = Count(p, x) /\ l = Count(p, y)
      OBVIOUS
    <2>2. o \in 1 .. k /\ u \in 1 .. l
      BY <1>4, <2>1
    <2> QED BY <2>2
  <1>8. Start(p, x) + o = Start(p, y) + u
    BY <1>2, <1>4, <1>6, <1>7
  <1>9. x = y /\ o = u
    BY <1>1, <1>4, <1>5, <1>8, PlacesApart
  <1> QED BY <1>3, <1>4, <1>9

LEMMA SentBack ==
    ASSUME NEW f \in Fs, NEW g \in Gs, NEW it, ItemOf(f, g, it), SendFfnOutput(f, it),
           NEW a \in Members(g), NEW p, p = payload[a], Fits(p),
           NEW x \in Experts, NEW o \in 1 .. Count(p, x), NEW z, z = Start(p, x) + o - 1
    PROVE  /\ \A e \in it.first .. it.last : x = f * Local + e =>
                 region'[a][z] = Part(RowsOf(p, at[g], a, x)[o], LayerId(at[g]))
           /\ (\A e \in it.first .. it.last : x /= f * Local + e) => region'[a][z] = region[a][z]
  <1>1. p \in Seq(Row)
    BY DEF Fits
  <1>2. z \in Positions /\ o \in 1 .. TopK * CeilDiv(MaxTokens, TP) /\ Start(p, x) \in Nat
    BY PlaceFits
  <1>3. PICK i : i = TpRank(a)
    OBVIOUS
  <1>4. a \in Attns /\ GroupOf(a) = it.group /\ i \in 0 .. TP - 1 /\ a = Card(g, i)
    BY <1>3, MemberIs DEF ItemOf
  <1>5. PICK S : S = To(it, i, z)
    OBVIOUS
  <1>6. /\ S = {} => region'[a][z] = region[a][z]
        /\ \A c : c = (CHOOSE b \in S : TRUE) /\ S /= {} =>
              region'[a][z] = Part(RowsSent(it)[SentFrom(it, c)], it.layer)
    <2>1. S = To(it, TpRank(a), z)
      BY <1>3, <1>5
    <2> QED BY <1>2, <1>4, <2>1, SendIs
  <1>7. \A c \in S : x = f * Local + c[2] /\ o = c[3] /\ c[2] \in it.first .. it.last
    BY <1>3, <1>5, SentTo
  <1>8. ASSUME NEW e \in it.first .. it.last, x = f * Local + e
        PROVE  region'[a][z] = Part(RowsOf(p, at[g], a, x)[o], LayerId(at[g]))
    <2>1. PICK d : d = <<i, e, o>>
      OBVIOUS
    <2>2. d[1] = i /\ d[2] = e /\ d[3] = o
      BY <2>1
    <2>3. e \in 0 .. Local - 1
      BY CamSizes DEF ItemOf
    <2>4. CountsTo(p, f)[e] = Count(p, x)
      BY <1>1, <1>8, <2>3, PlaceIs
    <2>5. it.counts[i] = CountsTo(p, f)
      BY <1>4 DEF ItemOf
    <2>6. o <= it.counts[i][e]
      <3>1. PICK k : k = Count(p, x)
        OBVIOUS
      <3>2. k \in Nat /\ o \in 1 .. k
        BY <1>1, <3>1, CountNat
      <3> QED BY <2>4, <2>5, <3>1, <3>2
    <2>7. d \in Cells(it.counts, it.first, it.last)
      <3>1. PICK M : M = 1 .. TopK * CeilDiv(MaxTokens, TP)
        OBVIOUS
      <3>2. d \in (0 .. TP - 1) \X (it.first .. it.last) \X M
        BY <1>2, <1>4, <1>8, <2>1, <3>1
      <3> QED BY <2>2, <2>6, <3>1, <3>2 DEF Cells
    <2>8. d \in S
      <3>1. /\ d[3] \in 1 .. Count(p, f * Local + d[2])
            /\ Place(it, d) = Start(p, f * Local + d[2]) + d[3] - 1
        BY <1>1, <1>3, <2>2, <2>7, CellPlace
      <3>2. Place(it, d) = z
        BY <1>8, <2>2, <3>1
      <3> QED BY <1>5, <2>2, <2>7, <3>2 DEF To
    <2>9. PICK c : c = CHOOSE b \in S : TRUE
      OBVIOUS
    <2>10. c \in S
      BY <2>8, <2>9
    <2>11. x = f * Local + c[2] /\ o = c[3]
      BY <1>7, <2>10
    <2>12. c \in Cells(it.counts, it.first, it.last) /\ c[1] = TpRank(a)
      BY <1>3, <1>5, <2>10 DEF To
    <2>13. RowsSent(it)[SentFrom(it, c)] = RowsOf(p, at[g], a, f * Local + c[2])[c[3]]
      BY <1>1, <2>12, CellPlace
    <2>14. it.layer = LayerId(at[g])
      BY DEF ItemOf
    <2> QED BY <1>6, <2>8, <2>9, <2>11, <2>13, <2>14
  <1>9. ASSUME \A e \in it.first .. it.last : x /= f * Local + e PROVE region'[a][z] = region[a][z]
    <2>1. S = {}
      BY <1>7, <1>9
    <2> QED BY <1>6, <2>1
  <1> QED BY <1>8, <1>9

(* ... so that an item answers its experts and leaves the others alone. *)
LEMMA SentRegion ==
    ASSUME NEW f \in Fs, NEW g \in Gs, NEW it, ItemOf(f, g, it), SendFfnOutput(f, it),
           NEW a \in Members(g), NEW p, p = payload[a], Fits(p), NEW t, t = at[g],
           NEW d \in Fs, NEW e \in 0 .. Local - 1
    PROVE  /\ d = f /\ e \in it.first .. it.last => Returned(region'[a], p, t, a, d * Local + e)
           /\ ~(d = f /\ e \in it.first .. it.last) /\ Returned(region[a], p, t, a, d * Local + e)
                => Returned(region'[a], p, t, a, d * Local + e)
  <1>1. PICK x : x = d * Local + e
    OBVIOUS
  <1>2. x \in Experts
    BY <1>1, ExpertOf
  <1>3. ASSUME d = f, e \in it.first .. it.last PROVE Returned(region'[a], p, t, a, x)
    <2> SUFFICES ASSUME NEW o \in 1 .. Count(p, x)
                 PROVE  region'[a][Start(p, x) + o - 1] = Part(RowsOf(p, t, a, x)[o], LayerId(t))
      BY DEF Returned
    <2>1. x = f * Local + e
      BY <1>1, <1>3
    <2> QED BY <1>2, <1>3, <2>1, SentBack
  <1>4. ASSUME ~(d = f /\ e \in it.first .. it.last), Returned(region[a], p, t, a, x)
        PROVE  Returned(region'[a], p, t, a, x)
    <2> SUFFICES ASSUME NEW o \in 1 .. Count(p, x)
                 PROVE  region'[a][Start(p, x) + o - 1] = Part(RowsOf(p, t, a, x)[o], LayerId(t))
      BY DEF Returned
    <2>1. ASSUME NEW i \in it.first .. it.last, x = f * Local + i PROVE FALSE
      <3>1. i \in 0 .. Local - 1
        BY CamSizes DEF ItemOf
      <3>2. FfnOf(f * Local + i) = f /\ FfnOf(d * Local + e) = d
        BY <3>1, ExpertOf
      <3>3. d = f
        BY <1>1, <2>1, <3>2
      <3>4. f * Local \in Nat
        BY ExpertsAre
      <3>5. PICK b : b = f * Local
        OBVIOUS
      <3>6. b + e = b + i /\ b \in Nat /\ e \in Int /\ i \in Int
        BY <1>1, <2>1, <3>1, <3>3, <3>4, <3>5
      <3>7. e = i
        BY <3>6
      <3> QED BY <1>4, <3>3, <3>7
    <2>2. PICK z : z = Start(p, x) + o - 1
      OBVIOUS
    <2>3. \A i \in it.first .. it.last : x /= f * Local + i
      BY <2>1
    <2>4. region'[a][z] = region[a][z]
      BY <1>2, <2>2, <2>3, SentBack
    <2> QED BY <1>4, <2>2, <2>4 DEF Returned
  <1> QED BY <1>1, <1>3, <1>4

(* An item with the last expert of a rank leaves nothing of its group behind it. *)
LEMMA LastItem ==
    ASSUME CamInv, NEW f \in Fs, NEW g \in Gs, NEW it, ItemOK(f, g, it), Signals(it)
    PROVE  \A a \in Members(g) : slot[f][a].flag = 0
  <1> SUFFICES ASSUME NEW a \in Members(g), slot[f][a].flag /= 0 PROVE FALSE
    OBVIOUS
  <1>1. it.last = Local - 1 /\ it.last < Recd(f, g, a)
    BY DEF ItemOK, Signals
  <1>2. CASE Ready(f, g)
    <2>1. next[f][g] \in 0 .. Local - 1 /\ Recd(f, g, a) = next[f][g]
      BY <1>2, LaneReady
    <2> QED BY <1>1, <2>1, CamSizes
  <1>3. CASE ~Ready(f, g)
    <2>1. Recd(f, g, a) = 0
      BY <1>3 DEF Recd
    <2> QED BY <1>1, <2>1, CamSizes
  <1> QED BY <1>2, <1>3

(* The lane of the group the rows are sent back to. *)
LEMMA SendBackLane ==
    ASSUME CamInv, NEW f \in Fs, NEW g \in Gs, NEW s, s = items[f], s /= <<>>,
           NEW it, it = Head(s), it.group = g, SendFfnOutput(f, it),
           at' = at, payload' = payload, pc' = pc, slot' = slot, next' = next, items'[f] = Tail(s),
           \A a \in Members(g) : status'[a][f] = IF Signals(it) THEN it.prefix[TpRank(a)] + 1 ELSE status[a][f]
    PROVE  Lane(f, g)'
  <1>1. Lane(f, g) /\ IsSequence(s) /\ InTurn(s, g)
    BY DEF CamInv, CamTypes, Lane, LaneItems
  <1>2. /\ InTurn(Tail(s), g) /\ it \in Of(s, g) /\ Of(s, g) = Of(Tail(s), g) \cup {it}
        /\ \A x \in Of(Tail(s), g) : it.last < x.first
    BY <1>1, OfTail
  <1>3. \A x \in Of(s, g) : ItemOK(f, g, x)
    BY <1>1 DEF Lane, LaneItems
  <1>4. ItemOK(f, g, it) /\ ItemOf(f, g, it)
    BY <1>2, <1>3 DEF ItemOK
  <1>5. \A a \in Members(g) : pc[a] = "wait" /\ status[a][f] = 0
    BY <1>4 DEF ItemOK
  <1>6. ASSUME NEW a \in Members(g) PROVE Fits(payload[a])
    BY <1>5 DEF CamInv, ForwardOK, RankOK
  <1>7. ASSUME Signals(it) PROVE Of(Tail(s), g) = {}
    <2> SUFFICES ASSUME NEW x \in Of(Tail(s), g) PROVE FALSE
      OBVIOUS
    <2>1. ItemOf(f, g, x) /\ it.last < x.first
      BY <1>2, <1>3 DEF ItemOK
    <2>2. x.first \in Nat /\ x.last \in Nat /\ x.first <= x.last /\ x.last < Local
      BY <2>1 DEF ItemOf
    <2> QED BY <1>7, <2>1, <2>2, CamSizes DEF Signals
  <1>8. ASSUME NEW a \in Members(g), status'[a][f] /= 0
        PROVE  Signals(it) /\ status'[a][f] = Start(payload[a], f * Local) + 1
    <2>1. Signals(it)
      BY <1>5, <1>8
    <2>2. TpRank(a) \in 0 .. TP - 1 /\ a = Card(g, TpRank(a))
      BY MemberIs
    <2>3. it.prefix[TpRank(a)] = Start(payload[a], f * Local)
      BY <1>4, <2>2 DEF ItemOf
    <2> QED BY <2>1, <2>3
  <1>9. \A a \in Members(g) : Recd(f, g, a)' = Recd(f, g, a)
    BY RecdFrame
  <1>10. LaneFlags(f, g)'
    <2> SUFFICES ASSUME NEW a \in Members(g), slot[f][a].flag /= 0
                 PROVE  /\ pc'[a] = "wait" /\ status'[a][f] = 0
                        /\ slot'[f][a] = Dispatched(payload'[a], at'[g], a, f)
      BY DEF LaneFlags, Members
    <2>1. ~Signals(it)
      BY <1>4, LastItem
    <2> QED BY <1>1, <1>5, <2>1 DEF Lane, LaneFlags
  <1>11. LaneGone(f, g)'
    BY <1>1 DEF Lane, LaneGone
  <1>12. LaneNext(f, g)'
    <2>1. Ready(f, g)' <=> Ready(f, g)
      BY ReadyFrame
    <2> QED BY <1>1, <2>1 DEF Lane, LaneNext
  <1>13. LaneItems(f, g)'
    <2>1. ASSUME NEW x \in Of(Tail(s), g) PROVE ItemOK(f, g, x)'
      <3>1. ItemOK(f, g, x)
        BY <1>2, <1>3
      <3>2. ItemOf(f, g, x)'
        BY <3>1, ItemOfFrame DEF ItemOK
      <3>3. ~Signals(it)
        BY <1>7
      <3>4. \A a \in Members(g) : pc'[a] = "wait" /\ status'[a][f] = 0 /\ x.last < Recd(f, g, a)'
        BY <1>5, <1>9, <3>1, <3>3 DEF ItemOK
      <3> QED BY <3>2, <3>4 DEF ItemOK, Members
    <2> QED BY <1>2, <2>1 DEF LaneItems
  <1>14. LaneStatus(f, g)'
    BY <1>5, <1>7, <1>8 DEF LaneStatus, Members
  <1>15. LaneRegion(f, g)'
    <2> SUFFICES ASSUME NEW a \in Members(g), NEW e \in 0 .. Local - 1, e < Recd(f, g, a)',
                        ~Pending(Tail(s), g, e)
                 PROVE  Returned(region'[a], payload[a], at[g], a, f * Local + e)
      BY DEF LaneRegion, Members
    <2>1. Fits(payload[a])
      BY <1>6
    <2>2. /\ e \in it.first .. it.last => Returned(region'[a], payload[a], at[g], a, f * Local + e)
          /\ ~(e \in it.first .. it.last) /\ Returned(region[a], payload[a], at[g], a, f * Local + e)
               => Returned(region'[a], payload[a], at[g], a, f * Local + e)
      BY <1>4, <2>1, SentRegion
    <2>3. ASSUME ~(e \in it.first .. it.last) PROVE Returned(region[a], payload[a], at[g], a, f * Local + e)
      <3>1. ~Pending(items[f], g, e)
        BY <1>2, <2>3 DEF Pending
      <3>2. e < Recd(f, g, a)
        BY <1>9
      <3> QED BY <1>1, <1>5, <3>1, <3>2 DEF Lane, LaneRegion
    <2> QED BY <2>2, <2>3
  <1> QED BY <1>10, <1>11, <1>12, <1>13, <1>14, <1>15 DEF Lane

LEMMA ComputeAndSendStep == ASSUME CamInv, NEW f \in Fs, ComputeAndSend(f) PROVE CamInv'
  <1>1. PICK s, it, g : s = items[f] /\ it = Head(s) /\ g = it.group
    OBVIOUS
  <1>2. /\ s /= <<>> /\ SendFfnOutput(f, it) /\ items' = [items EXCEPT ![f] = Tail(@)]
        /\ sp' = sp /\ batch' = batch /\ at' = at /\ pc' = pc /\ hidden' = hidden /\ payload' = payload
        /\ slot' = slot /\ next' = next /\ scan' = scan /\ out' = out
    BY <1>1 DEF ComputeAndSend, attVars
  <1>3. CamTypes /\ IsSequence(s) /\ Grouped(s)
    BY <1>1 DEF CamInv, CamTypes
  <1>4. Len(s) \in Nat /\ Len(s) > 0 /\ DOMAIN s = 1 .. Len(s) /\ it = s[1] /\ IsSequence(Tail(s))
        /\ Len(Tail(s)) = Len(s) - 1 /\ \A i \in 1 .. Len(s) - 1 : Tail(s)[i] = s[i + 1]
    BY <1>1, <1>2, <1>3, SequenceLen, SequenceTail
  <1>5. g \in Gs
    <2>1. 1 \in DOMAIN s
      BY <1>4
    <2> QED BY <1>1, <1>3, <1>4, <2>1 DEF Grouped
  <1>6. Grouped(Tail(s))
    <2>1. DOMAIN Tail(s) = 1 .. Len(s) - 1
      BY <1>4, SequenceLen
    <2>2. \A i \in 1 .. Len(s) - 1 : i + 1 \in 1 .. Len(s)
      BY <1>4
    <2> QED BY <1>3, <1>4, <2>1, <2>2 DEF Grouped
  <1>7. items'[f] = Tail(s) /\ DOMAIN items' = Fs /\ \A d \in Fs : d /= f => items'[d] = items[d]
    BY <1>1, <1>2, <1>3 DEF CamTypes
  <1>8. /\ DOMAIN region' = Attns
        /\ \A a \in Attns : GroupOf(a) /= g => region'[a] = region[a]
    BY <1>1, <1>2 DEF SendFfnOutput
  <1>9. /\ DOMAIN status' = Attns /\ \A a \in Attns : DOMAIN status'[a] = Fs
        /\ \A a \in Attns : GroupOf(a) /= g => status'[a] = status[a]
        /\ \A a \in Attns : GroupOf(a) = g =>
              /\ \A d \in Fs : d /= f => status'[a][d] = status[a][d]
              /\ status'[a][f] = IF Signals(it) THEN it.prefix[TpRank(a)] + 1 ELSE status[a][f]
    <2>1. DOMAIN status = Attns /\ \A a \in Attns : DOMAIN status[a] = Fs
      BY <1>3 DEF CamTypes
    <2>2. status' = IF ~Signals(it) THEN status
                    ELSE [a \in Attns |-> IF GroupOf(a) /= it.group THEN status[a]
                                          ELSE [status[a] EXCEPT ![f] = it.prefix[TpRank(a)] + 1]]
      BY <1>2 DEF SendFfnOutput
    <2> QED BY <1>1, <2>1, <2>2
  <1>10. CamTypes'
    <2>1. ASSUME NEW d \in Fs PROVE IsSequence(items'[d]) /\ Grouped(items'[d])
      BY <1>3, <1>4, <1>6, <1>7 DEF CamTypes
    <2> QED BY <1>2, <1>3, <1>7, <1>8, <1>9, <2>1 DEF CamTypes
  <1>11. ASSUME NEW h \in Gs PROVE ForwardOK(h)' /\ OutOK(h)'
    <2>1. ForwardOK(h) /\ OutOK(h)
      BY DEF CamInv
    <2>2. SameForward(h)
      BY <1>2 DEF SameForward
    <2> QED BY <1>2, <2>1, <2>2, ForwardFrame, OutFrame
  <1>12. Lane(f, g) /\ ItemOf(f, g, it) /\ \A a \in Members(g) : Fits(payload[a])
    <2>1. Lane(f, g)
      BY <1>5 DEF CamInv
    <2>2. it \in Of(s, g)
      BY <1>1, <1>2, <1>3, <2>1, OfTail DEF Lane, LaneItems
    <2>3. ItemOK(f, g, it)
      BY <1>1, <2>1, <2>2 DEF Lane, LaneItems
    <2>4. \A a \in Members(g) : Fits(payload[a])
      BY <1>5, <2>3 DEF ItemOK, CamInv, ForwardOK, RankOK
    <2> QED BY <2>1, <2>3, <2>4 DEF ItemOK
  <1>13. ASSUME NEW d \in Fs, NEW h \in Gs PROVE Lane(d, h)'
    <2>1. Lane(d, h)
      BY DEF CamInv
    <2>2. CASE h /= g
      <3>1. SameItems(d, h)
        <4>1. CASE d = f
          <5>1. PICK r : r = Tail(s)
            OBVIOUS
          <5>2. InTurn(s, h) => InTurn(r, h) /\ Of(r, h) = Of(s, h)
            BY <1>1, <1>2, <1>3, <2>2, <5>1, OfTail
          <5>3. InTurn(s, h)
            BY <1>1, <2>1, <4>1 DEF Lane, LaneItems
          <5> QED BY <1>1, <1>7, <4>1, <5>1, <5>2, <5>3 DEF SameItems
        <4>2. CASE d /= f
          BY <1>7, <4>2 DEF SameItems
        <4> QED BY <4>1, <4>2
      <3>2. \A a \in Members(h) : status'[a] = status[a] /\ region'[a] = region[a]
        BY <1>8, <1>9, <2>2, MemberIs
      <3>3. SameFlags(d, h)
        BY <1>2, <3>2 DEF SameFlags, RegionKept
      <3> QED BY <2>1, <3>1, <3>3, LaneFrame
    <2>3. CASE h = g /\ d /= f
      <3>1. SameItems(d, g)
        BY <1>7, <2>3 DEF SameItems
      <3>2. ASSUME NEW a \in Members(g) PROVE status'[a][d] = status[a][d] /\ RegionKept(d, g, a)
        <4>1. status'[a][d] = status[a][d]
          BY <1>5, <1>9, <2>3, MemberIs
        <4>2. ASSUME NEW e \in 0 .. Local - 1, Returned(region[a], payload[a], at[g], a, d * Local + e)
              PROVE  Returned(region'[a], payload[a], at[g], a, d * Local + e)
          <5>1. Fits(payload[a])
            BY <1>12
          <5> QED BY <1>2, <1>5, <1>12, <2>3, <4>2, <5>1, SentRegion
        <4> QED BY <4>1, <4>2 DEF RegionKept
      <3>3. SameFlags(d, g)
        BY <1>2, <3>2 DEF SameFlags
      <3> QED BY <2>1, <2>3, <3>1, <3>3, LaneFrame
    <2>4. CASE h = g /\ d = f
      <3>1. \A a \in Members(g) :
              status'[a][f] = IF Signals(it) THEN it.prefix[TpRank(a)] + 1 ELSE status[a][f]
        BY <1>5, <1>9, MemberIs
      <3> QED BY <1>1, <1>2, <1>5, <1>7, <2>4, <3>1, SendBackLane
    <2> QED BY <2>2, <2>3, <2>4
  <1> QED BY <1>10, <1>11, <1>13 DEF CamInv

(***************************************************************************)
(* The theorems.                                                           *)
(***************************************************************************)
LEMMA CamNextInv == CamInv /\ [CamNext]_camVars => CamInv'
  <1> SUFFICES ASSUME CamInv, [CamNext]_camVars PROVE CamInv'
    OBVIOUS
  <1>1. ASSUME NEW g \in Gs, GroupStep(g) PROVE CamInv'
    BY <1>1, MoeLayerStep, DenseLayerStep, EndForwardStep, RestoreRowsStep, WarmupEndsStep DEF GroupStep
  <1>2. ASSUME NEW a \in Attns, DeviceStep(a) PROVE CamInv'
    BY <1>2, DispatchSendStep, CombineRecvStep DEF DeviceStep
  <1>3. ASSUME NEW f \in Fs, LookOn(f) \/ DispatchRecv(f) \/ ComputeAndSend(f) PROVE CamInv'
    BY <1>3, LookOnStep, DispatchRecvStep, ComputeAndSendStep
  <1>4. CASE UNCHANGED camVars
    <2>1. /\ sp' = sp /\ batch' = batch /\ at' = at /\ pc' = pc /\ hidden' = hidden /\ payload' = payload
          /\ slot' = slot /\ next' = next /\ scan' = scan /\ items' = items
          /\ region' = region /\ status' = status /\ out' = out
      BY <1>4 DEF camVars, attVars, ffnVars
    <2>2. CamTypes'
      BY <2>1 DEF CamInv, CamTypes
    <2>3. ASSUME NEW g \in Gs PROVE ForwardOK(g)' /\ OutOK(g)'
      <3>1. ForwardOK(g) /\ OutOK(g)
        BY DEF CamInv
      <3>2. SameForward(g)
        BY <2>1 DEF SameForward
      <3> QED BY <2>1, <3>1, <3>2, ForwardFrame, OutFrame
    <2>4. ASSUME NEW f \in Fs, NEW g \in Gs PROVE Lane(f, g)'
      <3>1. Lane(f, g)
        BY DEF CamInv
      <3>2. SameFlags(f, g) /\ SameItems(f, g)
        BY <2>1 DEF SameFlags, SameItems, RegionKept
      <3> QED BY <3>1, <3>2, LaneFrame
    <2> QED BY <2>2, <2>3, <2>4 DEF CamInv
  <1> QED BY <1>1, <1>2, <1>3, <1>4 DEF CamNext

(* The windows, work items and layouts stay in the relation CamInv states:
   what is in a slot, in an item or in a combine window is what its rank sent
   in the layer it is in, and every row is in one place only
   (async_cam.py:740-820, async_ffn_model_runner.py). *)
THEOREM WindowsConsistent == CamSpec => []CamInv
  <1>1. CamInit => CamInv
    BY CamInitInv
  <1>2. CamInv /\ [CamNext]_camVars => CamInv'
    BY CamNextInv
  <1> QED BY <1>1, <1>2, PTL DEF CamSpec

LEMMA CamInvRows == CamInv => RowsExact
  <1> SUFFICES ASSUME CamInv PROVE OwnOutput /\ TokensWhole
    BY DEF RowsExact
  <1>1. OwnOutput
    <2> SUFFICES ASSUME NEW a \in Attns, pc[a] = "got", NEW q \in DOMAIN payload[a], NEW k \in 1 .. TopK
                 PROVE  out[a][q][k] = [rank |-> a, at |-> at[GroupOf(a)],
                                        tok |-> payload[a][q].tok, expert |-> payload[a][q].ids[k],
                                        weights |-> LayerOf(GroupOf(a))]
      BY DEF OwnOutput
    <2>1. PICK g, p, t : g = GroupOf(a) /\ p = payload[a] /\ t = at[g]
      OBVIOUS
    <2>2. g \in Gs /\ a \in Members(g)
      BY <2>1, RankIs
    <2>3. out[a] = Combined(p, t, a)
      BY <2>1, <2>2 DEF CamInv, OutOK
    <2>4. q \in 1 .. Len(p)
      <3>1. p \in Seq(Row)
        BY <2>1, <2>2 DEF CamInv, ForwardOK, RankOK, MoeOK
      <3> QED BY <2>1, <3>1
    <2>5. Combined(p, t, a)[q][k] = [rank |-> a, at |-> t, tok |-> p[q].tok, expert |-> p[q].ids[k],
                                     weights |-> LayerId(t)]
      BY <2>4 DEF Combined
    <2>6. LayerOf(GroupOf(a)) = LayerId(t)
      BY <2>1 DEF LayerOf, LayerId
    <2> QED BY <2>1, <2>3, <2>5, <2>6
  <1>2. TokensWhole
    BY WholeIs DEF TokensWhole
  <1> QED BY <1>1, <1>2

(* RowsExact: a rank combines its own rows, each computed by the expert it was
   routed to with the weights of its layer, and the tokens of a group are
   whole again where a layer needs them (async_cam.py:740-820,
   async_cam_layered.py:246-252, async_cam_layout.py:55-61). *)
THEOREM RowsAlwaysExact == CamSpec => []RowsExact
  BY WindowsConsistent, CamInvRows, PTL

(* a step that writes no window but its own *)
WindowsInTurn ==
    /\ \A a \in Attns, f \in Fs :
          slot'[f][a].rows /= slot[f][a].rows /\ slot'[f][a] /= EmptySlot => slot[f][a].flag = 0
    /\ \A a \in Attns : region'[a] /= region[a] => pc[a] = "wait"

LEMMA StepInTurn == CamInv /\ [CamNext]_camVars => WindowsInTurn
  <1> SUFFICES ASSUME CamInv, [CamNext]_camVars PROVE WindowsInTurn
    OBVIOUS
  <1>1. ASSUME slot' = slot, region' = region PROVE WindowsInTurn
    BY <1>1 DEF WindowsInTurn
  <1>2. ASSUME NEW g \in Gs, GroupStep(g) PROVE WindowsInTurn
    BY <1>1, <1>2 DEF GroupStep, MoeLayer, DenseLayer, EndForward, RestoreRows, WarmupEnds
  <1>3. ASSUME NEW a \in Attns, DispatchSend(a) PROVE WindowsInTurn
    <2>1. region' = region /\ pc[a] = "send"
      BY <1>3 DEF DispatchSend
    <2>2. ASSUME NEW b \in Attns, NEW f \in Fs, slot'[f][b] /= slot[f][b] PROVE slot[f][b].flag = 0
      <3>1. b = a
        <4> SUFFICES ASSUME b /= a PROVE slot'[f][b] = slot[f][b]
          BY <2>2
        <4>1. DOMAIN slot = Fs /\ DOMAIN slot[f] = Attns
          BY DEF CamInv, CamTypes
        <4> QED BY <1>3, <4>1 DEF DispatchSend
      <3>2. PICK g : g = GroupOf(a)
        OBVIOUS
      <3> QED BY <2>1, <3>1, <3>2, NotYet
    <2> QED BY <2>1, <2>2 DEF WindowsInTurn
  <1>4. ASSUME NEW a \in Attns, CombineRecv(a) PROVE WindowsInTurn
    <2>1. slot' = slot /\ pc[a] = "wait" /\ region' = [region EXCEPT ![a] = [p \in Positions |-> NoPart]]
      BY <1>4 DEF CombineRecv
    <2>2. \A b \in Attns : b /= a => region'[b] = region[b]
      BY <2>1 DEF CamInv, CamTypes
    <2> QED BY <2>1, <2>2 DEF WindowsInTurn
  <1>5. ASSUME NEW f \in Fs, LookOn(f) PROVE WindowsInTurn
    BY <1>1, <1>5 DEF LookOn
  <1>6. ASSUME NEW f \in Fs, DispatchRecv(f) PROVE WindowsInTurn
    <2>1. region' = region
      BY <1>6 DEF DispatchRecv
    <2>2. ASSUME NEW b \in Attns, NEW d \in Fs PROVE slot'[d][b] = slot[d][b] \/ slot'[d][b] = EmptySlot
      <3>1. \/ slot' = slot
            \/ slot' = [slot EXCEPT ![f] = [a \in Attns |-> IF GroupOf(a) = scan[f] THEN EmptySlot ELSE @[a]]]
        BY <1>6 DEF DispatchRecv
      <3>2. DOMAIN slot = Fs
        BY DEF CamInv, CamTypes
      <3>3. CASE d = f
        BY <3>1, <3>2, <3>3
      <3>4. CASE d /= f
        BY <3>1, <3>2, <3>4
      <3> QED BY <3>3, <3>4
    <2> QED BY <2>1, <2>2 DEF WindowsInTurn
  <1>7. ASSUME NEW f \in Fs, ComputeAndSend(f) PROVE WindowsInTurn
    <2>1. PICK s, it, g : s = items[f] /\ it = Head(s) /\ g = it.group
      OBVIOUS
    <2>2. slot' = slot /\ s /= <<>> /\ SendFfnOutput(f, it)
      BY <1>7, <2>1 DEF ComputeAndSend
    <2>3. ASSUME NEW a \in Attns, region'[a] /= region[a] PROVE pc[a] = "wait"
      <3>1. GroupOf(a) = g
        BY <2>1, <2>2, <2>3 DEF SendFfnOutput
      <3>2. g \in Gs /\ a \in Members(g)
        BY <3>1, RankIs
      <3>3. Lane(f, g) /\ IsSequence(s)
        BY <2>1, <3>2 DEF CamInv, CamTypes
      <3>4. InTurn(s, g)
        BY <2>1, <3>3 DEF Lane, LaneItems
      <3>5. it \in Of(s, g)
        BY <2>1, <2>2, <3>3, <3>4, OfTail
      <3>6. ItemOK(f, g, it)
        BY <2>1, <3>3, <3>5 DEF Lane, LaneItems
      <3> QED BY <3>2, <3>6 DEF ItemOK
    <2> QED BY <2>2, <2>3 DEF WindowsInTurn
  <1>8. CASE UNCHANGED camVars
    BY <1>1, <1>8 DEF camVars
  <1> QED BY <1>2, <1>3, <1>4, <1>5, <1>6, <1>7, <1>8 DEF CamNext, DeviceStep

(* WindowsReusedInTurn: a slot is written again only after its receiver has
   cleared the flag, a combine window only while its owner waits
   (docs/npu/CAM_ASYNC_ROUTED_OPS.md:151-152). *)
THEOREM WindowsAlwaysInTurn == CamSpec => WindowsReusedInTurn
  <1>1. CamInv /\ [CamNext]_camVars => [WindowsInTurn]_camVars
    BY StepInTurn
  <1>2. CamSpec => [][WindowsInTurn]_camVars
    BY <1>1, WindowsConsistent, PTL DEF CamSpec
  <1> QED BY <1>2 DEF WindowsReusedInTurn, WindowsInTurn
=============================================================================
