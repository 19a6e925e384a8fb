---------------------------- MODULE FFNTwoStream ----------------------------
(***************************************************************************)
(* Two-slot Async CAM execution on an Ascend FFN rank: the receive loop's  *)
(* host thread enqueues receive-and-compute on one device stream and the   *)
(* send of its output on another, and reuses two slots in turn.            *)
(* v1/worker/npu/async_ffn_two_stream.py, called by the Async runner.      *)
(*                                                                         *)
(* The device is external: a stream runs what is enqueued on it in order,  *)
(* and a wait on an event stands for the record of that event that was the *)
(* last one when the wait was enqueued.  Transactions are numbered in the  *)
(* order of their computes, which is also the order of their sends, so a   *)
(* record is the number of operations its stream must have completed.      *)
(***************************************************************************)
EXTENDS Integers

CONSTANTS
  Layers,          \* len(layer_ids): transactions of a served batch
  Warmups,         \* warmup transactions before a FULL capture
  MaxTransactions  \* bound: transactions enqueued in all

ASSUME LayersAssumption  == Layers \in Nat \ {0}
ASSUME WarmupsAssumption == Warmups \in Nat
ASSUME MaxAssumption     == MaxTransactions \in Nat

Transaction == 0..MaxTransactions - 1
Slots == 0..1

VARIABLES
  host,            \* program counter of the receive thread
  full,            \* effective mode "full": capture after the warmups
  warmed,          \* warmup transactions submitted
  left,            \* transactions of the batch still to enqueue
  sequence, pending, failure, closed, \* fields of AsyncFFNTwoStream
  captured,        \* capture_count # 0
  receiver_exited, \* the loop returned
  submitted,       \* slot.submitted
  ready, done,     \* what the slot's events last recorded
  held,            \* eager transactions whose tensors a slot still retains
  slotOf,          \* slot of a transaction
  computeWait,     \* sends its compute waits for
  sendWait,        \* computes its send waits for
  computes, sends, \* operations enqueued on the two streams
  computed, sent,  \* and completed
  computing, sending \* the streams' current operation is running

hostVars   == <<host, full, warmed, left, sequence, pending, failure, closed,
                captured, receiver_exited>>
slotVars   == <<submitted, ready, done, held>>
queueVars  == <<slotOf, computeWait, sendWait, computes, sends>>
deviceVars == <<computed, sent, computing, sending>>
vars == <<hostVars, slotVars, queueVars, deviceVars>>

(* One type invariant. *)
TypeOK ==
  /\ host \in {"idle", "slot", "compute", "send", "complete", "dead", "exited"}
  /\ full \in BOOLEAN /\ warmed \in 0..Warmups
  /\ left \in Nat /\ sequence \in 0..MaxTransactions
  /\ pending \in BOOLEAN /\ failure \in BOOLEAN /\ closed \in BOOLEAN
  /\ captured \in BOOLEAN /\ receiver_exited \in BOOLEAN
  /\ submitted \in [Slots -> BOOLEAN]
  /\ ready \in [Slots -> Nat] /\ done \in [Slots -> Nat]
  /\ held \in SUBSET Transaction
  /\ slotOf \in [Transaction -> Slots]
  /\ computeWait \in [Transaction -> Nat] /\ sendWait \in [Transaction -> Nat]
  /\ computes \in 0..MaxTransactions /\ sends \in 0..MaxTransactions
  /\ computed \in 0..MaxTransactions /\ sent \in 0..MaxTransactions
  /\ computing \in BOOLEAN /\ sending \in BOOLEAN

Init ==
  /\ host = "idle" /\ full \in BOOLEAN /\ warmed = 0 /\ left = 0
  /\ sequence = 0 /\ pending = FALSE /\ failure = FALSE /\ closed = FALSE
  /\ captured = FALSE /\ receiver_exited = FALSE
  /\ submitted = [s \in Slots |-> FALSE]
  /\ ready = [s \in Slots |-> 0] /\ done = [s \in Slots |-> 0]
  /\ held = {}
  /\ slotOf = [n \in Transaction |-> 0]
  /\ computeWait = [n \in Transaction |-> 0]
  /\ sendWait = [n \in Transaction |-> 0]
  /\ computes = 0 /\ sends = 0 /\ computed = 0 /\ sent = 0
  /\ computing = FALSE /\ sending = FALSE

-----------------------------------------------------------------------------
(* The runner: warmup, capture, then bounded batches. *)

CheckLive == ~failure /\ ~closed
Starting  == full /\ ~captured

\* submit(count), up to its loop.
Submit(count) ==
  /\ host = "idle" /\ CheckLive /\ ~pending
  /\ computes + count <= MaxTransactions
  /\ pending' = TRUE /\ left' = count /\ host' = "slot"
  /\ UNCHANGED <<full, sequence, failure, closed, captured, receiver_exited,
                 slotVars, queueVars, deviceVars>>

Warmup == Starting /\ warmed < Warmups /\ warmed' = warmed + 1 /\ Submit(1)

Serve == ~Starting /\ ~receiver_exited /\ Submit(Layers) /\ UNCHANGED warmed

\* Capture enqueues nothing; the slots' events keep their records.
Capture ==
  /\ host = "idle" /\ Starting /\ warmed = Warmups /\ CheckLive /\ ~pending
  /\ captured' = TRUE /\ sequence' = 0
  /\ UNCHANGED <<host, full, warmed, left, pending, failure, closed,
                 receiver_exited, slotVars, queueVars, deviceVars>>

-----------------------------------------------------------------------------
(* The body of submit's loop, for the transaction numbered computes. *)

Slot == sequence % 2

\* release_transaction of the slots in S.
Release(S) == held' = {n \in held : slotOf[n] \notin S}

\* Mutant: an eager slot is released without synchronising with its send.
AcquireSlot_NoSync ==
  /\ host = "slot"
  /\ IF submitted[Slot] /\ ~captured THEN Release({Slot}) ELSE UNCHANGED held
  /\ host' = "compute"
  /\ UNCHANGED <<full, warmed, left, sequence, pending, failure, closed,
                 captured, receiver_exited, submitted, ready, done, queueVars,
                 deviceVars>>

\* An eager slot is synchronised with its last send before it is released.
AcquireSlot ==
  /\ host = "slot"
  /\ IF submitted[Slot] /\ ~captured
       THEN sent >= done[Slot] /\ Release({Slot})
       ELSE UNCHANGED held
  /\ host' = "compute"
  /\ UNCHANGED <<full, warmed, left, sequence, pending, failure, closed,
                 captured, receiver_exited, submitted, ready, done, queueVars,
                 deviceVars>>

\* Mutant: the compute stream does not wait for the slot's last send.
AddCompute_NoWait ==
  /\ slotOf' = [slotOf EXCEPT ![computes] = Slot]
  /\ computes' = computes + 1
  /\ held' = IF captured THEN held
             ELSE {n \in held : slotOf[n] # Slot} \cup {computes}
  /\ UNCHANGED computeWait

\* Mutant: the wait stands for the send that is about to be enqueued.
AddCompute_WaitsForOwnSend ==
  /\ slotOf' = [slotOf EXCEPT ![computes] = Slot]
  /\ computeWait' = [computeWait EXCEPT ![computes] = computes + 1]
  /\ computes' = computes + 1
  /\ held' = IF captured THEN held
             ELSE {n \in held : slotOf[n] # Slot} \cup {computes}

\* What is enqueued on the compute stream, and retained by the slot if eager.
AddCompute ==
  /\ slotOf' = [slotOf EXCEPT ![computes] = Slot]
  /\ computeWait' = [computeWait EXCEPT ![computes] =
                       IF submitted[Slot] THEN done[Slot] ELSE 0]
  /\ computes' = computes + 1
  /\ held' = IF captured THEN held
             ELSE {n \in held : slotOf[n] # Slot} \cup {computes}

EnqueueCompute ==
  /\ host = "compute"
  /\ AddCompute
  /\ ready' = [ready EXCEPT ![Slot] = computes + 1]
  /\ host' = "send"
  /\ UNCHANGED <<full, warmed, left, sequence, pending, failure, closed,
                 captured, receiver_exited, submitted, done, sendWait, sends,
                 deviceVars>>

AddSend ==
  /\ sendWait' = [sendWait EXCEPT ![sends] = ready[Slot]]
  /\ sends' = sends + 1

EnqueueSend ==
  /\ host = "send"
  /\ AddSend
  /\ done' = [done EXCEPT ![Slot] = sends + 1]
  /\ submitted' = [submitted EXCEPT ![Slot] = TRUE]
  /\ sequence' = sequence + 1 /\ left' = left - 1
  /\ host' = IF left > 1 THEN "slot" ELSE "complete"
  /\ UNCHANGED <<full, warmed, pending, failure, closed, captured,
                 receiver_exited, ready, held, slotOf, computeWait, computes,
                 deviceVars>>

\* Any native call may raise; the operation it enqueues may be on the stream
\* already, without the record that follows it.
NativeCallFails ==
  /\ \/ host \in {"slot", "complete"} /\ UNCHANGED <<queueVars, held>>
     \/ host = "compute" /\ UNCHANGED <<queueVars, held>>
     \/ host = "compute" /\ AddCompute /\ UNCHANGED <<sendWait, sends>>
     \/ host = "send" /\ UNCHANGED <<queueVars, held>>
     \/ host = "send" /\ AddSend /\ UNCHANGED <<slotOf, computeWait, computes, held>>
     \/ host = "idle" /\ Starting /\ warmed = Warmups /\ UNCHANGED <<queueVars, held>>
  /\ failure' = TRUE /\ host' = "dead"
  /\ UNCHANGED <<full, warmed, left, sequence, pending, closed, captured,
                 receiver_exited, submitted, ready, done, deviceVars>>

-----------------------------------------------------------------------------
(* complete, the end of the loop, and close. *)

\* The last slot's send during startup, else the whole device.
Fence ==
  IF Starting THEN sent >= done[(sequence - 1) % 2]
              ELSE computed = computes /\ sent = sends

Complete ==
  /\ host = "complete"
  /\ Fence
  /\ pending' = FALSE /\ host' = "idle"
  /\ IF captured THEN UNCHANGED held ELSE Release(Slots)
  /\ UNCHANGED <<full, warmed, left, sequence, failure, closed, captured,
                 receiver_exited, submitted, ready, done, queueVars, deviceVars>>

\* The shutdown event is seen between two batches.
ReceiverExits ==
  /\ host = "idle" /\ ~Starting
  /\ host' = "exited" /\ receiver_exited' = TRUE
  /\ UNCHANGED <<full, warmed, left, sequence, pending, failure, closed,
                 captured, slotVars, queueVars, deviceVars>>

\* What close insists on; a call that finds less raises and changes nothing.
MayClose == ~failure /\ ~pending /\ receiver_exited

Close ==
  /\ ~closed /\ MayClose
  /\ closed' = TRUE /\ held' = {}
  /\ UNCHANGED <<host, full, warmed, left, sequence, pending, failure,
                 captured, receiver_exited, submitted, ready, done, queueVars,
                 deviceVars>>

-----------------------------------------------------------------------------
(* The device. *)

StartCompute ==
  /\ ~computing /\ computed < computes /\ sent >= computeWait[computed]
  /\ computing' = TRUE
  /\ UNCHANGED <<hostVars, slotVars, queueVars, computed, sent, sending>>

EndCompute ==
  /\ computing
  /\ computing' = FALSE /\ computed' = computed + 1
  /\ UNCHANGED <<hostVars, slotVars, queueVars, sent, sending>>

StartSend ==
  /\ ~sending /\ sent < sends /\ computed >= sendWait[sent]
  /\ sending' = TRUE
  /\ UNCHANGED <<hostVars, slotVars, queueVars, computed, sent, computing>>

EndSend ==
  /\ sending
  /\ sending' = FALSE /\ sent' = sent + 1
  /\ UNCHANGED <<hostVars, slotVars, queueVars, computed, computing>>

-----------------------------------------------------------------------------
HostNext == Warmup \/ Serve \/ Capture \/ AcquireSlot \/ EnqueueCompute
            \/ EnqueueSend \/ Complete

DeviceNext == StartCompute \/ EndCompute \/ StartSend \/ EndSend

Next == HostNext \/ DeviceNext \/ NativeCallFails \/ ReceiverExits \/ Close

\* The host thread runs; the device makes progress as long as Attention's
\* payloads arrive, which is what the liveness property takes for granted.
Fairness == WF_vars(HostNext) /\ WF_vars(StartCompute) /\ WF_vars(EndCompute)
            /\ WF_vars(StartSend) /\ WF_vars(EndSend)

Spec == Init /\ [][Next]_vars
FairSpec == Spec /\ Fairness

-----------------------------------------------------------------------------
(* Properties. *)

Started == computed + (IF computing THEN 1 ELSE 0)

\* A slot's buffers belong to one transaction at a time: its compute starts
\* only after every earlier transaction of the slot has been sent.
NoOverwrite ==
  \A n \in 0..Started - 1 : \A m \in 0..n - 1 :
    slotOf[m] = slotOf[n] => m < sent

\* A send runs only after its own compute, and with nothing newer in its slot.
SendsOwnOutput ==
  sending => /\ sent < computed
             /\ \A n \in sent + 1..Started - 1 : slotOf[n] # slotOf[sent]

\* The buffers of a slot carry one transaction from its compute to its send.
SlotSafe == NoOverwrite /\ SendsOwnOutput

\* Eager tensors live until their send has been observed complete, also when a
\* native call fails half way through a batch.
RetainedUntilSent == ~captured /\ ~closed => sent..computes - 1 \subseteq held

\* "FIFO send completion also covers all preceding compute work": whenever no
\* batch is pending, both streams are idle, the two-event fence included.
FenceCoversBatch ==
  ~pending => computed = computes /\ sent = sends /\ sends = computes

\* What the streams still work on is neither freed nor taken for finished.
BatchSafe == RetainedUntilSent /\ FenceCoversBatch

\* Graphs, streams and slots go only when neither stream can touch them.
CloseOnlyWhenIdle ==
  closed => computed = computes /\ sent = sends /\ ~computing /\ ~sending

(***************************************************************************)
(* The inductive strengthening behind the safety properties above.         *)
(***************************************************************************)

\* The streams run what is enqueued, and a send has its compute before it.
CountInv ==
  /\ sends <= computes /\ computed <= computes /\ sent <= sends
  /\ sent <= computed
  /\ computing => computed < computes
  /\ sending => sent < sends /\ sent < computed
  /\ \A n \in held : n < computes

Submitting == {"slot", "compute", "send"}

\* The program counter against the queues and against pending.
HostInv ==
  /\ failure <=> host = "dead"
  /\ receiver_exited <=> host = "exited"
  /\ closed => host = "exited"
  /\ host \in Submitting \cup {"complete"} => pending
  /\ pending => host \in Submitting \cup {"complete", "dead"}
  /\ sequence <= sends
  /\ host \in Submitting => left >= 1 /\ sends + left <= MaxTransactions
  /\ host \notin {"send", "dead"} => sends = computes
  /\ host = "send" => /\ computes = sends + 1 /\ slotOf[sends] = Slot
                      /\ ready[Slot] = computes
  /\ host = "complete" => /\ sequence > 0
                          /\ slotOf[sends - 1] = (sequence - 1) % 2
  /\ host = "compute" /\ ~captured => \A n \in held : slotOf[n] # Slot
  /\ host \in {"idle", "exited"} /\ ~captured => held = {}

\* An event's record covers every send of its slot, and so does the wait of
\* the next compute of the slot.
RecordInv ==
  /\ host # "dead" => \A n \in 0..sends - 1 :
       submitted[slotOf[n]] /\ done[slotOf[n]] > n
  /\ \A s \in Slots : done[s] <= sends
  /\ \A n \in 0..computes - 1 : \A m \in 0..n - 1 :
       slotOf[m] = slotOf[n] => computeWait[n] > m
  /\ \A n \in 0..sends - 1 : sendWait[n] > n

IInv == /\ TypeOK /\ CountInv /\ HostInv /\ RecordInv
        /\ NoOverwrite /\ RetainedUntilSent /\ FenceCoversBatch
        /\ CloseOnlyWhenIdle

\* The waits between host and streams never wait for each other: a batch ends
\* unless a native call fails.
BatchCompletes == pending ~> (~pending \/ failure)
=============================================================================
