-------------------------- MODULE FFNWorkerProofs --------------------------
(***************************************************************************)
(* Proofs about FFNWorker, for every number of fragments on the wire: the  *)
(* inductive invariant, the safety properties the runs check, and that the *)
(* worker implements DaemonLifecycle.                                      *)
(***************************************************************************)
EXTENDS FFNWorker, TLAPS

\* Every initial state satisfies the invariant.
LEMMA InitIInv == Init => IInv
<1> SUFFICES ASSUME Init PROVE IInv
  OBVIOUS
<1> USE MaxFragmentsAssumption
    DEF Init, EngineInit, MainSteps, EngineSteps, Early, Alive, Receiving,
        Errors
<1>1. TypeOK
  <2>1. /\ shutdown \in BOOLEAN /\ surfaced \in BOOLEAN
        /\ initialized \in BOOLEAN /\ ffn_thread \in BOOLEAN
        /\ closed \in BOOLEAN /\ p2p_pg \in BOOLEAN
        /\ group \in BOOLEAN /\ tainted \in BOOLEAN
    BY Zenon
  <2>2. QED
    BY <2>1 DEF TypeOK, EngineTypeOK
<1>2. ThreadInv /\ CloseInv /\ ReceiveInv /\ ReleaseInv
  BY DEF ThreadInv, CloseInv, ReceiveInv, ReleaseInv
<1>3. /\ ReleaseAfterExit /\ QuietStop /\ NoStepOnAbortedReceive
      /\ ShutdownReportsFailure
  BY DEF ReleaseAfterExit, QuietStop, NoStepOnAbortedReceive,
         ShutdownReportsFailure
<1>4. QED
  BY <1>1, <1>2, <1>3 DEF IInv

\* Every step of either thread or of the environment preserves it.
LEMMA NextIInv == IInv /\ [Next]_vars => IInv'
<1> SUFFICES ASSUME IInv, [Next]_vars PROVE IInv'
  OBVIOUS
<1> USE MaxFragmentsAssumption
    DEF IInv, TypeOK, EngineTypeOK, ThreadInv, CloseInv, ReceiveInv,
        ReleaseInv, ReleaseAfterExit, QuietStop, NoStepOnAbortedReceive,
        ShutdownReportsFailure, MainSteps, EngineSteps, Early, Alive,
        Receiving, Errors, engineVars, workerVars, planeVars, daemonVars
<1>1. CASE EngineStep
  <2> USE <1>1 DEF EngineStep, EngineNext, InitializeFromConfig, RunBusyLoop, PollRaises,
        PollLeaves, EngineShutdown, ExecutorShutdown, CallStop
  <2>1. surfaced' \in BOOLEAN
    BY Zenon
  <2>2. TypeOK'
    BY <2>1
  <2>3. (ThreadInv /\ CloseInv)'
    OBVIOUS
  <2>4. (ReceiveInv /\ ReleaseInv)'
    OBVIOUS
  <2>5. (ReleaseAfterExit /\ QuietStop /\ NoStepOnAbortedReceive /\ ShutdownReportsFailure)'
    OBVIOUS
  <2>6. QED
    BY <2>2, <2>3, <2>4, <2>5
<1>2. CASE StartCheckAlive
  BY <1>2 DEF StartCheckAlive, MainGoes
<1>3. CASE StartAlreadyRunning
  <2> USE <1>3 DEF StartAlreadyRunning, StartReturns, StartRaises
  <2>1. surfaced' \in BOOLEAN
    BY Zenon
  <2>2. TypeOK'
    BY <2>1
  <2>3. (ThreadInv /\ CloseInv)'
    OBVIOUS
  <2>4. (ReceiveInv /\ ReleaseInv)'
    OBVIOUS
  <2>5. (ReleaseAfterExit /\ QuietStop /\ NoStepOnAbortedReceive /\ ShutdownReportsFailure)'
    OBVIOUS
  <2>6. QED
    BY <2>2, <2>3, <2>4, <2>5
<1>4. CASE StartFails
  <2> USE <1>4 DEF StartFails, StartRaises
  <2>1. surfaced' \in BOOLEAN
    BY Zenon
  <2>2. TypeOK'
    BY <2>1
  <2>3. (ThreadInv /\ CloseInv)'
    OBVIOUS
  <2>4. (ReceiveInv /\ ReleaseInv)'
    OBVIOUS
  <2>5. (ReleaseAfterExit /\ QuietStop /\ NoStepOnAbortedReceive /\ ShutdownReportsFailure)'
    OBVIOUS
  <2>6. QED
    BY <2>2, <2>3, <2>4, <2>5
<1>5. CASE StartThread
  <2> USE <1>5 DEF StartThread, StartReturns
  <2>1. initialized' \in BOOLEAN /\ ffn_thread' \in BOOLEAN /\ p2p_pg' \in BOOLEAN /\ group' \in BOOLEAN /\ tainted' \in BOOLEAN
    BY Zenon
  <2>2. TypeOK'
    BY <2>1
  <2>3. (ThreadInv /\ CloseInv)'
    OBVIOUS
  <2>4. (ReceiveInv /\ ReleaseInv)'
    OBVIOUS
  <2>5. (ReleaseAfterExit /\ QuietStop /\ NoStepOnAbortedReceive /\ ShutdownReportsFailure)'
    OBVIOUS
  <2>6. QED
    BY <2>2, <2>3, <2>4, <2>5
<1>6. CASE StopSignal
  BY <1>6 DEF StopSignal, MainGoes
<1>7. CASE CloseMark
  BY <1>7 DEF CloseMark, MainGoes
<1>8. CASE CloseAbort
  BY <1>8 DEF CloseAbort, MainGoes
<1>9. CASE CloseUnregister
  BY <1>9 DEF CloseUnregister, MainGoes
<1>10. CASE CloseForget
  <2> USE <1>10 DEF CloseForget, MainGoes
  <2>1. p2p_pg' \in BOOLEAN
    BY Zenon
  <2>2. TypeOK'
    BY <2>1
  <2>3. (ThreadInv /\ CloseInv)'
    OBVIOUS
  <2>4. (ReceiveInv /\ ReleaseInv)'
    OBVIOUS
  <2>5. (ReleaseAfterExit /\ QuietStop /\ NoStepOnAbortedReceive /\ ShutdownReportsFailure)'
    OBVIOUS
  <2>6. QED
    BY <2>2, <2>3, <2>4, <2>5
<1>11. CASE JoinExited
  BY <1>11 DEF JoinExited, MainGoes
<1>12. CASE JoinTimeout
  <2> USE <1>12 DEF JoinTimeout, SwallowedStop, WorkerShutdownEnds, KeepNative,
        ShutdownAfterTimeout
  <2>1. surfaced' \in BOOLEAN
    BY Zenon
  <2>2. TypeOK'
    BY <2>1
  <2>3. (ThreadInv /\ CloseInv)'
    OBVIOUS
  <2>4. (ReceiveInv /\ ReleaseInv)'
    OBVIOUS
  <2>5. (ReleaseAfterExit /\ QuietStop /\ NoStepOnAbortedReceive /\ ShutdownReportsFailure)'
    OBVIOUS
  <2>6. QED
    BY <2>2, <2>3, <2>4, <2>5
<1>13. CASE StopFinish
  <2> USE <1>13 DEF StopFinish, SwallowedStop, WorkerShutdownEnds, KeepNative,
        ReleaseNative, RaiseKeeps
  <2>1. surfaced' \in BOOLEAN /\ ffn_thread' \in BOOLEAN /\ initialized' \in BOOLEAN
    BY Zenon
  <2>2. TypeOK'
    BY <2>1
  <2>3. (ThreadInv /\ CloseInv)'
    OBVIOUS
  <2>4. (ReceiveInv /\ ReleaseInv)'
    OBVIOUS
  <2>5. (ReleaseAfterExit /\ QuietStop /\ NoStepOnAbortedReceive /\ ShutdownReportsFailure)'
    OBVIOUS
  <2>6. QED
    BY <2>2, <2>3, <2>4, <2>5
<1>14. CASE LoopTest
  BY <1>14 DEF LoopTest, DaemonGoes, DaemonFails, DaemonFrame
<1>15. CASE ReadGroup
  BY <1>15 DEF ReadGroup, DaemonGoes, DaemonFails, DaemonFrame
<1>16. CASE CheckClosed
  BY <1>16 DEF CheckClosed, DaemonGoes, DaemonFails, DaemonFrame
<1>17. CASE RecvSize
  <2> USE <1>17 DEF RecvSize, DaemonGoes, DaemonFails, DaemonFrame, RecvFragment
  <2>1. tainted' \in BOOLEAN
    BY Zenon
  <2>2. TypeOK'
    BY <2>1
  <2>3. (ThreadInv /\ CloseInv)'
    OBVIOUS
  <2>4. (ReceiveInv /\ ReleaseInv)'
    OBVIOUS
  <2>5. (ReleaseAfterExit /\ QuietStop /\ NoStepOnAbortedReceive /\ ShutdownReportsFailure)'
    OBVIOUS
  <2>6. QED
    BY <2>2, <2>3, <2>4, <2>5
<1>18. CASE CheckSize
  BY <1>18 DEF CheckSize, DaemonGoes, DaemonFails, DaemonFrame, CheckAfterWait
<1>19. CASE RecvObject
  <2> USE <1>19 DEF RecvObject, DaemonGoes, DaemonFails, DaemonFrame, RecvFragment
  <2>1. tainted' \in BOOLEAN
    BY Zenon
  <2>2. TypeOK'
    BY <2>1
  <2>3. (ThreadInv /\ CloseInv)'
    OBVIOUS
  <2>4. (ReceiveInv /\ ReleaseInv)'
    OBVIOUS
  <2>5. (ReleaseAfterExit /\ QuietStop /\ NoStepOnAbortedReceive /\ ShutdownReportsFailure)'
    OBVIOUS
  <2>6. QED
    BY <2>2, <2>3, <2>4, <2>5
<1>20. CASE CheckObject
  BY <1>20 DEF CheckObject, DaemonGoes, DaemonFails, DaemonFrame, CheckAfterWait
<1>21. CASE OnClosed
  BY <1>21 DEF OnClosed, DaemonGoes, DaemonFails, DaemonFrame
<1>22. CASE ExecuteStep
  BY <1>22 DEF ExecuteStep, DaemonGoes, DaemonFails, DaemonFrame
<1>23. CASE PeerFails
  BY <1>23 DEF PeerFails, DaemonGoes, DaemonFails, DaemonFrame
<1>24. CASE PeerSend
  BY <1>24 DEF PeerSend
<1>25. CASE Shutdown
  BY <1>25 DEF Shutdown, RequestShutdown
<1>26. CASE Exited
  BY <1>26 DEF Exited, vars
<1>27. CASE UNCHANGED vars
  BY <1>27 DEF vars
<1>28. QED
  BY <1>1, <1>2, <1>3, <1>4, <1>5, <1>6, <1>7, <1>8, <1>9, <1>10, <1>11,
     <1>12, <1>13, <1>14, <1>15, <1>16, <1>17, <1>18, <1>19, <1>20, <1>21,
     <1>22, <1>23, <1>24, <1>25, <1>26, <1>27
  DEF Next, MainNext, ReceiverNext

\* The invariant holds in every behaviour of the worker: whatever the order of
\* the daemon's reads and of the three stops that race it.
THEOREM SpecIInv == Spec => []IInv
  BY InitIInv, NextIInv, PTL DEF Spec

\* Worker.shutdown never releases what a live daemon thread still uses.
THEOREM ReleaseSafe == Spec => []ReleaseAfterExit
<1>1. IInv => ReleaseAfterExit
  BY DEF IInv
<1>2. QED
  BY <1>1, SpecIInv, PTL

\* Stopping a healthy worker stores no error, at whichever read of the receive
\* the close catches the daemon.
THEOREM StopIsQuiet == Spec => []QuietStop
<1>1. IInv => QuietStop
  BY DEF IInv
<1>2. QED
  BY <1>1, SpecIInv, PTL

\* No model step runs on the buffers of an aborted receive.
THEOREM AbortedReceiveUnused == Spec => []NoStepOnAbortedReceive
<1>1. IInv => NoStepOnAbortedReceive
  BY DEF IInv
<1>2. QED
  BY <1>1, SpecIInv, PTL

\* The worker implements DaemonLifecycle: a start, an end, a release or a
\* stuck report of the abstract loop, and nothing else, is what each step is.
THEOREM WorkerRefines == Spec => ImplementsLifecycle
<1>1. Init => Lifecycle!LifecycleInit
  BY DEF Init, EngineInit, Lifecycle!LifecycleInit, Alive, Receiving
<1>2. IInv /\ IInv' /\ [Next]_vars
        => [Lifecycle!LifecycleNext]_(Lifecycle!lifecycleVars)
  <2> SUFFICES ASSUME IInv, IInv', [Next]_vars
               PROVE  [Lifecycle!LifecycleNext]_(Lifecycle!lifecycleVars)
    OBVIOUS
  <2> USE DEF Alive, Receiving, Lifecycle!lifecycleVars,
              Lifecycle!LifecycleNext, engineVars, workerVars, planeVars,
              daemonVars
  <2>1. CASE StartThread
    <3>1. daemon = "absent" /\ native = "held"
      BY <2>1 DEF StartThread, IInv, ThreadInv, ReleaseInv, Early, TypeOK
    <3>2. Lifecycle!Start
      BY <2>1, <3>1 DEF StartThread, StartReturns, Lifecycle!Start
    <3>3. QED
      BY <3>2
  <2>2. CASE JoinTimeout
    <3>1. verdict = "none"
      BY <2>2 DEF JoinTimeout, IInv, ReleaseInv
    <3>2. QED
      BY <2>2, <3>1 DEF JoinTimeout, SwallowedStop, WorkerShutdownEnds,
                        ShutdownAfterTimeout, KeepNative, Lifecycle!Abandon
  <2>3. CASE StopFinish
    <3>1. /\ verdict = "none" /\ native = "held"
          /\ daemon \in {"absent", "returned", "failed"}
          /\ loop_error = "none" <=> daemon # "failed"
      BY <2>3 DEF StopFinish, IInv, ReleaseInv, ThreadInv, TypeOK
    <3>2. QED
      BY <2>3, <3>1 DEF StopFinish, SwallowedStop, WorkerShutdownEnds,
                        ReleaseNative, KeepNative, Lifecycle!Close,
                        Lifecycle!Ended
  <2>4. CASE ReceiverNext \/ ExecuteStep \/ PeerFails
    <3>1. /\ daemon \in Alive
          /\ daemon' \in Alive \cup {"returned", "failed"}
          /\ UNCHANGED <<native, verdict>>
      BY <2>4 DEF ReceiverNext, LoopTest, ReadGroup, CheckClosed, RecvSize,
                  RecvObject, RecvFragment, CheckSize, CheckObject,
                  CheckAfterWait, OnClosed, ExecuteStep, PeerFails,
                  DaemonGoes, DaemonFails, DaemonFrame
    <3>2. QED
      BY <3>1 DEF Lifecycle!End
  <2>5. CASE \/ EngineStep \/ StartCheckAlive \/ StartAlreadyRunning
             \/ StartFails \/ StopSignal \/ CloseMark \/ CloseAbort
             \/ CloseUnregister \/ CloseForget \/ JoinExited \/ PeerSend
             \/ Shutdown \/ Exited \/ UNCHANGED vars
    <3>1. UNCHANGED <<daemon, native, verdict>>
      BY <2>5 DEF EngineStep, EngineNext, InitializeFromConfig, RunBusyLoop,
                  PollRaises, PollLeaves, EngineShutdown, ExecutorShutdown,
                  CallStop, StartCheckAlive, StartAlreadyRunning,
                  StartReturns, StartRaises, StartFails, StopSignal,
                  CloseMark, CloseAbort, CloseUnregister, CloseForget,
                  JoinExited, MainGoes, PeerSend, Shutdown, RequestShutdown,
                  Exited, vars
    <3>2. QED
      BY <3>1
  <2>6. QED
    BY <2>1, <2>2, <2>3, <2>4, <2>5 DEF Next, MainNext
<1>3. QED
  BY <1>1, <1>2, SpecIInv, PTL
  DEF Spec, ImplementsLifecycle, Lifecycle!LifecycleSpec

(* An aborted receive is neither reported as a failure nor executed. *)
THEOREM AbortHarmless == Spec => []AbortedReceiveHarmless
  BY StopIsQuiet, AbortedReceiveUnused, PTL DEF AbortedReceiveHarmless
=============================================================================
