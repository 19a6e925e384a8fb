------------------------- MODULE NPUFFNWorkerProofs -------------------------
(***************************************************************************)
(* Proofs about NPUFFNWorker, for any set of execution modes: a draining   *)
(* worker releases nothing early, a stop is quiet, and a worker that       *)
(* drains implements DaemonLifecycle.                                      *)
(***************************************************************************)
EXTENDS NPUFFNWorker, TLAPS

\* Every initial state satisfies the invariant.
LEMMA InitIInv == Init => IInv
<1> SUFFICES ASSUME Init PROVE IInv
  OBVIOUS
<1> USE KindsAssumption DEF Init, EngineInit, EngineSteps, Early, Alive
<1>1. TypeOK
  <2>1. /\ shutdown \in BOOLEAN /\ surfaced \in BOOLEAN /\ ffn_thread \in BOOLEAN
        /\ two_stream \in BOOLEAN /\ startup_failure \in BOOLEAN
        /\ receiver_exited \in BOOLEAN
    BY Zenon
  <2>2. QED
    BY <2>1 DEF TypeOK, EngineTypeOK
<1>2. EarlyInv /\ StopInv /\ DrainInv
  BY DEF EarlyInv, StopInv, DrainInv
<1>3. StopSafe
  BY DEF StopSafe, DrainBeforeRelease, FailedStartupRetains, QuietStop
<1>4. QED
  BY <1>1, <1>2, <1>3 DEF IInv

\* Membership is a Boolean value: what the startup assigns to its flags.
LEMMA MemberBoolean == \A x, S : (x \in S) \in BOOLEAN
  OBVIOUS

\* An initialised executor has a two-stream flag.
LEMMA InitializedTyped == Initialized => two_stream' \in BOOLEAN
<1> SUFFICES ASSUME Initialized PROVE two_stream' \in BOOLEAN
  OBVIOUS
<1>1. two_stream' = (kind \in TwoStreams)
  BY DEF Initialized
<1>2. QED
  BY <1>1, MemberBoolean, Zenon

\* A startup that fails leaves both flags set to truth values.
LEMMA StartupFailsTyped ==
  StartupFails => startup_failure' \in BOOLEAN /\ two_stream' \in BOOLEAN
<1> SUFFICES ASSUME StartupFails
             PROVE  startup_failure' \in BOOLEAN /\ two_stream' \in BOOLEAN
  OBVIOUS
<1>1. startup_failure' = (kind \in AsyncKinds)
  BY DEF StartupFails
<1>2. startup_failure' \in BOOLEAN
  BY <1>1, MemberBoolean, Zenon
<1>3. two_stream' \in BOOLEAN
  BY InitializedTyped, Zenon DEF StartupFails
<1>4. QED
  BY <1>2, <1>3

\* Every step of either thread or of the environment preserves it.
LEMMA NextIInv == IInv /\ [Next]_vars => IInv'
<1> SUFFICES ASSUME IInv, [Next]_vars PROVE IInv'
  OBVIOUS
<1> USE KindsAssumption
    DEF IInv, TypeOK, EngineTypeOK, EarlyInv, StopInv, DrainInv, StopSafe,
        DrainBeforeRelease, FailedStartupRetains, QuietStop, Drains, RequiresDrain,
        EngineSteps, Early, Alive, AllKinds, AsyncKinds, FullKinds, TwoStreams,
        engineVars, runnerVars, workerVars
<1>1. CASE EngineStep
  <2> USE <1>1 DEF EngineStep, EngineNext, InitializeFromConfig, RunBusyLoop, PollRaises,
        PollLeaves, EngineShutdown, ExecutorShutdown, CallStop, RaiseForgets
  <2>1. surfaced' \in BOOLEAN
    BY Zenon
  <2>2. TypeOK'
    BY <2>1
  <2>3. EarlyInv'
    OBVIOUS
  <2>4. StopInv' /\ DrainInv'
    OBVIOUS
  <2>5. StopSafe'
    OBVIOUS
  <2>6. QED
    BY <2>2, <2>3, <2>4, <2>5
<1>2. CASE StartCheckAlive
  BY <1>2 DEF StartCheckAlive, MainGoes
<1>3. CASE StartAlreadyRunning
  <2> USE <1>3 DEF StartAlreadyRunning, StartReturns, StartRaises, RaiseForgets
  <2>1. surfaced' \in BOOLEAN
    BY Zenon
  <2>2. TypeOK'
    BY <2>1
  <2>3. EarlyInv'
    OBVIOUS
  <2>4. StopInv' /\ DrainInv'
    OBVIOUS
  <2>5. StopSafe'
    OBVIOUS
  <2>6. QED
    BY <2>2, <2>3, <2>4, <2>5
<1>4. CASE StartReraises
  <2> USE <1>4 DEF StartReraises, StartRaises, RaiseForgets
  <2>1. surfaced' \in BOOLEAN
    BY Zenon
  <2>2. TypeOK'
    BY <2>1
  <2>3. EarlyInv'
    OBVIOUS
  <2>4. StopInv' /\ DrainInv'
    OBVIOUS
  <2>5. StopSafe'
    OBVIOUS
  <2>6. QED
    BY <2>2, <2>3, <2>4, <2>5
<1>5. CASE StartupFails
  <2> USE <1>5 DEF StartupFails, StartRaises, Initialized
  <2>0. startup_failure' \in BOOLEAN /\ two_stream' \in BOOLEAN
    BY <1>5, StartupFailsTyped
  <2>1. surfaced' \in BOOLEAN
    BY Zenon
  <2>2. TypeOK'
    BY <2>0, <2>1
  <2>3. EarlyInv'
    OBVIOUS
  <2>4. StopInv' /\ DrainInv'
    OBVIOUS
  <2>5. StopSafe'
    OBVIOUS
  <2>6. QED
    BY <2>2, <2>3, <2>4, <2>5
<1>6. CASE StartThread
  <2> USE <1>6 DEF StartThread, StartReturns, Initialized
  <2>1. ffn_thread' \in BOOLEAN /\ two_stream' \in BOOLEAN
    <3>1. CASE connector = "absent"
      BY <3>1, InitializedTyped, Zenon
    <3>2. CASE connector # "absent"
      BY <3>2, Zenon
    <3>3. QED
      BY <3>1, <3>2
  <2>2. TypeOK'
    BY <2>1
  <2>3. EarlyInv'
    OBVIOUS
  <2>4. StopInv' /\ DrainInv'
    OBVIOUS
  <2>5. StopSafe'
    OBVIOUS
  <2>6. QED
    BY <2>2, <2>3, <2>4, <2>5
<1>7. CASE StopSignal
  BY <1>7 DEF StopSignal, MainGoes
<1>8. CASE CloseConnector
  BY <1>8 DEF CloseConnector, MainGoes
<1>9. CASE JoinExited
  BY <1>9 DEF JoinExited, MainGoes
<1>10. CASE JoinTimeout
  <2> USE <1>10 DEF JoinTimeout, SwallowedStop, WorkerShutdownEnds
  <2>1. surfaced' \in BOOLEAN
    BY Zenon
  <2>2. TypeOK'
    BY <2>1
  <2>3. EarlyInv'
    OBVIOUS
  <2>4. StopInv' /\ DrainInv'
    OBVIOUS
  <2>5. StopSafe'
    OBVIOUS
  <2>6. QED
    BY <2>2, <2>3, <2>4, <2>5
<1>11. CASE DrainRaises
  <2> USE <1>11 DEF DrainRaises, DrainBlocked, SwallowedStop, WorkerShutdownEnds, RaiseForgets
  <2>1. surfaced' \in BOOLEAN
    BY Zenon
  <2>2. TypeOK'
    BY <2>1
  <2>3. EarlyInv'
    OBVIOUS
  <2>4. StopInv' /\ DrainInv'
    OBVIOUS
  <2>5. StopSafe'
    OBVIOUS
  <2>6. QED
    BY <2>2, <2>3, <2>4, <2>5
<1>12. CASE DrainReleases
  <2> USE <1>12 DEF DrainReleases, DrainBlocked, SwallowedStop, WorkerShutdownEnds
  <2>1. surfaced' \in BOOLEAN /\ two_stream' \in BOOLEAN /\ ffn_thread' \in BOOLEAN
    BY Zenon
  <2>2. TypeOK'
    BY <2>1
  <2>3. EarlyInv'
    OBVIOUS
  <2>4. StopInv' /\ DrainInv'
    OBVIOUS
  <2>5. StopSafe'
    OBVIOUS
  <2>6. QED
    BY <2>2, <2>3, <2>4, <2>5
<1>13. CASE CloseFinishes
  <2> USE <1>13 DEF CloseFinishes, SwallowedStop, WorkerShutdownEnds, RaiseForgets
  <2>1. surfaced' \in BOOLEAN /\ ffn_thread' \in BOOLEAN
    BY Zenon
  <2>2. TypeOK'
    BY <2>1
  <2>3. EarlyInv'
    OBVIOUS
  <2>4. StopInv' /\ DrainInv'
    OBVIOUS
  <2>5. StopSafe'
    OBVIOUS
  <2>6. QED
    BY <2>2, <2>3, <2>4, <2>5
<1>14. CASE LoopTest
  BY <1>14 DEF LoopTest, DaemonGoes
<1>15. CASE ReceiveClosed
  BY <1>15 DEF ReceiveClosed, DaemonGoes
<1>16. CASE LoopRaised
  BY <1>16 DEF LoopRaised, DaemonGoes
<1>17. CASE LoopReturned
  <2> USE <1>17 DEF LoopReturned, DaemonGoes
  <2>1. receiver_exited' \in BOOLEAN
    BY Zenon
  <2>2. TypeOK'
    BY <2>1
  <2>3. EarlyInv'
    OBVIOUS
  <2>4. StopInv' /\ DrainInv'
    OBVIOUS
  <2>5. StopSafe'
    OBVIOUS
  <2>6. QED
    BY <2>2, <2>3, <2>4, <2>5
<1>18. CASE Receive
  BY <1>18 DEF Receive, DaemonGoes
<1>19. CASE StepEnds
  <2>1. CASE DaemonGoes("top") /\ UNCHANGED <<loop_error, receiver_exited>>
    BY <1>19, <2>1 DEF StepEnds, DaemonGoes
  <2>2. CASE DaemonGoes("raisedCompute") /\ UNCHANGED <<loop_error, receiver_exited>>
    BY <1>19, <2>2 DEF StepEnds, DaemonGoes
  <2>3. QED
    BY <1>19, <2>1, <2>2 DEF StepEnds
<1>20. CASE StepClosed
  BY <1>20 DEF StepClosed, DaemonGoes
<1>21. CASE Shutdown
  <2> USE <1>21 DEF Shutdown, RequestShutdown
  <2>1. shutdown' \in BOOLEAN
    BY Zenon
  <2>2. TypeOK'
    BY <2>1
  <2>3. EarlyInv'
    OBVIOUS
  <2>4. StopInv' /\ DrainInv'
    OBVIOUS
  <2>5. StopSafe'
    OBVIOUS
  <2>6. QED
    BY <2>2, <2>3, <2>4, <2>5
<1>22. CASE Exited
  BY <1>22 DEF Exited, vars
<1>23. CASE UNCHANGED vars
  BY <1>23 DEF vars
<1>24. QED
  BY <1>1, <1>2, <1>3, <1>4, <1>5, <1>6, <1>7, <1>8, <1>9, <1>10, <1>11, <1>12, <1>13,
     <1>14, <1>15, <1>16, <1>17, <1>18, <1>19, <1>20, <1>21, <1>22, <1>23
  DEF Next, MainNext, LoopNext

\* The invariant holds in every behaviour, in every execution mode.
THEOREM SpecIInv == Spec => []IInv
  BY InitIInv, NextIInv, PTL DEF Spec

\* A draining worker releases nothing before its receiver has left, a failed
\* startup keeps what the device may use, and a stop is never taken for a
\* failure of the loop (ffn_worker.py:204-296).
THEOREM StopsSafe == Spec => []StopSafe
<1>1. IInv => StopSafe
  BY DEF IInv
<1>2. QED
  BY <1>1, SpecIInv, PTL

\* A worker in a draining mode implements DaemonLifecycle: a start, an end, a
\* release or a stuck report, and nothing else, is what each step of it is.
THEOREM DrainRefines == Spec => DrainImplementsLifecycle
<1>1. Init => Lifecycle!LifecycleInit
  BY DEF Init, EngineInit, Lifecycle!LifecycleInit, Alive
<1>2. IInv /\ IInv' /\ [Next]_vars
        => [Drains => Lifecycle!LifecycleNext]_(Lifecycle!lifecycleVars)
  <2> SUFFICES ASSUME IInv, IInv', [Next]_vars, Drains
               PROVE  [Lifecycle!LifecycleNext]_(Lifecycle!lifecycleVars)
    OBVIOUS
  <2> USE DEF Alive, Lifecycle!lifecycleVars, Lifecycle!LifecycleNext,
              engineVars, runnerVars, workerVars
  <2>1. CASE StartThread
    <3>1. daemon = "absent" /\ native = "held"
      BY <2>1 DEF StartThread, IInv, EarlyInv, TypeOK, Early
    <3>2. Lifecycle!Start
      BY <2>1, <3>1 DEF StartThread, StartReturns, Lifecycle!Start
    <3>3. QED
      BY <3>2
  <2>2. CASE JoinTimeout
    <3>1. verdict = "none"
      BY <2>2 DEF JoinTimeout, IInv, StopInv
    <3>2. QED
      BY <2>2, <3>1 DEF JoinTimeout, SwallowedStop, WorkerShutdownEnds, Lifecycle!Abandon
  <2>3. CASE DrainRaises
    <3>1. verdict = "none" /\ daemon \in {"absent", "returned", "failed"}
      BY <2>3 DEF DrainRaises, IInv, StopInv, TypeOK
    <3>2. QED
      BY <2>3, <3>1 DEF DrainRaises, SwallowedStop, WorkerShutdownEnds,
                        Lifecycle!Close, Lifecycle!Ended
  <2>4. CASE DrainReleases
    <3>1. verdict = "none" /\ daemon \in {"absent", "returned"}
      BY <2>4 DEF DrainReleases, DrainBlocked, IInv, StopInv, DrainInv, StopSafe,
                  DrainBeforeRelease, TypeOK
    <3>2. QED
      BY <2>4, <3>1 DEF DrainReleases, SwallowedStop, WorkerShutdownEnds,
                        Lifecycle!Close, Lifecycle!Ended
  <2>5. CASE CloseFinishes
    <3>1. verdict = "none" /\ daemon \in {"absent", "returned"}
      BY <2>5 DEF CloseFinishes, IInv, StopInv, DrainInv, StopSafe,
                  DrainBeforeRelease, TypeOK
    <3>2. QED
      BY <2>5, <3>1 DEF CloseFinishes, SwallowedStop, WorkerShutdownEnds,
                        Lifecycle!Close, Lifecycle!Ended
  <2>6. CASE LoopNext \/ Receive \/ StepEnds \/ StepClosed
    <3>1. /\ daemon \in Alive
          /\ daemon' \in Alive \cup {"returned", "failed"}
          /\ UNCHANGED <<native, verdict>>
      BY <2>6 DEF LoopNext, LoopTest, ReceiveClosed, LoopRaised, LoopReturned,
                  Receive, StepEnds, StepClosed, DaemonGoes
    <3>2. QED
      BY <3>1 DEF Lifecycle!End
  <2>7. CASE \/ EngineStep \/ StartCheckAlive \/ StartAlreadyRunning
             \/ StartReraises \/ StartupFails \/ StopSignal \/ CloseConnector
             \/ JoinExited \/ Shutdown \/ Exited \/ UNCHANGED vars
    <3>1. UNCHANGED <<daemon, native, verdict>>
      BY <2>7 DEF EngineStep, EngineNext, InitializeFromConfig, RunBusyLoop,
                  PollRaises, PollLeaves, EngineShutdown, ExecutorShutdown,
                  CallStop, StartCheckAlive, StartAlreadyRunning, StartReraises,
                  StartReturns, StartRaises, StartupFails, StopSignal,
                  CloseConnector, JoinExited, MainGoes, Shutdown,
                  RequestShutdown, Exited, vars
    <3>2. QED
      BY <3>1
  <2>8. QED
    BY <2>1, <2>2, <2>3, <2>4, <2>5, <2>6, <2>7 DEF Next, MainNext
<1>3. QED
  BY <1>1, <1>2, SpecIInv, PTL DEF Spec, DrainImplementsLifecycle
=============================================================================
