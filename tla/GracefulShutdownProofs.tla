----------------------- MODULE GracefulShutdownProofs -----------------------
(***************************************************************************)
(* Theorems about GracefulShutdown, for every number of servers, callbacks *)
(* and requests and for every timeout.                                     *)
(***************************************************************************)
EXTENDS GracefulShutdown, FiniteSetTheorems, TLAPS

-----------------------------------------------------------------------------
(* The inductive invariant *)

\* What the shared WaitGroup counts in each phase.
Unrejected == {s \in Servers : ~reject[s]}
Unstopped  == {s \in Servers : stopper[s] # "done"}
Unreturned == {i \in Callbacks : cb[i] # "done"}

NotStopping == \A s \in Servers : stopper[s] = "none"
NotSpawned  == cbVar = 0 /\ \A i \in Callbacks : cb[i] = "unspawned"

PhaseInv ==
  /\ pc = "await" => NotStopping /\ NotSpawned /\ \A s \in Servers : ~reject[s]
  /\ pc = "reject" => NotStopping /\ NotSpawned /\ wg = Cardinality(Unrejected)
  /\ pc = "stopWait" => NotSpawned /\ wg = Cardinality(Unstopped)
  /\ pc \in {"spawn", "cbWait"} => wg = Cardinality(Unreturned)
  /\ pc = "cbWait" => cbVar = NumCallbacks
  /\ pc \in {"close", "returned"} => AllReturned
  /\ pc \notin {"await", "reject"} => \A s \in Servers : reject[s] /\ stopper[s] # "none"
  /\ pc \notin {"await", "reject", "stopWait"} => AllStopped
  /\ pc = "returned" <=> proc = "exit0"

\* The servers and callback goroutines, whatever the phase.
ActorInv ==
  /\ \A s \in Servers : stopper[s] \in {"shutdown", "done"} => srv[s] = "closed"
  /\ \A i \in Callbacks : cb[i] = "unspawned" <=> i > cbVar
  /\ \A i \in Callbacks : cb[i] \in {"running", "done"} => ran[i] \in Callbacks

IInv == TypeOK /\ PhaseInv /\ ActorInv

-----------------------------------------------------------------------------
(* Counting *)

LEMMA FiniteActors ==
  /\ IsFiniteSet(Servers) /\ Cardinality(Servers) \in Nat
  /\ IsFiniteSet(Callbacks) /\ Cardinality(Callbacks) = NumCallbacks
<1>1. IsFiniteSet(Servers) /\ NumCallbacks \in Nat
  BY ConstantsAssumption
<1>2. IsFiniteSet(1..NumCallbacks) /\ Cardinality(1..NumCallbacks) = NumCallbacks
  BY <1>1, FS_Interval
<1> QED
  BY <1>1, <1>2, FS_CardinalityType DEF Callbacks

\* A counter that equals the number of members of a finite set left to finish
\* is zero only when none is left, and the one that finishes decrements it.
LEMMA Countdown ==
  ASSUME NEW S, IsFiniteSet(S), NEW T \in SUBSET S
  PROVE  /\ Cardinality(T) = 0 => T = {}
         /\ \A x \in T : Cardinality(T \ {x}) = Cardinality(T) - 1
<1>1. IsFiniteSet(T)
  BY FS_Subset
<1> QED
  BY <1>1, FS_EmptySet, FS_RemoveElement

LEMMA UnstoppedCountdown == Cardinality(Unstopped) = 0 => Unstopped = {}
<1>1. Unstopped \in SUBSET Servers
  BY DEF Unstopped
<1> QED
  BY <1>1, FiniteActors, Countdown

-----------------------------------------------------------------------------
(* Type correctness *)

LEMMA TypeInit == Init => TypeOK
<1> SUFFICES ASSUME Init PROVE TypeOK
  OBVIOUS
<1> NumCallbacks \in Nat /\ MaxActive \in Nat
  BY ConstantsAssumption
<1>1. /\ srv \in [Servers -> {"starting", "listening", "failed", "closed"}]
      /\ reject \in [Servers -> BOOLEAN]
      /\ seen \in [Servers -> BOOLEAN]
      /\ stopper \in [Servers -> {"none", "sleep", "shutdown", "done"}]
  BY DEF Init
<1>2. /\ active \in [Servers -> 0..MaxActive]
      /\ cb \in [Callbacks -> {"unspawned", "ready", "running", "done"}]
  BY DEF Init
<1>3. ran \in [Callbacks -> 0..NumCallbacks]
  BY DEF Init
<1>4. late \in BOOLEAN
  BY DEF Init
<1>8. obedient \in SUBSET Callbacks
  BY DEF Init
<1>5. exitCh \in 0..1 /\ now \in Nat /\ since \in Nat /\ wg \in Int /\ cbVar \in 0..NumCallbacks
  BY DEF Init
<1>6. proc \in {"running", "exit0", "exit1", "exit2"}
  BY DEF Init
<1>7. pc \in {"await", "reject", "stopWait", "spawn", "cbWait", "close", "returned"}
  BY DEF Init
<1> QED
  BY <1>1, <1>2, <1>3, <1>4, <1>5, <1>6, <1>7, <1>8 DEF TypeOK

LEMMA TypeStep == TypeOK /\ [Next]_vars => TypeOK'
<1> SUFFICES ASSUME TypeOK, [Next]_vars PROVE TypeOK'
  OBVIOUS
<1> USE ConstantsAssumption, FiniteActors DEF TypeOK
<1>1. CASE TakeSignal
  BY <1>1 DEF TakeSignal, sigVars, mainVars, srvVars, cbVars
<1>2. CASE WaitRejected
  BY <1>2 DEF WaitRejected, sigVars, mainVars, srvVars, cbVars
<1>3. CASE WaitStopped
  BY <1>3 DEF WaitStopped, sigVars, mainVars, srvVars, cbVars
<1>4. CASE SpawnCallback
  BY <1>4 DEF SpawnCallback, sigVars, mainVars, srvVars, cbVars, Callbacks
<1>5. CASE EndSpawn
  BY <1>5 DEF EndSpawn, sigVars, mainVars, srvVars, cbVars
<1>6. CASE WaitCallbacks
  BY <1>6 DEF WaitCallbacks, sigVars, mainVars, srvVars, cbVars
<1>7. CASE Close
  BY <1>7 DEF Close, sigVars, mainVars, srvVars, cbVars
<1>8. CASE WatchdogSignal
  BY <1>8 DEF WatchdogSignal, sigVars, mainVars, srvVars, cbVars
<1>9. CASE WatchdogTimeout
  BY <1>9 DEF WatchdogTimeout, sigVars, mainVars, srvVars, cbVars
<1>10. CASE Tick
  BY <1>10 DEF Tick, sigVars, mainVars, srvVars, cbVars
<1>11. CASE Signal
  BY <1>11 DEF Signal, sigVars, mainVars, srvVars, cbVars
<1>12. CASE Exited
  BY <1>12 DEF Exited, sigVars, mainVars, srvVars, cbVars, vars
<1>13. ASSUME NEW s \in Servers, RejectReq(s) PROVE TypeOK'
  BY <1>13 DEF RejectReq, sigVars, mainVars, srvVars, cbVars
<1>14. ASSUME NEW s \in Servers, StartServer(s) PROVE TypeOK'
  BY <1>14 DEF StartServer, sigVars, mainVars, srvVars, cbVars
<1>15. ASSUME NEW s \in Servers, FlushReject(s) PROVE TypeOK'
  BY <1>15 DEF FlushReject, sigVars, mainVars, srvVars, cbVars
<1>16. ASSUME NEW s \in Servers, StopWake(s) PROVE TypeOK'
  BY <1>16 DEF StopWake, sigVars, mainVars, srvVars, cbVars
<1>17. ASSUME NEW s \in Servers, StopReturn(s) PROVE TypeOK'
  BY <1>17 DEF StopReturn, sigVars, mainVars, srvVars, cbVars
<1>18. ASSUME NEW s \in Servers, Arrive(s) PROVE TypeOK'
  BY <1>18 DEF Arrive, sigVars, mainVars, srvVars, cbVars
<1>19. ASSUME NEW s \in Servers, Serve(s) PROVE TypeOK'
  BY <1>19 DEF Serve, sigVars, mainVars, srvVars, cbVars
<1>20. ASSUME NEW i \in Callbacks, StartCallback(i) PROVE TypeOK'
  BY <1>20 DEF StartCallback, sigVars, mainVars, srvVars, cbVars
<1>21. ASSUME NEW i \in Callbacks, FinishCallback(i) PROVE TypeOK'
  BY <1>21 DEF FinishCallback, sigVars, mainVars, srvVars, cbVars
<1>22. CASE UNCHANGED vars
  BY <1>22 DEF vars, sigVars, mainVars, srvVars, cbVars
<1> QED
  BY <1>1, <1>2, <1>3, <1>4, <1>5, <1>6, <1>7, <1>8, <1>9, <1>10, <1>11, <1>12, <1>13, <1>14, <1>15, <1>16, <1>17, <1>18, <1>19, <1>20, <1>21, <1>22 DEF Next, Main, Goroutines, Environment

\* The types of every variable, which also say that no more callbacks are
\* started than there are and that the signal channel never overflows.
THEOREM TypeCorrect == Spec => []TypeOK
BY TypeInit, TypeStep, PTL DEF Spec

-----------------------------------------------------------------------------
(* The phases *)

LEMMA ActorStep ==
  ASSUME TypeOK, ActorInv, [Next]_vars
  PROVE  ActorInv'
<1> USE DEF TypeOK, ActorInv, Callbacks
<1>1. CASE TakeSignal
  BY <1>1 DEF TakeSignal, sigVars, mainVars, srvVars, cbVars
<1>2. CASE WaitRejected
  BY <1>2 DEF WaitRejected, sigVars, mainVars, srvVars, cbVars
<1>3. CASE WaitStopped
  BY <1>3 DEF WaitStopped, sigVars, mainVars, srvVars, cbVars
<1>4. CASE SpawnCallback
  BY <1>4 DEF SpawnCallback, sigVars, mainVars, srvVars, cbVars
<1>5. CASE EndSpawn
  BY <1>5 DEF EndSpawn, sigVars, mainVars, srvVars, cbVars
<1>6. CASE WaitCallbacks
  BY <1>6 DEF WaitCallbacks, sigVars, mainVars, srvVars, cbVars
<1>7. CASE Close
  BY <1>7 DEF Close, sigVars, mainVars, srvVars, cbVars
<1>8. CASE WatchdogSignal
  BY <1>8 DEF WatchdogSignal, sigVars, mainVars, srvVars, cbVars
<1>9. CASE WatchdogTimeout
  BY <1>9 DEF WatchdogTimeout, sigVars, mainVars, srvVars, cbVars
<1>10. CASE Tick
  BY <1>10 DEF Tick, sigVars, mainVars, srvVars, cbVars
<1>11. CASE Signal
  BY <1>11 DEF Signal, sigVars, mainVars, srvVars, cbVars
<1>12. CASE Exited
  BY <1>12 DEF Exited, sigVars, mainVars, srvVars, cbVars, vars
<1>13. ASSUME NEW s \in Servers, RejectReq(s) PROVE ActorInv'
  BY <1>13 DEF RejectReq, sigVars, mainVars, srvVars, cbVars
<1>14. ASSUME NEW s \in Servers, StartServer(s) PROVE ActorInv'
  BY <1>14 DEF StartServer, sigVars, mainVars, srvVars, cbVars
<1>15. ASSUME NEW s \in Servers, FlushReject(s) PROVE ActorInv'
  BY <1>15 DEF FlushReject, sigVars, mainVars, srvVars, cbVars
<1>16. ASSUME NEW s \in Servers, StopWake(s) PROVE ActorInv'
  BY <1>16 DEF StopWake, SleepOver, sigVars, mainVars, cbVars
<1>17. ASSUME NEW s \in Servers, StopReturn(s) PROVE ActorInv'
  BY <1>17 DEF StopReturn, ShutdownOver, sigVars, mainVars, cbVars
<1>18. ASSUME NEW s \in Servers, Arrive(s) PROVE ActorInv'
  BY <1>18 DEF Arrive, sigVars, mainVars, srvVars, cbVars
<1>19. ASSUME NEW s \in Servers, Serve(s) PROVE ActorInv'
  BY <1>19 DEF Serve, sigVars, mainVars, srvVars, cbVars
<1>20. ASSUME NEW i \in Callbacks, StartCallback(i) PROVE ActorInv'
  BY <1>20 DEF StartCallback, sigVars, mainVars, srvVars
<1>21. ASSUME NEW i \in Callbacks, FinishCallback(i) PROVE ActorInv'
  BY <1>21 DEF FinishCallback, sigVars, mainVars, srvVars, cbVars
<1>22. CASE UNCHANGED vars
  BY <1>22 DEF vars, sigVars, mainVars, srvVars, cbVars
<1> QED
  BY <1>1, <1>2, <1>3, <1>4, <1>5, <1>6, <1>7, <1>8, <1>9, <1>10, <1>11, <1>12, <1>13, <1>14, <1>15, <1>16, <1>17, <1>18, <1>19, <1>20, <1>21, <1>22 DEF Next, Main, Goroutines, Environment

\* A step that changes none of the states the WaitGroup counts.
LEMMA SameCounts ==
  ASSUME UNCHANGED <<reject, stopper, cb>>
  PROVE  UNCHANGED <<Unrejected, Unstopped, Unreturned>>
BY DEF Unrejected, Unstopped, Unreturned

LEMMA PhaseStep ==
  ASSUME TypeOK, TypeOK', ActorInv, PhaseInv, [Next]_vars
  PROVE  PhaseInv'
<1> USE FiniteActors DEF TypeOK, PhaseInv, AllStopped, AllReturned, NotStopping, NotSpawned, Running
<1>1. CASE TakeSignal
  <2>1. Unrejected' = Servers
    BY <1>1 DEF TakeSignal, Unrejected, srvVars
  <2> QED
    BY <1>1, <2>1 DEF TakeSignal, srvVars, cbVars
<1>2. CASE WaitRejected
  <2>1. Unrejected = {}
    <3>1. Unrejected \subseteq Servers
      BY DEF Unrejected
    <3> QED
      BY <1>2, <3>1, Countdown DEF WaitRejected
  <2>2. Unstopped' = Servers
    BY <1>2 DEF WaitRejected, Unstopped
  <2> QED
    BY <1>2, <2>1, <2>2 DEF WaitRejected, Unrejected, cbVars
<1>3. CASE WaitStopped
  <2>1. Unstopped = {}
    <3>1. wg = Cardinality(Unstopped) /\ wg = 0
      BY <1>3 DEF WaitStopped
    <3> QED
      BY <3>1, UnstoppedCountdown
  <2>2. Unreturned' = Callbacks
    BY <1>3 DEF WaitStopped, Unreturned, cbVars
  <2>3. AllStopped
    BY <2>1 DEF Unstopped, ActorInv
  <2>4. wg' = Cardinality(Unreturned')
    BY <1>3, <2>2, ConstantsAssumption DEF WaitStopped
  <2> QED
    BY <1>3, <2>3, <2>4 DEF WaitStopped, srvVars, cbVars
<1>4. CASE SpawnCallback
  <2>1. Unreturned' = Unreturned
    BY <1>4 DEF SpawnCallback, Unreturned, ActorInv, Callbacks
  <2> QED
    BY <1>4, <2>1 DEF SpawnCallback, mainVars, srvVars
<1>5. CASE EndSpawn
  BY <1>5, SameCounts DEF EndSpawn, sigVars, mainVars, srvVars, cbVars
<1>6. CASE WaitCallbacks
  <2>1. Unreturned = {}
    BY <1>6, Countdown DEF WaitCallbacks, Unreturned
  <2> QED
    BY <1>6, <2>1 DEF WaitCallbacks, Unreturned, srvVars, cbVars
<1>7. CASE Close
  BY <1>7, SameCounts DEF Close, CloseOver, srvVars, cbVars
<1>8. CASE WatchdogSignal
  BY <1>8, SameCounts DEF WatchdogSignal, sigVars, mainVars, srvVars, cbVars
<1>9. CASE WatchdogTimeout
  BY <1>9, SameCounts DEF WatchdogTimeout, sigVars, mainVars, srvVars, cbVars
<1>10. CASE Tick
  BY <1>10, SameCounts DEF Tick, sigVars, mainVars, srvVars, cbVars
<1>11. CASE Signal
  BY <1>11, SameCounts DEF Signal, sigVars, mainVars, srvVars, cbVars
<1>12. CASE Exited
  BY <1>12, SameCounts DEF Exited, sigVars, mainVars, srvVars, cbVars, vars
<1>13. ASSUME NEW s \in Servers, RejectReq(s) PROVE PhaseInv'
  <2>1. s \in Unrejected /\ Unrejected' = Unrejected \ {s}
    BY <1>13 DEF RejectReq, Unrejected
  <2>2. Unrejected \subseteq Servers
    BY DEF Unrejected
  <2>3. Cardinality(Unrejected') = Cardinality(Unrejected) - 1
    BY <2>1, <2>2, Countdown
  <2> QED
    BY <1>13, <2>3 DEF RejectReq, cbVars
<1>14. ASSUME NEW s \in Servers, StartServer(s) PROVE PhaseInv'
  <2>1. stopper[s] \notin {"shutdown", "done"}
    BY <1>14 DEF StartServer, ActorInv
  <2> QED
    BY <1>14, <2>1, SameCounts DEF StartServer, mainVars, cbVars
<1>15. ASSUME NEW s \in Servers, FlushReject(s) PROVE PhaseInv'
  BY <1>15, SameCounts DEF FlushReject, sigVars, mainVars, srvVars, cbVars
<1>16. ASSUME NEW s \in Servers, StopWake(s) PROVE PhaseInv'
  <2>1. pc = "stopWait"
    BY <1>16 DEF StopWake, SleepOver
  <2>2. Unstopped' = Unstopped
    BY <1>16 DEF StopWake, SleepOver, Unstopped
  <2> QED
    BY <1>16, <2>1, <2>2 DEF StopWake, mainVars, cbVars
<1>17. ASSUME NEW s \in Servers, StopReturn(s) PROVE PhaseInv'
  <2>1. pc = "stopWait"
    BY <1>17 DEF StopReturn, ShutdownOver
  <2>2. s \in Unstopped /\ Unstopped' = Unstopped \ {s}
    BY <1>17 DEF StopReturn, ShutdownOver, Unstopped
  <2>3. Unstopped \subseteq Servers
    BY DEF Unstopped
  <2>4. Cardinality(Unstopped') = Cardinality(Unstopped) - 1
    BY <2>2, <2>3, Countdown
  <2> QED
    BY <1>17, <2>1, <2>4 DEF StopReturn, cbVars
<1>18. ASSUME NEW s \in Servers, Arrive(s) PROVE PhaseInv'
  BY <1>18, SameCounts DEF Arrive, sigVars, mainVars, srvVars, cbVars
<1>19. ASSUME NEW s \in Servers, Serve(s) PROVE PhaseInv'
  BY <1>19, SameCounts DEF Serve, sigVars, mainVars, srvVars, cbVars
<1>20. ASSUME NEW i \in Callbacks, StartCallback(i) PROVE PhaseInv'
  <2>1. pc \in {"spawn", "cbWait"}
    BY <1>20 DEF StartCallback
  <2>2. Unreturned' = Unreturned
    BY <1>20 DEF StartCallback, Unreturned
  <2> QED
    BY <1>20, <2>1, <2>2 DEF StartCallback, mainVars, srvVars
<1>21. ASSUME NEW i \in Callbacks, FinishCallback(i) PROVE PhaseInv'
  <2>1. pc \in {"spawn", "cbWait"}
    BY <1>21 DEF FinishCallback
  <2>2. i \in Unreturned /\ Unreturned' = Unreturned \ {i}
    BY <1>21 DEF FinishCallback, Unreturned
  <2>3. Unreturned \subseteq Callbacks
    BY DEF Unreturned
  <2>4. Cardinality(Unreturned') = Cardinality(Unreturned) - 1
    BY <2>2, <2>3, Countdown
  <2> QED
    BY <1>21, <2>1, <2>4 DEF FinishCallback, srvVars
<1>22. CASE UNCHANGED vars
  BY <1>22, SameCounts DEF vars, sigVars, mainVars, srvVars, cbVars
<1> QED
  BY <1>1, <1>2, <1>3, <1>4, <1>5, <1>6, <1>7, <1>8, <1>9, <1>10, <1>11, <1>12, <1>13, <1>14, <1>15, <1>16, <1>17, <1>18, <1>19, <1>20, <1>21, <1>22 DEF Next, Main, Goroutines, Environment

LEMMA Inductive == Spec => []IInv
<1>1. Init => PhaseInv /\ ActorInv
  BY ConstantsAssumption DEF Init, PhaseInv, ActorInv, NotStopping, NotSpawned, Callbacks
<1>2. IInv /\ [Next]_vars => IInv'
  BY TypeStep, ActorStep, PhaseStep DEF IInv
<1> QED
  BY <1>1, <1>2, TypeInit, PTL DEF Spec, IInv

\* The barriers of shutdown hold for every number of servers and callbacks:
\* the one WaitGroup, reused by three phases, counts exactly the actors of the
\* current phase that are not finished.
THEOREM Barriers == Spec => []PhaseBarriers
<1>1. IInv => PhaseBarriers
  BY DEF IInv, TypeOK, PhaseInv, ActorInv, PhaseBarriers, AllStopped, AllReturned,
         NotStopping, NotSpawned
<1> QED
  BY <1>1, Inductive, PTL

-----------------------------------------------------------------------------
(* Signals *)

\* Until main takes the first signal no later one exists, and the channel's
\* buffer keeps a later one until the watchdog reads it.
SignalInv ==
  /\ SecondSignalHeeded
  /\ pc = "await" => ~late
  /\ pc # "await" /\ exitCh = 1 => late

LEMMA SignalStep ==
  ASSUME TypeOK, PhaseInv, SignalInv, [Next]_vars
  PROVE  SignalInv'
<1> USE DEF SignalInv, SecondSignalHeeded, Running, Stopping
<1>1. CASE TakeSignal
  BY <1>1 DEF TakeSignal, sigVars, mainVars, srvVars, cbVars
<1>2. CASE WaitRejected
  BY <1>2 DEF WaitRejected, sigVars, mainVars, srvVars, cbVars
<1>3. CASE WaitStopped
  BY <1>3 DEF WaitStopped, sigVars, mainVars, srvVars, cbVars
<1>4. CASE SpawnCallback
  BY <1>4 DEF SpawnCallback, sigVars, mainVars, srvVars, cbVars
<1>5. CASE EndSpawn
  BY <1>5 DEF EndSpawn, sigVars, mainVars, srvVars, cbVars
<1>6. CASE WaitCallbacks
  BY <1>6 DEF WaitCallbacks, sigVars, mainVars, srvVars, cbVars
<1>7. CASE Close
  <2>1. pc # "await" /\ proc' \notin {"running", "exit1"}
    BY <1>7 DEF Close, CloseOver
  <2>2. pc' # "await" /\ UNCHANGED <<exitCh, late>>
    BY <1>7 DEF Close, sigVars
  <2> QED
    BY <2>1, <2>2
<1>8. CASE WatchdogSignal
  BY <1>8 DEF WatchdogSignal, sigVars, mainVars, srvVars, cbVars
<1>9. CASE WatchdogTimeout
  BY <1>9 DEF WatchdogTimeout, sigVars, mainVars, srvVars, cbVars
<1>10. CASE Tick
  BY <1>10 DEF Tick, sigVars, mainVars, srvVars, cbVars
<1>11. CASE Signal
  BY <1>11 DEF Signal, sigVars, mainVars, srvVars, cbVars
<1>12. CASE Exited
  BY <1>12 DEF Exited, sigVars, mainVars, srvVars, cbVars, vars
<1>13. ASSUME NEW s \in Servers, RejectReq(s) PROVE SignalInv'
  BY <1>13 DEF RejectReq, sigVars, mainVars, srvVars, cbVars
<1>14. ASSUME NEW s \in Servers, StartServer(s) PROVE SignalInv'
  BY <1>14 DEF StartServer, sigVars, mainVars, srvVars, cbVars
<1>15. ASSUME NEW s \in Servers, FlushReject(s) PROVE SignalInv'
  BY <1>15 DEF FlushReject, sigVars, mainVars, srvVars, cbVars
<1>16. ASSUME NEW s \in Servers, StopWake(s) PROVE SignalInv'
  BY <1>16 DEF StopWake, sigVars, mainVars, srvVars, cbVars
<1>17. ASSUME NEW s \in Servers, StopReturn(s) PROVE SignalInv'
  BY <1>17 DEF StopReturn, sigVars, mainVars, srvVars, cbVars
<1>18. ASSUME NEW s \in Servers, Arrive(s) PROVE SignalInv'
  BY <1>18 DEF Arrive, sigVars, mainVars, srvVars, cbVars
<1>19. ASSUME NEW s \in Servers, Serve(s) PROVE SignalInv'
  BY <1>19 DEF Serve, sigVars, mainVars, srvVars, cbVars
<1>20. ASSUME NEW i \in Callbacks, StartCallback(i) PROVE SignalInv'
  BY <1>20 DEF StartCallback, sigVars, mainVars, srvVars, cbVars
<1>21. ASSUME NEW i \in Callbacks, FinishCallback(i) PROVE SignalInv'
  BY <1>21 DEF FinishCallback, sigVars, mainVars, srvVars, cbVars
<1>22. CASE UNCHANGED vars
  BY <1>22 DEF vars, sigVars, mainVars, srvVars, cbVars
<1> QED
  BY <1>1, <1>2, <1>3, <1>4, <1>5, <1>6, <1>7, <1>8, <1>9, <1>10, <1>11, <1>12, <1>13, <1>14, <1>15, <1>16, <1>17, <1>18, <1>19, <1>20, <1>21, <1>22 DEF Next, Main, Goroutines, Environment

\* No interleaving of signals, the watchdog and main loses the second signal,
\* and nothing but a second signal makes the process exit with code 1.
THEOREM SecondSignal == Spec => []SecondSignalHeeded
<1>1. Init => SignalInv
  BY DEF Init, SignalInv, SecondSignalHeeded
<1>2. IInv /\ SignalInv /\ [Next]_vars => SignalInv'
  BY SignalStep DEF IInv
<1>3. SignalInv => SecondSignalHeeded
  BY DEF SignalInv
<1> QED
  BY <1>1, <1>2, <1>3, Inductive, PTL DEF Spec

-----------------------------------------------------------------------------
(* Admission *)

\* The clock has not moved before every server has been told to refuse requests
\* and every handler sees it.
FlushInv == now > 0 => pc \notin {"await", "reject"} /\ \A s \in Servers : seen[s]

\* Requests come in by Arrive alone.
LEMMA AdmissionStep ==
  ASSUME TypeOK, PhaseInv, FlushInv, [Next]_vars
  PROVE  /\ FlushInv'
         /\ \A s \in Servers : active'[s] > active[s] => Arrive(s)
<1> USE DEF TypeOK, FlushInv
<1> DEFINE Goal == FlushInv' /\ \A s \in Servers : active'[s] > active[s] => Arrive(s)
<1>1. CASE TakeSignal
  BY <1>1 DEF TakeSignal, sigVars, mainVars, srvVars, cbVars
<1>2. CASE WaitRejected
  BY <1>2 DEF WaitRejected, sigVars, mainVars, srvVars, cbVars
<1>3. CASE WaitStopped
  BY <1>3 DEF WaitStopped, sigVars, mainVars, srvVars, cbVars
<1>4. CASE SpawnCallback
  BY <1>4 DEF SpawnCallback, sigVars, mainVars, srvVars, cbVars
<1>5. CASE EndSpawn
  BY <1>5 DEF EndSpawn, sigVars, mainVars, srvVars, cbVars
<1>6. CASE WaitCallbacks
  BY <1>6 DEF WaitCallbacks, sigVars, mainVars, srvVars, cbVars
<1>7. CASE Close
  BY <1>7 DEF Close, sigVars, mainVars, srvVars, cbVars
<1>8. CASE WatchdogSignal
  BY <1>8 DEF WatchdogSignal, sigVars, mainVars, srvVars, cbVars
<1>9. CASE WatchdogTimeout
  BY <1>9 DEF WatchdogTimeout, sigVars, mainVars, srvVars, cbVars
<1>10. CASE Tick
  <2>1. pc \notin {"await", "reject"} /\ \A s \in Servers : reject[s] => seen[s]
    BY <1>10 DEF Tick, Stopping, Urgent
  <2>2. \A s \in Servers : seen[s]
    BY <2>1 DEF PhaseInv
  <2> QED
    BY <1>10, <2>1, <2>2 DEF Tick, sigVars, mainVars, srvVars, cbVars
<1>11. CASE Signal
  BY <1>11 DEF Signal, sigVars, mainVars, srvVars, cbVars
<1>12. CASE Exited
  BY <1>12 DEF Exited, vars, sigVars, mainVars, srvVars, cbVars
<1>13. ASSUME NEW s \in Servers, RejectReq(s) PROVE Goal
  BY <1>13 DEF RejectReq, sigVars, mainVars, srvVars, cbVars
<1>14. ASSUME NEW s \in Servers, StartServer(s) PROVE Goal
  BY <1>14 DEF StartServer, sigVars, mainVars, srvVars, cbVars
<1>15. ASSUME NEW s \in Servers, FlushReject(s) PROVE Goal
  BY <1>15 DEF FlushReject, sigVars, mainVars, srvVars, cbVars
<1>16. ASSUME NEW s \in Servers, StopWake(s) PROVE Goal
  BY <1>16 DEF StopWake, sigVars, mainVars, srvVars, cbVars
<1>17. ASSUME NEW s \in Servers, StopReturn(s) PROVE Goal
  BY <1>17 DEF StopReturn, sigVars, mainVars, srvVars, cbVars
<1>18. ASSUME NEW s \in Servers, Arrive(s) PROVE Goal
  <2>1. FlushInv' /\ \A r \in Servers : r # s => active'[r] = active[r]
    BY <1>18 DEF Arrive, sigVars, mainVars, srvVars, cbVars
  <2>2. \A r \in Servers : active'[r] > active[r] => r = s
    BY <2>1
  <2> QED
    BY <1>18, <2>1, <2>2, Zenon
<1>19. ASSUME NEW s \in Servers, Serve(s) PROVE Goal
  BY <1>19 DEF Serve, sigVars, mainVars, srvVars, cbVars
<1>20. ASSUME NEW i \in Callbacks, StartCallback(i) PROVE Goal
  BY <1>20 DEF StartCallback, sigVars, mainVars, srvVars, cbVars
<1>21. ASSUME NEW i \in Callbacks, FinishCallback(i) PROVE Goal
  BY <1>21 DEF FinishCallback, sigVars, mainVars, srvVars, cbVars
<1>22. CASE UNCHANGED vars
  BY <1>22 DEF vars, sigVars, mainVars, srvVars, cbVars
<1> QED
  BY <1>1, <1>2, <1>3, <1>4, <1>5, <1>6, <1>7, <1>8, <1>9, <1>10, <1>11, <1>12, <1>13, <1>14, <1>15, <1>16, <1>17, <1>18, <1>19, <1>20, <1>21, <1>22 DEF Next, Main, Goroutines, Environment

\* No request comes in after the second in which the first signal was taken,
\* and none once the server's listener is being closed: however late the flag,
\* which is written without synchronisation, is seen by the handlers.
THEOREM Admission == Spec => AdmissionStops
<1>1. Init => FlushInv
  BY DEF Init, FlushInv
<1>2. IInv /\ FlushInv /\ [Next]_vars => FlushInv'
  BY AdmissionStep DEF IInv
<1>3. IInv /\ FlushInv /\ [Next]_vars =>
        [\A s \in Servers : active'[s] > active[s] =>
           /\ now = 0
           /\ stopper[s] \in {"none", "sleep"}]_vars
  <2> SUFFICES ASSUME IInv, FlushInv, [Next]_vars, NEW s \in Servers, active'[s] > active[s]
               PROVE  now = 0 /\ stopper[s] \in {"none", "sleep"}
    OBVIOUS
  <2>1. Arrive(s)
    BY AdmissionStep DEF IInv
  <2>2. now = 0
    BY <2>1 DEF Arrive, FlushInv, IInv, TypeOK
  <2>3. stopper[s] \in {"none", "sleep"}
    BY <2>1 DEF Arrive, IInv, TypeOK, ActorInv
  <2> QED
    BY <2>2, <2>3
<1> QED
  BY <1>1, <1>2, <1>3, Inductive, PTL DEF Spec, AdmissionStops

-----------------------------------------------------------------------------
(* Deadlines *)

LEMMA CutOffStep ==
  ASSUME TypeOK, ActorInv, CutOffOnlyAtDeadline, [Next]_vars
  PROVE  CutOffOnlyAtDeadline'
<1> USE ConstantsAssumption DEF TypeOK, ActorInv, CutOffOnlyAtDeadline
<1>1. CASE TakeSignal
  BY <1>1 DEF TakeSignal, sigVars, mainVars, srvVars, cbVars
<1>2. CASE WaitRejected
  BY <1>2 DEF WaitRejected, sigVars, mainVars, srvVars, cbVars
<1>3. CASE WaitStopped
  BY <1>3 DEF WaitStopped, sigVars, mainVars, srvVars, cbVars
<1>4. CASE SpawnCallback
  BY <1>4 DEF SpawnCallback, sigVars, mainVars, srvVars, cbVars
<1>5. CASE EndSpawn
  BY <1>5 DEF EndSpawn, sigVars, mainVars, srvVars, cbVars
<1>6. CASE WaitCallbacks
  BY <1>6 DEF WaitCallbacks, sigVars, mainVars, srvVars, cbVars
<1>7. CASE Close
  BY <1>7 DEF Close, sigVars, mainVars, srvVars, cbVars
<1>8. CASE WatchdogSignal
  BY <1>8 DEF WatchdogSignal, sigVars, mainVars, srvVars, cbVars
<1>9. CASE WatchdogTimeout
  BY <1>9 DEF WatchdogTimeout, sigVars, mainVars, srvVars, cbVars
<1>10. CASE Tick
  BY <1>10 DEF Tick, sigVars, mainVars, srvVars, cbVars
<1>11. CASE Signal
  BY <1>11 DEF Signal, sigVars, mainVars, srvVars, cbVars
<1>12. CASE Exited
  BY <1>12 DEF Exited, sigVars, mainVars, srvVars, cbVars, vars
<1>13. ASSUME NEW s \in Servers, RejectReq(s) PROVE CutOffOnlyAtDeadline'
  BY <1>13 DEF RejectReq, sigVars, mainVars, srvVars, cbVars
<1>14. ASSUME NEW s \in Servers, StartServer(s) PROVE CutOffOnlyAtDeadline'
  BY <1>14 DEF StartServer, sigVars, mainVars, srvVars, cbVars
<1>15. ASSUME NEW s \in Servers, FlushReject(s) PROVE CutOffOnlyAtDeadline'
  BY <1>15 DEF FlushReject, sigVars, mainVars, srvVars, cbVars
<1>16. ASSUME NEW s \in Servers, StopWake(s) PROVE CutOffOnlyAtDeadline'
  BY <1>16 DEF StopWake, sigVars, mainVars, cbVars
<1>17. ASSUME NEW s \in Servers, StopReturn(s) PROVE CutOffOnlyAtDeadline'
  BY <1>17 DEF StopReturn, ShutdownOver, sigVars, cbVars
<1>18. ASSUME NEW s \in Servers, Arrive(s) PROVE CutOffOnlyAtDeadline'
  BY <1>18 DEF Arrive, sigVars, mainVars, srvVars, cbVars
<1>19. ASSUME NEW s \in Servers, Serve(s) PROVE CutOffOnlyAtDeadline'
  BY <1>19 DEF Serve, sigVars, mainVars, srvVars, cbVars
<1>20. ASSUME NEW i \in Callbacks, StartCallback(i) PROVE CutOffOnlyAtDeadline'
  BY <1>20 DEF StartCallback, sigVars, mainVars, srvVars, cbVars
<1>21. ASSUME NEW i \in Callbacks, FinishCallback(i) PROVE CutOffOnlyAtDeadline'
  BY <1>21 DEF FinishCallback, sigVars, mainVars, srvVars, cbVars
<1>22. CASE UNCHANGED vars
  BY <1>22 DEF vars, sigVars, mainVars, srvVars, cbVars
<1> QED
  BY <1>1, <1>2, <1>3, <1>4, <1>5, <1>6, <1>7, <1>8, <1>9, <1>10, <1>11, <1>12, <1>13, <1>14, <1>15, <1>16, <1>17, <1>18, <1>19, <1>20, <1>21, <1>22 DEF Next, Main, Goroutines, Environment

\* A request in flight is given up only once the context of its server's
\* stopper has expired, however many servers are stopped and whatever the
\* requests do.
THEOREM CutOff == Spec => []CutOffOnlyAtDeadline
<1>1. Init => CutOffOnlyAtDeadline
  BY DEF Init, CutOffOnlyAtDeadline
<1>2. IInv /\ CutOffOnlyAtDeadline /\ [Next]_vars => CutOffOnlyAtDeadline'
  BY CutOffStep DEF IInv
<1> QED
  BY <1>1, <1>2, Inductive, PTL DEF Spec

\* The timeouts leave room for the three timed phases.  NewApp's defaults do:
\* 13 + 13 + 1 < 30.
FitsInTimeout ==
  /\ StopSleep + CbTimeout + CloseSleep < ShutdownTimeout
  /\ CbTimeout + CbTimeout + CloseSleep < ShutdownTimeout

\* How late each phase may start and how long it may last.
StopBy(t) == t <= StopSleep \/ t <= CbTimeout

TimeInv ==
  /\ pc \in {"await", "reject"} => now = 0
  /\ pc = "stopWait" => since = 0 /\ StopBy(now)
  /\ pc = "spawn" => since = now /\ StopBy(since)
  /\ pc = "cbWait" => StopBy(since) /\ now <= since + CbTimeout
  /\ pc \in {"close", "returned"} => /\ StopBy(since - CbTimeout)
                                     /\ now <= since + CloseSleep
  /\ proc # "exit2"

\* The callbacks do not change their manners.
LEMMA SameCallbacks ==
  ASSUME [Next]_vars
  PROVE  obedient' = obedient
<1> DEFINE Goal == obedient' = obedient
<1> SUFFICES Goal
  OBVIOUS
<1>1. CASE TakeSignal
  BY <1>1 DEF TakeSignal, sigVars, mainVars, srvVars, cbVars
<1>2. CASE WaitRejected
  BY <1>2 DEF WaitRejected, sigVars, mainVars, srvVars, cbVars
<1>3. CASE WaitStopped
  BY <1>3 DEF WaitStopped, sigVars, mainVars, srvVars, cbVars
<1>4. CASE SpawnCallback
  BY <1>4 DEF SpawnCallback, sigVars, mainVars, srvVars, cbVars
<1>5. CASE EndSpawn
  BY <1>5 DEF EndSpawn, sigVars, mainVars, srvVars, cbVars
<1>6. CASE WaitCallbacks
  BY <1>6 DEF WaitCallbacks, sigVars, mainVars, srvVars, cbVars
<1>7. CASE Close
  BY <1>7 DEF Close, sigVars, mainVars, srvVars, cbVars
<1>8. CASE WatchdogSignal
  BY <1>8 DEF WatchdogSignal, sigVars, mainVars, srvVars, cbVars
<1>9. CASE WatchdogTimeout
  BY <1>9 DEF WatchdogTimeout, sigVars, mainVars, srvVars, cbVars
<1>10. CASE Tick
  BY <1>10 DEF Tick, sigVars, mainVars, srvVars, cbVars
<1>11. CASE Signal
  BY <1>11 DEF Signal, sigVars, mainVars, srvVars, cbVars
<1>12. CASE Exited
  BY <1>12 DEF Exited, sigVars, mainVars, srvVars, cbVars, vars
<1>13. ASSUME NEW s \in Servers, RejectReq(s) PROVE Goal
  BY <1>13 DEF RejectReq, sigVars, mainVars, srvVars, cbVars
<1>14. ASSUME NEW s \in Servers, StartServer(s) PROVE Goal
  BY <1>14 DEF StartServer, sigVars, mainVars, srvVars, cbVars
<1>15. ASSUME NEW s \in Servers, FlushReject(s) PROVE Goal
  BY <1>15 DEF FlushReject, sigVars, mainVars, srvVars, cbVars
<1>16. ASSUME NEW s \in Servers, StopWake(s) PROVE Goal
  BY <1>16 DEF StopWake, sigVars, mainVars, srvVars, cbVars
<1>17. ASSUME NEW s \in Servers, StopReturn(s) PROVE Goal
  BY <1>17 DEF StopReturn, sigVars, mainVars, srvVars, cbVars
<1>18. ASSUME NEW s \in Servers, Arrive(s) PROVE Goal
  BY <1>18 DEF Arrive, sigVars, mainVars, srvVars, cbVars
<1>19. ASSUME NEW s \in Servers, Serve(s) PROVE Goal
  BY <1>19 DEF Serve, sigVars, mainVars, srvVars, cbVars
<1>20. ASSUME NEW i \in Callbacks, StartCallback(i) PROVE Goal
  BY <1>20 DEF StartCallback, sigVars, mainVars, srvVars, cbVars
<1>21. ASSUME NEW i \in Callbacks, FinishCallback(i) PROVE Goal
  BY <1>21 DEF FinishCallback, sigVars, mainVars, srvVars, cbVars
<1>22. CASE UNCHANGED vars
  BY <1>22 DEF vars, sigVars, mainVars, srvVars, cbVars
<1> QED
  BY <1>1, <1>2, <1>3, <1>4, <1>5, <1>6, <1>7, <1>8, <1>9, <1>10, <1>11, <1>12, <1>13, <1>14, <1>15, <1>16, <1>17, <1>18, <1>19, <1>20, <1>21, <1>22 DEF Next, Main, Goroutines, Environment

LEMMA TimeStep ==
  ASSUME FitsInTimeout, obedient = Callbacks,
         TypeOK, PhaseInv, ActorInv, TimeInv, [Next]_vars
  PROVE  TimeInv'
<1> USE ConstantsAssumption DEF TypeOK, TimeInv, StopBy, Running, Stopping
<1>1. CASE TakeSignal
  BY <1>1 DEF TakeSignal, sigVars, mainVars, srvVars, cbVars
<1>2. CASE WaitRejected
  BY <1>2 DEF WaitRejected, sigVars, mainVars, srvVars, cbVars
<1>3. CASE WaitStopped
  BY <1>3 DEF WaitStopped, sigVars, mainVars, srvVars, cbVars
<1>4. CASE SpawnCallback
  BY <1>4 DEF SpawnCallback, sigVars, mainVars, srvVars, cbVars
<1>5. CASE EndSpawn
  BY <1>5 DEF EndSpawn, sigVars, mainVars, srvVars, cbVars
<1>6. CASE WaitCallbacks
  BY <1>6 DEF WaitCallbacks, sigVars, mainVars, srvVars, cbVars
<1>7. CASE Close
  BY <1>7 DEF Close, CloseOver
<1>8. CASE WatchdogSignal
  BY <1>8 DEF WatchdogSignal, sigVars, mainVars, srvVars, cbVars
<1>9. CASE WatchdogTimeout
  <2>1. now < ShutdownTimeout
    BY <1>9 DEF WatchdogTimeout, FitsInTimeout, PhaseInv
  <2> QED
    BY <1>9, <2>1 DEF WatchdogTimeout
<1>10. CASE Tick
  <2>1. CASE pc = "stopWait"
    <3>1. Unstopped # {}
      BY <1>10, <2>1, FS_EmptySet DEF Tick, Urgent, PhaseInv
    <3>2. PICK s \in Servers : stopper[s] # "done"
      BY <3>1 DEF Unstopped
    <3>3. stopper[s] \in {"sleep", "shutdown"}
      BY <2>1, <3>2 DEF PhaseInv
    <3>4. now < StopSleep \/ now < CbTimeout
      BY <1>10, <2>1, <3>3 DEF Tick, Urgent, SleepOver, ShutdownOver
    <3> QED
      BY <1>10, <2>1, <3>4 DEF Tick, mainVars
  <2>2. CASE pc = "cbWait"
    <3>1. Unreturned # {}
      BY <1>10, <2>2, FS_EmptySet DEF Tick, Urgent, PhaseInv
    <3>2. PICK i \in Callbacks : cb[i] # "done"
      BY <3>1 DEF Unreturned
    <3>3. cb[i] = "running" /\ ran[i] \in obedient
      BY <1>10, <2>2, <3>2 DEF Tick, Urgent, PhaseInv, ActorInv, Callbacks
    <3>4. now < since + CbTimeout
      BY <1>10, <3>3 DEF Tick, Urgent, Expired
    <3> QED
      BY <1>10, <2>2, <3>4 DEF Tick, mainVars
  <2>3. CASE pc = "close"
    <3>1. now < since + CloseSleep
      BY <1>10, <2>3 DEF Tick, Urgent, CloseOver
    <3> QED
      BY <1>10, <2>3, <3>1 DEF Tick, mainVars
  <2>4. pc \notin {"await", "reject", "spawn", "returned"}
    BY <1>10 DEF Tick, Urgent, PhaseInv
  <2> QED
    BY <2>1, <2>2, <2>3, <2>4
<1>11. CASE Signal
  BY <1>11 DEF Signal, sigVars, mainVars, srvVars, cbVars
<1>12. CASE Exited
  BY <1>12 DEF Exited, sigVars, mainVars, srvVars, cbVars, vars
<1>13. ASSUME NEW s \in Servers, RejectReq(s) PROVE TimeInv'
  BY <1>13 DEF RejectReq, sigVars, mainVars, srvVars, cbVars
<1>14. ASSUME NEW s \in Servers, StartServer(s) PROVE TimeInv'
  BY <1>14 DEF StartServer, sigVars, mainVars, srvVars, cbVars
<1>15. ASSUME NEW s \in Servers, FlushReject(s) PROVE TimeInv'
  BY <1>15 DEF FlushReject, sigVars, mainVars, srvVars, cbVars
<1>16. ASSUME NEW s \in Servers, StopWake(s) PROVE TimeInv'
  BY <1>16 DEF StopWake, sigVars, mainVars, srvVars, cbVars
<1>17. ASSUME NEW s \in Servers, StopReturn(s) PROVE TimeInv'
  BY <1>17 DEF StopReturn, sigVars, mainVars, srvVars, cbVars
<1>18. ASSUME NEW s \in Servers, Arrive(s) PROVE TimeInv'
  BY <1>18 DEF Arrive, sigVars, mainVars, srvVars, cbVars
<1>19. ASSUME NEW s \in Servers, Serve(s) PROVE TimeInv'
  BY <1>19 DEF Serve, sigVars, mainVars, srvVars, cbVars
<1>20. ASSUME NEW i \in Callbacks, StartCallback(i) PROVE TimeInv'
  BY <1>20 DEF StartCallback, sigVars, mainVars, srvVars, cbVars
<1>21. ASSUME NEW i \in Callbacks, FinishCallback(i) PROVE TimeInv'
  BY <1>21 DEF FinishCallback, sigVars, mainVars, srvVars, cbVars
<1>22. CASE UNCHANGED vars
  BY <1>22 DEF vars, sigVars, mainVars, srvVars, cbVars
<1> QED
  BY <1>1, <1>2, <1>3, <1>4, <1>5, <1>6, <1>7, <1>8, <1>9, <1>10, <1>11, <1>12, <1>13, <1>14, <1>15, <1>16, <1>17, <1>18, <1>19, <1>20, <1>21, <1>22 DEF Next, Main, Goroutines, Environment

\* Whatever the requests in flight do, callbacks that honour their contexts are
\* never cut off by the timeout of the whole shutdown, for all timeouts that
\* leave room for the three timed phases.
THEOREM InTime == FitsInTimeout => (Spec => []GracefulInTime)
<1> SUFFICES ASSUME FitsInTimeout PROVE Spec => []GracefulInTime
  OBVIOUS
<1> DEFINE Inv == obedient = Callbacks => TimeInv
<1>1. Init => Inv
  BY DEF Init, TimeInv
<1>2. IInv /\ Inv /\ [Next]_vars => Inv'
  <2> SUFFICES ASSUME IInv, Inv, [Next]_vars, obedient' = Callbacks' PROVE TimeInv'
    OBVIOUS
  <2>1. obedient = Callbacks
    BY SameCallbacks DEF Callbacks
  <2> QED
    BY <2>1, TimeStep DEF IInv
<1>3. Inv => GracefulInTime
  BY DEF TimeInv, GracefulInTime
<1> HIDE DEF Inv
<1> QED
  BY <1>1, <1>2, <1>3, Inductive, PTL DEF Spec

=============================================================================
