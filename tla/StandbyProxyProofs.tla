-------------------------- MODULE StandbyProxyProofs --------------------------
(***************************************************************************)
(* Proofs about the program around the router. While it serves or drains,  *)
(* the router's invariant holds, whatever the backend's processes do; from *)
(* the end of the drain on, no task is left to take a step (Over). Two     *)
(* more facts are about the processes: what a start command that runs on   *)
(* unattended means, and that COLD has nothing running (Processes).        *)
(***************************************************************************)
EXTENDS StandbyProxy, StandbyRouterProofs

\* A retry ran the start command and timed out.
AbandonedRestart == \E h \in Messages : answer[h] = "timeout" /\ restarted[h] # 0

\* A start command runs unattended because a retry's timeout abandoned it or,
\* the state FAILED then, because the drain did. Nothing runs in COLD but what
\* such a command started, or what the stop command left.
Processes ==
    /\ unattended > 0 =>
          \/ AbandonedRestart
          \/ runner \in {"closing", "exited"} /\ state = "FAILED"
    /\ state = "COLD" /\ service => AbandonedRestart \/ stopFailed

\* No task is left, nor is the lock wanted. The transport the router refers to
\* is the only open one that no broken start has lost.
Over ==
    /\ made \in Nat /\ transport \in 0..made /\ closed \subseteq 1..made
    /\ pc \in [Messages -> {"new", "done"}]
    /\ lockq = <<>>
    /\ runner = "closing"  => lock = Nobody /\ state \in Settled
    /\ runner = "stopping" => lock = Cleanup /\ state = "STOPPING"
    /\ runner = "exited"   => /\ lock = Nobody
                              /\ \/ state \in {"COLD", "FAILED"}
                                 \/ state = "STOPPING" /\ stopFailed
    /\ runner # "closing" => transport = 0
    /\ LostByBrokenStart

Running == runner \in {"serving", "draining"}

ProxyInv ==
    /\ runner \in {"serving", "draining", "closing", "stopping", "exited"}
    /\ service \in BOOLEAN /\ unattended \in Nat /\ stopFailed \in BOOLEAN
    /\ IF Running THEN RecoveryInv ELSE Over
    /\ Processes

\* The invariant contains the properties of the program.
LEMMA ProxyInvImplies ==
    ProxyInv => ProxyTypeOK /\ CleanupAlone /\ ActiveIsStopped /\ TransportsClosedAtExit
<1>. SUFFICES ASSUME ProxyInv
              PROVE  ProxyTypeOK /\ CleanupAlone /\ ActiveIsStopped /\ TransportsClosedAtExit
  OBVIOUS
<1>1. ProxyTypeOK
  <2>1. CASE Running
    <3>1. closed \subseteq 1..made
      BY <2>1 DEF ProxyInv, RecoveryInv, IInv, TypeOK, StrayByBrokenStart
    <3>. QED
      BY <2>1, <3>1 DEF ProxyInv, RecoveryInv, IInv, TypeOK, ProxyTypeOK
  <2>2. CASE ~Running
    <3>1. pc \in [Messages -> Phases]
      BY <2>2 DEF ProxyInv, Over, Phases
    <3>. QED
      BY <2>2, <3>1 DEF ProxyInv, Over, ProxyTypeOK, Running, States, Settled
  <2>. QED
    BY <2>1, <2>2
<1>2. CleanupAlone
  BY DEF ProxyInv, Over, Running, CleanupAlone, InFlight
<1>3. ActiveIsStopped
  BY DEF ProxyInv, Over, Running, Processes, AbandonedRestart, ActiveIsStopped
<1>4. TransportsClosedAtExit
  <2>. SUFFICES ASSUME runner = "exited"
                PROVE  Cardinality((1..made) \ closed) <= Cardinality(BrokenStarts)
    BY DEF TransportsClosedAtExit
  <2>1. Over
    BY DEF ProxyInv, Running
  <2>2. (1..made) \ closed = LostTransports
    BY <2>1 DEF Over, LostTransports
  <2>. QED
    BY <2>1, <2>2 DEF Over, LostByBrokenStart
<1>. QED
  BY <1>1, <1>2, <1>3, <1>4

\* It holds initially.
LEMMA ProxyInvInit == ProxyInit => ProxyInv
<1>1. ProxyInit => RecoveryInv
  BY RecoveryInit DEF ProxyInit
<1>2. ProxyInit => runner = "serving" /\ service = FALSE /\ unattended = 0 /\ stopFailed = FALSE
  BY DEF ProxyInit
<1>3. ProxyInit => Processes
  BY <1>2 DEF Processes
<1>4. ProxyInit => unattended \in Nat
  BY <1>2
<1>. QED
  BY <1>1, <1>2, <1>3, <1>4 DEF ProxyInv, Running

----------------------------------------------------------------------------
(* The steps of the tasks. *)

\* A step of a task keeps the retries that were abandoned.
LEMMA AbandonedStays ==
    ASSUME RecoveryInv, NEW h \in Messages, Step(h), AbandonedRestart
    PROVE  AbandonedRestart'
<1>1. PICK g \in Messages : answer[g] = "timeout" /\ restarted[g] # 0
  BY DEF AbandonedRestart
<1>2. g # h
  BY <1>1, VictimStep DEF RecoveryInv, IInv, AnsweredIsDone
<1>. QED
  BY <1>1, <1>2, AnswerStep DEF RecoveryInv, IInv, AbandonedRestart

\* No step of a task ends in COLD, unless it began there and starts nothing.
LEMMA ColdStep ==
    ASSUME RecoveryInv, NEW h \in Messages, Step(h), state' = "COLD"
    PROVE  state = "COLD" /\ pc[h] # "starting"
<1>1. TypeOK /\ LockDiscipline
  BY DEF RecoveryInv, IInv
<1>2. pc[h] = "starting" => state = "STARTING"
  BY <1>1 DEF LockDiscipline, StateOf, Holding, StartPhases
<1>. QED
  BY <1>1, <1>2, StepKind DEF Outside, Takes, Moves, Releases, StateOf, Holding, StartPhases

\* A start command that runs on without its task was run by a retry.
LEMMA AbandonStep ==
    ASSUME RecoveryInv, NEW h \in Messages, Step(h), pc[h] = "starting",
           answer'[h] = "timeout"
    PROVE  AbandonedRestart'
<1>1. answer[h] = "none"
  BY DEF RecoveryInv, AnsweredIsDone
<1>2. RetryTimesOut(h)
  BY <1>1, AnswerStep DEF RecoveryInv, IInv
<1>3. restarted[h] # 0 /\ restarted' = restarted
  BY <1>2 DEF RecoveryInv, RestartOfRetry, RetryTimesOut, StartPhases
<1>. QED
  BY <1>3 DEF AbandonedRestart

\* The steps of the tasks keep the invariant, and after the drain there are none.
LEMMA TaskStepKeeps ==
    ASSUME ProxyInv, TaskStep
    PROVE  ProxyInv'
<1>1. PICK h \in Messages :
          /\ pc[h] = "new" => runner \in {"serving", "draining"}
          /\ Step(h)
          /\ IF pc[h] = "starting" THEN CommandEnds(h)
                                   ELSE UNCHANGED <<service, unattended>>
  BY DEF TaskStep
<1>u. UNCHANGED <<runner, stopFailed>>
  BY DEF TaskStep
<1>2. CASE ~Running
  <2>1. pc[h] = "done"
    BY <1>1, <1>2 DEF ProxyInv, Over, Running
  <2>2. FALSE
    BY <1>1, <2>1 DEF Step, Begin, Locked, Launch, Opening, Responds, Notifies,
         Detect, Closes, BeginUnknown, BeginCached, BeginRequest, BeginNote,
         LockFindsActive, LockRefused, LockStarts, AwaitEnds, CommandSucceeds,
         HealthPassed, StartFails, Connected, HandshakeFails, HandshakeClosed,
         HandshakeThenBootstrap, Activate, CacheRaises, Reply, RequestDies, RetryDies,
         RequestRaises, NotifyEnds, NotifyDies, DetectNothing, DetectDeath,
         DetectClosed, RetryTimesOut, RetryScope, StartPhases
  <2>. QED
    BY <2>2
<1>3. CASE Running
  <2>1. RecoveryInv
    BY <1>3 DEF ProxyInv
  <2>2. RecoveryInv' /\ Running'
    BY <1>1, <1>u, <1>3, <2>1, RecoveryStep DEF Running
  <2>3. service' \in BOOLEAN /\ unattended' \in Nat
    <3>1. service' \in {service, TRUE}
      BY <1>1, Zenon DEF CommandEnds
    <3>3. service \in BOOLEAN
      BY DEF ProxyInv
    <3>2. unattended' \in Nat
      <4>1. unattended' = unattended \/ unattended' = unattended + 1
        BY <1>1, Zenon DEF CommandEnds
      <4>2. unattended \in Nat
        BY DEF ProxyInv
      <4>. QED
        BY <4>1, <4>2
    <3>. QED
      BY <3>1, <3>2, <3>3
  <2>4. unattended' > 0 => AbandonedRestart'
    <3>1. unattended > 0 => AbandonedRestart'
      BY <1>1, <1>3, <2>1, AbandonedStays DEF ProxyInv, Processes, Running
    <3>2. unattended' = unattended \/ (pc[h] = "starting" /\ answer'[h] = "timeout")
      BY <1>1 DEF CommandEnds
    <3>. QED
      BY <1>1, <2>1, <3>1, <3>2, AbandonStep
  <2>5. state' = "COLD" /\ service' => AbandonedRestart' \/ stopFailed'
    <3>. SUFFICES ASSUME state' = "COLD", service' PROVE AbandonedRestart' \/ stopFailed'
      OBVIOUS
    <3>1. state = "COLD" /\ pc[h] # "starting"
      BY <1>1, <2>1, ColdStep
    <3>2. service
      BY <1>1, <3>1
    <3>3. AbandonedRestart \/ stopFailed
      BY <3>1, <3>2 DEF ProxyInv, Processes
    <3>. QED
      BY <1>1, <1>u, <2>1, <3>3, AbandonedStays
  <2>. QED
    BY <1>u, <2>2, <2>3, <2>4, <2>5 DEF ProxyInv, Processes
<1>. QED
  BY <1>2, <1>3

----------------------------------------------------------------------------
(* The steps of the program. *)

\* Time, the backend's processes and the signal keep the invariant.
LEMMA SurroundingsKeep ==
    ASSUME ProxyInv, TimePasses \/ UnattendedStartEnds \/ ServiceDies \/ Shutdown
                       \/ UNCHANGED allVars
    PROVE  ProxyInv'
<1>1. CASE TimePasses
  <2>u. /\ UNCHANGED proxy
        /\ UNCHANGED <<state, lock, lockq, transport, made, closed, local>>
    BY <1>1 DEF TimePasses, Tick
  <2>1. IF Running' THEN RecoveryInv' ELSE Over'
    <3>1. CASE Running
      BY <1>1, <2>u, <3>1, RecoveryTick DEF TimePasses, ProxyInv, Running, proxy
    <3>2. CASE ~Running
      <4>1. UNCHANGED <<made, transport, closed, pc, answer, lockq, lock, state, runner, stopFailed>>
        BY <2>u DEF proxy, local
      <4>2. LostByBrokenStart' <=> LostByBrokenStart
        BY <4>1 DEF LostByBrokenStart, LostTransports, BrokenStarts
      <4>3. Over /\ ~Running'
        BY <3>2, <4>1 DEF ProxyInv, Running
      <4>4. Over'
        BY <4>1, <4>2, <4>3 DEF Over
      <4>. QED
        BY <4>3, <4>4
    <3>. QED
      BY <3>1, <3>2
  <2>2. Processes'
    BY <2>u DEF ProxyInv, Processes, AbandonedRestart, proxy, local
  <2>. QED
    BY <2>u, <2>1, <2>2 DEF ProxyInv, proxy
<1>2. CASE UnattendedStartEnds \/ ServiceDies \/ Shutdown \/ UNCHANGED allVars
  <2>u. UNCHANGED vars
    BY <1>2 DEF UnattendedStartEnds, ServiceDies, Shutdown, allVars
  <2>1. IF Running' THEN RecoveryInv' ELSE Over'
    <3>1. CASE Running
      <4>1. RecoveryInv'
        BY <2>u, <3>1, RecoveryStutter DEF ProxyInv
      <4>2. Running'
        BY <1>2, <3>1 DEF UnattendedStartEnds, ServiceDies, Shutdown, allVars, proxy, Running
      <4>. QED
        BY <4>1, <4>2
    <3>2. CASE ~Running
      <4>1. runner' = runner /\ stopFailed' = stopFailed
        BY <1>2, <3>2 DEF UnattendedStartEnds, ServiceDies, Shutdown, allVars, proxy, Running
      <4>2. UNCHANGED <<made, transport, closed, pc, answer, lockq, lock, state>>
        BY <2>u DEF vars, shared, local
      <4>3. LostByBrokenStart' <=> LostByBrokenStart
        BY <4>2 DEF LostByBrokenStart, LostTransports, BrokenStarts
      <4>4. Over /\ ~Running'
        BY <3>2, <4>1 DEF ProxyInv, Running
      <4>5. Over'
        BY <4>1, <4>2, <4>3, <4>4 DEF Over
      <4>. QED
        BY <4>4, <4>5
    <3>. QED
      BY <3>1, <3>2
  <2>2. Processes'
    <3>1. AbandonedRestart' <=> AbandonedRestart
      BY <2>u DEF AbandonedRestart, vars, local
    <3>2. unattended' > 0 => unattended > 0
      BY <1>2 DEF UnattendedStartEnds, ServiceDies, Shutdown, allVars, proxy, ProxyInv
    <3>3. runner' = runner \/ (runner = "serving" /\ runner' = "draining")
      BY <1>2 DEF UnattendedStartEnds, ServiceDies, Shutdown, allVars, proxy
    <3>4. service' => service \/ unattended > 0
      BY <1>2 DEF UnattendedStartEnds, ServiceDies, Shutdown, allVars, proxy
    <3>5. stopFailed' = stopFailed
      BY <1>2 DEF UnattendedStartEnds, ServiceDies, Shutdown, allVars, proxy
    <3>6. state' = state
      BY <2>u DEF vars, shared
    <3>. QED
      <4>1. unattended' > 0 => \/ AbandonedRestart'
                               \/ runner' \in {"closing", "exited"} /\ state' = "FAILED"
        BY <3>1, <3>2, <3>3, <3>6 DEF ProxyInv, Processes
      <4>2. state = "COLD" /\ unattended > 0 => AbandonedRestart
        BY DEF ProxyInv, Processes
      <4>3. state' = "COLD" /\ service' => AbandonedRestart' \/ stopFailed'
        BY <3>1, <3>4, <3>5, <3>6, <4>2 DEF ProxyInv, Processes
      <4>. QED
        BY <4>1, <4>3 DEF Processes
  <2>3. /\ runner' \in {"serving", "draining", "closing", "stopping", "exited"}
        /\ service' \in BOOLEAN /\ unattended' \in Nat /\ stopFailed' \in BOOLEAN
    <3>1. unattended' \in Nat
      <4>1. unattended' = unattended \/ (unattended > 0 /\ unattended' = unattended - 1)
        BY <1>2, Zenon DEF UnattendedStartEnds, ServiceDies, Shutdown, allVars, proxy
      <4>2. unattended \in Nat
        BY DEF ProxyInv
      <4>. QED
        BY <4>1, <4>2
    <3>2. service' \in BOOLEAN /\ stopFailed' \in BOOLEAN
      <4>1. service' \in {service, TRUE, FALSE} /\ stopFailed' = stopFailed
        BY <1>2, Zenon DEF UnattendedStartEnds, ServiceDies, Shutdown, allVars, proxy
      <4>2. service \in BOOLEAN /\ stopFailed \in BOOLEAN
        BY DEF ProxyInv
      <4>. QED
        BY <4>1, <4>2
    <3>3. runner' \in {"serving", "draining", "closing", "stopping", "exited"}
      BY <1>2 DEF UnattendedStartEnds, ServiceDies, Shutdown, allVars, proxy, ProxyInv
    <3>. QED
      BY <3>1, <3>2, <3>3
  <2>. QED
    BY <2>1, <2>2, <2>3 DEF ProxyInv
<1>. QED
  BY <1>1, <1>2

\* A drain that ends by itself leaves the lock free and unwanted.
LEMMA DrainedKeeps ==
    ASSUME ProxyInv, Drained
    PROVE  ProxyInv'
<1>. USE DEF Drained
<1>1. RecoveryInv /\ LostByBrokenStart
  BY LostAreStray DEF ProxyInv, Running
<1>2. \A h \in Messages : pc[h] \in {"new", "done"}
  BY DEF InFlight
<1>3. lockq = <<>>
  <2>1. Waiting = {}
    BY <1>2 DEF Waiting
  <2>. QED
    BY <1>1, <2>1, LineEmpty DEF RecoveryInv, LockQueue
<1>4. lock = Nobody /\ state \in Settled
  BY <1>1, <1>2 DEF RecoveryInv, IInv, TypeOK, LockDiscipline, Holding, StartPhases
<1>u. UNCHANGED vars
  OBVIOUS
<1>5. Over'
  <2>1. made \in Nat /\ transport \in 0..made /\ closed \subseteq 1..made
    BY <1>1 DEF RecoveryInv, IInv, TypeOK, StrayByBrokenStart
  <2>2. pc \in [Messages -> {"new", "done"}]
    BY <1>1, <1>2 DEF RecoveryInv, IInv, TypeOK
  <2>. QED
    BY <1>1, <1>3, <1>4, <1>u, <2>1, <2>2 DEF Over, vars, shared, local,
       LostByBrokenStart, LostTransports, BrokenStarts
<1>6. Processes'
  BY <1>u DEF ProxyInv, Processes, AbandonedRestart, vars, shared, local
<1>. QED
  BY <1>5, <1>6 DEF ProxyInv, Running

\* The start that the drain's timeout cancels is the one that holds the lock.
LEMMA CancelledStart ==
    ASSUME RecoveryInv
    PROVE  /\ (\E h \in InFlight : pc[h] \in StartPhases) =>
                 lock \in Messages /\ state \in {"STARTING", "HEALTHY"}
           /\ ~(\E h \in InFlight : pc[h] \in StartPhases) =>
                 state \in Settled /\ (lock # Nobody => state = "FAILED")
<1>1. LockDiscipline /\ TypeOK
  BY DEF RecoveryInv, IInv
<1>2. ASSUME NEW h \in InFlight, pc[h] \in StartPhases
      PROVE  lock \in Messages /\ state \in {"STARTING", "HEALTHY"}
  BY <1>1, <1>2 DEF LockDiscipline, StateOf, Holding, StartPhases, InFlight
<1>3. ASSUME ~(\E h \in InFlight : pc[h] \in StartPhases)
      PROVE  state \in Settled /\ (lock # Nobody => state = "FAILED")
  <2>1. CASE lock = Nobody
    BY <1>1, <2>1 DEF LockDiscipline
  <2>2. CASE lock \in Messages
    <3>1. pc[lock] \in Holding /\ state = StateOf(pc[lock])
      BY <1>1, <2>2 DEF LockDiscipline
    <3>2. lock \in InFlight
      BY <2>2, <3>1 DEF InFlight, Holding, StartPhases
    <3>3. pc[lock] = "dclosing"
      BY <1>3, <3>1, <3>2 DEF Holding
    <3>. QED
      BY <3>1, <3>3 DEF StateOf, Settled
  <2>. QED
    BY <1>1, <2>1, <2>2 DEF TypeOK
<1>. QED
  BY <1>2, <1>3

\* A drain that times out leaves the lock free and the state settled as well.
LEMMA DrainTimesOutKeeps ==
    ASSUME ProxyInv, DrainTimesOut
    PROVE  ProxyInv'
<1>. USE DEF DrainTimesOut
<1>1. RecoveryInv /\ LostByBrokenStart
  BY LostAreStray DEF ProxyInv, Running
<1>2. pc' \in [Messages -> {"new", "done"}]
  BY DEF InFlight
<1>3. state' \in Settled /\ lock' = Nobody /\ lockq' = <<>>
  BY <1>1, CancelledStart DEF Settled
<1>4. Over'
  <2>1. made \in Nat /\ transport \in 0..made /\ closed \subseteq 1..made
    BY <1>1 DEF RecoveryInv, IInv, TypeOK, StrayByBrokenStart
  <2>. QED
    BY <1>1, <1>2, <1>3, <2>1 DEF Over, LostByBrokenStart, LostTransports, BrokenStarts
<1>. DEFINE cut == {h \in InFlight : pc[h] = "starting"}
<1>5. IsFiniteSet(cut) /\ Cardinality(cut) \in Nat
  BY MessageAssumption, FS_Subset, FS_CardinalityType DEF InFlight
<1>6. Cardinality(cut) > 0 => state' = "FAILED"
  <2>1. cut = {} => Cardinality(cut) = 0
    BY FS_EmptySet
  <2>2. cut # {} => \E h \in InFlight : pc[h] \in StartPhases
    BY DEF StartPhases
  <2>. QED
    BY <2>1, <2>2
<1>7. AbandonedRestart' <=> AbandonedRestart
  BY DEF AbandonedRestart
<1>8. unattended' \in Nat /\ (unattended' > 0 => unattended > 0 \/ Cardinality(cut) > 0)
  BY <1>5 DEF ProxyInv
<1>9. Processes'
  <2>1. unattended > 0 => AbandonedRestart
    BY DEF ProxyInv, Processes
  <2>2. state' = "COLD" => state = "COLD"
    OBVIOUS
  <2>. QED
    BY <1>6, <1>7, <1>8, <2>1, <2>2 DEF ProxyInv, Processes
<1>. QED
  BY <1>4, <1>8, <1>9 DEF ProxyInv, Running

\* After router.close every transport made is closed but the lost ones.
LEMMA CloseRouterKeeps ==
    ASSUME ProxyInv, CloseRouter
    PROVE  ProxyInv'
<1>. USE DEF CloseRouter
<1>1. Over
  BY DEF ProxyInv, Running
<1>2. LostTransports' = LostTransports
  BY <1>1 DEF Over, LostTransports, ClosedByRouter
<1>3. LostByBrokenStart'
  BY <1>1, <1>2 DEF Over, LostByBrokenStart, BrokenStarts, local
<1>4. closed' \subseteq 1..made
  BY <1>1 DEF Over, ClosedByRouter
<1>5. NeedsStop <=> state = "ACTIVE"
  BY <1>1 DEF Over, NeedsStop, Settled
<1>6. /\ runner' = "stopping" => lock' = Cleanup /\ state' = "STOPPING"
      /\ runner' = "exited" => lock' = Nobody /\ state' \in {"COLD", "FAILED"}
      /\ runner' \in {"stopping", "exited"}
  BY <1>1, <1>5 DEF Over, Settled
<1>7. Over'
  BY <1>1, <1>3, <1>4, <1>6 DEF Over, local
<1>8. AbandonedRestart' <=> AbandonedRestart
  BY DEF AbandonedRestart, local
<1>9. Processes'
  BY <1>5, <1>8 DEF ProxyInv, Processes
<1>. QED
  BY <1>6, <1>7, <1>9 DEF ProxyInv, Running

\* The stop command ends in COLD, with nothing running unless it failed; one
\* that cannot be executed leaves STOPPING, and everything else as it was.
LEMMA StopKeeps ==
    ASSUME ProxyInv, StopEnds \/ StopRaises
    PROVE  ProxyInv'
<1>1. Over
  BY DEF ProxyInv, Running, StopEnds, StopRaises
<1>2. Over'
  <2>1. /\ UNCHANGED <<made, transport, closed, pc, answer, lockq>>
        /\ runner' = "exited" /\ lock' = Nobody
    BY DEF StopEnds, StopRaises, local
  <2>2. transport = 0 /\ LostByBrokenStart'
    BY <1>1, <2>1 DEF Over, LostByBrokenStart, LostTransports, BrokenStarts, StopEnds, StopRaises
  <2>3. state' = "COLD" \/ (state' = "STOPPING" /\ stopFailed')
    BY <1>1 DEF Over, StopEnds, StopRaises
  <2>. QED
    BY <1>1, <2>1, <2>2, <2>3 DEF Over
<1>3. Processes'
  BY <1>1 DEF Over, ProxyInv, Processes, AbandonedRestart, StopEnds, StopRaises, local
<1>. QED
  BY <1>2, <1>3 DEF ProxyInv, Running, StopEnds, StopRaises

\* Every step of the program keeps the invariant.
LEMMA ProxyInvStep == ProxyInv /\ [ProxyNext]_allVars => ProxyInv'
<1>1. ProxyInv /\ (Exited \/ (Idle /\ UNCHANGED proxy)) => ProxyInv'
  BY SurroundingsKeep DEF Exited, Idle, allVars
<1>. QED
  BY <1>1, TaskStepKeeps, SurroundingsKeep, DrainedKeeps, DrainTimesOutKeeps,
     CloseRouterKeeps, StopKeeps DEF ProxyNext

\* The invariant holds of the program.
THEOREM ProxyInvariant == ProxySpec => []ProxyInv
  BY ProxyInvInit, ProxyInvStep, PTL DEF ProxySpec

\* The variables keep their types; a transport is never closed before it is made.
THEOREM ProxyTypeCorrect == ProxySpec => []ProxyTypeOK
  BY ProxyInvImplies, ProxyInvariant, PTL

\* When _cleanup goes on from its drain, nobody else holds or wants the lock and
\* the state is settled: stop() neither blocks nor makes an illegal transition,
\* and the exit is in COLD or FAILED unless its command could not be executed.
THEOREM CleanupIsAlone == ProxySpec => []CleanupAlone
  BY ProxyInvImplies, ProxyInvariant, PTL

\* The exit leaves a backend running only if the stop command failed, the state
\* is FAILED, or an abandoned start command brought it up again.
THEOREM ActiveBackendIsStopped == ProxySpec => []ActiveIsStopped
  BY ProxyInvImplies, ProxyInvariant, PTL

\* The exit leaves no connection open but those that broken starts lost.
THEOREM ConnectionsClosedAtExit == ProxySpec => []TransportsClosedAtExit
  BY ProxyInvImplies, ProxyInvariant, PTL

----------------------------------------------------------------------------
(* The refinement: the cleanup is one more owner of the lock.                *)

\* Initial states map to initial states.
LEMMA ProxyLifecycleInit == ProxyInit => ProxyLifecycle!Init
  BY DEF ProxyInit, Init, ProxyLifecycle!Init

\* What the router does on its own is a step of the larger system.
LEMMA RouterIsPart ==
    [Lifecycle!Next]_(Lifecycle!vars) => [ProxyLifecycle!Next]_(ProxyLifecycle!vars)
  BY DEF Lifecycle!Next, Lifecycle!vars, Lifecycle!Claim, Lifecycle!Advance,
         Lifecycle!Yield, Lifecycle!Abandon, Lifecycle!TRANSITIONS, Lifecycle!Settled,
         ProxyLifecycle!Next, ProxyLifecycle!vars, ProxyLifecycle!Claim,
         ProxyLifecycle!Advance, ProxyLifecycle!Yield, ProxyLifecycle!Abandon,
         ProxyLifecycle!TRANSITIONS, ProxyLifecycle!Settled

\* Every step maps to a step of BackendLifecycle or to a stutter.
LEMMA ProxyLifecycleStep ==
    ProxyInv /\ [ProxyNext]_allVars => [ProxyLifecycle!Next]_(ProxyLifecycle!vars)
<1>. SUFFICES ASSUME ProxyInv, [ProxyNext]_allVars
              PROVE  [ProxyLifecycle!Next]_(ProxyLifecycle!vars)
  OBVIOUS
<1>. USE DEF ProxyLifecycle!TRANSITIONS, ProxyLifecycle!Settled
<1>1. CASE TaskStep
  <2>1. CASE Running
    <3>1. IInv /\ Next
      BY <1>1, <2>1 DEF TaskStep, Next, ProxyInv, RecoveryInv
    <3>. QED
      BY <3>1, LifecycleStep, RouterIsPart
  <2>2. CASE ~Running
    <3>1. PICK h \in Messages : pc[h] # "new" /\ Step(h)
      BY <1>1, <2>2 DEF TaskStep, Running
    <3>2. pc[h] = "done"
      BY <2>2, <3>1 DEF ProxyInv, Over
    <3>. QED
      BY <3>1, <3>2 DEF Step, Begin, Locked, Launch, Opening, Responds, Notifies,
         Detect, Closes, BeginUnknown, BeginCached, BeginRequest, BeginNote,
         LockFindsActive, LockRefused, LockStarts, AwaitEnds, CommandSucceeds,
         HealthPassed, StartFails, Connected, HandshakeFails, HandshakeClosed,
         HandshakeThenBootstrap, Activate, CacheRaises, Reply, RequestDies, RetryDies,
         RequestRaises, NotifyEnds, NotifyDies, DetectNothing, DetectDeath,
         DetectClosed, RetryTimesOut, RetryScope, StartPhases
  <2>. QED
    BY <2>1, <2>2
<1>2. CASE DrainTimesOut
  <2>1. RecoveryInv
    BY <1>2 DEF DrainTimesOut, ProxyInv, Running
  <2>2. lock \in Messages \cup {Nobody}
    BY <2>1 DEF RecoveryInv, IInv, TypeOK
  <2>3. CASE lock = Nobody
    BY <1>2, <2>1, <2>3, CancelledStart, MessageAssumption DEF DrainTimesOut, ProxyLifecycle!vars
  <2>4. CASE lock \in Messages
    <3>1. ProxyLifecycle!Yield(lock)
      BY <1>2, <2>1, <2>4, CancelledStart, MessageAssumption
      DEF DrainTimesOut, ProxyLifecycle!Yield, Settled
    <3>. QED
      BY <2>4, <3>1 DEF ProxyLifecycle!Next
  <2>. QED
    BY <2>2, <2>3, <2>4
<1>3. CASE CloseRouter
  <2>1. CASE NeedsStop
    <3>1. state = "ACTIVE"
      BY <1>3, <2>1 DEF CloseRouter, ProxyInv, Running, Over, NeedsStop, Settled
    <3>2. ProxyLifecycle!Claim(Cleanup)
      BY <1>3, <2>1, <3>1 DEF CloseRouter, ProxyLifecycle!Claim
    <3>. QED
      BY <3>2 DEF ProxyLifecycle!Next
  <2>2. CASE ~NeedsStop
    BY <1>3, <2>2 DEF CloseRouter, ProxyLifecycle!vars
  <2>. QED
    BY <2>1, <2>2
<1>4. CASE StopEnds
  <2>1. lock = Cleanup /\ state = "STOPPING"
    BY <1>4 DEF StopEnds, ProxyInv, Running, Over
  <2>2. ProxyLifecycle!Yield(Cleanup)
    BY <1>4, <2>1 DEF StopEnds, ProxyLifecycle!Yield
  <2>. QED
    BY <2>2 DEF ProxyLifecycle!Next
<1>5. CASE StopRaises
  <2>1. lock = Cleanup /\ state = "STOPPING"
    BY <1>5 DEF StopRaises, ProxyInv, Running, Over
  <2>2. ProxyLifecycle!Abandon(Cleanup)
    BY <1>5, <2>1 DEF StopRaises, ProxyLifecycle!Abandon
  <2>. QED
    BY <2>2 DEF ProxyLifecycle!Next
<1>6. CASE TimePasses \/ UnattendedStartEnds \/ ServiceDies \/ Shutdown \/ Drained
             \/ Exited \/ Idle \/ UNCHANGED allVars
  <2>1. UNCHANGED <<state, lock>>
    BY <1>6 DEF TimePasses, Tick, UnattendedStartEnds, ServiceDies, Shutdown, Drained,
         Exited, Idle, allVars, vars, shared
  <2>. QED
    BY <2>1 DEF ProxyLifecycle!vars
<1>. QED
  BY <1>1, <1>2, <1>3, <1>4, <1>5, <1>6 DEF ProxyNext

\* The whole program, its shutdown included, drives the backend as
\* BackendLifecycle says.
THEOREM ProgramImplementsLifecycle == ProxySpec => ProxyImplementsLifecycle
  BY ProxyLifecycleInit, ProxyLifecycleStep, ProxyInvariant, PTL
  DEF ProxySpec, ProxyImplementsLifecycle, ProxyLifecycle!Spec

=============================================================================
