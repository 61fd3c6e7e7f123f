---------------------------- MODULE StandbyProxy ----------------------------
(***************************************************************************)
(* ProxyRunner (proxy.py) around the router: the main loop reads messages  *)
(* until a signal or the end of stdin, then _cleanup waits five seconds    *)
(* for the tasks, cancels those that are left, closes the transport and    *)
(* stops the backend. The backend's processes, which the start and stop    *)
(* commands control, are one flag: service.                                *)
(***************************************************************************)
EXTENDS StandbyRouter

CONSTANT Cleanup    \* the task that runs _cleanup

ASSUME CleanupAssumption == Cleanup \notin Messages \cup {Nobody}

VARIABLES
    runner,     \* serving, draining, closing, stopping or exited
    service,    \* the backend's processes run
    unattended, \* start commands still running though their task was cancelled
    stopFailed  \* the stop command failed, or could not be executed

proxy == <<runner, service, unattended, stopFailed>>
allVars == <<vars, proxy>>

InFlight == {h \in Messages : pc[h] \notin {"new", "done"}}

ProxyInit ==
    /\ Init
    /\ runner = "serving"
    /\ service = FALSE
    /\ unattended = 0
    /\ stopFailed = FALSE

\* A start command that succeeded has the service up; one that failed, or was
\* killed by its own timeout, may have; one whose task was cancelled runs on.
CommandEnds(h) ==
    \/ /\ pc'[h] = "polling"
       /\ service' = TRUE
       /\ UNCHANGED unattended
    \/ /\ pc'[h] = "done" /\ answer'[h] # "timeout"
       /\ service' \in {service, TRUE}
       /\ UNCHANGED unattended
    \/ /\ pc'[h] = "done" /\ answer'[h] = "timeout"
       /\ unattended' = unattended + 1
       /\ UNCHANGED service

\* A step of a task. A message read before the end of stdin may start its task
\* after it.
TaskStep ==
    /\ runner # "exited"
    /\ \E h \in Messages :
          /\ pc[h] = "new" => runner \in {"serving", "draining"}
          /\ Step(h)
          /\ IF pc[h] = "starting" THEN CommandEnds(h)
                                   ELSE UNCHANGED <<service, unattended>>
    /\ UNCHANGED <<runner, stopFailed>>

UnattendedStartEnds ==
    /\ unattended > 0
    /\ unattended' = unattended - 1
    /\ service' \in {service, TRUE}
    /\ UNCHANGED <<vars, runner, stopFailed>>

TimePasses == Tick /\ UNCHANGED proxy

\* The backend crashes, or is stopped from outside.
ServiceDies ==
    /\ service
    /\ service' = FALSE
    /\ UNCHANGED <<vars, runner, unattended, stopFailed>>

\* SIGTERM, SIGINT, the end of stdin, or an exception of the reader.
Shutdown ==
    /\ runner = "serving"
    /\ runner' = "draining"
    /\ UNCHANGED <<vars, service, unattended, stopFailed>>

\* gather returned: every task has ended by itself.
Drained ==
    /\ runner = "draining"
    /\ InFlight = {}
    /\ runner' = "closing"
    /\ UNCHANGED <<vars, service, unattended, stopFailed>>

\* Mutant of DrainTimesOut: the tasks are left running.
DrainForgets ==
    /\ runner = "draining"
    /\ InFlight # {}
    /\ runner' = "closing"
    /\ UNCHANGED <<vars, service, unattended, stopFailed>>

\* Five seconds passed: wait_for cancels the gather, hence every task, and waits
\* until they have ended. No answer is written. A cancelled start ends as
\* AbandonStart says and leaves its command running.
DrainTimesOut ==
    /\ runner = "draining"
    /\ InFlight # {}
    /\ runner' = "closing"
    /\ pc' = [h \in Messages |-> IF h \in InFlight THEN "done" ELSE pc[h]]
    /\ lockq' = <<>>
    /\ lock' = Nobody
    /\ IF \E h \in InFlight : pc[h] \in StartPhases
       THEN state' = "FAILED" /\ failure' = Fresh("START")
       ELSE UNCHANGED <<state, failure>>
    /\ unattended' = unattended
                       + Cardinality({h \in InFlight : pc[h] = "starting"})
    /\ UNCHANGED <<transport, made, closed, tr, died, answer, idmap,
                   restarted, service, stopFailed>>

\* Mutant of ClosedByRouter: no check for None.
ClosedUnchecked == closed \cup {transport}

\* Mutant of ClosedByRouter: the transport is only dropped.
ClosedNever == closed

\* router.close
ClosedByRouter == IF transport = 0 THEN closed ELSE closed \cup {transport}

\* Mutant of NeedsStop: an active backend is left running.
NeedsStopStarting == state \in {"HEALTHY", "STARTING"}

\* Mutant of NeedsStop: stop whatever is not cold.
NeedsStopFailed == state # "COLD"

NeedsStop == state \in {"ACTIVE", "HEALTHY", "STARTING"}

\* router.close, then the look at the state. COLD and FAILED end the program.
CloseRouter ==
    /\ runner = "closing"
    /\ closed' = ClosedByRouter
    /\ transport' = 0
    /\ IF NeedsStop
       THEN /\ lock = Nobody
            /\ lock' = Cleanup
            /\ state' = "STOPPING"
            /\ runner' = "stopping"
       ELSE /\ UNCHANGED <<lock, state>>
            /\ runner' = "exited"
    /\ UNCHANGED <<lockq, made, failure, local, service, unattended, stopFailed>>

\* lifecycle.stop: the command has ended or was killed by its timeout. A failure
\* is logged, and COLD all the same.
StopEnds ==
    /\ runner = "stopping"
    /\ state' = "COLD"
    /\ lock' = Nobody
    /\ runner' = "exited"
    /\ \/ service' = FALSE /\ UNCHANGED stopFailed
       \/ stopFailed' = TRUE /\ UNCHANGED service
    /\ UNCHANGED <<lockq, transport, made, closed, failure, local, unattended>>

\* The stop command cannot be executed: the OSError leaves stop before the
\* transition to COLD, and _cleanup swallows it.
StopRaises ==
    /\ runner = "stopping"
    /\ lock' = Nobody
    /\ runner' = "exited"
    /\ stopFailed' = TRUE
    /\ UNCHANGED <<state, lockq, transport, made, closed, failure, local,
                   service, unattended>>

\* The process is gone; what it left running is not.
Exited == runner = "exited" /\ UNCHANGED allVars

ProxyNext ==
    \/ TaskStep \/ TimePasses \/ UnattendedStartEnds \/ ServiceDies \/ Shutdown
    \/ Drained \/ DrainTimesOut \/ CloseRouter \/ StopEnds \/ StopRaises
    \/ Exited \/ (Idle /\ UNCHANGED proxy)

ProxySpec == ProxyInit /\ [][ProxyNext]_allVars

\* The drain has its five seconds, close and the stop command their timeouts.
\* Nothing is assumed of the tasks or of the backend.
CleanupFairness ==
    /\ WF_allVars(Drained \/ DrainTimesOut)
    /\ WF_allVars(CloseRouter)
    /\ WF_allVars(StopEnds \/ StopRaises)

FairProxySpec == ProxySpec /\ CleanupFairness

----------------------------------------------------------------------------
(* Properties. *)

\* The router's variables keep their types, with the lock also Cleanup's and
\* the state also STOPPING.
ProxyTypeOK ==
    /\ state \in States \cup {"STOPPING"}
    /\ lock \in Messages \cup {Nobody, Cleanup}
    /\ transport \in 0..made
    /\ closed \subseteq 1..made
    /\ pc \in [Messages -> Phases]
    /\ runner \in {"serving", "draining", "closing", "stopping", "exited"}
    /\ service \in BOOLEAN /\ unattended \in Nat /\ stopFailed \in BOOLEAN

\* When _cleanup goes on from its drain no task is left: nobody holds or wants
\* the lock, so stop() cannot block or find a transition that is not allowed,
\* and the state is settled, so the branch of _cleanup for a start in progress
\* is never taken, nor is the wait for STOPPING. The exit is in COLD or FAILED,
\* but in STOPPING if the stop command could not be executed.
CleanupAlone ==
    runner \in {"closing", "stopping", "exited"} =>
        /\ InFlight = {}
        /\ lockq = <<>>
        /\ lock = IF runner = "stopping" THEN Cleanup ELSE Nobody
        /\ runner = "closing" => state \in Settled
        /\ runner = "exited"  => \/ state \in {"COLD", "FAILED"}
                                 \/ state = "STOPPING" /\ stopFailed

\* A backend in service when the tasks have ended is stopped. The exit leaves
\* it running only if its own stop command failed, if the state is FAILED, or
\* if a start command that a retry's timeout abandoned brought it up again.
ActiveIsStopped ==
    runner = "exited" /\ service =>
        \/ stopFailed
        \/ state = "FAILED"
        \/ \E h \in Messages : answer[h] = "timeout" /\ restarted[h] # 0

\* No connection stays open at the exit, save those that were lost by a start
\* that a retry's timeout or an exception of load broke off.
TransportsClosedAtExit ==
    runner = "exited" =>
        Cardinality((1..made) \ closed) <= Cardinality(BrokenStarts)

\* The comment of _cleanup, "FAILED: no backend running, nothing to stop".
NothingRunsInFailed == runner = "exited" /\ state = "FAILED" => ~service

\* A shutdown ends, whatever hangs: every wait of _cleanup has a timeout.
ShutdownEnds == runner = "draining" ~> runner = "exited"

\* The whole program still drives the backend as BackendLifecycle says.
ProxyLifecycle == INSTANCE BackendLifecycle
                    WITH Owners <- Messages \cup {Cleanup}, owner <- lock
ProxyImplementsLifecycle == ProxyLifecycle!Spec

=============================================================================
