--------------------------- MODULE StandbyRouter ---------------------------
(***************************************************************************)
(* MessageRouter (router.py) with the StateMachine (state.py) and the      *)
(* LifecycleManager.start (lifecycle.py) it drives: one asyncio task per   *)
(* client message, all of them sharing the backend state, one asyncio.Lock *)
(* and the reference to the transport in use.                              *)
(*                                                                         *)
(* asyncio is cooperative, so a step is the code between two suspension    *)
(* points, and pc names the await a task is suspended at:                  *)
(*   new         the task is created, handle_message has not run yet       *)
(*   lock        ensure_active waits for StateMachine.lock                 *)
(*   await       ensure_active waits for ACTIVE or FAILED                  *)
(*   starting    lifecycle.start waits for the start command               *)
(*   polling     lifecycle.start waits for the healthcheck                 *)
(*   connecting  _do_start waits for transport.connect                     *)
(*   handshake   _do_start waits for initialize / notifications/initialized*)
(*   hsclosing   _do_start waits for close after a failed handshake        *)
(*   bootstrap   _do_start waits for the */list fetches                    *)
(*   request     a request is sent and its response awaited                *)
(*   notify      a notification is being handed over                       *)
(*   dlock       _detect_transport_death waits for the lock                *)
(*   dclosing    _detect_transport_death waits for close, lock held        *)
(*   done        the task has ended                                        *)
(* StateMachine.transition and the writer never suspend. Taking a free     *)
(* lock does not suspend either; here it is a step of its own, which only  *)
(* adds interleavings. stop() runs after every task ended: StandbyProxy.   *)
(***************************************************************************)
EXTENDS Naturals, FiniteSets, SequencesExt

CONSTANTS
    Calls,               \* requests whose method is in _BACKEND_METHODS
    Others,              \* other forwarded requests
    Lists,               \* tools/list, resources/list, prompts/list requests
    Notes,               \* client notifications
    Nobody,              \* the lock is free
    CooldownStart,       \* FAILURE_COOLDOWN_START, in ticks of 5 seconds
    CooldownMidsession   \* FAILURE_COOLDOWN_MIDSESSION, in the same ticks

Requests == Calls \cup Others \cup Lists
Messages == Requests \cup Notes

ASSUME CooldownAssumption ==
    /\ CooldownStart \in Nat /\ CooldownMidsession \in Nat
    /\ 0 < CooldownMidsession /\ CooldownMidsession <= CooldownStart

ASSUME MessageAssumption ==
    /\ IsFiniteSet(Messages)
    /\ Nobody \notin Messages
    /\ Notes \cap Requests = {}
    /\ Lists \cap (Calls \cup Others) = {}
    /\ Calls \cap Others = {}

VARIABLES
    state,      \* StateMachine._state
    lock,       \* the task inside "async with sm.lock", or Nobody
    lockq,      \* the tasks suspended on sm.lock, first come first served
    transport,  \* MessageRouter._transport: 0 for None, else the transport
    made,       \* transports connected so far: they are 1..made
    closed,     \* the transports whose close() was called
    failure,    \* MessageRouter._failure_time: its reason and age
    pc,         \* where each task is suspended
    tr,         \* the transport each task's pending call uses
    died,       \* the transport whose death the task recovers from, 0 if none
    answer,     \* how the client's message was answered
    idmap,      \* IdMapper._proxy_to_client: <<request, attempt>>
    restarted   \* made when the task's recovery ran lifecycle.start, 0 if not

shared == <<state, lock, lockq, transport, made, closed, failure>>
local  == <<pc, tr, died, answer, idmap, restarted>>
vars   == <<shared, local>>

StartPhases == {"starting", "polling", "connecting", "handshake",
                "hsclosing", "bootstrap"}
Holding     == StartPhases \cup {"dclosing"}
Phases      == Holding \cup {"new", "lock", "await", "request", "notify",
                             "dlock", "done"}
NotePhases  == {"new", "notify", "dlock", "dclosing", "done"}

\* Mutant of RetryScope: the timeout covers ensure_active, not the request.
RetryScopeShort == StartPhases \cup {"lock", "await"}

\* The scope of asyncio.wait_for around a retry: from its ensure_active on.
RetryScope  == StartPhases \cup {"lock", "await", "request"}

Settled     == {"COLD", "ACTIVE", "FAILED"}
States      == Settled \cup {"STARTING", "HEALTHY"}
Reasons     == {"NONE", "START", "MIDSESSION"}
Answers     == {"none", "cached", "reply", "not_found", "raised", "unavailable",
                "unreadable", "restart_failed", "second_failure", "timeout"}

NoFailure     == [reason |-> "NONE", age |-> 0]
Fresh(reason) == [reason |-> reason, age |-> 0]

Cooldown(reason) ==
    IF reason = "MIDSESSION" THEN CooldownMidsession ELSE CooldownStart

\* Mutant of Blocked: no cooldown.
NeverBlocked == FALSE

\* The gate of ensure_active: the last failure is younger than its window.
Blocked ==
    /\ failure.reason # "NONE"
    /\ failure.age < Cooldown(failure.reason)

Retrying(h) == died[h] # 0
Attempt(h)  == IF Retrying(h) THEN 2 ELSE 1

Init ==
    /\ state = "COLD"
    /\ lock = Nobody
    /\ lockq = <<>>
    /\ transport = 0
    /\ made = 0
    /\ closed = {}
    /\ failure = NoFailure
    /\ pc = [h \in Messages |-> "new"]
    /\ tr = [h \in Messages |-> 0]
    /\ died = [h \in Messages |-> 0]
    /\ answer = [h \in Messages |-> "none"]
    /\ idmap = {}
    /\ restarted = [h \in Messages |-> 0]

----------------------------------------------------------------------------
(* Pieces of a step. *)

Goto(h, phase) == pc' = [pc EXCEPT ![h] = phase]

Finish(h, how) ==
    /\ Goto(h, "done")
    /\ answer' = [answer EXCEPT ![h] = how]

\* Mutant of Wrapped: wrap also for a */list request.
WrappedAlways(h) == idmap \cup {<<h, Attempt(h)>>}

\* IdMapper.wrap for a forwarded request; a */list uses next_internal_id.
Wrapped(h) == IF h \in Lists THEN idmap ELSE idmap \cup {<<h, Attempt(h)>>}

\* Mutant of Unwrapped: the entry stays.
UnwrapForgotten(h) == idmap

\* IdMapper.unwrap
Unwrapped(h) == idmap \ {<<h, Attempt(h)>>}

\* Mutant of Closing: the reference is dropped, the connection left open.
ClosingForgotten == closed

\* transport.close is called.
Closing == closed \cup {transport}

\* ensure_active returned: capture the transport, take an id, send.
Send(h) ==
    /\ Goto(h, "request")
    /\ tr' = [tr EXCEPT ![h] = transport]
    /\ idmap' = Wrapped(h)
    /\ UNCHANGED <<died, answer, restarted>>

\* Mutant of FailureAfter: the failure goes unrecorded.
FailureUnrecorded(h, f) == failure

\* Mutant of FailureAfter: the reason is not looked at.
FailureAnyReason(h, f) == Fresh("MIDSESSION")

\* The record once ensure_active raised: a retry writes a mid-session failure
\* over the one, f, that the start left.
FailureAfter(h, f) == IF Retrying(h) THEN Fresh("MIDSESSION") ELSE f

\* ensure_active raised LifecycleError.
Refuse(h, f) ==
    /\ Finish(h, IF Retrying(h) THEN "restart_failed" ELSE "unavailable")
    /\ failure' = FailureAfter(h, f)
    /\ UNCHANGED <<tr, died, idmap, restarted>>

\* The first look of ensure_active at the state; q is the lock's queue.
EnsureActive(h, q) ==
    \/ /\ state = "ACTIVE"
       /\ Send(h)
       /\ lockq' = q
    \/ /\ state \in {"STARTING", "HEALTHY"}
       /\ Goto(h, "await")
       /\ lockq' = q
       /\ UNCHANGED <<tr, died, answer, idmap, restarted>>
    \/ /\ state \in {"COLD", "FAILED"}
       /\ Goto(h, "lock")
       /\ lockq' = Append(q, h)
       /\ UNCHANGED <<tr, died, answer, idmap, restarted>>

\* The task at the head of the queue finds the lock free.
Next2Lock(h) ==
    /\ lock = Nobody
    /\ lockq # <<>>
    /\ Head(lockq) = h

----------------------------------------------------------------------------
(* handle_message, up to its first suspension. *)

BeginUnknown(h) ==
    /\ h \in Others
    /\ pc[h] = "new"
    /\ state = "COLD"
    /\ Finish(h, "not_found")
    /\ UNCHANGED <<shared, tr, died, idmap, restarted>>

\* A cache hit, or an exception of load, which leaves the handler; what the file
\* holds is CacheFile's business, here a choice.
BeginCached(h) ==
    /\ h \in Lists
    /\ pc[h] = "new"
    /\ \E how \in {"cached", "raised"} : Finish(h, how)
    /\ UNCHANGED <<shared, tr, died, idmap, restarted>>

BeginRequest(h) ==
    /\ h \in Requests
    /\ pc[h] = "new"
    /\ h \in Others => state # "COLD"
    /\ EnsureActive(h, lockq)
    /\ UNCHANGED <<state, lock, transport, made, closed, failure>>

BeginNote(h) ==
    /\ h \in Notes
    /\ pc[h] = "new"
    /\ IF state = "ACTIVE" /\ transport # 0
       THEN Goto(h, "notify") /\ tr' = [tr EXCEPT ![h] = transport]
       ELSE Goto(h, "done") /\ UNCHANGED tr
    /\ UNCHANGED <<shared, died, answer, idmap, restarted>>

----------------------------------------------------------------------------
(* ensure_active under the lock. *)

LockFindsActive(h) ==
    /\ Next2Lock(h)
    /\ pc[h] = "lock"
    /\ state = "ACTIVE"
    /\ lockq' = Tail(lockq)
    /\ Send(h)
    /\ UNCHANGED <<state, lock, transport, made, closed, failure>>

LockRefused(h) ==
    /\ Next2Lock(h)
    /\ pc[h] = "lock"
    /\ state = "FAILED"
    /\ Blocked
    /\ lockq' = Tail(lockq)
    /\ Refuse(h, failure)
    /\ UNCHANGED <<state, lock, transport, made, closed>>

\* FAILED -> COLD -> STARTING, or COLD -> STARTING, without releasing the lock.
LockStarts(h) ==
    /\ Next2Lock(h)
    /\ pc[h] = "lock"
    /\ state = "COLD" \/ (state = "FAILED" /\ ~Blocked)
    /\ lock' = h
    /\ lockq' = Tail(lockq)
    /\ state' = "STARTING"
    /\ Goto(h, "starting")
    /\ restarted' = IF Retrying(h) THEN [restarted EXCEPT ![h] = made]
                                   ELSE restarted
    /\ UNCHANGED <<transport, made, closed, failure, tr, died, answer, idmap>>

\* The arguments of wait_for.
Awaited == {"ACTIVE", "FAILED"}

\* Mutant of AwaitEnds: a failed start sends the task back to its wait.
AwaitEndsActive(h) ==
    /\ pc[h] = "await"
    /\ state \in Awaited
    /\ \/ state = "ACTIVE" /\ Send(h)
       \/ state = "FAILED" /\ UNCHANGED local
    /\ UNCHANGED shared

\* wait_for(ACTIVE, FAILED) returned. A task that is not scheduled while the
\* state is settled goes on waiting for the next settled state.
AwaitEnds(h) ==
    /\ pc[h] = "await"
    /\ state \in Awaited
    /\ \/ /\ state = "ACTIVE"
          /\ Send(h)
          /\ UNCHANGED failure
       \/ /\ state = "FAILED"
          /\ Refuse(h, failure)
    /\ UNCHANGED <<state, lock, lockq, transport, made, closed>>

----------------------------------------------------------------------------
(* lifecycle.start and _do_start, the lock held. *)

CommandSucceeds(h) ==
    /\ pc[h] = "starting"
    /\ Goto(h, "polling")
    /\ UNCHANGED <<shared, tr, died, answer, idmap, restarted>>

HealthPassed(h) ==
    /\ pc[h] = "polling"
    /\ state' = "HEALTHY"
    /\ Goto(h, "connecting")
    /\ UNCHANGED <<lock, lockq, transport, made, closed, failure,
                   tr, died, answer, idmap, restarted>>

\* Mutant of StartFails: after a healthcheck that gave up the command is run
\* again, with the lock held.
StartFailsAgain(h) ==
    /\ pc[h] = "polling"
    /\ Goto(h, "starting")
    /\ UNCHANGED <<shared, tr, died, answer, idmap, restarted>>

\* The command failed or timed out, the healthcheck gave up, or connect
\* raised: FAILED, a start failure on record, the lock released.
StartFails(h) ==
    /\ pc[h] \in {"starting", "polling", "connecting"}
    /\ state' = "FAILED"
    /\ lock' = Nobody
    /\ Refuse(h, Fresh("START"))
    /\ UNCHANGED <<lockq, transport, made, closed>>

\* Mutant of Connected: the router keeps its old reference.
ConnectedUnassigned(h) ==
    /\ pc[h] = "connecting"
    /\ made' = made + 1
    /\ Goto(h, "handshake")
    /\ UNCHANGED <<state, lock, lockq, transport, closed, failure,
                   tr, died, answer, idmap, restarted>>

Connected(h) ==
    /\ pc[h] = "connecting"
    /\ made' = made + 1
    /\ transport' = made + 1
    /\ Goto(h, "handshake")
    /\ UNCHANGED <<state, lock, lockq, closed, failure,
                   tr, died, answer, idmap, restarted>>

HandshakeFails(h) ==
    /\ pc[h] = "handshake"
    /\ failure' = Fresh("START")
    /\ closed' = Closing
    /\ Goto(h, "hsclosing")
    /\ UNCHANGED <<state, lock, lockq, transport, made,
                   tr, died, answer, idmap, restarted>>

HandshakeClosed(h) ==
    /\ pc[h] = "hsclosing"
    /\ transport' = 0
    /\ state' = "FAILED"
    /\ lock' = Nobody
    /\ Refuse(h, Fresh("START"))
    /\ UNCHANGED <<lockq, made, closed>>

\* The handshake succeeded, then load raised: FAILED, and the transport stays
\* open behind its reference, until the next start overwrites it.
CacheRaises(h) ==
    /\ pc[h] = "handshake"
    /\ state' = "FAILED"
    /\ lock' = Nobody
    /\ Finish(h, "unreadable")
    /\ failure' = FailureAfter(h, Fresh("START"))
    /\ UNCHANGED <<lockq, transport, made, closed, tr, died, idmap, restarted>>

\* The handshake succeeded and there is no cache file: fetch the lists.
HandshakeThenBootstrap(h) ==
    /\ pc[h] = "handshake"
    /\ Goto(h, "bootstrap")
    /\ UNCHANGED <<shared, tr, died, answer, idmap, restarted>>

\* ACTIVE, lock released, request sent, all in one step. The errors of the
\* bootstrap fetches are swallowed, so it always ends here.
Activate(h) ==
    /\ pc[h] \in {"handshake", "bootstrap"}
    /\ state' = "ACTIVE"
    /\ lock' = Nobody
    /\ Send(h)
    /\ UNCHANGED <<lockq, transport, made, closed, failure>>

----------------------------------------------------------------------------
(* The request on its transport. *)

Reply(h) ==
    /\ pc[h] = "request"
    /\ idmap' = Unwrapped(h)
    /\ Finish(h, "reply")
    /\ UNCHANGED <<shared, tr, died, restarted>>

\* TransportError on the first attempt: unwrap the id, go and detect.
RequestDies(h) ==
    /\ pc[h] = "request"
    /\ ~Retrying(h)
    /\ idmap' = Unwrapped(h)
    /\ died' = [died EXCEPT ![h] = tr[h]]
    /\ Goto(h, "dlock")
    /\ lockq' = Append(lockq, h)
    /\ UNCHANGED <<state, lock, transport, made, closed, failure,
                   tr, answer, restarted>>

\* TransportError on the retry: no second recovery, and no detection.
RetryDies(h) ==
    /\ pc[h] = "request"
    /\ Retrying(h)
    /\ failure' = Fresh("MIDSESSION")
    /\ Finish(h, "second_failure")
    /\ UNCHANGED <<state, lock, lockq, transport, made, closed,
                   tr, died, idmap, restarted>>

\* Any other exception of request(), or one of the load that follows the answer
\* to a */list, which is caught with it.
RequestRaises(h) ==
    /\ pc[h] = "request"
    /\ Finish(h, "raised")
    /\ IF Retrying(h)
       THEN failure' = Fresh("MIDSESSION") /\ UNCHANGED idmap
       ELSE idmap' = Unwrapped(h) /\ UNCHANGED failure
    /\ UNCHANGED <<state, lock, lockq, transport, made, closed,
                   tr, died, restarted>>

\* Handed over, or an exception other than TransportError, which is swallowed.
NotifyEnds(h) ==
    /\ pc[h] = "notify"
    /\ Goto(h, "done")
    /\ UNCHANGED <<shared, tr, died, answer, idmap, restarted>>

NotifyDies(h) ==
    /\ pc[h] = "notify"
    /\ died' = [died EXCEPT ![h] = tr[h]]
    /\ Goto(h, "dlock")
    /\ lockq' = Append(lockq, h)
    /\ UNCHANGED <<state, lock, transport, made, closed, failure,
                   tr, answer, idmap, restarted>>

----------------------------------------------------------------------------
(* _detect_transport_death and the retry that follows it. *)

\* A notification ends here, a request enters its retry.
AfterDetection(h, q) ==
    \/ /\ h \in Requests
       /\ EnsureActive(h, q)
    \/ /\ h \in Notes
       /\ Goto(h, "done")
       /\ lockq' = q
       /\ UNCHANGED <<tr, died, answer, idmap, restarted>>

\* Mutant of Superseded: no check that the transport was replaced.
SupersededByState(h) == state # "ACTIVE"

\* Mutant of Superseded: the comparison is inverted.
SupersededInverted(h) == state # "ACTIVE" \/ transport = died[h]

\* Another task already left ACTIVE, or already replaced the transport.
Superseded(h) == state # "ACTIVE" \/ transport # died[h]

DetectNothing(h) ==
    /\ Next2Lock(h)
    /\ pc[h] = "dlock"
    /\ Superseded(h)
    /\ AfterDetection(h, Tail(lockq))
    /\ UNCHANGED <<state, lock, transport, made, closed, failure>>

DetectDeath(h) ==
    /\ Next2Lock(h)
    /\ pc[h] = "dlock"
    /\ ~Superseded(h)
    /\ lock' = h
    /\ lockq' = Tail(lockq)
    /\ state' = "FAILED"
    /\ closed' = Closing
    /\ Goto(h, "dclosing")
    /\ UNCHANGED <<transport, made, failure, tr, died, answer, idmap, restarted>>

DetectClosed(h) ==
    /\ pc[h] = "dclosing"
    /\ transport' = 0
    /\ lock' = Nobody
    /\ AfterDetection(h, lockq)
    /\ UNCHANGED <<state, made, closed, failure>>

----------------------------------------------------------------------------
(* Time. *)

\* Mutant of AbandonStart: no finally block.
AbandonStartUnsettled == lock' = Nobody /\ UNCHANGED state

\* A cancelled _do_start: its finally block drives the state to FAILED, and
\* the lock is released on the way out.
AbandonStart == state' = "FAILED" /\ lock' = Nobody

\* asyncio.wait_for cancels the retry. Whatever transport a cancelled start
\* had already connected stays where it is.
RetryTimesOut(h) ==
    /\ Retrying(h)
    /\ pc[h] \in RetryScope
    /\ failure' = Fresh("MIDSESSION")
    /\ Finish(h, "timeout")
    /\ IF pc[h] \in StartPhases THEN AbandonStart ELSE UNCHANGED <<state, lock>>
    /\ IF pc[h] = "lock"
       THEN \E i \in DOMAIN lockq : lockq[i] = h /\ lockq' = RemoveAt(lockq, i)
       ELSE UNCHANGED lockq
    /\ UNCHANGED <<transport, made, closed, tr, died, idmap, restarted>>

\* No task is runnable: five seconds do not pass while one is. A call on a
\* closed transport fails at once, so its task counts as runnable.
Quiescent ==
    /\ lock = Nobody => lockq = <<>>
    /\ \A h \in Messages :
          /\ pc[h] = "await" => state \notin Settled
          /\ pc[h] \in {"request", "notify"} => tr[h] \notin closed

Tick ==
    /\ failure.reason # "NONE"
    /\ failure.age < CooldownStart
    /\ Quiescent
    /\ failure' = [failure EXCEPT !.age = @ + 1]
    /\ UNCHANGED <<state, lock, lockq, transport, made, closed, local>>

----------------------------------------------------------------------------

Begin(h)  == BeginUnknown(h) \/ BeginCached(h) \/ BeginRequest(h) \/ BeginNote(h)
Locked(h) == LockFindsActive(h) \/ LockRefused(h) \/ LockStarts(h)
Detect(h) == DetectNothing(h) \/ DetectDeath(h)

\* Bounded by the code itself: start.timeout for the command, max_attempts for
\* the healthcheck.
Launch(h) == CommandSucceeds(h) \/ HealthPassed(h)
                \/ (pc[h] \in {"starting", "polling"} /\ StartFails(h))

\* Up to the backend: connecting, the handshake and the bootstrap.
Opening(h) == \/ Connected(h) \/ HandshakeFails(h)
              \/ HandshakeThenBootstrap(h) \/ Activate(h) \/ CacheRaises(h)
              \/ (pc[h] = "connecting" /\ StartFails(h))

\* Up to the backend: the answer to a request.
Responds(h) == Reply(h) \/ RequestDies(h) \/ RetryDies(h) \/ RequestRaises(h)

Notifies(h) == NotifyEnds(h) \/ NotifyDies(h)
Closes(h)   == HandshakeClosed(h) \/ DetectClosed(h)

Step(h) ==
    \/ Begin(h) \/ Locked(h) \/ AwaitEnds(h) \/ Launch(h) \/ Opening(h)
    \/ Responds(h) \/ Notifies(h) \/ Detect(h) \/ Closes(h) \/ RetryTimesOut(h)

\* Every message handled, and nothing left to do until the next one.
Idle == (\A h \in Messages : pc[h] = "done") /\ UNCHANGED vars

Next == (\E h \in Messages : Step(h)) \/ Tick \/ Idle

Spec == Init /\ [][Next]_vars

----------------------------------------------------------------------------
(* Fairness. A task that can run is run; the start command, the healthcheck, *)
(* close and the notification's handover have timeouts of their own; the     *)
(* retry has its wait_for.                                                   *)

CodeFairness ==
    \A h \in Messages :
       /\ WF_vars(Begin(h))     /\ WF_vars(Locked(h))   /\ WF_vars(AwaitEnds(h))
       /\ WF_vars(Launch(h))    /\ WF_vars(Notifies(h)) /\ WF_vars(Detect(h))
       /\ WF_vars(Closes(h))    /\ WF_vars(RetryTimesOut(h))

CodeSpec == Spec /\ CodeFairness

\* The backend answers, or its connection breaks: no timeout in router.py
\* bounds connect, the handshake, the bootstrap or a first request.
BackendFairness ==
    \A h \in Messages : WF_vars(Opening(h)) /\ WF_vars(Responds(h))

----------------------------------------------------------------------------
(* Properties. *)

\* Every variable has its type; a notification never starts the backend nor
\* waits for it, and only forwarded requests have mapped ids.
TypeOK ==
    /\ state \in States
    /\ lock \in Messages \cup {Nobody}
    /\ lockq \in Seq(Messages)
    /\ made \in Nat
    /\ transport \in 0..made
    /\ closed \subseteq 0..made
    /\ failure \in [reason : Reasons, age : 0..CooldownStart]
    /\ pc \in [Messages -> Phases]
    /\ \A h \in Notes : pc[h] \in NotePhases
    /\ tr \in [Messages -> 0..made]
    /\ died \in [Messages -> 0..made]
    /\ answer \in [Messages -> Answers]
    /\ idmap \subseteq (Calls \cup Others) \X {1, 2}
    /\ restarted \in [Messages -> 0..made]

\* The state a task that holds the lock has driven the machine to.
StateOf(phase) ==
    CASE phase \in {"starting", "polling"} -> "STARTING"
      [] phase \in {"connecting", "handshake", "hsclosing", "bootstrap"} -> "HEALTHY"
      [] phase = "dclosing" -> "FAILED"

\* "Must be called with state_machine.lock held" (lifecycle.py, router.py): the
\* lock belongs to exactly the task inside a start or a detection, the state is
\* the one that task drove it to, so no transition() it makes can raise
\* StateError, and nobody ever finds the lock free in STARTING or HEALTHY, in
\* which ensure_active would loop for ever.
LockDiscipline ==
    /\ \A h \in Messages : pc[h] \in Holding <=> lock = h
    /\ lock = Nobody => state \in Settled
    /\ lock \in Messages => state = StateOf(pc[lock])

\* The asserts "self._transport is not None" after ensure_active hold, and
\* more: the transport in service is the newest one and was never closed.
TransportInService ==
    state = "ACTIVE" => /\ transport # 0
                        /\ transport = made
                        /\ transport \notin closed

\* A retry is never sent on the transport whose death it recovers from, even
\* when another task did the detection and a third one the restart.
RetryUsesFreshTransport ==
    \A h \in Messages : pc[h] = "request" /\ Retrying(h) => tr[h] # died[h]

\* The stale transport check of _detect_transport_death: ACTIVE is left only
\* because a call on the very transport in service has failed, never because
\* of a late error from a transport that was already replaced.
LeavesActiveOnlyOnDeath ==
    [][state = "ACTIVE" /\ state' # "ACTIVE"
         => \E h \in Messages : died[h] = transport]_vars

\* FR-22.6: of the requests that fail from one death, at most one runs
\* lifecycle.start for it; the others find ACTIVE, wait for the start, or are
\* refused by the cooldown its failure left. A restart goes by the number of the
\* connection it follows: one made after the restart has connected is for the next death.
OneRestartPerDeath ==
    \A g, h \in Messages :
       /\ died[g] = died[h]
       /\ restarted[g] = restarted[h]
       /\ restarted[g] # 0
       => g = h

\* The docstring of _do_start: however it ends, cancellation included, the
\* state is ACTIVE, or FAILED with a failure on record that arms the cooldown,
\* and the lock is free.
StartSettles ==
    [][\A h \in Messages :
         pc[h] \in StartPhases /\ pc'[h] \notin StartPhases
           => /\ lock' = Nobody
              /\ \/ state' = "ACTIVE"
                 \/ state' = "FAILED" /\ failure' \in {Fresh("START"), Fresh("MIDSESSION")}
      ]_vars

\* An id that is mapped belongs to a request in flight, or to a retry that
\* failed: the residual the tech spec accepts. A first attempt leaves none.
OrphansAreFailedRetries ==
    \A e \in idmap :
       \/ pc[e[1]] = "request" /\ e[2] = Attempt(e[1])
       \/ e[2] = 2 /\ answer[e[1]] \in {"second_failure", "timeout", "raised"}

\* FR-22.5, and the docstring of _detect_transport_death: a death alone arms no
\* cooldown. A mid-session record stands for a retry that was answered with its
\* failure, a start record for a first request that was refused or is about to
\* be. So no request meets the window of a failure nobody was told of.
CooldownHasCause ==
    /\ failure.reason = "MIDSESSION" =>
          \E h \in Messages : /\ Retrying(h)
                             /\ answer[h] \in {"raised", "restart_failed", "timeout",
                                               "second_failure", "unreadable"}
    /\ failure.reason = "START" =>
          \E h \in Messages : pc[h] = "hsclosing"
                                \/ answer[h] \in {"unavailable", "unreadable"}

\* A connection is closed before it is forgotten, but for the starts that end
\* after connect without a close: those a retry's timeout cancelled, and those in
\* which load raised. There are never more lost open transports than of them.
LostTransports == {t \in 1..made : t \notin closed /\ t # transport}
BrokenStarts   == {h \in Messages : answer[h] \in {"timeout", "unreadable"}}

LostByBrokenStart == Cardinality(LostTransports) <= Cardinality(BrokenStarts)

\* wait_for: once its detection is over, a request in recovery is answered,
\* whatever the backend and the other tasks do.
RetryAnswered ==
    \A h \in Requests :
       (Retrying(h) /\ pc[h] \notin {"dlock", "dclosing"}) ~> pc[h] = "done"

\* FR-22.3: recovery, from the detection on, is bounded whatever the backend does.
RecoveryBounded == \A h \in Requests : Retrying(h) ~> pc[h] = "done"

\* No lost wake-up, no deadlock: every message is handled in the end, if the
\* backend answers or its connection breaks.
EverythingServed == BackendFairness => \A h \in Messages : <>(pc[h] = "done")

----------------------------------------------------------------------------
(* The abstract specification.                                             *)

Lifecycle == INSTANCE BackendLifecycle WITH Owners <- Messages, owner <- lock

\* The router drives the backend through the states as BackendLifecycle says:
\* one owner at a time, legal transitions only, no unsettled state left behind.
ImplementsLifecycle == Lifecycle!Spec

\* And whoever takes the lock gives it back, if the backend answers or its
\* connection breaks.
ImplementsFairness == BackendFairness => Lifecycle!Fairness

=============================================================================
