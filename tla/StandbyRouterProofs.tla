------------------------ MODULE StandbyRouterProofs ------------------------
(***************************************************************************)
(* Proofs about the router, for every finite set of messages and all       *)
(* cooldowns. First the types, then IInv, the inductive invariant of the   *)
(* lock and the transport in service, with the properties and the          *)
(* refinement of BackendLifecycle that follow from it, then RecoveryInv,   *)
(* which strengthens it by what recovery keeps: answers, identifiers,      *)
(* cooldowns, the lock's queue, restarts and lost connections. A step of a *)
(* task bears on the lock and the state in one of four ways (StepKind), on *)
(* the transport in service in one of two (OpenedStep), and the lemmas of  *)
(* recovery say the same of the other variables: most arguments are about  *)
(* those and not about the actions.                                        *)
(***************************************************************************)
EXTENDS StandbyRouter, QueueLemmas, FiniteSetTheorems

\* The types of the variables that belong to the tasks, after a step that
\* leaves made alone or counts it up.
LocalType ==
    /\ pc \in [Messages -> Phases]
    /\ \A h \in Notes : pc[h] \in NotePhases
    /\ tr \in [Messages -> 0..made]
    /\ died \in [Messages -> 0..made]
    /\ answer \in [Messages -> Answers]
    /\ idmap \subseteq (Calls \cup Others) \X {1, 2}
    /\ restarted \in [Messages -> 0..made]

SharedType ==
    /\ state \in States
    /\ lock \in Messages \cup {Nobody}
    /\ lockq \in Seq(Messages)
    /\ made \in Nat
    /\ transport \in 0..made
    /\ closed \subseteq 0..made
    /\ failure \in [reason : Reasons, age : 0..CooldownStart]

\* The type invariant, by the two halves a step disturbs apart.
LEMMA TypeSplit == TypeOK <=> SharedType /\ LocalType
  BY DEF TypeOK, SharedType, LocalType

\* Suspending a task at a legal await keeps the type of pc.
LEMMA GotoType ==
    ASSUME TypeOK, NEW h \in Messages, NEW p \in Phases, Goto(h, p),
           h \in Notes => p \in NotePhases
    PROVE  pc' \in [Messages -> Phases] /\ \A n \in Notes : pc'[n] \in NotePhases
  BY DEF TypeOK, Goto, Messages

\* Ending a task keeps the types of the tasks' variables.
LEMMA FinishType ==
    ASSUME TypeOK, NEW h \in Messages, NEW how \in Answers, Finish(h, how),
           UNCHANGED <<tr, died, restarted, made>>, idmap' \subseteq idmap
    PROVE  LocalType'
<1>1. pc' \in [Messages -> Phases] /\ \A n \in Notes : pc'[n] \in NotePhases
  BY GotoType, "done" \in Phases, "done" \in NotePhases DEF Finish, Phases, NotePhases
<1>. QED
  BY <1>1 DEF TypeOK, LocalType, Finish

\* So does sending its request, for a request.
LEMMA SendType ==
    ASSUME TypeOK, NEW h \in Requests, Send(h), UNCHANGED made
    PROVE  LocalType'
<1>1. pc' \in [Messages -> Phases] /\ \A n \in Notes : pc'[n] \in NotePhases
  BY GotoType, MessageAssumption DEF Send, Phases, Messages
<1>2. idmap' \subseteq (Calls \cup Others) \X {1, 2}
  BY DEF TypeOK, Send, Wrapped, Attempt, Requests
<1>. QED
  BY <1>1, <1>2 DEF TypeOK, LocalType, Send, Messages

\* So does the first look of ensure_active, whatever queue it joins.
LEMMA EnsureActiveType ==
    ASSUME TypeOK, NEW h \in Requests, NEW q \in Seq(Messages),
           EnsureActive(h, q), UNCHANGED made
    PROVE  LocalType' /\ lockq' \in Seq(Messages)
<1>0. h \in Messages /\ h \notin Notes
  BY MessageAssumption DEF Messages
<1>1. CASE Send(h) /\ lockq' = q
  BY <1>1, SendType
<1>2. CASE /\ Goto(h, "await") \/ Goto(h, "lock")
           /\ lockq' \in {q, Append(q, h)}
           /\ UNCHANGED <<tr, died, answer, idmap, restarted>>
  <2>1. pc' \in [Messages -> Phases] /\ \A n \in Notes : pc'[n] \in NotePhases
    BY <1>0, <1>2, GotoType DEF Phases
  <2>2. lockq' \in Seq(Messages)
    BY <1>0, <1>2, AppendProperties
  <2>. QED
    BY <1>2, <2>1, <2>2 DEF TypeOK, LocalType
<1>. QED
  BY <1>1, <1>2 DEF EnsureActive

\* So does a refusal, which also records a failure.
LEMMA RefuseType ==
    ASSUME TypeOK, NEW h \in Messages, UNCHANGED made,
           NEW f \in [reason : Reasons, age : 0..CooldownStart], Refuse(h, f)
    PROVE  LocalType' /\ failure' \in [reason : Reasons, age : 0..CooldownStart]
<1>1. LocalType'
  <2>. DEFINE how == IF Retrying(h) THEN "restart_failed" ELSE "unavailable"
  <2>1. how \in Answers
    BY DEF Answers
  <2>. QED
    BY <2>1, FinishType DEF Refuse
<1>2. failure' \in [reason : Reasons, age : 0..CooldownStart]
  BY CooldownAssumption DEF Refuse, FailureAfter, Fresh, Reasons
<1>. QED
  BY <1>1, <1>2

\* The initial state is well typed.
LEMMA TypeInit == Init => TypeOK
  BY CooldownAssumption
  DEF Init, TypeOK, States, Settled, NoFailure, Reasons, Phases, NotePhases, Answers, Messages

\* Every step of a task keeps the types: one case per action.
LEMMA TypeStep ==
    ASSUME TypeOK, NEW h \in Messages, Step(h)
    PROVE  TypeOK'
<1>. USE DEF shared, local
<1>t. SharedType /\ LocalType
  BY TypeSplit
<1>q. lockq # <<>> => Tail(lockq) \in Seq(Messages)
  BY <1>t, HeadTailProperties DEF SharedType
<1>a. Append(lockq, h) \in Seq(Messages)
  BY <1>t, AppendProperties DEF SharedType
<1>r. pc[h] \notin NotePhases => h \in Requests
  BY <1>t DEF LocalType, Messages
<1>f. \A r \in Reasons : Fresh(r) \in [reason : Reasons, age : 0..CooldownStart]
  BY CooldownAssumption DEF Fresh
<1>g. \A p \in Phases : Goto(h, p) /\ (h \in Notes => p \in NotePhases)
          => pc' \in [Messages -> Phases] /\ \A n \in Notes : pc'[n] \in NotePhases
  BY GotoType
<1>s. "FAILED" \in States /\ "ACTIVE" \in States /\ "STARTING" \in States /\ "HEALTHY" \in States
  BY DEF States, Settled
<1>1. CASE BeginUnknown(h) \/ BeginCached(h)
  <2>. PICK how \in {"not_found", "cached", "raised"} :
          Finish(h, how) /\ UNCHANGED <<shared, tr, died, idmap, restarted>>
    BY <1>1 DEF BeginUnknown, BeginCached
  <2>1. LocalType'
    BY FinishType DEF Answers
  <2>. QED
    BY <1>t, <2>1, TypeSplit DEF SharedType, TypeOK, LocalType
<1>2. CASE BeginRequest(h)
  <2>1. LocalType' /\ lockq' \in Seq(Messages)
    BY <1>2, <1>t, EnsureActiveType DEF BeginRequest, SharedType
  <2>. QED
    BY <1>2, <1>t, <2>1 DEF BeginRequest, SharedType, TypeOK, LocalType
<1>3. CASE BeginNote(h)
  <2>1. pc' \in [Messages -> Phases] /\ \A n \in Notes : pc'[n] \in NotePhases
    BY <1>3, <1>g DEF BeginNote, Phases, NotePhases
  <2>. QED
    BY <1>3, <2>1 DEF BeginNote, TypeOK
<1>4. CASE LockFindsActive(h)
  <2>1. h \in Requests
    BY <1>4, <1>r DEF LockFindsActive, NotePhases
  <2>2. LocalType'
    BY <1>4, <2>1, SendType DEF LockFindsActive
  <2>. QED
    BY <1>4, <1>t, <1>q, <2>2 DEF LockFindsActive, Next2Lock, SharedType, TypeOK, LocalType
<1>5. CASE LockRefused(h)
  <2>1. LocalType' /\ failure' \in [reason : Reasons, age : 0..CooldownStart]
    BY <1>5, <1>t, RefuseType DEF LockRefused, SharedType
  <2>. QED
    BY <1>5, <1>t, <1>q, <2>1 DEF LockRefused, Next2Lock, SharedType, TypeOK, LocalType
<1>6. CASE LockStarts(h)
  <2>1. pc' \in [Messages -> Phases] /\ \A n \in Notes : pc'[n] \in NotePhases
    BY <1>6, <1>g, <1>r, MessageAssumption DEF LockStarts, Phases, Holding, StartPhases, NotePhases
  <2>2. restarted' \in [Messages -> 0..made]
    BY <1>6, <1>t DEF LockStarts, SharedType, LocalType
  <2>. QED
    BY <1>6, <1>t, <1>q, <1>s, <2>1, <2>2 DEF LockStarts, Next2Lock, SharedType, LocalType, TypeOK
<1>7. CASE AwaitEnds(h)
  <2>1. h \in Requests
    BY <1>7, <1>r DEF AwaitEnds, NotePhases
  <2>2. CASE Send(h) /\ UNCHANGED failure
    BY <1>7, <1>t, <2>1, <2>2, SendType DEF AwaitEnds, SharedType, TypeOK, LocalType
  <2>3. CASE Refuse(h, failure)
    <3>1. LocalType' /\ failure' \in [reason : Reasons, age : 0..CooldownStart]
      BY <1>7, <1>t, <2>3, RefuseType DEF AwaitEnds, SharedType
    <3>. QED
      BY <1>7, <1>t, <3>1 DEF AwaitEnds, SharedType, TypeOK, LocalType
  <2>. QED
    BY <1>7, <2>2, <2>3 DEF AwaitEnds
<1>8. CASE CommandSucceeds(h) \/ HealthPassed(h) \/ HandshakeThenBootstrap(h)
  <2>. PICK p \in {"polling", "connecting", "bootstrap"} :
          Goto(h, p) /\ pc[h] \in {"starting", "polling", "handshake"}
    BY <1>8 DEF CommandSucceeds, HealthPassed, HandshakeThenBootstrap
  <2>1. pc' \in [Messages -> Phases] /\ \A n \in Notes : pc'[n] \in NotePhases
    BY <1>g, <1>r, MessageAssumption DEF Phases, Holding, StartPhases, NotePhases
  <2>. QED
    BY <1>8, <1>s, <2>1 DEF CommandSucceeds, HealthPassed, HandshakeThenBootstrap, TypeOK
<1>9. CASE StartFails(h) \/ HandshakeClosed(h)
  <2>1. LocalType' /\ failure' \in [reason : Reasons, age : 0..CooldownStart]
    BY <1>9, <1>f, RefuseType DEF StartFails, HandshakeClosed, Reasons
  <2>2. transport' \in 0..made' /\ made' = made /\ closed' = closed /\ lockq' = lockq
    BY <1>9, <1>t DEF StartFails, HandshakeClosed, SharedType
  <2>3. state' = "FAILED" /\ lock' = Nobody
    BY <1>9 DEF StartFails, HandshakeClosed
  <2>4. SharedType'
    BY <1>t, <1>s, <2>1, <2>2, <2>3 DEF SharedType
  <2>. QED
    BY <2>1, <2>4 DEF SharedType, TypeOK, LocalType
<1>10. CASE Connected(h)
  <2>1. pc' \in [Messages -> Phases] /\ \A n \in Notes : pc'[n] \in NotePhases
    BY <1>10, <1>g, <1>r, MessageAssumption DEF Connected, Phases, Holding, StartPhases, NotePhases
  <2>2. /\ made' = made + 1 /\ transport' = made + 1
        /\ UNCHANGED <<state, lock, lockq, closed, failure,
                       tr, died, answer, idmap, restarted>>
    BY <1>10 DEF Connected
  <2>3. made \in Nat /\ 0..made \subseteq 0..made'
    BY <1>t, <2>2 DEF SharedType
  <2>4. SharedType'
    BY <1>t, <2>2, <2>3 DEF SharedType
  <2>5. LocalType'
    BY <1>t, <2>1, <2>2, <2>3 DEF LocalType
  <2>. QED
    BY <2>4, <2>5 DEF TypeOK, SharedType, LocalType
<1>11. CASE HandshakeFails(h)
  <2>1. pc' \in [Messages -> Phases] /\ \A n \in Notes : pc'[n] \in NotePhases
    BY <1>11, <1>g, <1>r, MessageAssumption DEF HandshakeFails, Phases, Holding, StartPhases, NotePhases
  <2>. QED
    BY <1>11, <1>f, <2>1 DEF HandshakeFails, Closing, TypeOK, Reasons
<1>12. CASE Activate(h)
  <2>1. h \in Requests
    BY <1>12, <1>r DEF Activate, NotePhases
  <2>2. LocalType'
    BY <1>12, <2>1, SendType DEF Activate
  <2>. QED
    BY <1>12, <1>t, <1>s, <2>2 DEF Activate, SharedType, TypeOK, LocalType
<1>13. CASE Reply(h)
  <2>1. LocalType'
    BY <1>13, FinishType DEF Reply, Unwrapped, Answers
  <2>. QED
    BY <1>13, <1>t, <2>1 DEF Reply, SharedType, TypeOK, LocalType
<1>14. CASE RequestDies(h) \/ NotifyDies(h)
  <2>1. pc' \in [Messages -> Phases] /\ \A n \in Notes : pc'[n] \in NotePhases
    BY <1>14, <1>g DEF RequestDies, NotifyDies, Phases, NotePhases
  <2>. QED
    BY <1>14, <1>a, <2>1 DEF RequestDies, NotifyDies, Unwrapped, TypeOK
<1>15. CASE RetryDies(h)
  <2>1. LocalType'
    BY <1>15, FinishType DEF RetryDies, Answers
  <2>. QED
    BY <1>15, <1>t, <1>f, <2>1 DEF RetryDies, SharedType, TypeOK, LocalType, Reasons
<1>16. CASE RequestRaises(h)
  <2>1. LocalType'
    BY <1>16, FinishType DEF RequestRaises, Unwrapped, Answers
  <2>2. failure' \in [reason : Reasons, age : 0..CooldownStart]
    BY <1>16, <1>t, <1>f DEF RequestRaises, SharedType, Reasons
  <2>. QED
    BY <1>16, <1>t, <2>1, <2>2 DEF RequestRaises, SharedType, TypeOK, LocalType
<1>17. CASE NotifyEnds(h)
  <2>1. pc' \in [Messages -> Phases] /\ \A n \in Notes : pc'[n] \in NotePhases
    BY <1>17, <1>g DEF NotifyEnds, Phases, NotePhases
  <2>. QED
    BY <1>17, <2>1 DEF NotifyEnds, TypeOK
<1>18. ASSUME NEW q \in Seq(Messages), AfterDetection(h, q), UNCHANGED made
       PROVE  LocalType' /\ lockq' \in Seq(Messages)
  <2>1. CASE h \in Requests /\ EnsureActive(h, q)
    BY <1>18, <2>1, EnsureActiveType
  <2>2. CASE Goto(h, "done") /\ lockq' = q /\ UNCHANGED <<tr, died, answer, idmap, restarted>>
    <3>1. pc' \in [Messages -> Phases] /\ \A n \in Notes : pc'[n] \in NotePhases
      BY <2>2, <1>g DEF Phases, NotePhases
    <3>. QED
      BY <1>18, <1>t, <2>2, <3>1 DEF LocalType
  <2>. QED
    BY <1>18, <2>1, <2>2 DEF AfterDetection
<1>19. CASE DetectNothing(h)
  <2>1. LocalType' /\ lockq' \in Seq(Messages)
    BY <1>19, <1>q, <1>18 DEF DetectNothing, Next2Lock
  <2>. QED
    BY <1>19, <1>t, <2>1 DEF DetectNothing, SharedType, TypeOK, LocalType
<1>20. CASE DetectDeath(h)
  <2>1. pc' \in [Messages -> Phases] /\ \A n \in Notes : pc'[n] \in NotePhases
    BY <1>20, <1>g DEF DetectDeath, Phases, Holding, NotePhases
  <2>2. closed' \subseteq 0..made
    BY <1>20, <1>t DEF DetectDeath, Closing, SharedType
  <2>. QED
    BY <1>20, <1>q, <1>s, <2>1, <2>2 DEF DetectDeath, Next2Lock, TypeOK
<1>21. CASE DetectClosed(h)
  <2>1. LocalType' /\ lockq' \in Seq(Messages)
    BY <1>21, <1>t, <1>18 DEF DetectClosed, SharedType
  <2>2. /\ transport' = 0 /\ lock' = Nobody
        /\ UNCHANGED <<state, made, closed, failure>>
    BY <1>21 DEF DetectClosed
  <2>3. SharedType'
    BY <1>t, <2>1, <2>2 DEF SharedType
  <2>. QED
    BY <2>1, <2>3 DEF TypeOK, SharedType, LocalType
<1>22. CASE RetryTimesOut(h)
  <2>1. LocalType'
    BY <1>22, FinishType DEF RetryTimesOut, Answers
  <2>2. lockq' \in Seq(Messages)
    BY <1>22, <1>t, Removed DEF RetryTimesOut, SharedType
  <2>3. state' \in States /\ lock' \in Messages \cup {Nobody}
    BY <1>22, <1>t, <1>s DEF RetryTimesOut, AbandonStart, SharedType
  <2>. QED
    BY <1>22, <1>t, <1>f, <2>1, <2>2, <2>3
    DEF RetryTimesOut, SharedType, TypeOK, LocalType, Reasons
<1>23. CASE CacheRaises(h)
  <2>1. LocalType'
    BY <1>23, FinishType DEF CacheRaises, Answers
  <2>2. failure' \in [reason : Reasons, age : 0..CooldownStart]
    BY <1>23, <1>f DEF CacheRaises, FailureAfter, Reasons
  <2>. QED
    BY <1>23, <1>t, <1>s, <2>1, <2>2 DEF CacheRaises, SharedType, TypeOK, LocalType
<1>. QED
  BY <1>1, <1>2, <1>3, <1>4, <1>5, <1>6, <1>7, <1>8, <1>9, <1>10, <1>11, <1>12, <1>13,
     <1>14, <1>15, <1>16, <1>17, <1>19, <1>20, <1>21, <1>22, <1>23
  DEF Step, Begin, Locked, Launch, Opening, Responds, Notifies, Detect, Closes

\* So does the passing of time.
LEMMA TypeTick == TypeOK /\ (Tick \/ UNCHANGED vars) => TypeOK'
<1>. SUFFICES ASSUME TypeOK, Tick \/ UNCHANGED vars PROVE TypeOK'
  OBVIOUS
<1>1. CASE Tick
  <2>1. failure' \in [reason : Reasons, age : 0..CooldownStart]
    <3>1. failure.reason \in Reasons /\ failure.age + 1 \in 0..CooldownStart
      BY <1>1, CooldownAssumption DEF Tick, TypeOK
    <3>2. failure' = [reason |-> failure.reason, age |-> failure.age + 1]
      BY <1>1 DEF Tick, TypeOK
    <3>. QED
      BY <3>1, <3>2
  <2>. QED
    BY <1>1, <2>1 DEF Tick, TypeOK, local
<1>2. CASE UNCHANGED vars
  BY <1>2 DEF vars, shared, local, TypeOK
<1>. QED
  BY <1>1, <1>2

\* Every variable of the router keeps its type.
THEOREM TypeCorrect == Spec => []TypeOK
<1>1. TypeOK /\ [Next]_vars => TypeOK'
  BY TypeStep, TypeTick DEF Next, Idle
<1>. QED
  BY <1>1, TypeInit, PTL DEF Spec

-----------------------------------------------------------------------------
(* The inductive invariant. LockDiscipline is inductive with the types. The   *)
(* other two properties need to know of the transport of a start that has     *)
(* connected but is not ACTIVE yet, and of the retries that are not yet sent. *)

\* A transport is in service, or will be when the start in progress ends well.
Opened ==
    \/ state = "ACTIVE"
    \/ \E h \in Messages : pc[h] \in {"handshake", "bootstrap"}

OpenedTransport ==
    Opened => transport # 0 /\ transport = made /\ transport \notin closed

\* A task in its retry: what will be in service for it is not what died.
FreshForRetry ==
    \A h \in Messages :
       Retrying(h) /\ pc[h] \in RetryScope =>
          /\ Opened => transport # died[h]
          /\ pc[h] = "request" => tr[h] # died[h]

\* A task has nothing to recover from before it has sent its request.
NewHasNoVictim == \A h \in Messages : pc[h] = "new" => ~Retrying(h)

IInv ==
    /\ TypeOK
    /\ LockDiscipline
    /\ OpenedTransport
    /\ FreshForRetry
    /\ NewHasNoVictim

\* The inductive invariant contains the two transport properties.
LEMMA IInvImplies == IInv => TransportInService /\ RetryUsesFreshTransport
  BY DEF IInv, OpenedTransport, FreshForRetry, Opened, TransportInService,
         RetryUsesFreshTransport, RetryScope

\* Initially nobody holds the lock and the state is settled.
LEMMA DisciplineInit == Init => LockDiscipline
  BY MessageAssumption DEF Init, LockDiscipline, Holding, StartPhases, Settled

-----------------------------------------------------------------------------
(* The four ways in which a step of a task bears on the lock and the state.   *)

\* It neither has the lock nor takes it, and the state stays.
Outside(h) ==
    /\ pc[h] \notin Holding /\ pc'[h] \notin Holding
    /\ UNCHANGED <<state, lock>>

\* It takes the lock and leaves a settled state.
Takes(h) ==
    /\ pc[h] \notin Holding /\ pc'[h] \in Holding
    /\ lock = Nobody /\ lock' = h
    /\ \/ state \in {"COLD", "FAILED"} /\ pc'[h] = "starting" /\ state' = "STARTING"
       \/ state = "ACTIVE" /\ pc'[h] = "dclosing" /\ state' = "FAILED"

\* It has the lock and keeps it.
Moves(h) ==
    /\ pc[h] \in Holding /\ pc'[h] \in Holding
    /\ lock = h /\ lock' = h
    /\ state = StateOf(pc[h])
    /\ state' = StateOf(pc'[h])
    /\ state' = state \/ (state = "STARTING" /\ state' = "HEALTHY")

\* It gives the lock back in a settled state.
Releases(h) ==
    /\ pc[h] \in Holding /\ pc'[h] \notin Holding
    /\ lock = h /\ lock' = Nobody
    /\ \/ state = "HEALTHY" /\ state' = "ACTIVE"
       \/ state \in {"STARTING", "HEALTHY", "FAILED"} /\ state' = "FAILED"

\* A step of one task leaves the others where they are suspended.
LEMMA OthersStay ==
    ASSUME TypeOK, NEW h \in Messages, Step(h)
    PROVE  \A g \in Messages \ {h} :
              pc'[g] = pc[g] /\ tr'[g] = tr[g] /\ died'[g] = died[g]
  BY DEF TypeOK, Step, Begin, Locked, Launch, Opening, Responds, Notifies,
         Detect, Closes, BeginUnknown, BeginCached, BeginRequest, BeginNote,
         LockFindsActive, LockRefused, LockStarts, AwaitEnds, CommandSucceeds,
         HealthPassed, StartFails, Connected, HandshakeFails, HandshakeClosed,
         HandshakeThenBootstrap, Activate, CacheRaises, Reply, RequestDies, RetryDies,
         RequestRaises, NotifyEnds, NotifyDies, DetectNothing, DetectDeath,
         DetectClosed, RetryTimesOut, EnsureActive, AfterDetection, Send,
         Refuse, Goto, Finish, shared, local

\* Those are all the ways there are.
LEMMA StepKind ==
    ASSUME TypeOK, LockDiscipline, NEW h \in Messages, Step(h)
    PROVE  Outside(h) \/ Takes(h) \/ Moves(h) \/ Releases(h)
<1>. USE DEF shared, local, Goto, Finish, Holding, StartPhases
<1>t. pc \in [Messages -> Phases]
  BY DEF TypeOK
<1>l. pc[h] \in Holding => lock = h /\ state = StateOf(pc[h])
  BY DEF LockDiscipline
<1>e. \A q : EnsureActive(h, q) => pc'[h] \in {"request", "await", "lock"}
  BY <1>t DEF EnsureActive, Send
<1>d. \A q : AfterDetection(h, q) => pc'[h] \in {"request", "await", "lock", "done"}
  BY <1>t, <1>e DEF AfterDetection
<1>1. CASE Begin(h)
  BY <1>1, <1>t, <1>e DEF Begin, BeginUnknown, BeginCached, BeginRequest, BeginNote, Outside
<1>2. CASE LockFindsActive(h) \/ LockRefused(h) \/ AwaitEnds(h)
  BY <1>2, <1>t DEF LockFindsActive, LockRefused, AwaitEnds, Send, Refuse, Outside
<1>3. CASE LockStarts(h)
  BY <1>3, <1>t DEF LockStarts, Next2Lock, Takes
<1>4. CASE CommandSucceeds(h) \/ HealthPassed(h) \/ Connected(h)
             \/ HandshakeFails(h) \/ HandshakeThenBootstrap(h)
  BY <1>4, <1>t, <1>l DEF CommandSucceeds, HealthPassed, Connected, HandshakeFails,
       HandshakeThenBootstrap, StateOf, Moves
<1>5. CASE StartFails(h) \/ HandshakeClosed(h) \/ Activate(h) \/ CacheRaises(h)
  BY <1>5, <1>t, <1>l DEF StartFails, HandshakeClosed, Activate, CacheRaises, Send, Refuse,
       StateOf, Releases
<1>6. CASE Responds(h) \/ Notifies(h)
  BY <1>6, <1>t DEF Responds, Notifies, Reply, RequestDies, RetryDies, RequestRaises,
       NotifyEnds, NotifyDies, Outside
<1>7. CASE DetectNothing(h)
  BY <1>7, <1>t, <1>d DEF DetectNothing, Outside
<1>8. CASE DetectDeath(h)
  BY <1>8, <1>t DEF DetectDeath, Next2Lock, Superseded, Takes
<1>9. CASE DetectClosed(h)
  BY <1>9, <1>t, <1>l, <1>d DEF DetectClosed, StateOf, Releases
<1>10. CASE RetryTimesOut(h)
  BY <1>10, <1>t, <1>l DEF RetryTimesOut, RetryScope, AbandonStart, StateOf, Outside, Releases
<1>. QED
  BY <1>1, <1>2, <1>3, <1>4, <1>5, <1>6, <1>7, <1>8, <1>9, <1>10
  DEF Step, Locked, Launch, Opening, Detect, Closes

\* The lock discipline is kept in each of the four ways.
LEMMA DisciplineStep ==
    ASSUME TypeOK, LockDiscipline, NEW h \in Messages, Step(h)
    PROVE  LockDiscipline'
<1>. USE MessageAssumption
<1>1. \A g \in Messages \ {h} : pc'[g] = pc[g]
  BY OthersStay
<1>2. CASE Outside(h)
  BY <1>1, <1>2 DEF Outside, LockDiscipline
<1>3. CASE Takes(h)
  BY <1>1, <1>3 DEF Takes, LockDiscipline, StateOf
<1>4. CASE Moves(h)
  BY <1>1, <1>4 DEF Moves, LockDiscipline
<1>5. CASE Releases(h)
  BY <1>1, <1>5 DEF Releases, LockDiscipline, Settled
<1>. QED
  BY <1>2, <1>3, <1>4, <1>5, StepKind

-----------------------------------------------------------------------------
(* The transport in service.                                                  *)

\* A transport that is opened after a step was already, or has just connected.
LEMMA OpenedStep ==
    ASSUME IInv, NEW h \in Messages, Step(h), Opened'
    PROVE  \/ Opened /\ UNCHANGED <<transport, made, closed>>
           \/ transport' = made + 1 /\ made' = made + 1 /\ UNCHANGED closed
<1>. USE DEF shared, local, Goto, Finish
<1>t. pc \in [Messages -> Phases]
  BY DEF IInv, TypeOK
<1>h. \A g \in Messages : pc[g] \in Holding => lock = g /\ state = StateOf(pc[g])
  BY DEF IInv, LockDiscipline
<1>o. \A g \in Messages \ {h} : pc'[g] = pc[g]
  BY OthersStay DEF IInv
<1>n. Nobody \notin Messages
  BY MessageAssumption
<1>1. CASE Connected(h)
  BY <1>1 DEF Connected
<1>2. CASE HandshakeFails(h) \/ HandshakeClosed(h) \/ DetectDeath(h) \/ DetectClosed(h)
  <2>1. state' # "ACTIVE"
    BY <1>2, <1>h DEF HandshakeFails, HandshakeClosed, DetectDeath, DetectClosed,
         StateOf, Holding, StartPhases
  <2>2. pc'[h] \notin {"handshake", "bootstrap"}
    BY <1>2, <1>t DEF HandshakeFails, HandshakeClosed, DetectDeath, DetectClosed,
         AfterDetection, EnsureActive, Send, Refuse
  <2>3. lock \in {h, Nobody}
    BY <1>2, <1>h DEF HandshakeFails, HandshakeClosed, DetectDeath, DetectClosed,
         Next2Lock, Holding, StartPhases
  <2>4. \A g \in Messages : pc'[g] \notin {"handshake", "bootstrap"}
    BY <1>h, <1>o, <1>n, <2>2, <2>3 DEF Holding, StartPhases
  <2>. QED
    BY <2>1, <2>4 DEF Opened
<1>3. ASSUME ~Connected(h), ~HandshakeFails(h), ~HandshakeClosed(h),
             ~DetectDeath(h), ~DetectClosed(h)
      PROVE  Opened /\ UNCHANGED <<transport, made, closed>>
  <2>1. state' = "ACTIVE" => state = "ACTIVE" \/ pc[h] \in {"handshake", "bootstrap"}
    <3>1. Outside(h) \/ Takes(h) \/ Moves(h) \/ Releases(h)
      BY StepKind DEF IInv
    <3>2. state' = "ACTIVE" /\ Releases(h) => pc[h] \in {"connecting", "handshake", "hsclosing", "bootstrap"}
      BY <1>h DEF Releases, StateOf, Holding, StartPhases
    <3>3. Moves(h) => state' # "ACTIVE"
      BY DEF Moves, StateOf, Holding, StartPhases
    <3>4. state' = "ACTIVE" => pc[h] \notin {"connecting", "hsclosing"}
      BY <1>t, <1>h, <1>n DEF Step, Begin, Locked, Launch, Opening, Responds, Notifies,
         Detect, Closes, BeginUnknown, BeginCached, BeginRequest, BeginNote,
         LockFindsActive, LockRefused, LockStarts, AwaitEnds, CommandSucceeds,
         HealthPassed, StartFails, Connected, HandshakeFails, HandshakeClosed,
         HandshakeThenBootstrap, Activate, CacheRaises, Reply, RequestDies, RetryDies,
         RequestRaises, NotifyEnds, NotifyDies, DetectNothing, DetectDeath,
         DetectClosed, RetryTimesOut, AbandonStart, StateOf, Holding, StartPhases
    <3>. QED
      BY <3>1, <3>2, <3>3, <3>4 DEF Outside, Takes
  <2>2. pc'[h] \in {"handshake", "bootstrap"} => pc[h] = "handshake"
    BY <1>3, <1>t DEF Step, Begin, Locked, Launch, Opening, Responds, Notifies,
         Detect, Closes, BeginUnknown, BeginCached, BeginRequest, BeginNote,
         LockFindsActive, LockRefused, LockStarts, AwaitEnds, CommandSucceeds,
         HealthPassed, StartFails, Connected, HandshakeFails, HandshakeClosed,
         HandshakeThenBootstrap, Activate, CacheRaises, Reply, RequestDies, RetryDies,
         RequestRaises, NotifyEnds, NotifyDies, DetectNothing, DetectDeath,
         DetectClosed, RetryTimesOut, EnsureActive, AfterDetection, Send,
         Refuse
  <2>3. Opened
    BY <1>o, <2>1, <2>2 DEF Opened
  <2>4. UNCHANGED <<transport, made, closed>>
    BY <1>3 DEF Step, Begin, Locked, Launch, Opening, Responds, Notifies,
         Detect, Closes, BeginUnknown, BeginCached, BeginRequest, BeginNote,
         LockFindsActive, LockRefused, LockStarts, AwaitEnds, CommandSucceeds,
         HealthPassed, StartFails, HandshakeThenBootstrap, Activate, CacheRaises, Reply,
         RequestDies, RetryDies, RequestRaises, NotifyEnds, NotifyDies,
         DetectNothing, RetryTimesOut
  <2>. QED
    BY <2>3, <2>4
<1>. QED
  BY <1>1, <1>2, <1>3

\* Whoever sends a request sends it on the transport in service.
LEMMA SendStep ==
    ASSUME IInv, NEW h \in Messages, Step(h), pc'[h] = "request"
    PROVE  tr'[h] = transport' /\ state' = "ACTIVE"
<1>1. TypeOK
  BY DEF IInv
<1>2. pc[h] = "dclosing" => state = "FAILED"
  BY DEF IInv, LockDiscipline, Holding, StateOf
<1>. QED
  BY <1>1, <1>2 DEF TypeOK, Step, Begin, Locked, Launch, Opening, Responds, Notifies,
         Detect, Closes, BeginUnknown, BeginCached, BeginRequest, BeginNote,
         LockFindsActive, LockRefused, LockStarts, AwaitEnds, CommandSucceeds,
         HealthPassed, StartFails, Connected, HandshakeFails, HandshakeClosed,
         HandshakeThenBootstrap, Activate, CacheRaises, Reply, RequestDies, RetryDies,
         RequestRaises, NotifyEnds, NotifyDies, DetectNothing, DetectDeath,
         DetectClosed, RetryTimesOut, EnsureActive, AfterDetection, Send,
         Refuse, Goto, Finish, shared, local

\* The transport in service stays the newest, and open.
LEMMA OpenedTransportStep ==
    ASSUME IInv, NEW h \in Messages, Step(h)
    PROVE  OpenedTransport'
<1>. SUFFICES ASSUME Opened'
              PROVE  transport' # 0 /\ transport' = made' /\ transport' \notin closed'
  BY DEF OpenedTransport
<1>. QED
  BY OpenedStep DEF IInv, OpenedTransport, TypeOK

\* What a step does to the task's own victim and phase.
LEMMA VictimStep ==
    ASSUME TypeOK, NEW h \in Messages, Step(h)
    PROVE  /\ died'[h] = died[h] \/ (pc'[h] = "dlock" /\ pc[h] \in {"request", "notify"})
           /\ pc'[h] # "new"
           /\ pc[h] = "dlock" /\ pc'[h] \in RetryScope => DetectNothing(h)
           /\ pc[h] = "dclosing" => state' = state /\ lock' = Nobody
           /\ pc[h] = "notify" => pc'[h] \notin RetryScope
           /\ pc[h] # "done"
  BY DEF TypeOK, Step, Begin, Locked, Launch, Opening, Responds, Notifies,
         Detect, Closes, BeginUnknown, BeginCached, BeginRequest, BeginNote,
         LockFindsActive, LockRefused, LockStarts, AwaitEnds, CommandSucceeds,
         HealthPassed, StartFails, Connected, HandshakeFails, HandshakeClosed,
         HandshakeThenBootstrap, Activate, CacheRaises, Reply, RequestDies, RetryDies,
         RequestRaises, NotifyEnds, NotifyDies, DetectNothing, DetectDeath,
         DetectClosed, RetryTimesOut, EnsureActive, AfterDetection, Send,
         Refuse, Goto, Finish, shared, local, RetryScope, StartPhases

\* close is awaited in a detection only after DetectDeath.
LEMMA DclosingStep ==
    ASSUME TypeOK, NEW h \in Messages, Step(h), pc'[h] = "dclosing"
    PROVE  DetectDeath(h)
  BY DEF TypeOK, Step, Begin, Locked, Launch, Opening, Responds, Notifies,
         Detect, Closes, BeginUnknown, BeginCached, BeginRequest, BeginNote,
         LockFindsActive, LockRefused, LockStarts, AwaitEnds, CommandSucceeds,
         HealthPassed, StartFails, Connected, HandshakeFails, HandshakeClosed,
         HandshakeThenBootstrap, Activate, CacheRaises, Reply, RequestDies, RetryDies,
         RequestRaises, NotifyEnds, NotifyDies, DetectNothing,
         DetectClosed, RetryTimesOut, EnsureActive, AfterDetection, Send,
         Refuse, Goto, Finish, shared, local

\* A retry keeps clear of the transport that died.
LEMMA FreshStep ==
    ASSUME IInv, NEW h \in Messages, Step(h)
    PROVE  FreshForRetry' /\ NewHasNoVictim'
<1>t. TypeOK
  BY DEF IInv
<1>o. \A g \in Messages \ {h} :
          pc'[g] = pc[g] /\ tr'[g] = tr[g] /\ died'[g] = died[g]
  BY <1>t, OthersStay
<1>v. \A g \in Messages : died[g] <= made /\ died[g] \in Nat /\ made \in Nat
  BY <1>t DEF TypeOK
<1>1. ASSUME NEW g \in Messages, died'[g] = died[g], Opened', Retrying(g),
             pc[g] \in RetryScope
      PROVE  transport' # died'[g]
  BY <1>1, <1>v, OpenedStep DEF IInv, FreshForRetry
<1>2. ASSUME Retrying(h)', pc'[h] \in RetryScope, Opened'
      PROVE  transport' # died'[h]
  <2>1. died'[h] = died[h] /\ Retrying(h)
    BY <1>2, <1>t, VictimStep DEF RetryScope, StartPhases, Retrying
  <2>2. CASE pc[h] \in RetryScope
    BY <1>1, <1>2, <2>1, <2>2
  <2>3. CASE pc[h] = "dlock"
    <3>1. DetectNothing(h)
      BY <1>2, <1>t, <2>3, VictimStep
    <3>2. lock' = Nobody
      BY <3>1 DEF DetectNothing, Next2Lock
    <3>3. \A g \in Messages : pc'[g] \notin {"handshake", "bootstrap"}
      BY <3>2, <1>t, MessageAssumption, DisciplineStep DEF IInv, LockDiscipline, Holding, StartPhases
    <3>4. state' = "ACTIVE"
      BY <1>2, <3>3 DEF Opened
    <3>. QED
      BY <2>1, <3>1, <3>4 DEF DetectNothing, Superseded
  <2>4. CASE pc[h] = "dclosing"
    <3>1. state' = "FAILED" /\ lock' = Nobody
      BY <1>t, <2>4, VictimStep DEF IInv, LockDiscipline, Holding, StateOf
    <3>2. \A g \in Messages : pc'[g] \notin {"handshake", "bootstrap"}
      BY <3>1, <1>t, MessageAssumption, DisciplineStep DEF IInv, LockDiscipline, Holding, StartPhases
    <3>. QED
      BY <1>2, <3>1, <3>2 DEF Opened
  <2>5. CASE pc[h] \in {"new", "notify", "done"}
    BY <1>2, <1>t, <2>1, <2>5, VictimStep DEF IInv, NewHasNoVictim
  <2>. QED
    BY <1>t, <2>2, <2>3, <2>4, <2>5 DEF TypeOK, Phases, Holding, RetryScope
<1>3. FreshForRetry'
  <2>. SUFFICES ASSUME NEW g \in Messages, Retrying(g)', pc'[g] \in RetryScope
                PROVE  /\ Opened' => transport' # died'[g]
                       /\ pc'[g] = "request" => tr'[g] # died'[g]
    BY DEF FreshForRetry
  <2>1. CASE g # h
    <3>1. pc[g] = pc'[g] /\ tr[g] = tr'[g] /\ died[g] = died'[g] /\ Retrying(g)
      BY <1>o, <2>1 DEF Retrying
    <3>. QED
      BY <1>1, <3>1 DEF IInv, FreshForRetry
  <2>2. CASE g = h
    BY <1>2, <1>t, <2>2, SendStep DEF Opened
  <2>. QED
    BY <2>1, <2>2
<1>4. NewHasNoVictim'
  BY <1>o, <1>t, VictimStep DEF IInv, NewHasNoVictim, Retrying
<1>. QED
  BY <1>3, <1>4

-----------------------------------------------------------------------------
(* The invariant and the theorems about the specification.                    *)

\* The invariant holds initially.
LEMMA IInvInit == Init => IInv
<1>1. Init => TypeOK /\ LockDiscipline
  BY TypeInit, DisciplineInit
<1>2. Init => OpenedTransport /\ FreshForRetry /\ NewHasNoVictim
  BY DEF Init, OpenedTransport, Opened, FreshForRetry, RetryScope, StartPhases,
         NewHasNoVictim, Retrying
<1>. QED
  BY <1>1, <1>2 DEF IInv

\* Every step keeps it.
LEMMA IInvStep == IInv /\ [Next]_vars => IInv'
<1>. SUFFICES ASSUME IInv, [Next]_vars PROVE IInv'
  OBVIOUS
<1>1. ASSUME NEW h \in Messages, Step(h) PROVE IInv'
  BY <1>1, TypeStep, DisciplineStep, OpenedTransportStep, FreshStep DEF IInv
<1>2. TypeOK /\ (Tick \/ UNCHANGED vars) => TypeOK'
  BY TypeTick
<1>3. CASE Tick \/ UNCHANGED vars
  <2>1. UNCHANGED <<state, lock, transport, made, closed, pc, tr, died>>
    BY <1>3 DEF Tick, vars, shared, local
  <2>. QED
    BY <1>2, <1>3, <2>1
    DEF IInv, LockDiscipline, OpenedTransport, Opened, FreshForRetry, NewHasNoVictim, Retrying
<1>. QED
  BY <1>1, <1>3 DEF Next, Idle

\* The inductive invariant holds of the router.
THEOREM InductiveInvariant == Spec => []IInv
  BY IInvInit, IInvStep, PTL DEF Spec

\* The lock belongs to the task inside a start or a detection, and is free only
\* in a settled state.
THEOREM LockDisciplined == Spec => []LockDiscipline
<1>1. IInv => LockDiscipline
  BY DEF IInv
<1>. QED
  BY <1>1, InductiveInvariant, PTL

\* In ACTIVE there is a transport, the newest one, never closed.
THEOREM ServiceHasTransport == Spec => []TransportInService
  BY IInvImplies, InductiveInvariant, PTL

\* No retry is sent on the transport whose death it recovers from.
THEOREM RetriesUseFreshTransport == Spec => []RetryUsesFreshTransport
  BY IInvImplies, InductiveInvariant, PTL

-----------------------------------------------------------------------------
(* Action properties.                                                         *)

\* ACTIVE is left by a detection alone, whose victim is in service.
LEMMA LeavesActiveStep ==
    IInv /\ [Next]_vars =>
      (state = "ACTIVE" /\ state' # "ACTIVE" => \E h \in Messages : died[h] = transport)
<1>. SUFFICES ASSUME IInv, [Next]_vars, state = "ACTIVE", state' # "ACTIVE"
              PROVE  \E h \in Messages : died[h] = transport
  OBVIOUS
<1>1. PICK h \in Messages : Step(h)
  BY DEF Next, Idle, Tick, vars, shared, local
<1>2. Outside(h) \/ Takes(h) \/ Moves(h) \/ Releases(h)
  BY <1>1, StepKind DEF IInv
<1>3. Takes(h) /\ pc'[h] = "dclosing"
  BY <1>2 DEF Outside, Takes, Moves, Releases
<1>4. DetectDeath(h)
  BY <1>1, <1>3, DclosingStep DEF IInv, Takes, Holding
<1>. QED
  BY <1>4 DEF DetectDeath, Superseded

\* A late error of a replaced transport never takes its successor down.
THEOREM ActiveLeftOnlyOnDeath == Spec => LeavesActiveOnlyOnDeath
<1>1. IInv /\ [Next]_vars =>
        [state = "ACTIVE" /\ state' # "ACTIVE"
           => \E h \in Messages : died[h] = transport]_vars
  BY LeavesActiveStep
<1>. QED
  BY <1>1, InductiveInvariant, PTL DEF Spec, LeavesActiveOnlyOnDeath

\* How a task leaves the start: the lock is free and, unless ACTIVE, the failure
\* is on record with age 0.
LEMMA SettlesStep ==
    ASSUME IInv, NEW h \in Messages, Step(h),
           pc[h] \in StartPhases, pc'[h] \notin StartPhases
    PROVE  /\ lock' = Nobody
           /\ \/ state' = "ACTIVE"
              \/ state' = "FAILED" /\ failure' \in {Fresh("START"), Fresh("MIDSESSION")}
<1>t. TypeOK
  BY DEF IInv
<1>1. pc'[h] \notin Holding
  BY <1>t, DclosingStep DEF Holding, StartPhases, DetectDeath
<1>2. Releases(h)
  BY <1>1, <1>t, StepKind DEF IInv, Outside, Takes, Moves, Holding
<1>3. CASE Activate(h)
  BY <1>2, <1>3 DEF Activate, Releases
<1>4. CASE StartFails(h) \/ HandshakeClosed(h) \/ CacheRaises(h)
  BY <1>2, <1>4 DEF StartFails, HandshakeClosed, CacheRaises, Refuse, FailureAfter, Releases
<1>5. CASE RetryTimesOut(h)
  BY <1>2, <1>5 DEF RetryTimesOut, AbandonStart, Releases
<1>6. CASE CommandSucceeds(h) \/ HealthPassed(h) \/ Connected(h)
             \/ HandshakeFails(h) \/ HandshakeThenBootstrap(h)
  BY <1>t, <1>6 DEF TypeOK, CommandSucceeds, HealthPassed, Connected, HandshakeFails,
       HandshakeThenBootstrap, Goto, StartPhases
<1>. QED
  BY <1>3, <1>4, <1>5, <1>6
  DEF Step, Begin, Locked, Launch, Opening, Responds, Notifies, Detect, Closes,
      BeginUnknown, BeginCached, BeginRequest, BeginNote, LockFindsActive,
      LockRefused, LockStarts, AwaitEnds, Reply, RequestDies, RetryDies,
      RequestRaises, NotifyEnds, NotifyDies, DetectNothing, DetectDeath,
      DetectClosed, StartPhases

\* However a start ends, cancellation included, the state is ACTIVE, or FAILED
\* with a failure on record, and the lock is free: the docstring of _do_start.
THEOREM StartsSettle == Spec => StartSettles
<1>1. IInv /\ [Next]_vars =>
        [\A h \in Messages :
           pc[h] \in StartPhases /\ pc'[h] \notin StartPhases
             => /\ lock' = Nobody
                /\ \/ state' = "ACTIVE"
                   \/ state' = "FAILED" /\ failure' \in {Fresh("START"), Fresh("MIDSESSION")}
        ]_vars
  <2>. SUFFICES ASSUME IInv, [Next]_vars, NEW h \in Messages,
                       pc[h] \in StartPhases, pc'[h] \notin StartPhases
                PROVE  /\ lock' = Nobody
                       /\ \/ state' = "ACTIVE"
                          \/ state' = "FAILED" /\ failure' \in {Fresh("START"), Fresh("MIDSESSION")}
    OBVIOUS
  <2>1. PICK g \in Messages : Step(g)
    BY DEF Next, Idle, Tick, vars, shared, local
  <2>2. g = h
    BY <2>1, OthersStay DEF IInv
  <2>. QED
    BY <2>1, <2>2, SettlesStep
<1>. QED
  BY <1>1, InductiveInvariant, PTL DEF Spec, StartSettles

-----------------------------------------------------------------------------
(* The refinement. The router's state and lock are the state and owner of      *)
(* BackendLifecycle: a task that takes the lock claims it, one that keeps it   *)
(* advances or stutters, one that releases it yields.                          *)

\* Initial states map to initial states.
LEMMA LifecycleInit == Init => Lifecycle!Init
  BY DEF Init, Lifecycle!Init

\* Every step maps to a step of BackendLifecycle or to a stutter.
LEMMA LifecycleStep == IInv /\ [Next]_vars => [Lifecycle!Next]_(Lifecycle!vars)
<1>. SUFFICES ASSUME IInv, [Next]_vars PROVE [Lifecycle!Next]_(Lifecycle!vars)
  OBVIOUS
<1>. USE DEF Lifecycle!TRANSITIONS, Lifecycle!Settled
<1>1. ASSUME NEW h \in Messages, Step(h) PROVE [Lifecycle!Next]_(Lifecycle!vars)
  <2>1. CASE Outside(h)
    BY <2>1 DEF Outside, Lifecycle!vars
  <2>2. CASE Takes(h)
    <3>1. Lifecycle!Claim(h)
      BY <2>2 DEF Takes, Lifecycle!Claim
    <3>. QED
      BY <3>1 DEF Lifecycle!Next
  <2>3. CASE Moves(h)
    <3>1. Lifecycle!Advance(h) \/ UNCHANGED Lifecycle!vars
      BY <2>3 DEF Moves, Lifecycle!Advance, Lifecycle!vars
    <3>. QED
      BY <3>1 DEF Lifecycle!Next
  <2>4. CASE Releases(h)
    <3>1. Lifecycle!Yield(h)
      BY <2>4 DEF Releases, Lifecycle!Yield
    <3>. QED
      BY <3>1 DEF Lifecycle!Next
  <2>. QED
    BY <1>1, <2>1, <2>2, <2>3, <2>4, StepKind DEF IInv
<1>2. CASE Tick \/ UNCHANGED vars
  BY <1>2 DEF Tick, vars, shared, local, Lifecycle!vars
<1>. QED
  BY <1>1, <1>2 DEF Next, Idle

\* The router drives the backend as BackendLifecycle says: one owner at a time,
\* legal transitions only, no unsettled state left behind.
THEOREM RouterImplementsLifecycle == Spec => ImplementsLifecycle
<1>. QED
  BY LifecycleInit, LifecycleStep, InductiveInvariant, PTL
  DEF Spec, ImplementsLifecycle, Lifecycle!Spec

----------------------------------------------------------------------------
(* Recovery. What a step does to the variables the invariants above say      *)
(* nothing about: one lemma for each group of them.                          *)

\* A step of one task leaves the others' answers and restarts alone. A task is
\* answered as it ends, and restarts the backend by LockStarts alone.
LEMMA AnswerStep ==
    ASSUME TypeOK, NEW h \in Messages, Step(h)
    PROVE  /\ \A g \in Messages \ {h} :
                 answer'[g] = answer[g] /\ restarted'[g] = restarted[g]
           /\ answer'[h] # answer[h] => pc'[h] = "done"
           /\ answer'[h] # answer[h] /\ answer'[h] = "timeout" => RetryTimesOut(h)
           /\ answer'[h] # answer[h] /\ answer'[h] = "unreadable" => CacheRaises(h)
           /\ restarted'[h] # restarted[h] => LockStarts(h) /\ Retrying(h)
  BY DEF TypeOK, Step, Begin, Locked, Launch, Opening, Responds, Notifies,
         Detect, Closes, BeginUnknown, BeginCached, BeginRequest, BeginNote,
         LockFindsActive, LockRefused, LockStarts, AwaitEnds, CommandSucceeds,
         HealthPassed, StartFails, Connected, HandshakeFails, HandshakeClosed,
         HandshakeThenBootstrap, Activate, CacheRaises, Reply, RequestDies, RetryDies,
         RequestRaises, NotifyEnds, NotifyDies, DetectNothing, DetectDeath,
         DetectClosed, RetryTimesOut, EnsureActive, AfterDetection, Send,
         Refuse, Goto, Finish, Retrying, shared, local

\* The answers that go with a failure on record, of a retry and of a start.
MidsessionAnswers == {"raised", "restart_failed", "second_failure", "timeout", "unreadable"}
StartAnswers      == {"unavailable", "unreadable"}

\* The failure on record: what a step may write there, and as what the task that
\* writes it goes on.
LEMMA FailureStep ==
    ASSUME TypeOK, NEW h \in Messages, Step(h)
    PROVE  /\ \/ failure' = failure
              \/ /\ failure' = Fresh("MIDSESSION")
                 /\ Retrying(h)' /\ pc'[h] = "done"
                 /\ answer'[h] \in MidsessionAnswers
              \/ /\ failure' = Fresh("START")
                 /\ \/ pc'[h] = "hsclosing"
                    \/ pc'[h] = "done" /\ answer'[h] \in StartAnswers
           /\ pc[h] = "hsclosing" => \/ failure' = Fresh("MIDSESSION")
                                      \/ answer'[h] = "unavailable"
  BY DEF TypeOK, Step, Begin, Locked, Launch, Opening, Responds, Notifies,
         Detect, Closes, BeginUnknown, BeginCached, BeginRequest, BeginNote,
         LockFindsActive, LockRefused, LockStarts, AwaitEnds, CommandSucceeds,
         HealthPassed, StartFails, Connected, HandshakeFails, HandshakeClosed,
         HandshakeThenBootstrap, Activate, CacheRaises, Reply, RequestDies, RetryDies,
         RequestRaises, NotifyEnds, NotifyDies, DetectNothing, DetectDeath,
         DetectClosed, RetryTimesOut, EnsureActive, AfterDetection, Send,
         Refuse, Goto, Finish, Retrying, shared, local, FailureAfter, Fresh,
         MidsessionAnswers, StartAnswers

\* The transports: one is added as it becomes the reference, the reference is
\* changed with the lock held, and none is opened again.
LEMMA TransportStep ==
    ASSUME TypeOK, NEW h \in Messages, Step(h)
    PROVE  /\ closed \subseteq closed' /\ closed' \subseteq closed \cup {transport}
           /\ transport' = transport \/ pc[h] \in {"connecting", "hsclosing", "dclosing"}
           /\ made' = made \/ (made' = made + 1 /\ transport' = made + 1
                                 /\ pc[h] = "connecting" /\ pc'[h] = "handshake")
           /\ closed' = closed \/ DetectDeath(h) \/ pc'[h] = "hsclosing"
  BY DEF TypeOK, Step, Begin, Locked, Launch, Opening, Responds, Notifies,
         Detect, Closes, BeginUnknown, BeginCached, BeginRequest, BeginNote,
         LockFindsActive, LockRefused, LockStarts, AwaitEnds, CommandSucceeds,
         HealthPassed, StartFails, Connected, HandshakeFails, HandshakeClosed,
         HandshakeThenBootstrap, Activate, CacheRaises, Reply, RequestDies, RetryDies,
         RequestRaises, NotifyEnds, NotifyDies, DetectNothing, DetectDeath,
         DetectClosed, RetryTimesOut, EnsureActive, AfterDetection, Send,
         Refuse, Goto, Finish, Retrying, shared, local, Closing

\* The task's own call and victim: a call is sent on the transport in service,
\* and the victim is the transport of the call that died.
LEMMA CallStep ==
    ASSUME IInv, NEW h \in Messages, Step(h)
    PROVE  /\ pc'[h] \in {"request", "notify"} => tr'[h] = transport' /\ state' = "ACTIVE"
           /\ tr'[h] = tr[h] \/ pc'[h] \in {"request", "notify"}
           /\ \/ died'[h] = died[h]
              \/ /\ died'[h] = tr[h] /\ pc[h] \in {"request", "notify"}
                 /\ pc[h] = "request" => ~Retrying(h)
                 /\ pc'[h] = "dlock"
           /\ pc'[h] = "notify" => pc[h] = "new" /\ died'[h] = died[h]
<1>t. TypeOK
  BY DEF IInv
<1>1. pc'[h] = "notify" => tr'[h] = transport' /\ state' = "ACTIVE"
  BY <1>t DEF TypeOK, Step, Begin, Locked, Launch, Opening, Responds, Notifies,
         Detect, Closes, BeginUnknown, BeginCached, BeginRequest, BeginNote,
         LockFindsActive, LockRefused, LockStarts, AwaitEnds, CommandSucceeds,
         HealthPassed, StartFails, Connected, HandshakeFails, HandshakeClosed,
         HandshakeThenBootstrap, Activate, CacheRaises, Reply, RequestDies, RetryDies,
         RequestRaises, NotifyEnds, NotifyDies, DetectNothing, DetectDeath,
         DetectClosed, RetryTimesOut, EnsureActive, AfterDetection, Send,
         Refuse, Goto, Finish, Retrying, shared, local
<1>2. /\ tr'[h] = tr[h] \/ pc'[h] \in {"request", "notify"}
      /\ \/ died'[h] = died[h]
         \/ /\ died'[h] = tr[h] /\ pc[h] \in {"request", "notify"}
            /\ pc[h] = "request" => ~Retrying(h)
            /\ pc'[h] = "dlock"
      /\ pc'[h] = "notify" => pc[h] = "new" /\ died'[h] = died[h]
  BY <1>t DEF TypeOK, Step, Begin, Locked, Launch, Opening, Responds, Notifies,
         Detect, Closes, BeginUnknown, BeginCached, BeginRequest, BeginNote,
         LockFindsActive, LockRefused, LockStarts, AwaitEnds, CommandSucceeds,
         HealthPassed, StartFails, Connected, HandshakeFails, HandshakeClosed,
         HandshakeThenBootstrap, Activate, CacheRaises, Reply, RequestDies, RetryDies,
         RequestRaises, NotifyEnds, NotifyDies, DetectNothing, DetectDeath,
         DetectClosed, RetryTimesOut, EnsureActive, AfterDetection, Send,
         Refuse, Goto, Finish, Retrying, shared, local
<1>. QED
  BY <1>1, <1>2, SendStep

\* The lock's queue: the task stays out of it, joins it, is served, is served
\* and joins again, or gives up.
LEMMA QueueStep ==
    ASSUME TypeOK, NEW h \in Messages, Step(h)
    PROVE  \/ /\ pc[h] \notin {"lock", "dlock"} /\ pc'[h] \notin {"lock", "dlock"}
              /\ lockq' = lockq
           \/ /\ pc[h] \notin {"lock", "dlock"} /\ pc'[h] \in {"lock", "dlock"}
              /\ lockq' = Append(lockq, h)
           \/ /\ Next2Lock(h) /\ pc'[h] \notin {"lock", "dlock"}
              /\ lockq' = Tail(lockq)
           \/ /\ Next2Lock(h) /\ pc'[h] \in {"lock", "dlock"}
              /\ lockq' = Append(Tail(lockq), h)
           \/ /\ pc'[h] \notin {"lock", "dlock"}
              /\ \E i \in DOMAIN lockq : lockq[i] = h /\ lockq' = RemoveAt(lockq, i)
  BY DEF TypeOK, Step, Begin, Locked, Launch, Opening, Responds, Notifies,
         Detect, Closes, BeginUnknown, BeginCached, BeginRequest, BeginNote,
         LockFindsActive, LockRefused, LockStarts, AwaitEnds, CommandSucceeds,
         HealthPassed, StartFails, Connected, HandshakeFails, HandshakeClosed,
         HandshakeThenBootstrap, Activate, CacheRaises, Reply, RequestDies, RetryDies,
         RequestRaises, NotifyEnds, NotifyDies, DetectNothing, DetectDeath,
         DetectClosed, RetryTimesOut, EnsureActive, AfterDetection, Send,
         Refuse, Goto, Finish, Retrying, shared, local, RetryScope, StartPhases

\* How a task comes to be inside a start.
LEMMA StartingStep ==
    ASSUME TypeOK, NEW h \in Messages, Step(h), pc'[h] \in StartPhases
    PROVE  pc[h] \in StartPhases \/ LockStarts(h)
  BY DEF TypeOK, Step, Begin, Locked, Launch, Opening, Responds, Notifies,
         Detect, Closes, BeginUnknown, BeginCached, BeginRequest, BeginNote,
         LockFindsActive, LockRefused, LockStarts, AwaitEnds, CommandSucceeds,
         HealthPassed, StartFails, Connected, HandshakeFails, HandshakeClosed,
         HandshakeThenBootstrap, Activate, CacheRaises, Reply, RequestDies, RetryDies,
         RequestRaises, NotifyEnds, NotifyDies, DetectNothing, DetectDeath,
         DetectClosed, RetryTimesOut, EnsureActive, AfterDetection, Send,
         Refuse, Goto, Finish, Retrying, shared, local, StartPhases

----------------------------------------------------------------------------
(* The parts of the invariant of recovery.                                   *)

\* An answer is a task's last word.
AnsweredIsDone == \A h \in Messages : answer[h] # "none" => pc[h] = "done"

\* The lock's queue holds the tasks that are suspended on the lock.
Waiting == {h \in Messages : pc[h] \in {"lock", "dlock"}}
LockQueue == Line(lockq, Waiting)

\* A transport that was in service, and is still or was closed.
InUse(t) == t \in closed \/ (state = "ACTIVE" /\ transport = t)

\* Calls are made on such transports only, and so are the deaths they find. A
\* notification is never sent again.
SentOnService ==
    \A h \in Messages :
       /\ pc[h] \in {"request", "notify"} => tr[h] # 0
       /\ tr[h] # 0 => InUse(tr[h])
       /\ Retrying(h) => InUse(died[h])
       /\ pc[h] = "notify" => ~Retrying(h)

\* A restart is of a retry, whose victim is closed by then.
RestartOfRetry ==
    \A h \in Messages :
       /\ restarted[h] # 0 => Retrying(h) /\ h \in Requests /\ died[h] \in closed
       /\ Retrying(h) /\ pc[h] \in StartPhases => restarted[h] # 0

\* Before the newest restart has connected: its task is at it, or its failure
\* arms the cooldown, or nobody is left whose call died with the same transport.
Launching(h) == lock = h /\ pc[h] \in {"starting", "polling", "connecting"}
CoolsDown    == lock = Nobody /\ state = "FAILED" /\ Blocked
NoMoreOf(t)  ==
    \A h \in Messages :
       pc[h] # "done" => /\ died[h] # t
                         /\ pc[h] \in {"request", "notify"} => tr[h] # t

RestartsSettle ==
    \A g \in Messages :
       restarted[g] = made /\ restarted[g] # 0 =>
          Launching(g) \/ CoolsDown \/ NoMoreOf(died[g])

\* The open transports that are neither in service nor about to be.
Stray == {t \in 1..made : t \notin closed /\ ~(t = transport /\ Opened)}

StrayByBrokenStart ==
    Cardinality(Stray) <= Cardinality(BrokenStarts) /\ 0 \notin closed

RecoveryInv ==
    /\ IInv
    /\ AnsweredIsDone
    /\ OrphansAreFailedRetries
    /\ CooldownHasCause
    /\ LockQueue
    /\ SentOnService
    /\ RestartOfRetry
    /\ RestartsSettle
    /\ OneRestartPerDeath
    /\ StrayByBrokenStart

----------------------------------------------------------------------------
(* Answers, identifiers and the failure on record.                           *)

\* Only a task that has ended has an answer.
LEMMA AnsweredStep ==
    ASSUME RecoveryInv, NEW h \in Messages, Step(h)
    PROVE  AnsweredIsDone'
<1>t. TypeOK
  BY DEF RecoveryInv, IInv
<1>1. ASSUME NEW g \in Messages, answer'[g] # "none" PROVE pc'[g] = "done"
  <2>1. CASE g # h
    BY <1>1, <1>t, <2>1, AnswerStep, OthersStay DEF RecoveryInv, AnsweredIsDone
  <2>2. CASE g = h
    <3>1. answer[h] = "none"
      BY <1>t, VictimStep DEF RecoveryInv, AnsweredIsDone
    <3>. QED
      BY <1>1, <1>t, <2>2, <3>1, AnswerStep
  <2>. QED
    BY <2>1, <2>2
<1>. QED
  BY <1>1 DEF AnsweredIsDone

\* What a step of a task does to the identifiers: those of other requests stay,
\* and its own is the one of the request it has in flight, or of a failed retry.
LEMMA IdentifierStep ==
    ASSUME TypeOK, OrphansAreFailedRetries, NEW h \in Messages, Step(h),
           answer[h] = "none"
    PROVE  /\ \A e \in idmap' : e[1] # h => e \in idmap
           /\ \A e \in idmap' : e[1] = h =>
                 \/ pc'[h] = "request" /\ e[2] = Attempt(h)'
                 \/ e[2] = 2 /\ answer'[h] \in {"second_failure", "timeout", "raised"}
<1>1. \A e \in idmap : e[1] = h => pc[h] = "request" /\ e[2] = Attempt(h)
  BY DEF OrphansAreFailedRetries
<1>e. \A e \in idmap : e = <<e[1], e[2]>>
  BY DEF TypeOK
<1>2. CASE Begin(h) \/ Locked(h) \/ AwaitEnds(h) \/ Detect(h) \/ DetectClosed(h) \/ Activate(h)
  <2>1. pc[h] # "request" /\ died' = died
    BY <1>2 DEF TypeOK, Begin, BeginUnknown, BeginCached, BeginRequest, BeginNote, Locked,
         LockFindsActive, LockRefused, LockStarts, AwaitEnds, Detect, DetectNothing,
         DetectDeath, DetectClosed, Activate, Send, EnsureActive, AfterDetection, Refuse, shared, local
  <2>2. idmap' = idmap \/ (idmap' = Wrapped(h) /\ pc'[h] = "request")
    BY <1>2 DEF TypeOK, Begin, BeginUnknown, BeginCached, BeginRequest, BeginNote, Locked,
         LockFindsActive, LockRefused, LockStarts, AwaitEnds, Detect, DetectNothing,
         DetectDeath, DetectClosed, Activate, Send, EnsureActive, AfterDetection, Goto, Finish, Refuse, shared, local
  <2>. QED
    BY <1>1, <2>1, <2>2 DEF Wrapped, Attempt, Retrying
<1>3. CASE Launch(h) \/ HandshakeClosed(h) \/ Notifies(h) \/ Connected(h) \/ HandshakeFails(h)
             \/ HandshakeThenBootstrap(h) \/ StartFails(h) \/ CacheRaises(h)
  <2>1. pc[h] # "request" /\ idmap' = idmap
    BY <1>3 DEF Launch, HandshakeClosed, Notifies, Connected, HandshakeFails, HandshakeThenBootstrap,
         StartFails, CacheRaises, CommandSucceeds, HealthPassed, NotifyEnds, NotifyDies, Refuse,
         shared, local
  <2>. QED
    BY <1>1, <2>1
<1>4. CASE Reply(h) \/ RequestDies(h) \/ (RequestRaises(h) /\ ~Retrying(h))
  <2>1. idmap' = Unwrapped(h)
    BY <1>4 DEF Reply, RequestDies, RequestRaises
  <2>2. \A e \in idmap' : e \in idmap /\ e[1] # h
    BY <1>1, <1>e, <2>1 DEF Unwrapped
  <2>. QED
    BY <2>2
<1>5. CASE RetryDies(h) \/ (RequestRaises(h) /\ Retrying(h)) \/ RetryTimesOut(h)
  <2>1. idmap' = idmap /\ Attempt(h) = 2 /\ answer'[h] \in {"second_failure", "timeout", "raised"}
    BY <1>5 DEF TypeOK, RetryDies, RequestRaises, RetryTimesOut, Finish, Attempt
  <2>. QED
    BY <1>1, <2>1
<1>. QED
  BY <1>2, <1>3, <1>4, <1>5 DEF Step, Opening, Responds, Closes

\* An identifier without a request in flight stays that of a failed retry.
LEMMA OrphansStep ==
    ASSUME RecoveryInv, NEW h \in Messages, Step(h)
    PROVE  OrphansAreFailedRetries'
<1>t. TypeOK /\ TypeOK' /\ OrphansAreFailedRetries
  BY TypeStep DEF RecoveryInv, IInv
<1>1. answer[h] = "none"
  BY <1>t, VictimStep DEF RecoveryInv, AnsweredIsDone
<1>2. ASSUME NEW e \in idmap'
      PROVE  \/ pc'[e[1]] = "request" /\ e[2] = Attempt(e[1])'
             \/ e[2] = 2 /\ answer'[e[1]] \in {"second_failure", "timeout", "raised"}
  <2>1. CASE e[1] = h
    BY <1>t, <1>1, <2>1, IdentifierStep
  <2>2. CASE e[1] # h
    <3>1. e \in idmap /\ e[1] \in Messages
      BY <1>t, <1>1, <2>2, IdentifierStep DEF TypeOK, Messages, Requests
    <3>2. /\ pc'[e[1]] = pc[e[1]] /\ died'[e[1]] = died[e[1]]
          /\ answer'[e[1]] = answer[e[1]]
      BY <1>t, <2>2, <3>1, OthersStay, AnswerStep
    <3>. QED
      BY <1>t, <3>1, <3>2 DEF OrphansAreFailedRetries, Attempt, Retrying
  <2>. QED
    BY <2>1, <2>2
<1>. QED
  BY <1>2 DEF OrphansAreFailedRetries

\* A failure on record keeps its cause.
LEMMA CauseStep ==
    ASSUME RecoveryInv, NEW h \in Messages, Step(h)
    PROVE  CooldownHasCause'
<1>t. TypeOK
  BY DEF RecoveryInv, IInv
<1>h. pc[h] # "done" /\ answer[h] = "none"
  BY <1>t, VictimStep DEF RecoveryInv, AnsweredIsDone
<1>o. \A g \in Messages \ {h} :
         pc'[g] = pc[g] /\ died'[g] = died[g] /\ answer'[g] = answer[g]
  BY <1>t, OthersStay, AnswerStep
<1>1. CASE failure' = Fresh("MIDSESSION") /\ Retrying(h)'
             /\ answer'[h] \in MidsessionAnswers
  BY <1>1 DEF CooldownHasCause, Fresh, MidsessionAnswers
<1>2. CASE failure' = Fresh("START") /\ (pc'[h] = "hsclosing" \/ answer'[h] \in StartAnswers)
  BY <1>2 DEF CooldownHasCause, Fresh, StartAnswers
<1>3. CASE failure' = failure
  <2>1. ASSUME failure.reason = "MIDSESSION"
        PROVE  \E g \in Messages : /\ Retrying(g)'
                   /\ answer'[g] \in MidsessionAnswers
    <3>1. PICK g \in Messages : /\ Retrying(g)
                   /\ answer[g] \in MidsessionAnswers
      BY <2>1 DEF RecoveryInv, CooldownHasCause, MidsessionAnswers
    <3>2. g # h
      BY <1>h, <3>1 DEF MidsessionAnswers
    <3>. QED
      BY <1>o, <3>1, <3>2 DEF Retrying
  <2>2. ASSUME failure.reason = "START"
        PROVE  \E g \in Messages : pc'[g] = "hsclosing" \/ answer'[g] \in StartAnswers
    <3>1. PICK g \in Messages : pc[g] = "hsclosing" \/ answer[g] \in StartAnswers
      BY <2>2 DEF RecoveryInv, CooldownHasCause, StartAnswers
    <3>2. CASE g # h
      BY <1>o, <3>1, <3>2
    <3>3. CASE g = h
      BY <1>t, <1>h, <1>3, <2>2, <3>1, <3>3, FailureStep DEF Fresh, StartAnswers
    <3>. QED
      BY <3>2, <3>3
  <2>. QED
    BY <1>3, <2>1, <2>2 DEF CooldownHasCause, MidsessionAnswers, StartAnswers
<1>. QED
  BY <1>t, <1>1, <1>2, <1>3, FailureStep

----------------------------------------------------------------------------
(* The queue of the lock.                                                    *)

\* It goes on holding the tasks that wait for the lock.
LEMMA LockQueueStep ==
    ASSUME TypeOK, LockQueue, NEW h \in Messages, Step(h)
    PROVE  LockQueue'
<1>o. \A g \in Messages \ {h} : pc'[g] = pc[g]
  BY OthersStay
<1>w. Waiting' = IF pc'[h] \in {"lock", "dlock"} THEN Waiting \cup {h} ELSE Waiting \ {h}
  BY <1>o DEF Waiting
<1>q. Line(lockq, Waiting)
  BY DEF LockQueue
<1>1. CASE /\ pc[h] \notin {"lock", "dlock"} /\ pc'[h] \notin {"lock", "dlock"}
           /\ lockq' = lockq
  <2>1. Waiting' = Waiting
    BY <1>1, <1>w DEF Waiting
  <2>. QED
    BY <1>1, <1>q, <2>1 DEF LockQueue
<1>2. CASE /\ pc[h] \notin {"lock", "dlock"} /\ pc'[h] \in {"lock", "dlock"}
           /\ lockq' = Append(lockq, h)
  <2>1. h \notin Waiting /\ Waiting' = Waiting \cup {h}
    BY <1>2, <1>w DEF Waiting
  <2>2. Line(Append(lockq, h), Waiting \cup {h})
    BY <1>q, <2>1, LineJoined
  <2>. QED
    BY <1>2, <2>1, <2>2 DEF LockQueue
<1>3. CASE Next2Lock(h) /\ pc'[h] \notin {"lock", "dlock"} /\ lockq' = Tail(lockq)
  <2>1. Line(Tail(lockq), Waiting \ {h})
    BY <1>3, <1>q, LineServed DEF Next2Lock
  <2>. QED
    BY <1>3, <1>w, <2>1 DEF LockQueue
<1>4. CASE Next2Lock(h) /\ pc'[h] \in {"lock", "dlock"} /\ lockq' = Append(Tail(lockq), h)
  <2>1. Line(Tail(lockq), Waiting \ {h})
    BY <1>4, <1>q, LineServed DEF Next2Lock
  <2>2. Line(Append(Tail(lockq), h), (Waiting \ {h}) \cup {h})
    BY <2>1, LineJoined
  <2>3. (Waiting \ {h}) \cup {h} = Waiting'
    BY <1>4, <1>w
  <2>. QED
    BY <1>4, <2>2, <2>3 DEF LockQueue
<1>5. CASE /\ pc'[h] \notin {"lock", "dlock"}
           /\ \E i \in DOMAIN lockq : lockq[i] = h /\ lockq' = RemoveAt(lockq, i)
  <2>1. PICK i \in 1..Len(lockq) : lockq[i] = h /\ lockq' = RemoveAt(lockq, i)
    BY <1>5 DEF TypeOK
  <2>2. Line(RemoveAt(lockq, i), Waiting \ {lockq[i]})
    BY <1>q, LineLeft
  <2>. QED
    BY <1>5, <1>w, <2>1, <2>2 DEF LockQueue
<1>. QED
  BY <1>1, <1>2, <1>3, <1>4, <1>5, QueueStep

----------------------------------------------------------------------------
(* The transports that calls are made on.                                    *)

\* A transport in service stays so, or is closed as ACTIVE is left.
LEMMA ServiceStep ==
    ASSUME IInv, NEW h \in Messages, Step(h), state = "ACTIVE"
    PROVE  (state' = "ACTIVE" /\ transport' = transport) \/ transport \in closed'
<1>t. TypeOK /\ LockDiscipline
  BY DEF IInv
<1>1. Outside(h) \/ Takes(h) \/ Moves(h) \/ Releases(h)
  BY <1>t, StepKind
<1>2. CASE Outside(h)
  BY <1>t, <1>2, TransportStep DEF Outside, Holding, StartPhases
<1>3. CASE Takes(h)
  <2>1. DetectDeath(h)
    BY <1>t, <1>3, DclosingStep DEF Takes
  <2>. QED
    BY <2>1 DEF DetectDeath, Closing
<1>. QED
  BY <1>1, <1>2, <1>3 DEF Moves, Releases, StateOf, Holding, StartPhases

\* So what was in service is still, or was closed.
LEMMA InUseStep ==
    ASSUME IInv, NEW h \in Messages, Step(h), NEW t, InUse(t)
    PROVE  InUse(t)'
<1>1. closed \subseteq closed'
  BY TransportStep DEF IInv
<1>. QED
  BY <1>1, ServiceStep DEF InUse

\* Calls are made on the transport in service.
LEMMA SentStep ==
    ASSUME IInv, SentOnService, NEW h \in Messages, Step(h)
    PROVE  SentOnService'
<1>t. TypeOK /\ OpenedTransport'
  BY OpenedTransportStep DEF IInv
<1>i. \A t : InUse(t) => InUse(t)'
  BY InUseStep
<1>o. \A g \in Messages \ {h} : pc'[g] = pc[g] /\ tr'[g] = tr[g] /\ died'[g] = died[g]
  BY <1>t, OthersStay
<1>s. pc'[h] \in {"request", "notify"} => tr'[h] # 0 /\ InUse(tr[h])'
  BY <1>t, CallStep DEF InUse, OpenedTransport, Opened
<1>1. ASSUME NEW g \in Messages
      PROVE  /\ pc'[g] \in {"request", "notify"} => tr'[g] # 0
             /\ tr'[g] # 0 => InUse(tr[g])'
             /\ Retrying(g)' => InUse(died[g])'
             /\ pc'[g] = "notify" => ~Retrying(g)'
  <2>1. CASE g # h
    BY <1>i, <1>o, <2>1 DEF SentOnService, Retrying
  <2>2. CASE g = h
    <3>1. tr'[h] # 0 => InUse(tr[h])'
      BY <1>i, <1>s, CallStep DEF SentOnService
    <3>2. Retrying(h)' => InUse(died[h])'
      BY <1>i, CallStep DEF SentOnService, Retrying
    <3>3. pc'[h] = "notify" => ~Retrying(h)'
      BY CallStep DEF IInv, NewHasNoVictim, Retrying
    <3>. QED
      BY <1>s, <2>2, <3>1, <3>2, <3>3
  <2>. QED
    BY <2>1, <2>2
<1>. QED
  BY <1>1 DEF SentOnService, InUse

----------------------------------------------------------------------------
(* The restarts.                                                             *)

\* A restart records the transports made when a retry starts the backend. Its
\* victim is closed: it was in service, and ACTIVE was left.
LEMMA RestartStep ==
    ASSUME RecoveryInv, NEW h \in Messages, LockStarts(h), Retrying(h)
    PROVE  /\ h \in Requests /\ died[h] \in closed
           /\ restarted'[h] = made /\ made # 0
           /\ Launching(h)'
<1>t. TypeOK
  BY DEF RecoveryInv, IInv
<1>1. h \in Requests
  BY <1>t DEF TypeOK, LockStarts, NotePhases, Messages
<1>2. died[h] \in closed
  BY DEF RecoveryInv, SentOnService, InUse, LockStarts
<1>3. restarted'[h] = made /\ made # 0
  BY <1>t DEF TypeOK, LockStarts, Retrying
<1>4. lock' = h /\ pc'[h] = "starting"
  BY <1>t DEF TypeOK, LockStarts, Goto
<1>. QED
  BY <1>1, <1>2, <1>3, <1>4 DEF Launching

\* A task that restarted goes on as a retry of the same death.
LEMMA RestartedStep ==
    ASSUME RecoveryInv, NEW h \in Messages, Step(h), NEW g \in Messages,
           restarted'[g] # 0
    PROVE  /\ died'[g] = died[g] /\ Retrying(g) /\ g \in Requests
           /\ died[g] \in closed /\ died'[g] \in closed'
           /\ \/ restarted'[g] = restarted[g]
              \/ g = h /\ LockStarts(h) /\ restarted'[h] = made /\ Launching(h)'
<1>t. TypeOK /\ SentOnService /\ IInv
  BY DEF RecoveryInv, IInv
<1>c. closed \subseteq closed'
  BY <1>t, TransportStep
<1>1. CASE restarted'[g] = restarted[g]
  <2>1. Retrying(g) /\ g \in Requests /\ died[g] \in closed
    BY <1>1 DEF RecoveryInv, RestartOfRetry
  <2>2. CASE g # h
    BY <1>t, <1>c, <1>1, <2>1, <2>2, OthersStay
  <2>3. CASE g = h
    BY <1>t, <1>c, <1>1, <2>1, <2>3, CallStep DEF SentOnService
  <2>. QED
    BY <2>2, <2>3
<1>2. CASE restarted'[g] # restarted[g]
  <2>1. g = h /\ LockStarts(h) /\ Retrying(h)
    BY <1>t, <1>2, AnswerStep
  <2>2. died'[h] = died[h]
    BY <2>1 DEF LockStarts
  <2>. QED
    BY <1>c, <2>1, <2>2, RestartStep
<1>. QED
  BY <1>1, <1>2

\* Restarts are of retries.
LEMMA RestartOfRetryStep ==
    ASSUME RecoveryInv, NEW h \in Messages, Step(h)
    PROVE  RestartOfRetry'
<1>t. TypeOK
  BY DEF RecoveryInv, IInv
<1>1. ASSUME NEW g \in Messages, restarted'[g] # 0
      PROVE  Retrying(g)' /\ g \in Requests /\ died'[g] \in closed'
  BY <1>1, RestartedStep DEF Retrying
<1>2. ASSUME NEW g \in Messages, Retrying(g)', pc'[g] \in StartPhases
      PROVE  restarted'[g] # 0
  <2>1. CASE g # h
    BY <1>2, <1>t, <2>1, OthersStay, AnswerStep DEF RecoveryInv, RestartOfRetry, Retrying
  <2>2. CASE g = h
    <3>1. Retrying(h)
      BY <1>2, <2>2, CallStep DEF RecoveryInv, Retrying, StartPhases
    <3>2. CASE LockStarts(h)
      BY <2>2, <3>1, <3>2, RestartStep
    <3>3. CASE pc[h] \in StartPhases
      <4>1. restarted[h] # 0
        BY <3>1, <3>3 DEF RecoveryInv, RestartOfRetry
      <4>2. ~LockStarts(h)
        BY <3>3 DEF LockStarts, StartPhases
      <4>. QED
        BY <1>t, <2>2, <4>1, <4>2, AnswerStep
    <3>. QED
      BY <1>2, <1>t, <2>2, <3>2, <3>3, StartingStep
  <2>. QED
    BY <2>1, <2>2
<1>. QED
  BY <1>1, <1>2 DEF RestartOfRetry

\* A death that everyone is past stays so: its transport is closed, and calls
\* are made on the transport in service.
LEMMA NoMoreStep ==
    ASSUME IInv, NEW h \in Messages, Step(h), NEW t, t \in closed, t # 0, NoMoreOf(t)
    PROVE  NoMoreOf(t)'
<1>t. TypeOK /\ OpenedTransport'
  BY OpenedTransportStep DEF IInv
<1>c. closed \subseteq closed'
  BY <1>t, TransportStep
<1>h. pc[h] # "done"
  BY <1>t, VictimStep
<1>1. ASSUME NEW g \in Messages, pc'[g] # "done"
      PROVE  died'[g] # t /\ (pc'[g] \in {"request", "notify"} => tr'[g] # t)
  <2>1. CASE g # h
    BY <1>1, <1>t, <2>1, OthersStay DEF NoMoreOf
  <2>2. CASE g = h
    <3>1. died'[h] # t
      BY <1>h, CallStep DEF NoMoreOf
    <3>2. pc'[h] \in {"request", "notify"} => tr'[h] \notin closed'
      BY <1>t, CallStep DEF OpenedTransport, Opened
    <3>. QED
      BY <1>c, <2>2, <3>1, <3>2
  <2>. QED
    BY <2>1, <2>2
<1>. QED
  BY <1>1 DEF NoMoreOf

\* A retry's start that has not connected goes on, or ends in the cooldown, or
\* connects.
LEMMA LaunchStep ==
    ASSUME IInv, NEW h \in Messages, Step(h), NEW g \in Messages, Launching(g),
           Retrying(g)
    PROVE  Launching(g)' \/ CoolsDown' \/ made' = made + 1
<1>t. TypeOK /\ LockDiscipline
  BY DEF IInv
<1>1. CASE g # h
  <2>1. pc[h] \notin Holding /\ lock # Nobody
    BY <1>t, <1>1, MessageAssumption DEF Launching, LockDiscipline
  <2>2. Outside(h)
    BY <1>t, <2>1, StepKind DEF Takes, Moves, Releases
  <2>. QED
    BY <1>t, <1>1, <2>2, OthersStay DEF Outside, Launching
<1>2. CASE g = h
  <2>1. CASE CommandSucceeds(h) \/ HealthPassed(h)
    BY <1>t, <1>2, <2>1 DEF TypeOK, CommandSucceeds, HealthPassed, Launching, Goto, shared
  <2>2. CASE Connected(h)
    BY <2>2 DEF Connected
  <2>3. CASE StartFails(h) \/ RetryTimesOut(h)
    <3>1. lock' = Nobody /\ state' = "FAILED" /\ failure' = Fresh("MIDSESSION")
      BY <1>2, <2>3 DEF StartFails, RetryTimesOut, AbandonStart, Refuse, FailureAfter,
           Launching, StartPhases
    <3>. QED
      BY <3>1, CooldownAssumption DEF CoolsDown, Blocked, Fresh, Cooldown
  <2>. QED
    BY <1>2, <2>1, <2>2, <2>3
    DEF Launching, Step, Begin, Locked, Launch, Opening, Responds, Notifies, Detect,
        Closes, BeginUnknown, BeginCached, BeginRequest, BeginNote, LockFindsActive,
        LockRefused, LockStarts, AwaitEnds, HandshakeFails, HandshakeClosed,
        HandshakeThenBootstrap, Activate, CacheRaises, Reply, RequestDies, RetryDies, RequestRaises,
        NotifyEnds, NotifyDies, DetectNothing, DetectDeath, DetectClosed
<1>. QED
  BY <1>1, <1>2

\* In the cooldown nobody starts the backend, and no task ends it.
LEMMA CooldownStep ==
    ASSUME IInv, NEW h \in Messages, Step(h), CoolsDown
    PROVE  CoolsDown' /\ ~LockStarts(h)
<1>t. TypeOK /\ LockDiscipline
  BY DEF IInv
<1>1. ~LockStarts(h)
  BY DEF CoolsDown, LockStarts
<1>2. pc[h] \notin Holding
  BY <1>t, MessageAssumption DEF CoolsDown, LockDiscipline
<1>3. ~Takes(h)
  BY <1>t, <1>1, StartingStep, <1>2 DEF Takes, CoolsDown, StartPhases, Holding
<1>4. Outside(h)
  BY <1>t, <1>2, <1>3, StepKind DEF Moves, Releases
<1>5. failure' = failure \/ failure' = Fresh("MIDSESSION")
  <2>1. ASSUME failure' = Fresh("START"), failure' # failure
        PROVE  FALSE
    BY <2>1, <1>2 DEF TypeOK, Step, Begin, Locked, Launch, Opening, Responds, Notifies,
         Detect, Closes, BeginUnknown, BeginCached, BeginRequest, BeginNote,
         LockFindsActive, LockRefused, LockStarts, AwaitEnds, CommandSucceeds,
         HealthPassed, StartFails, Connected, HandshakeFails, HandshakeClosed,
         HandshakeThenBootstrap, Activate, CacheRaises, Reply, RequestDies, RetryDies,
         RequestRaises, NotifyEnds, NotifyDies, DetectNothing, DetectDeath,
         DetectClosed, RetryTimesOut, EnsureActive, AfterDetection, Send,
         Refuse, Goto, Finish, Retrying, shared, local, FailureAfter, Fresh, Holding, StartPhases
  <2>. QED
    BY <1>t, <2>1, FailureStep
<1>6. Blocked'
  BY <1>5, CooldownAssumption DEF CoolsDown, Blocked, Fresh, Cooldown
<1>. QED
  BY <1>1, <1>4, <1>6 DEF CoolsDown, Outside

\* The newest restart is under way, cooling down, or its death is over.
LEMMA RestartsSettleStep ==
    ASSUME RecoveryInv, NEW h \in Messages, Step(h)
    PROVE  RestartsSettle'
<1>t. TypeOK /\ IInv
  BY DEF RecoveryInv, IInv
<1>1. ASSUME NEW g \in Messages, restarted'[g] = made', restarted'[g] # 0
      PROVE  Launching(g)' \/ CoolsDown' \/ NoMoreOf(died[g])'
  <2>1. CASE restarted'[g] # restarted[g]
    BY <1>1, <2>1, RestartedStep
  <2>2. CASE restarted'[g] = restarted[g]
    <3>1. made' = made
      BY <1>1, <1>t, <2>2, TransportStep DEF TypeOK
    <3>2. Retrying(g) /\ died[g] \in closed
      BY <1>1, RestartedStep
    <3>3. Launching(g) \/ CoolsDown \/ NoMoreOf(died[g])
      BY <1>1, <2>2, <3>1 DEF RecoveryInv, RestartsSettle
    <3>4. made' # made + 1
      BY <1>t, <3>1 DEF TypeOK
    <3>5. CASE Launching(g)
      BY <1>t, <3>2, <3>4, <3>5, LaunchStep
    <3>6. CASE CoolsDown
      BY <1>t, <3>6, CooldownStep
    <3>7. CASE NoMoreOf(died[g])
      <4>1. PICK t : t = died[g] /\ t = died'[g]
        BY <1>1, RestartedStep
      <4>2. NoMoreOf(t)'
        BY <1>t, <3>2, <3>7, <4>1, NoMoreStep DEF Retrying
      <4>. QED
        BY <4>1, <4>2
    <3>. QED
      BY <3>3, <3>5, <3>6, <3>7
  <2>. QED
    BY <2>1, <2>2
<1>. QED
  BY <1>1 DEF RestartsSettle

\* A retry that starts the backend is the first of its death to do so since the
\* newest transport was made.
LEMMA OneRestartStep ==
    ASSUME RecoveryInv, NEW h \in Messages, Step(h)
    PROVE  OneRestartPerDeath'
<1>t. TypeOK /\ IInv
  BY DEF RecoveryInv, IInv
<1>1. ASSUME NEW g \in Messages, g # h, LockStarts(h), Retrying(h),
             restarted[g] = made, restarted[g] # 0
      PROVE  died[g] # died[h]
  <2>1. ~Launching(g)
    BY <1>1, MessageAssumption DEF Launching, LockStarts, Next2Lock
  <2>2. ~CoolsDown
    BY <1>1 DEF CoolsDown, LockStarts
  <2>3. NoMoreOf(died[g])
    BY <1>1, <2>1, <2>2 DEF RecoveryInv, RestartsSettle
  <2>. QED
    BY <1>1, <2>3 DEF NoMoreOf, LockStarts
<1>2. ASSUME NEW f \in Messages, NEW g \in Messages, f # g,
             died'[f] = died'[g], restarted'[f] = restarted'[g], restarted'[f] # 0
      PROVE  FALSE
  <2>1. died[f] = died[g] /\ Retrying(f) /\ Retrying(g)
    BY <1>2, RestartedStep
  <2>2. CASE restarted'[f] = restarted[f] /\ restarted'[g] = restarted[g]
    BY <1>2, <2>1, <2>2 DEF RecoveryInv, OneRestartPerDeath
  <2>3. ASSUME NEW x \in Messages, NEW y \in Messages, x # y, died[x] = died[y],
               Retrying(y),
               restarted'[x] = restarted'[y], restarted'[x] # 0,
               restarted'[y] # restarted[y]
        PROVE  FALSE
    <3>1. y = h /\ LockStarts(h) /\ restarted'[h] = made
      BY <2>3, RestartedStep
    <3>2. restarted'[x] = restarted[x]
      BY <2>3, <3>1, RestartedStep
    <3>. QED
      BY <1>1, <2>3, <3>1, <3>2
  <2>. QED
    BY <1>2, <2>1, <2>2, <2>3
<1>. QED
  BY <1>2 DEF OneRestartPerDeath

----------------------------------------------------------------------------
(* The connections that are lost.                                            *)

\* A step in which a start breaks off after its connect, without a close.
Breaks(h) == RetryTimesOut(h) \/ CacheRaises(h)

\* An opened transport stays so, is closed, or is left by a start that breaks.
LEMMA OpenedKept ==
    ASSUME IInv, NEW h \in Messages, Step(h), Opened
    PROVE  \/ Opened' /\ transport' = transport
           \/ transport \in closed'
           \/ Breaks(h)
<1>t. TypeOK /\ LockDiscipline
  BY DEF IInv
<1>1. CASE state = "ACTIVE"
  BY <1>1, ServiceStep DEF Opened
<1>2. ASSUME NEW g \in Messages, pc[g] \in {"handshake", "bootstrap"}, g # h
      PROVE  Opened' /\ transport' = transport
  <2>1. pc[h] \notin Holding
    BY <1>t, <1>2 DEF LockDiscipline, Holding, StartPhases
  <2>. QED
    BY <1>t, <1>2, <2>1, OthersStay, TransportStep DEF Opened, Holding, StartPhases
<1>3. CASE pc[h] \in {"handshake", "bootstrap"}
  <2>1. CASE HandshakeFails(h)
    BY <2>1 DEF HandshakeFails, Closing
  <2>2. CASE HandshakeThenBootstrap(h) \/ Activate(h)
    BY <1>t, <2>2 DEF TypeOK, HandshakeThenBootstrap, Activate, Goto, Opened, shared
  <2>. QED
    BY <1>3, <2>1, <2>2
    DEF Breaks, Step, Begin, Locked, Launch, Opening, Responds, Notifies, Detect, Closes,
        BeginUnknown, BeginCached, BeginRequest, BeginNote, LockFindsActive,
        LockRefused, LockStarts, AwaitEnds, CommandSucceeds, HealthPassed, StartFails,
        Connected, HandshakeClosed, Reply, RequestDies, RetryDies, RequestRaises,
        NotifyEnds, NotifyDies, DetectNothing, DetectDeath, DetectClosed
<1>. QED
  BY <1>1, <1>2, <1>3 DEF Opened

\* So an open transport goes astray by a broken start alone, and then one at most.
LEMMA StrayStep ==
    ASSUME IInv, NEW h \in Messages, Step(h)
    PROVE  \/ Stray' \subseteq Stray
           \/ Stray' \subseteq Stray \cup {transport} /\ Breaks(h)
<1>t. TypeOK
  BY DEF IInv
<1>c. closed \subseteq closed'
  BY <1>t, TransportStep
<1>1. ASSUME NEW t \in Stray'
      PROVE  t \in Stray \/ (t = transport /\ Opened)
  <2>1. t \in 1..made' /\ t \notin closed /\ ~(t = transport' /\ Opened')
    BY <1>c DEF Stray
  <2>2. made' = made \/ (made' = made + 1 /\ transport' = made + 1 /\ Opened')
    BY <1>t, TransportStep DEF Opened
  <2>3. t \in 1..made
    BY <1>t, <2>1, <2>2 DEF TypeOK
  <2>. QED
    BY <2>1, <2>3 DEF Stray
<1>2. CASE Opened /\ transport \in Stray'
  BY <1>1, <1>2, OpenedKept DEF Stray
<1>. QED
  BY <1>1, <1>2

\* The tasks whose start broke off are finitely many, and only grow.
LEMMA BrokenStep ==
    ASSUME TypeOK, AnsweredIsDone, NEW h \in Messages, Step(h)
    PROVE  /\ IsFiniteSet(BrokenStarts) /\ IsFiniteSet(BrokenStarts')
           /\ Cardinality(BrokenStarts) <= Cardinality(BrokenStarts')
           /\ Breaks(h) => Cardinality(BrokenStarts') = Cardinality(BrokenStarts) + 1
<1>1. \A S : S \subseteq Messages => IsFiniteSet(S)
  BY FS_Subset, MessageAssumption
<1>2. BrokenStarts \subseteq Messages /\ BrokenStarts' \subseteq Messages
  BY DEF BrokenStarts
<1>3. answer[h] = "none"
  BY VictimStep DEF AnsweredIsDone
<1>4. BrokenStarts \subseteq BrokenStarts' /\ BrokenStarts' \subseteq BrokenStarts \cup {h}
  BY <1>3, AnswerStep DEF TypeOK, BrokenStarts
<1>5. Cardinality(BrokenStarts) <= Cardinality(BrokenStarts')
  BY <1>1, <1>2, <1>4, FS_Subset
<1>6. ASSUME Breaks(h)
      PROVE  Cardinality(BrokenStarts') = Cardinality(BrokenStarts) + 1
  <2>1. BrokenStarts' = BrokenStarts \cup {h}
    BY <1>4, <1>6 DEF TypeOK, Breaks, RetryTimesOut, CacheRaises, Finish, BrokenStarts
  <2>2. h \notin BrokenStarts
    BY <1>3 DEF BrokenStarts
  <2>. QED
    BY <1>1, <1>2, <2>1, <2>2, FS_AddElement
<1>. QED
  BY <1>1, <1>2, <1>5, <1>6

\* There are no more stray transports than broken starts.
LEMMA StrayCountStep ==
    ASSUME RecoveryInv, NEW h \in Messages, Step(h)
    PROVE  StrayByBrokenStart'
<1>t. TypeOK /\ IInv /\ AnsweredIsDone /\ StrayByBrokenStart
  BY DEF RecoveryInv, IInv
<1>1. IsFiniteSet(Stray) /\ IsFiniteSet(Stray')
  <2>1. \A n \in Nat : IsFiniteSet(1..n)
    BY FS_Interval
  <2>2. made \in Nat /\ made' \in Nat
    BY <1>t, TypeStep DEF TypeOK
  <2>3. Stray \subseteq 1..made /\ Stray' \subseteq 1..made'
    BY DEF Stray
  <2>. QED
    BY <2>1, <2>2, <2>3, FS_Subset
<1>2. Cardinality(Stray) \in Nat /\ Cardinality(Stray') \in Nat
      /\ Cardinality(BrokenStarts) \in Nat /\ Cardinality(BrokenStarts') \in Nat
  BY <1>t, <1>1, BrokenStep, FS_CardinalityType
<1>3. ASSUME Stray' \subseteq Stray
      PROVE  Cardinality(Stray') <= Cardinality(BrokenStarts')
  <2>1. Cardinality(Stray') <= Cardinality(Stray)
    BY <1>1, <1>3, FS_Subset
  <2>2. Cardinality(BrokenStarts) <= Cardinality(BrokenStarts')
    BY <1>t, BrokenStep
  <2>3. Cardinality(Stray) <= Cardinality(BrokenStarts)
    BY <1>t DEF StrayByBrokenStart
  <2>. QED
    BY <1>2, <2>1, <2>2, <2>3
<1>4. ASSUME Stray' \subseteq Stray \cup {transport}, Breaks(h)
      PROVE  Cardinality(Stray') <= Cardinality(BrokenStarts')
  <2>1. /\ IsFiniteSet(Stray \cup {transport})
        /\ \/ Cardinality(Stray \cup {transport}) = Cardinality(Stray)
           \/ Cardinality(Stray \cup {transport}) = Cardinality(Stray) + 1
    BY <1>1, FS_AddElement
  <2>2. Cardinality(Stray') <= Cardinality(Stray \cup {transport})
    BY <1>4, <2>1, FS_Subset
  <2>3. Cardinality(BrokenStarts') = Cardinality(BrokenStarts) + 1
    BY <1>t, <1>4, BrokenStep
  <2>4. Cardinality(Stray) <= Cardinality(BrokenStarts)
    BY <1>t DEF StrayByBrokenStart
  <2>. QED
    BY <1>2, <2>1, <2>2, <2>3, <2>4
<1>5. 0 \notin closed'
  <2>1. CASE DetectDeath(h)
    BY <1>t, <2>1 DEF IInv, OpenedTransport, Opened, StrayByBrokenStart, DetectDeath,
         Superseded, Closing
  <2>2. CASE pc'[h] = "hsclosing" /\ closed' # closed
    <3>1. HandshakeFails(h)
      BY <1>t, <2>2 DEF TypeOK, Step, Begin, Locked, Launch, Opening, Responds, Notifies,
         Detect, Closes, BeginUnknown, BeginCached, BeginRequest, BeginNote,
         LockFindsActive, LockRefused, LockStarts, AwaitEnds, CommandSucceeds,
         HealthPassed, StartFails, Connected, HandshakeFails, HandshakeClosed,
         HandshakeThenBootstrap, Activate, CacheRaises, Reply, RequestDies, RetryDies,
         RequestRaises, NotifyEnds, NotifyDies, DetectNothing, DetectDeath,
         DetectClosed, RetryTimesOut, EnsureActive, AfterDetection, Send,
         Refuse, Goto, Finish, Retrying, shared, local
    <3>. QED
      BY <1>t, <3>1 DEF IInv, OpenedTransport, Opened, StrayByBrokenStart, HandshakeFails, Closing
  <2>. QED
    BY <1>t, <2>1, <2>2, TransportStep DEF StrayByBrokenStart
<1>. QED
  BY <1>t, <1>3, <1>4, <1>5, StrayStep DEF StrayByBrokenStart

----------------------------------------------------------------------------
(* The invariant of recovery and its theorems.                               *)

\* It holds initially.
LEMMA RecoveryInit == Init => RecoveryInv
<1>. SUFFICES ASSUME Init PROVE RecoveryInv
  OBVIOUS
<1>1. IInv
  BY IInvInit
<1>2. AnsweredIsDone /\ OrphansAreFailedRetries /\ CooldownHasCause
  BY DEF Init, AnsweredIsDone, OrphansAreFailedRetries, CooldownHasCause, NoFailure
<1>3. LockQueue
  <2>1. lockq = <<>> /\ Waiting = {}
    BY DEF Init, Waiting
  <2>. QED
    BY <2>1, LineOfNobody DEF LockQueue
<1>4. SentOnService /\ RestartOfRetry /\ RestartsSettle /\ OneRestartPerDeath
  BY DEF Init, SentOnService, RestartOfRetry, RestartsSettle, OneRestartPerDeath,
         Retrying, StartPhases
<1>5. StrayByBrokenStart
  <2>1. Stray = {} /\ 0 \notin closed
    BY DEF Init, Stray
  <2>2. IsFiniteSet(BrokenStarts)
    BY MessageAssumption, FS_Subset DEF BrokenStarts
  <2>. QED
    BY <2>1, <2>2, FS_EmptySet, FS_CardinalityType DEF StrayByBrokenStart
<1>. QED
  BY <1>1, <1>2, <1>3, <1>4, <1>5 DEF RecoveryInv

\* When no task can run and the backend is FAILED, with the lock free, every
\* task is new or done: the calls in flight are on closed transports.
LEMMA QuietFailure ==
    ASSUME RecoveryInv, Quiescent, lock = Nobody, state = "FAILED"
    PROVE  \A h \in Messages : pc[h] \in {"new", "done"}
<1>1. lockq = <<>>
  BY DEF Quiescent
<1>2. Waiting = {}
  BY <1>1, LineEmpty DEF RecoveryInv, LockQueue
<1>. SUFFICES ASSUME NEW h \in Messages PROVE pc[h] \in {"new", "done"}
  OBVIOUS
<1>3. pc[h] \in Phases
  BY DEF RecoveryInv, IInv, TypeOK
<1>4. pc[h] \notin Holding
  BY MessageAssumption DEF RecoveryInv, IInv, LockDiscipline
<1>5. pc[h] \notin {"lock", "dlock"}
  BY <1>2 DEF Waiting
<1>6. pc[h] # "await"
  BY DEF Quiescent, Settled
<1>7. pc[h] \notin {"request", "notify"}
  BY DEF Quiescent, RecoveryInv, SentOnService, InUse
<1>. QED
  BY <1>3, <1>4, <1>5, <1>6, <1>7 DEF Phases

\* Time keeps the invariant: a cooldown ends only when everybody whose call died
\* with the restarted transport has been answered.
LEMMA RecoveryTick ==
    ASSUME RecoveryInv, Tick
    PROVE  RecoveryInv'
<1>u. UNCHANGED <<state, lock, lockq, transport, made, closed, pc, tr, died,
                  answer, idmap, restarted>>
  BY DEF Tick, local
<1>1. IInv'
  BY IInvStep DEF RecoveryInv, Next
<1>2. AnsweredIsDone' /\ OrphansAreFailedRetries' /\ OneRestartPerDeath'
  BY <1>u DEF RecoveryInv, AnsweredIsDone, OrphansAreFailedRetries, OneRestartPerDeath,
       Attempt, Retrying
<1>3. CooldownHasCause'
  <2>1. failure'.reason = failure.reason
    BY DEF Tick, RecoveryInv, IInv, TypeOK
  <2>. QED
    BY <1>u, <2>1 DEF RecoveryInv, CooldownHasCause, Retrying
<1>4. LockQueue' /\ SentOnService' /\ RestartOfRetry'
  BY <1>u DEF RecoveryInv, LockQueue, Waiting, SentOnService, InUse, RestartOfRetry, Retrying
<1>5. StrayByBrokenStart'
  BY <1>u DEF RecoveryInv, StrayByBrokenStart, Stray, BrokenStarts, Opened
<1>6. RestartsSettle'
  <2>. SUFFICES ASSUME NEW g \in Messages, restarted'[g] = made', restarted'[g] # 0
                PROVE  Launching(g)' \/ NoMoreOf(died[g])' \/ CoolsDown'
    BY DEF RestartsSettle
  <2>1. Launching(g) \/ NoMoreOf(died[g]) \/ CoolsDown
    BY <1>u DEF RecoveryInv, RestartsSettle
  <2>2. CASE Launching(g) \/ NoMoreOf(died[g])
    BY <1>u, <2>2 DEF Launching, NoMoreOf
  <2>3. CASE CoolsDown
    <3>1. \A h \in Messages : pc[h] \in {"new", "done"}
      BY <2>3, QuietFailure DEF CoolsDown, Tick
    <3>2. died[g] # 0
      BY <1>u DEF RecoveryInv, RestartOfRetry, Retrying
    <3>3. \A h \in Messages : pc[h] = "new" => died[h] = 0
      BY DEF RecoveryInv, IInv, NewHasNoVictim, Retrying
    <3>. QED
      BY <1>u, <3>1, <3>2, <3>3 DEF NoMoreOf
  <2>. QED
    BY <2>1, <2>2, <2>3
<1>. QED
  BY <1>1, <1>2, <1>3, <1>4, <1>5, <1>6 DEF RecoveryInv

\* A step of a task keeps it.
LEMMA RecoveryStep ==
    ASSUME RecoveryInv, NEW h \in Messages, Step(h)
    PROVE  RecoveryInv'
<1>1. IInv'
  BY IInvStep DEF RecoveryInv, Next
<1>2. AnsweredIsDone' /\ OrphansAreFailedRetries' /\ CooldownHasCause'
  BY AnsweredStep, OrphansStep, CauseStep
<1>3. LockQueue' /\ SentOnService'
  BY LockQueueStep, SentStep DEF RecoveryInv, IInv
<1>4. RestartOfRetry' /\ RestartsSettle' /\ OneRestartPerDeath' /\ StrayByBrokenStart'
  BY RestartOfRetryStep, RestartsSettleStep, OneRestartStep, StrayCountStep
<1>. QED
  BY <1>1, <1>2, <1>3, <1>4 DEF RecoveryInv

\* As does a step that changes nothing.
LEMMA RecoveryStutter ==
    ASSUME RecoveryInv, UNCHANGED vars
    PROVE  RecoveryInv'
  BY DEF vars, shared, local, RecoveryInv, IInv, TypeOK, LockDiscipline, OpenedTransport,
         Opened, FreshForRetry, NewHasNoVictim, Retrying, AnsweredIsDone,
         OrphansAreFailedRetries, Attempt, CooldownHasCause, LockQueue, Waiting,
         SentOnService, InUse, RestartOfRetry, RestartsSettle, Launching, CoolsDown,
         Blocked, NoMoreOf, OneRestartPerDeath, StrayByBrokenStart, Stray, BrokenStarts

\* The invariant of recovery holds of the router.
THEOREM RecoveryInvariant == Spec => []RecoveryInv
<1>1. RecoveryInv /\ [Next]_vars => RecoveryInv'
  BY RecoveryStep, RecoveryTick, RecoveryStutter DEF Next, Idle
<1>. QED
  BY <1>1, RecoveryInit, PTL DEF Spec

\* FR-22.6: of the requests that fail from one death at most one restarts the
\* backend, whatever their number and the cooldowns.
THEOREM RestartedOncePerDeath == Spec => []OneRestartPerDeath
<1>1. RecoveryInv => OneRestartPerDeath
  BY DEF RecoveryInv
<1>. QED
  BY <1>1, RecoveryInvariant, PTL

\* An id that stays mapped without a request in flight is that of a failed retry.
THEOREM OnlyFailedRetriesOrphan == Spec => []OrphansAreFailedRetries
<1>1. RecoveryInv => OrphansAreFailedRetries
  BY DEF RecoveryInv
<1>. QED
  BY <1>1, RecoveryInvariant, PTL

\* FR-22.5: no request meets the window of a failure nobody was told of.
THEOREM CooldownsHaveCause == Spec => []CooldownHasCause
<1>1. RecoveryInv => CooldownHasCause
  BY DEF RecoveryInv
<1>. QED
  BY <1>1, RecoveryInvariant, PTL

\* The lost transports are stray ones.
LEMMA LostAreStray == RecoveryInv => LostByBrokenStart
<1>. SUFFICES ASSUME RecoveryInv PROVE LostByBrokenStart
  OBVIOUS
<1>1. LostTransports \subseteq Stray /\ Stray \subseteq 1..made /\ made \in Nat
  BY DEF LostTransports, Stray, RecoveryInv, IInv, TypeOK
<1>2. IsFiniteSet(1..made)
  BY <1>1, FS_Interval
<1>3. IsFiniteSet(Stray)
  BY <1>1, <1>2, FS_Subset
<1>4. IsFiniteSet(LostTransports) /\ Cardinality(LostTransports) <= Cardinality(Stray)
  BY <1>1, <1>3, FS_Subset
<1>5. IsFiniteSet(BrokenStarts)
  BY MessageAssumption, FS_Subset DEF BrokenStarts
<1>6. /\ Cardinality(LostTransports) \in Nat /\ Cardinality(Stray) \in Nat
      /\ Cardinality(BrokenStarts) \in Nat
  BY <1>3, <1>4, <1>5, FS_CardinalityType
<1>7. Cardinality(Stray) <= Cardinality(BrokenStarts)
  BY DEF RecoveryInv, StrayByBrokenStart
<1>8. Cardinality(LostTransports) <= Cardinality(BrokenStarts)
  BY <1>4, <1>6, <1>7
<1>. QED
  BY <1>8 DEF LostByBrokenStart, BrokenStarts

\* There are never more lost open connections than starts that broke off after
\* their connect: by the timeout of a retry, or by a load that raised.
THEOREM ConnectionsLostByBrokenStart == Spec => []LostByBrokenStart
  BY LostAreStray, RecoveryInvariant, PTL

=============================================================================
