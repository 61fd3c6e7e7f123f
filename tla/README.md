# Verification of mcp-standby-proxy

`mcp-standby-proxy` sits between one MCP client (stdin/stdout) and one MCP
backend that it starts on demand. It is a single asyncio program; all paths
below are relative to `src/src/mcp_standby_proxy/`.

## The system

| part | state | operations | correct when |
|---|---|---|---|
| message router, `router.py` | `_transport`, `_failure_time`, the `IdMapper`, one task per client message | `handle_message`, `ensure_active`, `_do_start`, `_detect_transport_death`, the one retry, `close` | one start per death, no retry on the transport that died, no healthy transport torn down by a late error, no start left half-way, every request answered |
| state machine, `state.py` | `_state`, a lock, a condition | `transition`, `wait_for` | only transitions of the table; unsettled states only under the lock; nobody sleeps through the state it waits for |
| lifecycle manager, `lifecycle.py` | the backend's processes (outside) | `start`, `stop` | STARTING ends HEALTHY or FAILED; a stop ends COLD, unless its command cannot be executed |
| healthcheck, `healthcheck.py` | attempt counter, a probe's shell | `run_healthcheck` with an HTTP, TCP or command probe | keeps its time budget, gives up on no backend that was ready in time, never two shells |
| transports, `transport/` | two SDK streams, `_connected` | `connect`, `request`, `notify`, `close` | a response reaches the request with its id; a broken stream is a `TransportError` |
| cache, `cache.py` | the file, its temporary files | `load`, `save` | only whole files, a cached list stays cached, announced capabilities never lost |
| JSON-RPC, `jsonrpc.py` | id counter and map | reader, writer, `wrap`/`unwrap` | ids unique, no entry left behind, no message lost or dispatched twice |
| proxy runner, `proxy.py` | shutdown event, set of tasks, root logger | main loop, `_cleanup`, `_setup_logging` | a shutdown ends, and leaves no backend running; two independent log channels |
| configuration and CLI, `config.py`, `cli.py` | none after start-up | `load_config` with its validators, `serve` | what serves meets what its consumers assert and assume |

How they interact. The runner reads a message and creates a task for
`handle_message`. Tasks share the router's fields without protection between
two awaits, and serialise changes of the backend's state with the state
machine's lock. A request that needs the backend calls `ensure_active`, which
starts the backend under the lock (start command, healthcheck, connect,
handshake, bootstrap of the cache) or waits for the task that does. A
`TransportError` on a request leads to the detection (under the lock: FAILED,
close, forget) and to one retry under `asyncio.wait_for`. A shutdown drains the
tasks for five seconds, cancels the rest, closes the transport, stops the
backend. Handlers of cached methods load the cache file in the event loop and
save it by tasks that nobody awaits, in threads of the executor.

What is hard here: every await is a point where another task may start, lose or
replace the backend; a retry is cancelled at any of its awaits, a shutdown
cancels everything at any of theirs; N requests die of one death and all
recover; waiting tasks see the state when they are scheduled, not when it
changed; a late error speaks of a transport that is gone; concurrent requests
read one stream; saves composed from older files overtake each other. The list, line by
line, is `hazards` in `PROJECT.json`.

## The modules

* **BackendLifecycle**: the abstract specification. `state` and `owner`; a step
  claims the lock and leaves a settled state, advances, or yields the lock in a
  settled state, always by the table of `state.py`. `Abandon` is a stop that is
  broken off: the lock is free in STOPPING, and nothing follows.
* **StandbyRouter**: the router with the state machine and the start sequence.
  A step of a task is the code between two suspension points; `pc[h]` names the
  await the task of message `h` is suspended at (the header lists them).
  `lock`/`lockq` are `asyncio.Lock` with its first-come-first-served waiters,
  `transport`, `failure` (reason and age of `_failure_time`) and `idmap` the
  router's fields. A transport is the number of its connection, `made` the last
  one, `closed` those whose `close()` was called. `tr[h]` is the `stale_transport` of
  the code, `died[h]` the transport whose `TransportError` task `h` recovers
  from, `restarted[h]` a history variable for FR-22.6.
* **StandbyProxy** extends it with the runner: the shutdown, the cancellation of
  whatever is in flight, the router's `close`, the stop command, which may fail
  (COLD all the same) or not be executable (STOPPING for good), and the
  backend's processes as one flag with start commands that outlive their task.
* **TransportStream**: one connected transport, with many `request()` and
  `notify()` calls on its two unbuffered memory streams. `phase[c]` is the await
  of a call; `receivers` are the calls queued on the read stream, `offers` the
  items the SDK's reader tasks wait with (`Readers`: one for stdio and SSE),
  `accepted` the requests the backend still owes an answer. A dropped item is
  simply gone. The three transports share this code. The SDK and anyio are
  external: what the two streams can show is modelled, an answer in any order, a
  server message, an exception, an end of either stream at any moment.
* **AtomicFile**: the abstract specification of the cache file: whole versions
  are submitted and take effect, each once, in any order, or not at all.
* **CacheFile**: the handlers of `initialize`, `*/list` and forwarded requests
  as far as they touch the cache, with the bootstrap of a start. `file` is what
  is at the path (missing, garbled, undecodable, stale, or a snapshot of
  capabilities and cached methods), `saves` the saves under way with the
  snapshot each was composed with and how far it came (queued for a thread, or
  its temporary file open), `litter` the temporary files nobody will remove.
  A handler decides by what it has seen of the file (`Views`), which is not the
  file when the operating system refuses it. Faults are a backend's death in a request, a
  load that cannot look at the file or not read it (`unread`), an `OSError` of a save,
  which may not get rid of its temporary file either (`stuck`), a clean exit, a
  kill, an edit by somebody else. After an exit or a kill the next session
  finds what is on the disk.
* **Healthcheck**: the attempt loop with time in seconds, its sleeps, its probe,
  and the `wait_for` of a retry around it (`cap`; `Horizon` for a first
  request, which has none). `readyAt` is when the backend becomes ready.
* **ReaderLoop**: the main loop of `ProxyRunner.run` with its two tasks and
  `read_message`; several things may happen between the end of a task and the
  turn of the loop that looks at it.
* **Startup**: `serve`, `load_config` with each validator, `_setup_logging`, and
  then log records through the root logger's level and the two handlers'.
* **MCStandbyRouter**, **MCCacheFile**, **MCStartup**: the symmetry sets, file sets
  and configurations of the runs.
* **StandbyRouterProofs**, **StandbyProxyProofs**, **TransportStreamProofs**,
  **CacheFileProofs**, **HealthcheckProofs**, **ReaderLoopProofs**,
  **StartupProofs**: the TLAPS proofs about the modules of those names.
  **QueueLemmas** are the lemmas about first-come-first-served queues that the router's lock
  and the read stream share.

StandbyProxy extends StandbyRouter. The others stand for themselves and meet at
one outcome each: Healthcheck is the step `HealthPassed` or `StartFails` of the
router, TransportStream its `Reply` or `RequestDies`, ReaderLoop is what creates
a task and sets the shutdown event, and CacheFile takes from the router that one
task at a time is in a start and that a bootstrap runs inside it.

### What the models abstract

* In StandbyRouter a cache hit, whether a start bootstraps the cache, and whether
  the load before that raises (`CacheRaises`), are choices, as is a load that
  raises in a handler (`BeginCached`, `RequestRaises`). What the file was like then,
  and how often the client got an answer, is CacheFile's.
* The start command, healthcheck, connect, handshake and each request have an
  outcome chosen freely. What a response holds is not modelled; a response with
  neither result nor error counts as a reply.
* Taking a lock that is free does not suspend in asyncio; here it is a step of
  its own, which only adds interleavings. The lock is handed over in order.
* `transport.close` never raises out of the call sites that matter (all three
  transports swallow its errors), and the SDK bounds it.
* Time: `Tick` ages the failure record by five seconds, the granularity of the
  two cooldowns (2 ticks and 1 tick), and only when no task is runnable.
  The retry's timeout and the drain's may fire whenever they are armed: no
  ordering of durations is assumed.
* Left out because the program never takes it: the STOPPING arm of
  `ensure_active` (`stop` runs only after every task has ended: invariant
  `CleanupAlone`), the STARTING/HEALTHY arm under the lock (`LockDiscipline`),
  the waits of `_cleanup` for STOPPING (`CleanupAlone`), `drain_queue` with
  `_queue`, which nothing calls, the COLD arm of `_sm_ensure_failed`.
* `ping` is answered from local data in one step and changes nothing. So does
  `initialize`, unless it deletes a stale cache file or the file raises
  (CacheFile).
* In CacheFile a capability is a feature, the feature of a method going by the
  method's name. The unlink of a stale file and the read before it are one step.
  The older one of two concurrent saves may win, which the tech spec accepts
  (`docs/plans/tech-spec.md:478-482`); `KeptForever` says what is kept all the
  same.
* In Startup a size is malformed, below, within or above its range; texts are
  absent, empty or given; numbers are integers. Its run takes a valid example of a
  configuration with any two keys changed, numbers to the two sides of each boundary.
* Message texts and the format of log lines are left out.

## The runs

| run | instance | what it shows |
|---|---|---|
| `router_safety` | 2 calls, 1 list, 1 notification | the router's safety (1.6 million states with symmetry) |
| `router_served` | 1 call, 1 other request, 1 notification | liveness: a retry is answered whatever the backend does; everything is, if the backend answers or breaks; the fairness of BackendLifecycle |
| `proxy_safety` | 2 calls, 1 notification | the exit of the program, its stop command failing or not executable, and that a shutdown ends whatever hangs |
| `stream_safety` | 3 requests, 1 notification, 2 readers, 1 unasked item | that no response is lost while requests come one at a time, that a close ends every call |
| `cache_safety` | 2 lists, or an initialize and a call; 2 faults | the file under overlapping saves, errors, loads that fail, exits, kills, edits |
| `health_safety` | 3 attempts, interval 2, timeout 3, horizon 15 | budget, patience and end of a healthcheck |
| `reader_safety` | up to 4 lines of 5 kinds, a signal | what is dispatched and what ends a session |
| `startup_safety` | every pair of keys at its boundaries, 2 log records | what serves, and which channel a record reaches |
| `recovery_bounded`, `proxy_failed`, `stream_concurrent`, `cache_announced` | as small | the findings below |

### The bounds

* Router and proxy. Each message starts the backend at most twice (its first
  attempt and its retry), so the number of messages bounds the transports and
  nothing else needs a bound. Two calls give two victims of one death, a third
  task (the list or the notification) that detects or restarts for them, and a
  second death after a restart. Two forwarded calls are the least for the
  detection by one victim and the restart by the other; the list exercises the
  internal ids, the notification the detection without retry, `Others` the
  method refused while COLD.
* Streams. Two readers are the least in which two items are on offer; three
  requests are a cancelled one, its successor and one that overtakes; the unasked
  item comes before or between them. The history variable `overlapped` tells
  the behaviours in which requests come one at a time from the rest: in those
  every response arrives, in the others it need not. The router does not keep
  requests apart.
* Cache. Two lists of different methods are the least whose saves overlap, each
  with a bootstrap's save before it. `Workloads` names the sets of requests that
  come together. `MaxFaults = 2` allows a death with a fault after it, a failed
  save with a kill, an exit with an edit. A backend announces nothing, or the
  features of both methods. A first session finds a stale file (which is deleted
  or stays) or a snapshot without capabilities; later somebody deletes the file
  or makes it undecodable. A garbled file is the same to the program as none.
  With 2.9 million states it is the largest run.
* Healthcheck. The budget is 3 * 3 + 2 * 2 = 13 seconds and `Horizon` two more:
  the loop ends before, unless an HTTP response trickles in. Three attempts
  have a first, a middle and a last one, and interval and timeout differ.
* Reader. Four lines are one that is dispatched, one that is skipped, one that
  is held by the read task when the signal comes, and one left unread.
* Startup. A validator looks at one key or at two (the type and the field it
  requires), so pairs are enough. Two records are one that passes the root's level
  and one that does not.

### The properties

`StandbyRouter`: `LockDiscipline` (lock, phase and state agree; an
unsettled state is never visible without an owner), `TransportInService`,
`RetryUsesFreshTransport`, `LeavesActiveOnlyOnDeath`, `OneRestartPerDeath`
(FR-22.6; a restart goes by the number of the connection it follows, so one that
follows a success of the first counts for the next death), `StartSettles` (the docstring of `_do_start`),
`OrphansAreFailedRetries`, `LostByBrokenStart` (a connection is closed before it
is forgotten, except by a start that a retry's timeout cancelled or in which
`cache.load` raised), `CooldownHasCause` (a record that
refuses requests stands for a failure somebody was told of, FR-22.5),
`RetryAnswered`, `EverythingServed` and `ImplementsFairness`. `ImplementsLifecycle`,
the safety part of the refinement, is a theorem and is not run again; the
proxy's refinement, `ProxyImplementsLifecycle`, is a run. The proxy's others:
`CleanupAlone` (the exit is in COLD or FAILED, in STOPPING if the stop command
could not be executed), `ActiveIsStopped`, `TransportsClosedAtExit`, `ShutdownEnds`.

`TransportStream`: `ResponseToCome` (nobody took the response of a
request that waits), `SerialAnswered`, `CloseReleases`. `stream_concurrent`
shows what happens to concurrent requests, `stream_safety` that a closed
transport does release them, as the recovery of the router needs.

`CacheFile`: `ImplementsAtomicFile` (whole versions only), `KeptForever` (a
method that the file and all snapshots under way have is not lost again, except
by an edit or in a step whose load did not get to see the file),
`CapabilitiesUsable`, `AnsweredOnce` (a handler that ends has answered once; where
a load raised in it, not at all or twice), `LitterHasCause` (a kill, or an unlink
that failed). That an answered list reaches the file is no property: an error
response should not, and does (below).

`Healthcheck`: `WithinBudget`, `PatientEnough`, `OneProbe`, `Ends`. With the
default configuration the budget is 208 seconds and the cap of a retry 30 seconds,
so at least half of the attempts of a retry's healthcheck are never made if they fail.

`ReaderLoop`: `InOrderOnce`, `EndsOnlyWhenTold`, `EndsWhenTold`. `Startup`:
`ChannelsIndependent` (FR-21.2), `ConsumersServed` (the asserts of
`create_transport` and `run_healthcheck`, and the assumptions of Healthcheck).

### Fairness

In StandbyRouter `CodeFairness` says that a task that can run is run, and that what the code or
its libraries bound ends: the start command (`start.timeout`), the healthcheck
(`max_attempts`; Healthcheck's `Ends` says when it does by itself), `close`, the handover
of a notification (10 s in the transports) and the
retry (`wait_for`). Nothing in `router.py` bounds connect, the handshake, the bootstrap or a first
request; that they end is `BackendFairness`, which is the premise of
`EverythingServed` and `ImplementsFairness` and of nothing else.
In `TransportStream` the handover has the ten seconds of `fail_after`, a call with something to
read reads, and a close ends the streams; that the backend answers is a premise
of `SerialAnswered`, and part of the specification of `stream_concurrent`, where
a request stays unanswered though the backend does answer it.
`CleanupFairness` is the drain's five seconds, `close` and the stop command's
timeout, and assumes nothing of the tasks. In `Healthcheck` time passes and
timers fire; in `ReaderLoop` asyncio runs what can run, and the client need not
write. `CacheFile` and `Startup` state no liveness.

## What the code does otherwise than its documents say

With a run that shows it:

* `RecoveryBounded`: the wait of `_detect_transport_death` for the lock is
  outside `asyncio.wait_for`, so FR-22.3's bound "detection → restart → retry
  send" does not hold: a victim waits behind a start that hangs in its handshake.
* `NothingRunsInFailed`: an exit in FAILED leaves the backend's processes
  running when the start failed after its command succeeded, or when only the
  connection died.
* `EachAnswered` with two requests in flight: a request that reads first drops
  the response of the other (FR-3.3: concurrent calls must be supported).
* `AnnouncedKept`: the list that started the backend reloads the file before the
  bootstrap's save has landed, finds none, and saves the default capabilities
  over the announced ones.

Met while modelling, and part of the models, without a run of their own:

* each concurrent victim whose retry fails leaves an id in the map, where the
  tech spec (`docs/plans/tech-spec.md:473-474`) counts one orphan per incident;
* an error response of a `*/list` is cached as `{}` (`router.py:192-204`), and
  a bootstrap that fetched nothing is saved (`router.py:644-655`), against
  `tech-spec.md:257-259`;
* a stop command that cannot be executed raises an `OSError` (`lifecycle.py:112`)
  before the transition to COLD, `_cleanup` swallows it (`proxy.py:252`) and the
  program exits in STOPPING, where the docstring (`lifecycle.py:106`) has it that stop
  failures "do not prevent COLD transition" (likewise `tech-spec.md:249`);
* `cache.load` raises on a file that is not UTF-8 (`cache.py:33`; its docstring,
  line 27, has it return None): an `initialize` is then never answered, a list
  that was answered gets a second answer, an error (`router.py:277-281`), and a start fails
  with its transport open and still referenced (`router.py:599`), so that the next
  one overwrites and loses it;
* a file that is there but cannot be read counts as none (`cache.py:34`): the list
  that is saved next replaces the others;
* httpx's timeout bounds each wait, not the attempt (`healthcheck.py:17`), where
  `docs/plans/config-spec.md:158` speaks of an attempt;
* a line that holds `null` is taken for EOF (`jsonrpc.py:59`), and one above 16 MB
  or not UTF-8 ends the session (`jsonrpc.py:47`, `61`);
* `load_config` lets other exceptions than `ConfigError` out (`config.py:266`, its
  docstring at 261), and the directory of the cache file is not looked at,
  against `config-spec.md:201`;
* a transport is closed by another task than the one that connected it
  (`router.py:457`, `593`, `696` against `568-571`). What the SDK's task groups do
  then is the SDK's, `tests/smoke/test_recovery_smoke.py:9` tells of it; the models have
  `close` end the streams.

## The proofs

Each rests on the named assumptions of its module, which the runs evaluate, and
holds for every value of the constants that meets them.

**StandbyRouterProofs**, for every finite set of messages and all
cooldowns with `0 < CooldownMidsession <= CooldownStart`: `TypeCorrect`,
`InductiveInvariant`; `LockDisciplined`, `ServiceHasTransport`,
`RetriesUseFreshTransport`; `ActiveLeftOnlyOnDeath` and `StartsSettle`, the two
action properties; `RouterImplementsLifecycle`, the safety part of the refinement.
`IInv` adds two facts to the types and to `LockDiscipline`, which are inductive
together. `TransportInService` speaks of ACTIVE, but the transport is assigned
before the handshake, while HEALTHY: `OpenedTransport` says it of the start in
progress too. `RetryUsesFreshTransport` speaks of a retry that has been sent, but
what it will be sent on is decided while it waits: `FreshForRetry` says that
whatever is in service, or about to be, is not what the retry recovers from,
because connections are numbered in order (`died[h] <= made`).
The steps are grouped by what they do: `StepKind` shows that a task's step stays
outside the lock, takes it, moves on with it or releases it, which gives
`LockDiscipline` and the refinement; `OpenedStep` shows that a step leaves the transport in
service alone or has just connected a new one, which gives the other two.

The other four invariants of the router are about recovery, and rest on
`RecoveryInv`, which is inductive together with `IInv`: `RestartedOncePerDeath`,
`OnlyFailedRetriesOrphan`, `CooldownsHaveCause`, `ConnectionsLostByBrokenStart`.
`OneRestartPerDeath` needs to know why a second victim of a death does not start
the backend once more: `RestartsSettle` says that until the newest restart has
connected either its task is still at it (and holds the lock), or it failed and
the cooldown refuses every other retry, or no victim of that death is left that
has not ended. Once it has connected, `made` has grown, and a second restart has
another number. For "no victim is left" a call that is still under
way counts too, since it may die later of the same transport; `SentOnService`
therefore says that calls, and the deaths they find, are of transports that were in
service (in use or closed since), never of the one a start is about to connect.
The third alternative is what `Tick` needs: the record ages only when no task can
run, and in FAILED with the lock free that means that every message has been answered or
has not begun, so the end of a cooldown finds no victim to restart for.
`RestartOfRetry` says that the victim of a restart is closed.
`OrphansAreFailedRetries` and `CooldownHasCause` need `AnsweredIsDone`, an answer
being a task's last word. `LostByBrokenStart` compares cardinalities and is not
inductive: it does not count the transport the router still refers to, which a
start that is broken off leaves behind and the next start overwrites.
`StrayByBrokenStart` counts it from the break on, so that step adds one to either side.
`LockQueue` says who is in the lock's queue, each once.

**StandbyProxyProofs**, under the same assumptions, all safety properties of its
run: `ProxyTypeCorrect`, `CleanupIsAlone`, `ActiveBackendIsStopped`,
`ConnectionsClosedAtExit`, `ProgramImplementsLifecycle`. While the program serves or drains
`RecoveryInv` holds, since a step of the runner touches nothing of the router's
before the drain is over. The end of the drain, which cancels whatever is in
flight, is the step that breaks it: a cancelled task leaves its id and its record
behind without an answer. It is replaced by `Over`: no
task is left, the queue is empty, the state is settled or being stopped, and of the
recovery's facts only `LostByBrokenStart` goes on. The exit keeps the state, which
is STOPPING only where `stopFailed` says why; for the refinement that step is `Abandon`. `Processes` says when the backend runs unknown to the state
machine: because a timed-out retry abandoned its start command, or the drain did, in FAILED.

**TransportStreamProofs**, for any number of calls, readers and unasked items:
`TypeCorrect`, `ResponsesStillCome`. `QueueInv` says element
by element what the type invariant says of the queue (it holds the requests
that wait, each once, and nothing is offered meanwhile), which lets the lemmas
follow it through a join, a hand-over to its head, a cancelled call that leaves
it, and the end of the stream. `ResponseToCome` needs `Alone`: until two requests overlap there
is one in flight at the most, so an item that another call takes is not awaited.

**CacheFileProofs**, for any requests, methods, announcements and numbers of
faults, all properties of the run: `TypeCorrect`, `CacheImplementsAtomicFile`, `CachedIsKept`,
`CapabilitiesAreUsable`, `EveryAnswerOnce`, `LitterIsExplained`. The inductive invariant adds to the types that the saves
are finitely many, what a stale file looks like, and `SavesInOrder`: a task
saves once in each phase and is behind that phase afterwards, so every save is
told by its id, and a commit removes exactly one pending version. `AnsweredInv` adds that a
handler that has not ended has not answered, and that a file that raises was
there at first or comes from an edit.

**HealthcheckProofs**, for every configuration: `BudgetKept`, `NoEarlyFailure`,
`OneShellAtATime`, `TypeCorrect`. `Clock` bounds the beginning of the current
attempt or sleep from both sides by the number of the attempt: below by the
sleeps that lie before it, above by attempts and sleeps together.

**ReaderLoopProofs**, for sessions of any length: `DispatchedInOrderOnce`,
`EndedOnlyWhenTold`. `LoopInv` adds to the types which line the read task
holds and that all messages before it were dispatched (`Kept`), why a read task
has no message (`Reasons`: reset, EOF or `null` stay true because the client cannot take back
what arrived), and what the loop was told (`Told`).

**StartupProofs**, for any configurations and any number of records: `ChannelsAreIndependent`,
`ConsumersAreServed`. `Served` fixes the levels from the set-up on, `Recorded`
says which handlers each record reached; with the root at the lesser of the two
levels, `RootHidesNothing`. `ConfigsAssumption` says of the configurations only
what pydantic's types say, so the validators' part holds for every number and text a file may hold.

**QueueLemmas**: what a join, a service at the head, a departure from the middle
and an end make of a queue that holds each member of a set once.

Only model-checked:

* liveness and fairness (TLAPS does not reason about them here): `RetryAnswered`,
  `EverythingServed`, `ImplementsFairness`, `SerialAnswered`, `CloseReleases`,
  `ShutdownEnds`, `Ends`, `EndsWhenTold`;
* the findings, which are counterexamples: `RecoveryBounded`, `NothingRunsInFailed`,
  `EachAnswered`, `AnnouncedKept`.

Every safety property of a passing run, invariant or action property, is a theorem.

## Plan

Done: every module, and the proofs of all safety properties the runs check. Left:

1. Safety lemmas behind the liveness properties: that whoever sleeps is woken
   (`pc[h] = "await"` implies an unsettled state or a task that can run), that the
   steps the fairness speaks of stay possible, and a measure that each recovery decreases.
2. That the whole program implements the router: the projection of StandbyProxy until the
   end of the drain.

## Not modelled

* The MCP SDK, anyio, asyncio and httpx below what the code sees of them: they
  are in the models as the outcomes they can have.
* click's own parsing of the command line, and the resolution of relative paths:
  pure, without state.
* The `StreamWriter` arm of the JSON-RPC writer, `drain_queue` with `_queue`:
  the program never uses them.
* What the commands of the lifecycle print, and their exit codes beyond success
  and failure.
