------------------------------ MODULE CacheFile ------------------------------
(***************************************************************************)
(* The cache file: cache.py, and what router.py does with it. The handlers *)
(* load the file in the event loop, in one step. They save by a task that  *)
(* nobody awaits, which has a thread of the executor write a temporary     *)
(* file and rename it: several saves run at a time, in any order, each     *)
(* with a snapshot that was composed from what the file held earlier.      *)
(*                                                                         *)
(* A handler is at one of:                                                 *)
(*   new        not run yet                                                *)
(*   lock       in ensure_active, up to the lock or the end of a start     *)
(*   start      holds the lock: command, healthcheck, connect, handshake   *)
(*   bootstrap  holds the lock: fetches every list                         *)
(*   request    its request is with the backend                            *)
(*   done       it has ended                                               *)
(*   raised     an exception of load has left it                           *)
(*   gone       the program ended first, or it never came                  *)
(* How a start goes and a death is detected is StandbyRouter's business:   *)
(* here the backend is active or not.                                      *)
(***************************************************************************)
EXTENDS Naturals, FiniteSets, Sequences

CONSTANTS
    Methods,            \* _CACHED_METHODS
    ToolsList,          \* the one of _DEFAULT_CAPABILITIES
    Announcements,      \* the capabilities a backend may announce, {} for none
    Initializes,        \* initialize requests
    Lists,              \* requests of a cached method
    Others,             \* forwarded requests
    MethodOf,           \* the method of each of Lists
    Nobody,             \* the lock is free
    InitialFiles,       \* what the first session may find
    Edits,              \* what somebody else may leave at the path, later
    Workloads,          \* bound: the sets of requests that come together
    MaxFaults           \* bound: faults, of all kinds taken together

Requests == Initializes \cup Lists \cup Others

ASSUME CacheAssumption ==
    /\ IsFiniteSet(Methods) /\ ToolsList \in Methods
    /\ MethodOf \in [Lists -> Methods]
    /\ IsFiniteSet(Requests) /\ Nobody \notin Requests
    /\ Initializes \cap (Lists \cup Others) = {} /\ Lists \cap Others = {}

\* A file: its kind, the capabilities (a set of features, the one of a method
\* going by the method's name), and the methods with an entry.
Blank(kind) == [kind |-> kind, caps |-> {}, lists |-> {}]

Snapshot(caps, lists) == [kind |-> "valid", caps |-> caps, lists |-> lists]

Missing     == Blank("missing")
Garbled     == Blank("garbled")       \* not JSON, or not an object
Undecodable == Blank("undecodable")   \* not UTF-8
Stale       == Blank("stale")         \* another cache_version, or none

ASSUME FileAssumption ==
    InitialFiles \cup Edits \subseteq {Missing, Garbled, Undecodable, Stale}
       \cup {Snapshot(c, l) : c \in Announcements, l \in SUBSET Methods}

VARIABLES
    file,       \* what is at the cache's path
    saves,      \* the saves under way: a snapshot and how far it came
    litter,     \* temporary files that are left behind
    active,     \* the backend is ACTIVE
    lock,       \* the task in a start
    announced,  \* the backend's capabilities, during a bootstrap
    pc, retry, replies,
    deaths,     \* of the backend, during a request
    unread,     \* loads that could not look at the file, or not read it
    failed,     \* saves that met an OSError
    stuck,      \* those of them that could not remove their temporary file
    exits,      \* clean ends of the program
    crashes,    \* ends by SIGKILL or worse
    edits       \* changes of the file by others

disk     == <<file, saves, litter>>
backend  == <<active, lock, announced>>
handlers == <<pc, retry, replies>>
faults   == <<deaths, unread, failed, stuck, exits, crashes, edits>>
vars     == <<disk, backend, handlers, faults>>

MayFail == deaths + unread + failed + exits + crashes + edits < MaxFaults

Init ==
    /\ file \in InitialFiles
    /\ saves = {} /\ litter = 0
    /\ active = FALSE /\ lock = Nobody /\ announced = {}
    /\ \E w \in Workloads : pc = [r \in Requests |-> IF r \in w THEN "new" ELSE "gone"]
    /\ retry = [r \in Requests |-> FALSE]
    /\ replies = [r \in Requests |-> <<>>]
    /\ deaths = 0 /\ unread = 0 /\ failed = 0 /\ stuck = 0
    /\ exits = 0 /\ crashes = 0 /\ edits = 0

----------------------------------------------------------------------------
(* _load_sync, _resolve_capabilities and the composition of a snapshot. *)

\* What a load may see: the file; with an OSError of read_text nothing, though
\* the file is there; with one of path.exists as little as with bytes that are
\* not UTF-8, for both leave load.
Views == {file} \cup (IF MayFail THEN {Missing, Undecodable} ELSE {})

Readable(seen) == seen.kind = "valid"
Raises(seen)   == seen.kind = "undecodable"

\* load deletes a stale file, unless the unlink fails. Nothing else changes it.
LoadedFrom(seen) == IF seen.kind = "stale" THEN {file, Missing} ELSE {file}

Load(seen) ==
    /\ file' \in LoadedFrom(seen)
    /\ unread' = IF seen = file THEN unread ELSE unread + 1
    /\ UNCHANGED <<deaths, failed, stuck, exits, crashes, edits>>

Default == {ToolsList}

\* Mutant of Resolve: no default.
ResolveBare(caps, lists) == IF caps # {} THEN caps ELSE lists

Resolve(caps, lists) ==
    IF caps # {} THEN caps ELSE IF lists # {} THEN lists ELSE Default

\* Mutant of Merged: update() is left out.
MergedAlone(seen, m) == Snapshot(Default, {m})

\* Mutant of Merged: without cache_version.
MergedVersionless(seen, m) == [Snapshot(Default, {m}) EXCEPT !.kind = "stale"]

\* What the handler of m saves: what it has seen of the file now, with m's
\* entry. The response of a backend that answered with an error has no result:
\* an empty entry is saved then.
Merged(seen, m) ==
    LET old == IF Readable(seen) THEN seen ELSE Blank("valid")
    IN  Snapshot(IF old.caps # {} THEN old.caps ELSE Default, old.lists \cup {m})

\* create_task(self._cache.save(...)), at most once by a task in each phase.
Save(r, snapshot) ==
    saves' = saves \cup {[id |-> <<r, pc[r], retry[r]>>, step |-> "queued",
                          data |-> snapshot]}

Ends == {"done", "raised"}

Goto(r, phase) == pc' = [pc EXCEPT ![r] = phase] /\ UNCHANGED replies

EndIn(r, phase, answers) ==
    /\ pc' = [pc EXCEPT ![r] = phase]
    /\ replies' = [replies EXCEPT ![r] = @ \o answers]

End(r, answers) == EndIn(r, "done", answers)

\* The start failed: its LifecycleError is what the request gets.
GiveUp(r) ==
    /\ End(r, <<"error">>)
    /\ lock' = IF lock = r THEN Nobody ELSE lock

----------------------------------------------------------------------------
(* The handlers. *)

\* An exception of load leaves the handler: the task fails, nobody answers.
Initialize(r) ==
    /\ r \in Initializes /\ pc[r] = "new"
    /\ \E seen \in Views :
          /\ Load(seen)
          /\ IF Raises(seen) THEN EndIn(r, "raised", <<>>) ELSE End(r, <<"reply">>)
    /\ UNCHANGED <<saves, litter, backend, retry>>

\* The handler has seen its method in the cache.
Hit(r, seen) == Readable(seen) /\ MethodOf[r] \in seen.lists

\* Mutant of ServeCached: no return after the answer.
ServeCachedGoesOn(r) ==
    /\ r \in Lists /\ pc[r] = "new"
    /\ Hit(r, file)
    /\ replies' = [replies EXCEPT ![r] = <<"cached">>]
    /\ pc' = [pc EXCEPT ![r] = "lock"]
    /\ UNCHANGED <<disk, backend, retry, faults>>

ServeCached(r) ==
    /\ r \in Lists /\ pc[r] = "new"
    /\ Hit(r, file)
    /\ End(r, <<"cached">>)
    /\ UNCHANGED <<disk, backend, retry, faults>>

Miss(r) ==
    /\ r \in Lists /\ pc[r] = "new"
    /\ \E seen \in Views :
          /\ ~Hit(r, seen)
          /\ Load(seen)
          /\ IF Raises(seen) THEN EndIn(r, "raised", <<>>) ELSE Goto(r, "lock")
    /\ UNCHANGED <<saves, litter, backend, retry>>

Forward(r) ==
    /\ r \in Others /\ pc[r] = "new"
    /\ Goto(r, "lock")
    /\ UNCHANGED <<disk, backend, retry, faults>>

\* ensure_active: the backend is active, or this task starts it, or the
\* cooldown, or another task's failed start, refuses it.
EnsureActive(r) ==
    /\ pc[r] = "lock" /\ lock = Nobody
    /\ \/ active /\ Goto(r, "request") /\ UNCHANGED lock
       \/ ~active /\ Goto(r, "start") /\ lock' = r
       \/ ~active /\ GiveUp(r)
    /\ UNCHANGED <<disk, active, announced, retry, faults>>

Activate(r) ==
    /\ active' = TRUE /\ lock' = Nobody
    /\ Goto(r, "request")

StartFails(r) ==
    /\ pc[r] = "start"
    /\ GiveUp(r)
    /\ UNCHANGED <<disk, active, announced, retry, faults>>

\* The handshake succeeded. No cache: bootstrap. A cache without capabilities:
\* save it with some. An exception of load fails the start.
HandshakeDone(r) ==
    /\ pc[r] = "start"
    /\ \E caps \in Announcements, seen \in Views :
          /\ Load(seen)
          /\ \/ /\ Raises(seen)
                /\ GiveUp(r)
                /\ UNCHANGED <<saves, active, announced>>
             \/ /\ ~Raises(seen) /\ ~Readable(seen)
                /\ Goto(r, "bootstrap")
                /\ announced' = caps
                /\ UNCHANGED <<saves, active, lock>>
             \/ /\ Readable(seen)
                /\ IF seen.caps = {}
                   THEN Save(r, [seen EXCEPT !.caps = Resolve(caps, seen.lists)])
                   ELSE UNCHANGED saves
                /\ Activate(r)
                /\ UNCHANGED announced
    /\ UNCHANGED <<litter, retry>>

\* Whatever failed to be fetched is left out, a dead transport's lists too.
Bootstrapped(r) ==
    /\ pc[r] = "bootstrap"
    /\ \E got \in SUBSET Methods :
          Save(r, Snapshot(Resolve(announced, got), got))
    /\ Activate(r)
    /\ announced' = {}
    /\ UNCHANGED <<file, litter, retry, faults>>

\* The backend's response is passed on; then the file is loaded again and a
\* save started. An exception of that load is caught and answered, too.
Fetched(r) ==
    /\ r \in Lists /\ pc[r] = "request"
    /\ \E seen \in Views :
          /\ Load(seen)
          /\ IF Raises(seen)
             THEN End(r, <<"reply", "error">>) /\ UNCHANGED saves
             ELSE End(r, <<"reply">>) /\ Save(r, Merged(seen, MethodOf[r]))
    /\ UNCHANGED <<litter, backend, retry>>

Forwarded(r) ==
    /\ r \in Others /\ pc[r] = "request"
    /\ End(r, <<"reply">>)
    /\ UNCHANGED <<disk, backend, retry, faults>>

\* TransportError: the backend died, or had been replaced already; one retry.
RequestDies(r) ==
    /\ pc[r] = "request" /\ ~retry[r] /\ MayFail
    /\ deaths' = deaths + 1
    /\ retry' = [retry EXCEPT ![r] = TRUE]
    /\ Goto(r, "lock")
    /\ active' \in {FALSE, active}
    /\ UNCHANGED <<disk, lock, announced, unread, failed, stuck, exits, crashes, edits>>

\* The retry's own failures and its timeout, in any phase; or an exception of
\* a first request.
RequestFails(r) ==
    /\ pc[r] = "request" \/ (retry[r] /\ pc[r] \in {"lock", "start", "bootstrap"})
    /\ GiveUp(r)
    /\ UNCHANGED <<disk, active, announced, retry, faults>>

----------------------------------------------------------------------------
(* _save_sync, in a thread. *)

Advance(s, step) == saves' = (saves \ {s}) \cup {[s EXCEPT !.step = step]}

\* Mutant of SaveOpens: the file itself is written, not a temporary one.
SaveOpensInPlace(s) ==
    /\ s.step = "queued"
    /\ Advance(s, "open")
    /\ file' = Garbled
    /\ UNCHANGED litter

\* The thread begins: there is a temporary file, not whole yet.
SaveOpens(s) ==
    /\ s.step = "queued"
    /\ Advance(s, "open")
    /\ UNCHANGED <<file, litter>>

\* It is whole, closed and renamed.
SaveRenamed(s) ==
    /\ s.step = "open"
    /\ file' = s.data
    /\ saves' = saves \ {s}
    /\ UNCHANGED litter

\* Mutant of Litter: no unlink.
LitterLeft(s) == IF s.step = "queued" THEN litter ELSE litter + 1

\* The temporary files once that of s has been removed, if it has one.
Litter(s) == litter

\* An OSError. The removal of the temporary file may meet another.
SaveFails(s) ==
    /\ saves' = saves \ {s}
    /\ \/ litter' = Litter(s) /\ UNCHANGED stuck
       \/ s.step = "open" /\ litter' = litter + 1 /\ stuck' = stuck + 1
    /\ UNCHANGED file

SaveStep ==
    /\ \E s \in saves : SaveOpens(s) \/ SaveRenamed(s)
    /\ UNCHANGED <<backend, handlers, faults>>

SaveError ==
    /\ MayFail
    /\ failed' = failed + 1
    /\ \E s \in saves : SaveFails(s)
    /\ UNCHANGED <<backend, handlers, deaths, unread, exits, crashes, edits>>

----------------------------------------------------------------------------
(* The end of the program, and the next session. *)

Ending ==
    /\ pc' = [r \in Requests |-> IF pc[r] \in {"new"} \cup Ends THEN pc[r] ELSE "gone"]
    /\ active' = FALSE /\ lock' = Nobody /\ announced' = {}
    /\ UNCHANGED <<file, retry, replies, deaths, unread, failed, stuck, edits>>

\* asyncio.run cancels what is left; a save that no thread has begun is lost,
\* the threads are joined.
Exit ==
    /\ MayFail
    /\ exits' = exits + 1
    /\ saves' = {s \in saves : s.step # "queued"}
    /\ Ending
    /\ UNCHANGED <<litter, crashes>>

Crash ==
    /\ MayFail
    /\ crashes' = crashes + 1
    /\ saves' = {}
    /\ litter' = litter + Cardinality({s \in saves : s.step # "queued"})
    /\ Ending
    /\ UNCHANGED exits

\* Manual invalidation deletes the file; an editor may do worse.
Edit ==
    /\ MayFail
    /\ edits' = edits + 1
    /\ file' \in Edits
    /\ UNCHANGED <<saves, litter, backend, handlers, deaths, unread, failed, stuck,
                   exits, crashes>>

Idle ==
    /\ saves = {} /\ \A r \in Requests : pc[r] \in Ends \cup {"gone"}
    /\ UNCHANGED vars

Step(r) ==
    \/ Initialize(r) \/ ServeCached(r) \/ Miss(r) \/ Forward(r) \/ EnsureActive(r)
    \/ StartFails(r) \/ HandshakeDone(r) \/ Bootstrapped(r) \/ Fetched(r)
    \/ Forwarded(r) \/ RequestDies(r) \/ RequestFails(r)

Next ==
    \/ \E r \in Requests : Step(r)
    \/ SaveStep \/ SaveError \/ Exit \/ Crash \/ Edit \/ Idle

Spec == Init /\ [][Next]_vars

----------------------------------------------------------------------------
(* Properties. *)

Files ==
    [kind  : {"missing", "garbled", "undecodable", "stale", "valid"},
     caps  : SUBSET (Methods \cup UNION Announcements),
     lists : SUBSET Methods]

Phases == {"new", "lock", "start", "bootstrap", "request", "done", "raised", "gone"}

TypeOK ==
    /\ file \in Files
    /\ saves \subseteq [id : Requests \X Phases \X BOOLEAN, step : {"queued", "open"},
                        data : {f \in Files : f.kind = "valid"}]
    /\ litter \in Nat /\ active \in BOOLEAN /\ lock \in Requests \cup {Nobody}
    /\ announced \in SUBSET (Methods \cup UNION Announcements)
    /\ pc \in [Requests -> Phases] /\ retry \in [Requests -> BOOLEAN]
    /\ replies \in [Requests -> Seq({"cached", "reply", "error"})]

\* "Write cache atomically" (cache.py): whatever runs at the same time, fails
\* or is killed, the path shows a whole snapshot that somebody saved, or what
\* was there before.
Atomic == INSTANCE AtomicFile
            WITH content <- file,
                 pending <- {[id |-> s.id, data |-> s.data] : s \in saves},
                 Absent  <- Missing, Edited <- Edits,
                 Foreign <- {Stale}
ImplementsAtomicFile == Atomic!Spec

Found == InitialFiles \cup Edits

Snapshots == {s.data : s \in saves}

\* Tech spec 4, "This ensures the cache always contains usable capabilities":
\* no snapshot is saved without any, or the client would never ask for a list.
CapabilitiesUsable ==
    /\ \A d \in Snapshots : d.caps # {}
    /\ Readable(file) /\ file \notin Found => file.caps # {}

\* A method is safe: the file has it, so has every snapshot that may still be
\* renamed over the file, and no bootstrap is under way.
Safe(m) ==
    /\ Readable(file) /\ m \in file.lists
    /\ \A d \in Snapshots : m \in d.lists
    /\ \A r \in Requests : pc[r] # "bootstrap"

\* A cached method stays cached: however saves overlap, fail or end with the
\* program, every later snapshot was composed from a file that had it. Only who
\* edits the file takes it away, or a load that cannot read it, in the very step
\* in which the handler composes a snapshot without it or begins a bootstrap.
KeptForever ==
    [][\A m \in Methods : Safe(m) => Safe(m)' \/ edits' # edits \/ unread' # unread]_vars

\* "No partial files remain after save" (tests/test_cache.py), after one that
\* failed neither: a temporary file is left by a process that was killed, or by
\* a save that could not remove it.
LitterHasCause == litter > 0 => crashes > 0 \/ stuck > 0

\* A handler that ends has answered its request, once, unless a load raised in
\* it: it leaves the handlers of initialize and of a list before any answer, and
\* it makes the handler of a list that the backend has answered answer again. A
\* load raises because of a file that is not UTF-8, which only an edit can have
\* left, or of one it cannot look at.
AnsweredOnce ==
    \A r \in Requests : pc[r] \in Ends =>
       \/ Len(replies[r]) = 1
       \/ /\ r \notin Others
          /\ Undecodable \in InitialFiles \/ edits > 0 \/ unread > 0
          /\ replies[r] = IF pc[r] = "raised" THEN <<>> ELSE <<"reply", "error">>

\* The comment in _handle_cacheable, "Reload cache to pick up capabilities
\* derived during activation", and "Explicit backend capabilities must be
\* preserved verbatim" (tests/test_router.py): a backend that announces
\* capabilities has them in the cache when every save has ended.
AnnouncedKept ==
    saves = {} /\ Readable(file) /\ file \notin Found => file.caps \in Announcements

=============================================================================
