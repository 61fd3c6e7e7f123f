--------------------------- MODULE CacheFileProofs ---------------------------
(***************************************************************************)
(* Proofs about the cache file, for any requests, methods, capabilities and *)
(* numbers of faults. The inductive invariant is the type invariant with    *)
(* three facts it needs: finitely many saves at a time, one content a stale *)
(* file has, and the order of the saves of one task, which tells every two  *)
(* saves apart.                                                             *)
(***************************************************************************)
EXTENDS CacheFile, FiniteSetTheorems, TLAPS

Features == Methods \cup UNION Announcements
Valid    == {f \in Files : f.kind = "valid"}
SaveSet  == [id : Requests \X Phases \X BOOLEAN, step : {"queued", "open"}, data : Valid]

StaleIsBlank == file.kind = "stale" => file = Stale

Counters ==
    /\ deaths \in Nat /\ unread \in Nat /\ failed \in Nat /\ stuck \in Nat
    /\ exits \in Nat /\ crashes \in Nat /\ edits \in Nat

\* A task that saved in phase p of its first try, or of its retry, may be in q.
Later(p, q) ==
    \/ p = "start" /\ q \in {"bootstrap", "request", "done", "raised", "gone"}
    \/ p = "bootstrap" /\ q \in {"request", "done", "raised", "gone"}
    \/ p = "request" /\ q \in {"done", "raised", "gone"}

Behind(s) ==
    \/ ~s.id[3] /\ retry[s.id[1]]
    \/ s.id[3] = retry[s.id[1]] /\ Later(s.id[2], pc[s.id[1]])

\* A task saves once in a phase, so a save is told by its id.
SavesInOrder ==
    /\ \A s, t \in saves : s.id = t.id => s = t
    /\ \A s \in saves : Behind(s)

IInv == TypeOK /\ IsFiniteSet(saves) /\ StaleIsBlank /\ Counters /\ SavesInOrder

-----------------------------------------------------------------------------
(* The operators on files. *)

LEMMA BlankFile ==
    ASSUME NEW k \in {"missing", "garbled", "undecodable", "stale", "valid"}
    PROVE  Blank(k) \in Files /\ Blank(k).kind = k
  BY DEF Blank, Files

LEMMA SnapshotFile ==
    ASSUME NEW c \in SUBSET Features, NEW l \in SUBSET Methods
    PROVE  /\ Snapshot(c, l) \in Valid
           /\ Snapshot(c, l).caps = c /\ Snapshot(c, l).lists = l
  BY DEF Snapshot, Valid, Files, Features

\* What somebody else leaves at the path is a file.
LEMMA FoundFile ==
    ASSUME NEW f \in Found
    PROVE  /\ f \in Files
           /\ f.kind = "stale" => f = Stale
           /\ f.kind = "undecodable" => f = Undecodable
<1>1. CASE f \in {Missing, Garbled, Undecodable, Stale}
  BY <1>1, BlankFile DEF Missing, Garbled, Undecodable, Stale, Blank
<1>2. CASE f \in {Snapshot(c, l) : c \in Announcements, l \in SUBSET Methods}
  <2>1. PICK c \in Announcements, l \in SUBSET Methods : f = Snapshot(c, l)
    BY <1>2
  <2>2. c \in SUBSET Features
    BY DEF Features
  <2>3. f \in Valid
    BY <2>1, <2>2, SnapshotFile
  <2>. QED
    BY <2>3 DEF Valid
<1>. QED
  BY <1>1, <1>2, FileAssumption DEF Found

\* A load sees the file or nothing.
LEMMA SeenFile ==
    ASSUME NEW seen \in Views
    PROVE  /\ Readable(seen) => seen = file
           /\ seen.kind = "stale" => seen = file
  BY BlankFile DEF Views, Readable, Missing, Undecodable

\* A load that saw anything else is counted.
LEMMA SeenUncounted ==
    ASSUME IInv, NEW seen \in Views, Load(seen)
    PROVE  seen = file \/ unread' # unread
  BY DEF Load, IInv, Counters

\* load leaves the file, or deletes the stale one.
Loaded == \E seen \in Views : file' \in LoadedFrom(seen)

LEMMA LoadedFile ==
    ASSUME file \in Files, StaleIsBlank, Loaded
    PROVE  /\ file' \in Files /\ StaleIsBlank'
           /\ file' = file \/ (file = Stale /\ file' = Missing)
<1>1. Missing \in Files /\ Missing.kind = "missing"
  BY BlankFile DEF Missing
<1>2. PICK seen \in Views : file' \in LoadedFrom(seen)
  BY DEF Loaded
<1>3. file' = file \/ (file = Stale /\ file' = Missing)
  BY <1>2, SeenFile DEF LoadedFrom, StaleIsBlank
<1>. QED
  BY <1>1, <1>3 DEF StaleIsBlank

LEMMA LoadCounted ==
    ASSUME Counters, NEW seen \in Views, Load(seen)
    PROVE  Counters' /\ Loaded
  BY DEF Load, Loaded, Counters

\* Capabilities that are resolved are some.
LEMMA ResolvedCaps ==
    ASSUME NEW c \in SUBSET Features, NEW l \in SUBSET Methods
    PROVE  Resolve(c, l) \in SUBSET Features /\ Resolve(c, l) # {}
  BY CacheAssumption DEF Resolve, Default, Features

\* What a */list handler saves: all the file had, with its own method.
LEMMA MergedFile ==
    ASSUME file \in Files, NEW seen \in Views, NEW m \in Methods
    PROVE  /\ Merged(seen, m) \in Valid
           /\ Merged(seen, m).caps # {}
           /\ Readable(seen) => file.lists \subseteq Merged(seen, m).lists
<1>. DEFINE old == IF Readable(seen) THEN seen ELSE Blank("valid")
            caps == IF old.caps # {} THEN old.caps ELSE Default
<1>1. old \in Files /\ (Readable(seen) => old = file)
  BY BlankFile, SeenFile
<1>2. Default \in SUBSET Features /\ Default # {}
  BY CacheAssumption DEF Default, Features
<1>3. /\ caps \in SUBSET Features /\ caps # {}
      /\ old.lists \cup {m} \in SUBSET Methods
  BY <1>1, <1>2 DEF Files, Features
<1>4. Merged(seen, m) = Snapshot(caps, old.lists \cup {m})
  BY DEF Merged
<1>. HIDE DEF old, caps
<1>5. /\ Merged(seen, m) \in Valid /\ Merged(seen, m).caps = caps
      /\ Merged(seen, m).lists = old.lists \cup {m}
  BY <1>3, <1>4, SnapshotFile
<1>. QED
  BY <1>1, <1>3, <1>5

\* What the handshake saves: the readable file with capabilities.
LEMMA CompletedFile ==
    ASSUME file \in Files, NEW seen \in Views, Readable(seen), NEW caps \in Announcements
    PROVE  LET f == [seen EXCEPT !.caps = Resolve(caps, seen.lists)]
           IN  f \in Valid /\ f.caps # {} /\ f.lists = file.lists
<1>1. seen = file
  BY SeenFile
<1>2. caps \in SUBSET Features /\ file.lists \in SUBSET Methods
  BY DEF Features, Files
<1>3. Resolve(caps, file.lists) \in SUBSET Features /\ Resolve(caps, file.lists) # {}
  BY <1>2, ResolvedCaps
<1>. QED
  BY <1>1, <1>3 DEF Files, Valid, Readable, Features

\* What a bootstrap saves.
LEMMA BootstrapFile ==
    ASSUME TypeOK, NEW got \in SUBSET Methods
    PROVE  LET f == Snapshot(Resolve(announced, got), got)
           IN  f \in Valid /\ f.caps # {}
<1>1. announced \in SUBSET Features
  BY DEF TypeOK, Features
<1>2. /\ Resolve(announced, got) \in SUBSET Features
      /\ Resolve(announced, got) # {}
  BY <1>1, ResolvedCaps
<1>. QED
  BY <1>2, SnapshotFile

-----------------------------------------------------------------------------
(* Parts of steps. *)

\* The set of saves changes by one at most.
SavesTyped == saves \subseteq SaveSet /\ IsFiniteSet(saves)

LEMMA SaveTyped ==
    ASSUME IInv, NEW r \in Requests, NEW f \in Valid, Save(r, f)
    PROVE  SavesTyped'
<1>. DEFINE s == [id |-> <<r, pc[r], retry[r]>>, step |-> "queued", data |-> f]
<1>1. s \in SaveSet
  BY DEF SaveSet, IInv, TypeOK
<1>2. saves' = saves \cup {s}
  BY DEF Save
<1>3. IsFiniteSet(saves')
  BY <1>2, FS_AddElement DEF IInv
<1>. QED
  BY <1>1, <1>2, <1>3 DEF SavesTyped, IInv, TypeOK, SaveSet, Valid

LEMMA FewerTyped ==
    ASSUME IInv, saves' \subseteq saves
    PROVE  SavesTyped'
<1>1. IsFiniteSet(saves')
  BY FS_Subset DEF IInv
<1>. QED
  BY <1>1 DEF SavesTyped, IInv, TypeOK, SaveSet, Valid

\* Fewer saves keep their order, if their tasks go on or stay.
LEMMA FewerInOrder ==
    ASSUME IInv, saves' \subseteq saves, retry' = retry,
           \A s \in saves' : \A p \in Phases :
               Later(p, pc[s.id[1]]) => Later(p, pc'[s.id[1]])
    PROVE  SavesInOrder'
<1>1. ASSUME NEW s \in saves' PROVE Behind(s)'
  <2>1. s \in saves /\ Behind(s) /\ s.id[2] \in Phases
    BY DEF IInv, SavesInOrder, TypeOK
  <2>. QED
    BY <1>1, <2>1 DEF Behind, Later
<1>2. \A s, t \in saves' : s.id = t.id => s = t
  BY DEF IInv, SavesInOrder
<1>. QED
  BY <1>1, <1>2 DEF SavesInOrder

\* One task moves: on, or from a phase no save of this try precedes.
Onward(p, q) == Later("request", q) \/ p \in {"new", "lock"} \/ Later(p, q)

LEMMA MoveInOrder ==
    ASSUME IInv, saves' \subseteq saves, retry' = retry,
           NEW r \in Requests, NEW q, Onward(pc[r], q), pc' = [pc EXCEPT ![r] = q]
    PROVE  SavesInOrder'
<1>1. ASSUME NEW s \in saves', NEW p \in Phases, Later(p, pc[s.id[1]])
      PROVE  Later(p, pc'[s.id[1]])
  <2>1. s.id[1] \in Requests /\ pc \in [Requests -> Phases]
    BY DEF IInv, TypeOK
  <2>. QED
    BY <1>1, <2>1 DEF Later, Onward
<1>. QED
  BY <1>1, FewerInOrder

\* One task saves and moves on.
LEMMA SaveInOrder ==
    ASSUME IInv, NEW r \in Requests, NEW f, Save(r, f), retry' = retry,
           NEW q, Later(pc[r], q), pc' = [pc EXCEPT ![r] = q]
    PROVE  SavesInOrder'
<1>1. PICK n : /\ n = [id |-> <<r, pc[r], retry[r]>>, step |-> "queued", data |-> f]
               /\ saves' = saves \cup {n}
  BY DEF Save
<1>2. pc \in [Requests -> Phases] /\ retry \in [Requests -> BOOLEAN]
  BY DEF IInv, TypeOK
<1>3. n.id[1] = r /\ n.id[2] = pc[r] /\ n.id[3] = retry[r] /\ pc'[r] = q
  BY <1>1, <1>2
<1>4. Behind(n)'
  BY <1>3 DEF Behind
<1>5. ASSUME NEW s \in saves PROVE Behind(s)' /\ s.id # n.id
  <2>1. Behind(s) /\ s.id[1] \in Requests /\ s.id[2] \in Phases
    BY DEF IInv, SavesInOrder, TypeOK
  <2>2. CASE s.id[1] # r
    BY <1>2, <1>3, <2>1, <2>2 DEF Behind
  <2>3. CASE s.id[1] = r
    <3>1. Behind(s)'
      BY <1>2, <1>3, <2>1, <2>3 DEF Behind, Later
    <3>2. s.id[2] # n.id[2] \/ s.id[3] # n.id[3]
      BY <1>2, <1>3, <2>1, <2>3 DEF Behind, Later
    <3>. QED
      BY <3>1, <3>2
  <2>. QED
    BY <2>2, <2>3
<1>6. \A s, t \in saves : s.id = t.id => s = t
  BY DEF SavesInOrder, IInv
<1>7. \A s \in saves' : Behind(s)'
  BY <1>1, <1>4, <1>5
<1>8. \A s, t \in saves' : s.id = t.id => s = t
  BY <1>1, <1>5, <1>6
<1>. QED
  BY <1>7, <1>8 DEF SavesInOrder

-----------------------------------------------------------------------------
(* The inductive invariant. *)

\* The variables of the handlers keep their types when a task ends.
LEMMA EndTyped ==
    ASSUME TypeOK, NEW r \in Requests,
           NEW a \in {<<>>, <<"cached">>, <<"reply">>, <<"error">>, <<"reply", "error">>},
           NEW q \in Ends, EndIn(r, q, a)
    PROVE  /\ pc' = [pc EXCEPT ![r] = q] /\ pc' \in [Requests -> Phases]
           /\ replies' \in [Requests -> Seq({"cached", "reply", "error"})]
<1>1. a \in Seq({"cached", "reply", "error"})
  <2>1. ASSUME NEW S, NEW x \in S, NEW y \in S
        PROVE  <<>> \in Seq(S) /\ <<x>> \in Seq(S) /\ <<x, y>> \in Seq(S)
    OBVIOUS
  <2>. QED
    BY <2>1
<1>2. replies[r] \o a \in Seq({"cached", "reply", "error"})
  BY <1>1 DEF TypeOK
<1>. QED
  BY <1>2 DEF TypeOK, EndIn, Ends, Phases

\* A task that goes on to another phase.
LEMMA GotoTyped ==
    ASSUME TypeOK, NEW r \in Requests, NEW q \in Phases, Goto(r, q)
    PROVE  pc' = [pc EXCEPT ![r] = q] /\ pc' \in [Requests -> Phases]
  BY DEF TypeOK, Goto

\* What TypeOK says of the disk, and of the rest, after a step.
LEMMA TypesTogether ==
    ASSUME SavesTyped', file' \in Files, litter' \in Nat, active' \in BOOLEAN,
           lock' \in Requests \cup {Nobody}, announced' \in SUBSET Features,
           pc' \in [Requests -> Phases], retry' \in [Requests -> BOOLEAN],
           replies' \in [Requests -> Seq({"cached", "reply", "error"})]
    PROVE  TypeOK' /\ IsFiniteSet(saves)'
  BY DEF SavesTyped, SaveSet, Valid, TypeOK, Features

LEMMA IInvInit == Init => IInv
<1>. SUFFICES ASSUME Init PROVE IInv
  OBVIOUS
<1>1. file \in Files /\ StaleIsBlank
  BY FoundFile DEF Init, StaleIsBlank, Found
<1>2. IsFiniteSet(saves) /\ saves = {}
  BY FS_EmptySet DEF Init
<1>3. TypeOK
  <2>1. /\ pc \in [Requests -> Phases] /\ retry \in [Requests -> BOOLEAN]
        /\ litter \in Nat /\ active \in BOOLEAN /\ lock = Nobody /\ announced = {}
    BY DEF Init, Phases
  <2>2. <<>> \in Seq({"cached", "reply", "error"})
    OBVIOUS
  <2>3. replies \in [Requests -> Seq({"cached", "reply", "error"})]
    BY <2>2 DEF Init
  <2>. QED
    BY <1>1, <1>2, <2>1, <2>3 DEF TypeOK
<1>. QED
  BY <1>1, <1>2, <1>3 DEF Init, IInv, Counters, SavesInOrder

\* The steps of a handler that touch neither the file nor the saves.
Untouched == UNCHANGED <<file, saves, litter>>

LEMMA PlainStep ==
    ASSUME IInv, NEW r \in Requests, Untouched,
           \/ ServeCached(r) \/ Forward(r) \/ EnsureActive(r) \/ StartFails(r)
           \/ Forwarded(r) \/ RequestFails(r)
    PROVE  IInv'
<1>1. TypeOK
  BY DEF IInv
<1>2. SavesTyped' /\ file' \in Files /\ litter' \in Nat
  BY FewerTyped DEF Untouched, IInv, TypeOK
<1>3. active' = active /\ announced' = announced /\ retry' = retry /\ UNCHANGED faults
  BY DEF ServeCached, Forward, EnsureActive, StartFails, Forwarded, RequestFails,
         disk, backend
<1>4. lock' \in Requests \cup {Nobody}
  BY DEF ServeCached, Forward, EnsureActive, StartFails, Forwarded, RequestFails,
         disk, backend, GiveUp, IInv, TypeOK
<1>5. \/ \E q \in {"lock", "request", "start"} : Goto(r, q) /\ pc[r] \in {"new", "lock"}
      \/ \E a \in {<<"cached">>, <<"error">>, <<"reply">>} : End(r, a)
  BY DEF ServeCached, Forward, EnsureActive, StartFails, Forwarded, RequestFails, GiveUp
<1>6. /\ pc' \in [Requests -> Phases]
      /\ replies' \in [Requests -> Seq({"cached", "reply", "error"})]
      /\ \E q : Onward(pc[r], q) /\ pc' = [pc EXCEPT ![r] = q]
  <2>1. CASE \E q \in {"lock", "request", "start"} : Goto(r, q) /\ pc[r] \in {"new", "lock"}
    <3>1. PICK q \in {"lock", "request", "start"} : Goto(r, q) /\ pc[r] \in {"new", "lock"}
      BY <2>1
    <3>2. q \in Phases
      BY DEF Phases
    <3>. QED
      BY <1>1, <3>1, <3>2, GotoTyped DEF Onward, Goto, TypeOK
  <2>2. CASE \E a \in {<<"cached">>, <<"error">>, <<"reply">>} : End(r, a)
    BY <1>1, <2>2, EndTyped DEF Onward, Later, End, Ends
  <2>. QED
    BY <1>5, <2>1, <2>2
<1>7. SavesInOrder'
  BY <1>3, <1>6, MoveInOrder DEF Untouched
<1>8. TypeOK' /\ IsFiniteSet(saves)'
  BY <1>2, <1>3, <1>4, <1>6, TypesTogether DEF IInv, TypeOK, Features
<1>. QED
  BY <1>3, <1>7, <1>8 DEF IInv, StaleIsBlank, Counters, Untouched, faults

\* initialize, and a miss: the file is loaded.
LEMMA LoadStep ==
    ASSUME IInv, NEW r \in Requests, Initialize(r) \/ Miss(r)
    PROVE  IInv'
<1>1. TypeOK /\ file \in Files /\ StaleIsBlank
  BY DEF IInv, TypeOK
<1>2. /\ Loaded /\ Counters' /\ pc[r] = "new"
      /\ UNCHANGED <<saves, litter, active, lock, announced, retry>>
  BY DEF Initialize, Miss, backend, Load, Loaded, IInv, Counters
<1>3. file' \in Files /\ StaleIsBlank'
  BY <1>1, <1>2, LoadedFile
<1>4. SavesTyped'
  BY <1>2, FewerTyped
<1>5. \/ Goto(r, "lock")
      \/ \E a \in {<<>>, <<"reply">>}, q \in Ends : EndIn(r, q, a)
  BY DEF Initialize, Miss, End, Ends
<1>6. /\ pc' \in [Requests -> Phases]
      /\ replies' \in [Requests -> Seq({"cached", "reply", "error"})]
      /\ \E q : pc' = [pc EXCEPT ![r] = q]
  <2>1. CASE Goto(r, "lock")
    BY <1>1, <2>1, GotoTyped DEF Goto, TypeOK, Phases
  <2>2. CASE \E a \in {<<>>, <<"reply">>}, q \in Ends : EndIn(r, q, a)
    <3>1. PICK a \in {<<>>, <<"reply">>}, q \in Ends : EndIn(r, q, a)
      BY <2>2
    <3>2. a \in {<<>>, <<"cached">>, <<"reply">>, <<"error">>, <<"reply", "error">>}
      OBVIOUS
    <3>3. /\ pc' = [pc EXCEPT ![r] = q] /\ pc' \in [Requests -> Phases]
          /\ replies' \in [Requests -> Seq({"cached", "reply", "error"})]
      BY <1>1, <3>1, <3>2, EndTyped
    <3>. QED
      BY <3>3
  <2>. QED
    BY <1>5, <2>1, <2>2
<1>7. SavesInOrder'
  BY <1>2, <1>6, MoveInOrder DEF Onward
<1>8. TypeOK' /\ IsFiniteSet(saves)'
  BY <1>1, <1>2, <1>3, <1>4, <1>6, TypesTogether DEF TypeOK, Features
<1>. QED
  BY <1>2, <1>3, <1>7, <1>8 DEF IInv

\* A death: the retry begins, and all the task saved belongs to the first try.
LEMMA DiesStep ==
    ASSUME IInv, NEW r \in Requests, RequestDies(r)
    PROVE  IInv'
<1>1. /\ UNCHANGED <<file, saves, litter, lock, announced>>
      /\ ~retry[r] /\ retry' = [retry EXCEPT ![r] = TRUE]
      /\ Goto(r, "lock") /\ active' \in {FALSE, active}
      /\ deaths' = deaths + 1 /\ UNCHANGED <<unread, failed, stuck, exits, crashes, edits>>
  BY DEF RequestDies, disk
<1>2. TypeOK /\ file \in Files /\ "lock" \in Phases
  BY DEF IInv, TypeOK, Phases
<1>3. pc' = [pc EXCEPT ![r] = "lock"] /\ pc' \in [Requests -> Phases] /\ replies' = replies
  BY <1>1, <1>2, GotoTyped DEF Goto
<1>4. SavesTyped'
  BY <1>1, FewerTyped
<1>5. SavesInOrder'
  <2>1. ASSUME NEW s \in saves PROVE Behind(s)'
    BY <1>1, <1>2, <1>3 DEF IInv, SavesInOrder, TypeOK, Behind, Later
  <2>. QED
    BY <1>1, <2>1 DEF IInv, SavesInOrder
<1>6. TypeOK' /\ IsFiniteSet(saves)'
  BY <1>1, <1>2, <1>3, <1>4, TypesTogether DEF TypeOK, Features
<1>7. StaleIsBlank' /\ Counters'
  BY <1>1 DEF IInv, StaleIsBlank, Counters
<1>. QED
  BY <1>5, <1>6, <1>7 DEF IInv

\* The steps of a start, a bootstrap and a list that load the file or save.
LEMMA SavingStep ==
    ASSUME IInv, NEW r \in Requests, HandshakeDone(r) \/ Bootstrapped(r) \/ Fetched(r)
    PROVE  IInv'
<1>1. TypeOK /\ file \in Files /\ StaleIsBlank /\ "request" \in Phases /\ "bootstrap" \in Phases
  BY DEF IInv, TypeOK, Phases
<1>2. /\ litter' = litter /\ retry' = retry /\ Counters'
      /\ file' = file \/ Loaded
  <2>1. /\ litter' = litter /\ retry' = retry
        /\ \/ UNCHANGED <<file, faults>>
           \/ \E seen \in Views : Load(seen)
    BY DEF HandshakeDone, Bootstrapped, Fetched
  <2>2. CASE UNCHANGED <<file, faults>>
    BY <2>1, <2>2 DEF IInv, Counters, faults
  <2>. QED
    BY <2>1, <2>2, LoadCounted DEF IInv
<1>3. file' \in Files /\ StaleIsBlank'
  BY <1>1, <1>2, LoadedFile DEF StaleIsBlank
<1>4. /\ active' \in BOOLEAN /\ lock' \in Requests \cup {Nobody}
      /\ announced' \in SUBSET Features
  BY <1>1 DEF HandshakeDone, Bootstrapped, Fetched, Activate, GiveUp, backend,
              TypeOK, Features
\* The task saves what is whole, or saves nothing.
<1>5. \/ saves' = saves
      \/ \E f \in Valid : Save(r, f)
  <2>1. CASE HandshakeDone(r)
    BY <1>1, <2>1, CompletedFile DEF HandshakeDone
  <2>2. CASE Bootstrapped(r)
    BY <1>1, <2>2, BootstrapFile DEF Bootstrapped
  <2>3. CASE Fetched(r)
    BY <1>1, <2>3, MergedFile, CacheAssumption DEF Fetched
  <2>. QED
    BY <2>1, <2>2, <2>3
<1>6. \E q : /\ Onward(pc[r], q) /\ Later(pc[r], q)
             /\ \/ q \in Phases /\ Goto(r, q)
                \/ /\ q \in Ends
                   /\ \E a \in {<<"reply">>, <<"error">>, <<"reply", "error">>} :
                         EndIn(r, q, a)
  <2>1. CASE HandshakeDone(r)
    BY <1>1, <2>1 DEF HandshakeDone, Activate, GiveUp, End, Ends, Onward, Later
  <2>2. CASE Bootstrapped(r)
    BY <1>1, <2>2 DEF Bootstrapped, Activate, Onward, Later
  <2>3. CASE Fetched(r)
    BY <2>3 DEF Fetched, End, Ends, Onward, Later
  <2>. QED
    BY <2>1, <2>2, <2>3
<1>7. PICK q : /\ Onward(pc[r], q) /\ Later(pc[r], q)
               /\ \/ q \in Phases /\ Goto(r, q)
                  \/ /\ q \in Ends
                     /\ \E a \in {<<"reply">>, <<"error">>, <<"reply", "error">>} :
                           EndIn(r, q, a)
  BY <1>6
<1>8. /\ pc' = [pc EXCEPT ![r] = q] /\ pc' \in [Requests -> Phases]
      /\ replies' \in [Requests -> Seq({"cached", "reply", "error"})]
  <2>1. CASE q \in Phases /\ Goto(r, q)
    BY <1>1, <2>1, GotoTyped DEF Goto, TypeOK
  <2>2. CASE /\ q \in Ends
             /\ \E a \in {<<"reply">>, <<"error">>, <<"reply", "error">>} : EndIn(r, q, a)
    BY <1>1, <2>2, EndTyped
  <2>. QED
    BY <1>7, <2>1, <2>2
<1>9. SavesTyped' /\ SavesInOrder'
  <2>1. CASE saves' = saves
    BY <1>2, <1>7, <1>8, <2>1, FewerTyped, MoveInOrder
  <2>2. CASE \E f \in Valid : Save(r, f)
    BY <1>2, <1>7, <1>8, <2>2, SaveTyped, SaveInOrder
  <2>. QED
    BY <1>5, <2>1, <2>2
<1>10. TypeOK' /\ IsFiniteSet(saves)'
  BY <1>1, <1>2, <1>3, <1>4, <1>8, <1>9, TypesTogether DEF TypeOK
<1>. QED
  BY <1>2, <1>3, <1>9, <1>10 DEF IInv

\* A handler's step.
LEMMA HandlerStep ==
    ASSUME IInv, NEW r \in Requests, Step(r)
    PROVE  IInv'
<1>1. CASE \/ ServeCached(r) \/ Forward(r) \/ EnsureActive(r) \/ StartFails(r)
           \/ Forwarded(r) \/ RequestFails(r)
  <2>1. Untouched
    BY <1>1 DEF ServeCached, Forward, EnsureActive, StartFails, Forwarded, RequestFails,
                Untouched, disk
  <2>. QED
    BY <1>1, <2>1, PlainStep
<1>2. CASE Initialize(r) \/ Miss(r)
  BY <1>2, LoadStep
<1>3. CASE RequestDies(r)
  BY <1>3, DiesStep
<1>4. CASE HandshakeDone(r) \/ Bootstrapped(r) \/ Fetched(r)
  BY <1>4, SavingStep
<1>. QED
  BY <1>1, <1>2, <1>3, <1>4 DEF Step

\* A thread's step: the file may become what a save holds, which is whole.
LEMMA ThreadStep ==
    ASSUME IInv, SaveStep \/ SaveError
    PROVE  IInv'
<1>1. UNCHANGED <<backend, handlers>> /\ litter' \in Nat /\ Counters'
  <2>1. CASE SaveStep
    BY <2>1 DEF SaveStep, SaveOpens, SaveRenamed, IInv, TypeOK, Counters, faults
  <2>2. CASE SaveError
    <3>1. PICK s \in saves : SaveFails(s)
      BY <2>2 DEF SaveError
    <3>2. litter' \in Nat /\ stuck' \in Nat
      BY <3>1 DEF SaveFails, Litter, IInv, TypeOK, Counters
    <3>. QED
      BY <2>2, <3>2 DEF SaveError, IInv, Counters
  <2>. QED
    BY <2>1, <2>2
<1>2. PICK s \in saves : saves' = saves \ {s} \/ (s.step = "queued" /\ Advance(s, "open"))
  BY DEF SaveStep, SaveError, SaveOpens, SaveRenamed, SaveFails
<1>3. file' = file \/ \E t \in saves : file' = t.data
  BY DEF SaveStep, SaveError, SaveOpens, SaveRenamed, SaveFails
<1>4. s \in SaveSet /\ saves \subseteq SaveSet
  BY DEF IInv, TypeOK, SaveSet, Valid
<1>5. file' \in Files /\ StaleIsBlank'
  BY <1>3, <1>4 DEF IInv, TypeOK, StaleIsBlank, SaveSet, Valid
<1>6. SavesTyped' /\ SavesInOrder'
  <2>1. CASE saves' = saves \ {s}
    BY <1>1, <2>1, FewerTyped, FewerInOrder DEF handlers
  <2>2. CASE s.step = "queued" /\ Advance(s, "open")
    <3>1. PICK n : n = [s EXCEPT !.step = "open"] /\ saves' = (saves \ {s}) \cup {n}
      BY <2>2 DEF Advance
    <3>2. n \in SaveSet /\ n.id = s.id
      BY <1>4, <3>1 DEF SaveSet
    <3>3. IsFiniteSet(saves')
      BY <3>1, FS_AddElement, FS_RemoveElement DEF IInv
    <3>4. \A t \in saves \cup {n} : Behind(t)'
      BY <1>1, <3>2 DEF IInv, SavesInOrder, Behind, handlers
    <3>5. \A t, u \in saves' : t.id = u.id => t = u
      <4>1. \A t, u \in saves : t.id = u.id => t = u
        BY DEF IInv, SavesInOrder
      <4>2. \A t \in saves \ {s} : t.id # n.id
        BY <3>2, <4>1
      <4>. QED
        BY <3>1, <4>1, <4>2
    <3>. QED
      BY <1>4, <3>1, <3>2, <3>3, <3>4, <3>5 DEF SavesTyped, SavesInOrder
  <2>. QED
    BY <1>2, <2>1, <2>2
<1>7. TypeOK' /\ IsFiniteSet(saves)'
  BY <1>1, <1>5, <1>6, TypesTogether DEF IInv, TypeOK, backend, handlers, Features
<1>. QED
  BY <1>1, <1>5, <1>6, <1>7 DEF IInv

\* The end of a session: its tasks are gone, its saves lost or joined.
LEMMA EndStep ==
    ASSUME IInv, Exit \/ Crash
    PROVE  IInv'
<1>1. saves' \subseteq saves /\ Ending /\ litter' \in Nat /\ Counters'
  <2>1. CASE Exit
    BY <2>1 DEF Exit, Ending, IInv, TypeOK, Counters
  <2>2. CASE Crash
    <3>. DEFINE lost == {s \in saves : s.step # "queued"}
    <3>1. IsFiniteSet(lost)
      BY FS_Subset DEF IInv
    <3>2. Cardinality(lost) \in Nat
      BY <3>1, FS_CardinalityType
    <3>. QED
      BY <2>2, <3>2 DEF Crash, Ending, IInv, TypeOK, Counters
  <2>. QED
    BY <2>1, <2>2
<1>2. /\ pc' \in [Requests -> Phases] /\ retry' = retry /\ replies' = replies
      /\ \A r \in Requests : pc'[r] = pc[r] \/ pc'[r] = "gone"
  BY <1>1 DEF Ending, IInv, TypeOK, Phases
<1>3. SavesTyped'
  BY <1>1, FewerTyped
<1>4. SavesInOrder'
  <2>1. \A s \in saves' : s.id[1] \in Requests
    BY <1>1 DEF IInv, TypeOK
  <2>. QED
    BY <1>1, <1>2, <2>1, FewerInOrder DEF Later
<1>5. TypeOK' /\ IsFiniteSet(saves)'
  BY <1>1, <1>2, <1>3, TypesTogether DEF IInv, TypeOK, Ending, Features
<1>. QED
  BY <1>1, <1>4, <1>5 DEF IInv, Ending, StaleIsBlank

LEMMA EditStep ==
    ASSUME IInv, Edit
    PROVE  IInv'
<1>1. file' \in Files /\ StaleIsBlank'
  BY FoundFile DEF Edit, StaleIsBlank, Found
<1>2. UNCHANGED <<saves, litter, backend, handlers>> /\ Counters'
  BY DEF Edit, IInv, Counters
<1>3. SavesTyped' /\ SavesInOrder'
  BY <1>2, FewerTyped, FewerInOrder DEF handlers
<1>4. TypeOK' /\ IsFiniteSet(saves)'
  BY <1>1, <1>2, <1>3, TypesTogether DEF IInv, TypeOK, backend, handlers, Features
<1>. QED
  BY <1>1, <1>2, <1>3, <1>4 DEF IInv

LEMMA IInvStep == IInv /\ [Next]_vars => IInv'
<1>. SUFFICES ASSUME IInv, [Next]_vars PROVE IInv'
  OBVIOUS
<1>1. CASE UNCHANGED vars
  <2>1. UNCHANGED <<file, saves, litter, backend, handlers, faults>>
    BY <1>1 DEF vars, disk
  <2>. QED
    BY <2>1 DEF IInv, TypeOK, StaleIsBlank, Counters, SavesInOrder, Behind,
                backend, handlers, faults
<1>. QED
  BY <1>1, HandlerStep, ThreadStep, EndStep, EditStep DEF Next, Idle

\* Every variable keeps its type, and every save can be told from the others.
THEOREM InductiveInvariant == Spec => []IInv
  BY IInvInit, IInvStep, PTL DEF Spec

\* What is at the path, in the threads and in the handlers is of its type:
\* no step composes, saves or renames anything but a whole file.
THEOREM TypeCorrect == Spec => []TypeOK
<1>1. IInv => TypeOK
  BY DEF IInv
<1>. QED
  BY <1>1, InductiveInvariant, PTL

-----------------------------------------------------------------------------
(* The path holds a whole file: CacheFile implements AtomicFile.              *)

Pending == {[id |-> s.id, data |-> s.data] : s \in saves}

\* load and save, of one task at most.
LEMMA MapsToSubmit ==
    ASSUME IInv, file' = file \/ Loaded,
           saves' = saves \/ \E r \in Requests, f \in Valid : Save(r, f)
    PROVE  Atomic!Submit
<1>1. file' = file \/ (file = Stale /\ file' = Missing)
  BY LoadedFile DEF IInv, TypeOK
<1>2. PICK n : saves' = saves \/ saves' = saves \cup {n}
  BY DEF Save
<1>3. Pending' = Pending \/ Pending' = Pending \cup {[id |-> n.id, data |-> n.data]}
  BY <1>2 DEF Pending
<1>. QED
  BY <1>1, <1>3 DEF Atomic!Submit, Pending

\* A handler's step loads and saves at most.
LEMMA HandlerMaps ==
    ASSUME IInv, NEW r \in Requests, Step(r)
    PROVE  Atomic!Submit
<1>1. TypeOK /\ file \in Files
  BY DEF IInv, TypeOK
<1>2. file' = file \/ Loaded
  BY DEF Step, ServeCached, Forward, EnsureActive, StartFails, Forwarded, RequestFails,
         Load, Loaded, Initialize, Miss, RequestDies, HandshakeDone, Bootstrapped, Fetched, disk
<1>3. saves' = saves \/ \E f \in Valid : Save(r, f)
  <2>1. CASE HandshakeDone(r)
    BY <1>1, <2>1, CompletedFile DEF HandshakeDone
  <2>2. CASE Bootstrapped(r)
    BY <1>1, <2>2, BootstrapFile DEF Bootstrapped
  <2>3. CASE Fetched(r)
    BY <1>1, <2>3, MergedFile, CacheAssumption DEF Fetched
  <2>. QED
    BY <2>1, <2>2, <2>3 DEF Step, ServeCached, Forward, EnsureActive, StartFails,
       Forwarded, RequestFails, Initialize, Miss, RequestDies, disk
<1>. QED
  BY <1>2, <1>3, MapsToSubmit

\* A rename commits its save and no other: ids tell them apart.
LEMMA RenameMaps ==
    ASSUME IInv, NEW s \in saves, SaveRenamed(s)
    PROVE  Atomic!Commit
<1>. DEFINE w == [id |-> s.id, data |-> s.data]
<1>1. w \in Pending /\ file' = w.data
  BY DEF Pending, SaveRenamed
<1>2. ASSUME NEW t \in saves, [id |-> t.id, data |-> t.data] = w
      PROVE  t = s
  <2>1. t.id = s.id
    BY <1>2
  <2>. QED
    BY <2>1 DEF IInv, SavesInOrder
<1>3. Pending' = Pending \ {w}
  <2>1. saves' = saves \ {s}
    BY DEF SaveRenamed
  <2>2. Pending' = {[id |-> t.id, data |-> t.data] : t \in saves \ {s}}
    BY <2>1 DEF Pending
  <2>. QED
    BY <1>2, <2>2 DEF Pending
<1>. HIDE DEF w
<1>. QED
  BY <1>1, <1>3 DEF Atomic!Commit, Pending

\* A save that goes on is still the same submission.
LEMMA OpenMaps ==
    ASSUME IInv, NEW s \in saves, SaveOpens(s)
    PROVE  Pending' = Pending /\ file' = file
<1>1. PICK n : n = [s EXCEPT !.step = "open"] /\ saves' = (saves \ {s}) \cup {n}
  BY DEF SaveOpens, Advance
<1>2. n.id = s.id /\ n.data = s.data
  BY <1>1 DEF IInv, TypeOK
<1>3. Pending' = {[id |-> t.id, data |-> t.data] : t \in (saves \ {s}) \cup {n}}
  BY <1>1 DEF Pending
<1>. QED
  BY <1>2, <1>3 DEF Pending, SaveOpens

LEMMA AtomicStep ==
    IInv /\ [Next]_vars =>
      [Atomic!Submit \/ Atomic!Commit \/ Atomic!Drop \/ Atomic!Edit]_<<file, Pending>>
<1>. SUFFICES ASSUME IInv, [Next]_vars
     PROVE  [Atomic!Submit \/ Atomic!Commit \/ Atomic!Drop \/ Atomic!Edit]_<<file, Pending>>
  OBVIOUS
<1>1. CASE \E r \in Requests : Step(r)
  BY <1>1, HandlerMaps
<1>2. CASE SaveStep
  BY <1>2, OpenMaps, RenameMaps DEF SaveStep
<1>3. CASE SaveError \/ Exit \/ Crash
  <2>1. saves' \subseteq saves /\ file' = file
    BY <1>3 DEF SaveError, SaveFails, Exit, Crash, Ending
  <2>. QED
    BY <2>1 DEF Atomic!Drop, Pending
<1>4. CASE Edit
  BY <1>4 DEF Edit, Atomic!Edit, Pending
<1>5. CASE UNCHANGED vars
  BY <1>5 DEF vars, disk, Pending
<1>. QED
  BY <1>1, <1>2, <1>3, <1>4, <1>5 DEF Next, Idle

\* Whatever runs at the same time, fails or is killed: the path shows whole
\* snapshots that were submitted, each once, or what somebody else left there.
THEOREM CacheImplementsAtomicFile == Spec => ImplementsAtomicFile
<1>1. Init => Pending = {}
  BY DEF Init, Pending
<1>. QED
  BY <1>1, AtomicStep, InductiveInvariant, PTL
  DEF Spec, ImplementsAtomicFile, Atomic!Spec, Pending

-----------------------------------------------------------------------------
(* What is cached stays cached, and can be used.                              *)

\* Where files come from, and what is saved while a file is readable.
LEMMA Sources ==
    ASSUME IInv, [Next]_vars, ~Edit
    PROVE  /\ file' = file \/ (file = Stale /\ file' = Missing) \/ file' \in Snapshots
           /\ \A d \in Snapshots' :
                 \/ d \in Snapshots
                 \/ /\ d.caps # {}
                    /\ \/ Readable(file) => file.lists \subseteq d.lists
                       \/ \E r \in Requests : pc[r] = "bootstrap"
                       \/ unread' # unread
           /\ \A r \in Requests : pc'[r] = "bootstrap" =>
                 pc[r] = "bootstrap" \/ ~Readable(file) \/ unread' # unread
<1>. DEFINE Good(d) == /\ d.caps # {}
                       /\ \/ Readable(file) => file.lists \subseteq d.lists
                          \/ \E r \in Requests : pc[r] = "bootstrap"
                          \/ unread' # unread
            Goal == /\ file' = file \/ (file = Stale /\ file' = Missing) \/ file' \in Snapshots
                    /\ \A d \in Snapshots' : d \in Snapshots \/ Good(d)
                    /\ \A r \in Requests : pc'[r] = "bootstrap" =>
                          pc[r] = "bootstrap" \/ ~Readable(file) \/ unread' # unread
<1>. SUFFICES Goal
  OBVIOUS
<1>1. TypeOK /\ file \in Files /\ StaleIsBlank /\ pc \in [Requests -> Phases]
  BY DEF IInv, TypeOK
<1>2. ASSUME NEW r \in Requests, Step(r) PROVE Goal
  <2>1. file' = file \/ Loaded
    BY <1>2 DEF Load, Loaded, Step, ServeCached, Forward, EnsureActive, StartFails, Forwarded,
       RequestFails, Initialize, Miss, RequestDies, HandshakeDone, Bootstrapped,
       Fetched, disk
  <2>2. file' = file \/ (file = Stale /\ file' = Missing)
    BY <1>1, <2>1, LoadedFile
  <2>3. saves' = saves \/ \E f : Save(r, f) /\ Good(f)
    <3>1. CASE HandshakeDone(r)
      BY <1>1, <3>1, CompletedFile DEF HandshakeDone
    <3>2. CASE Bootstrapped(r)
      BY <1>1, <3>2, BootstrapFile DEF Bootstrapped
    <3>3. CASE Fetched(r)
      <4>1. ASSUME NEW seen \in Views, Load(seen)
            PROVE  Good(Merged(seen, MethodOf[r])) \/ r \notin Lists
        BY <1>1, <4>1, MergedFile, SeenUncounted, CacheAssumption
      <4>. HIDE DEF Good
      <4>. QED
        BY <3>3, <4>1 DEF Fetched
    <3>. QED
      BY <1>2, <3>1, <3>2, <3>3 DEF Step, ServeCached, Forward, EnsureActive,
         StartFails, Forwarded, RequestFails, Initialize, Miss, RequestDies, disk
  <2>4. \A d \in Snapshots' : d \in Snapshots \/ Good(d)
    <3>. HIDE DEF Good
    <3>. QED
      BY <2>3 DEF Snapshots, Save
  <2>5. \A q \in Requests :
           pc'[q] = "bootstrap" =>
             pc[q] = "bootstrap" \/ ~Readable(file) \/ unread' # unread
    <3>1. CASE HandshakeDone(r)
      <4>1. PICK seen \in Views :
               /\ Load(seen)
               /\ \/ \E q \in {"done", "request"} : pc' = [pc EXCEPT ![r] = q]
                  \/ ~Readable(seen) /\ Goto(r, "bootstrap")
        BY <3>1 DEF HandshakeDone, GiveUp, Activate, End, EndIn, Goto
      <4>2. seen = file \/ unread' # unread
        BY <4>1, SeenUncounted
      <4>. QED
        BY <1>1, <4>1, <4>2 DEF Goto
    <3>2. CASE ~HandshakeDone(r)
      <4>1. \E q \in {"done", "raised", "lock", "request", "start"} : pc' = [pc EXCEPT ![r] = q]
        BY <1>2, <3>2 DEF Step, ServeCached, Forward, EnsureActive, StartFails,
           Forwarded, RequestFails, Initialize, Miss, RequestDies,
           Bootstrapped, Fetched, GiveUp, End, EndIn, Goto, Activate
      <4>. QED
        BY <1>1, <4>1
    <3>. QED
      BY <3>1, <3>2
  <2>. HIDE DEF Good
  <2>. QED
    BY <2>2, <2>4, <2>5
<1>3. CASE SaveStep \/ SaveError
  <2>1. PICK s \in saves : SaveOpens(s) \/ SaveRenamed(s) \/ SaveFails(s)
    BY <1>3 DEF SaveStep, SaveError
  <2>2. file' = file \/ file' \in Snapshots
    BY <2>1 DEF SaveOpens, SaveRenamed, SaveFails, Snapshots
  <2>3. \A t \in saves' : \E u \in saves : t.data = u.data
    <3>1. [s EXCEPT !.step = "open"].data = s.data
      BY DEF IInv, TypeOK
    <3>. QED
      BY <2>1, <3>1 DEF SaveOpens, SaveRenamed, SaveFails, Advance
  <2>4. Snapshots' \subseteq Snapshots
    BY <2>3 DEF Snapshots
  <2>5. pc' = pc
    BY <1>3 DEF SaveStep, SaveError, handlers
  <2>. QED
    BY <2>2, <2>4, <2>5
<1>4. CASE Exit \/ Crash
  <2>1. saves' \subseteq saves /\ file' = file
    BY <1>4 DEF Exit, Crash, Ending
  <2>2. \A r \in Requests : pc'[r] = pc[r] \/ pc'[r] = "gone"
    BY <1>4 DEF Exit, Crash, Ending
  <2>. QED
    BY <2>1, <2>2 DEF Snapshots
<1>5. CASE Idle \/ UNCHANGED vars
  BY <1>5 DEF Idle, vars, disk, handlers, Snapshots
<1>. HIDE DEF Good, Goal
<1>. QED
  BY <1>2, <1>3, <1>4, <1>5 DEF Next

\* However saves overlap, fail or end with the program, a method the file and
\* every snapshot under way have is never lost again, unless by an edit or by a
\* load that could not read the file.
THEOREM CachedIsKept == Spec => KeptForever
<1>1. IInv /\ [Next]_vars =>
         [\A m \in Methods : Safe(m) => Safe(m)' \/ edits' # edits \/ unread' # unread]_vars
  <2>. SUFFICES ASSUME IInv, [Next]_vars, NEW m \in Methods, Safe(m),
                       edits' = edits, unread' = unread
       PROVE  Safe(m)'
    OBVIOUS
  <2>1. /\ Readable(file) /\ m \in file.lists
        /\ \A d \in Snapshots : m \in d.lists /\ d.kind = "valid"
        /\ \A r \in Requests : pc[r] # "bootstrap"
    BY DEF Safe, IInv, TypeOK, Snapshots
  <2>2. ~Edit
    BY DEF Edit, IInv, Counters
  <2>3. /\ file' = file \/ file' \in Snapshots
        /\ \A d \in Snapshots' : d \in Snapshots \/ file.lists \subseteq d.lists
        /\ \A r \in Requests : pc'[r] # "bootstrap"
    BY <2>1, <2>2, Sources DEF Readable, Stale, Blank
  <2>. QED
    BY <2>1, <2>3 DEF Safe, Readable
<1>. QED
  BY <1>1, InductiveInvariant, PTL DEF Spec, KeptForever

\* No snapshot is saved without capabilities, so no file of this program's is
\* without them: the client will ask for the lists.
THEOREM CapabilitiesAreUsable == Spec => []CapabilitiesUsable
<1>1. Init => CapabilitiesUsable
  BY DEF Init, CapabilitiesUsable, Snapshots, Found
<1>2. IInv /\ CapabilitiesUsable /\ [Next]_vars => CapabilitiesUsable'
  <2>. SUFFICES ASSUME IInv, CapabilitiesUsable, [Next]_vars PROVE CapabilitiesUsable'
    OBVIOUS
  <2>1. CASE Edit
    BY <2>1 DEF Edit, CapabilitiesUsable, Snapshots, Found
  <2>2. CASE ~Edit
    <3>1. Missing.kind = "missing"
      BY BlankFile DEF Missing
    <3>2. \A d \in Snapshots' : d.caps # {}
      BY <2>2, Sources DEF CapabilitiesUsable
    <3>. QED
      BY <2>2, <3>1, <3>2, Sources DEF CapabilitiesUsable, Readable
  <2>. QED
    BY <2>1, <2>2
<1>. QED
  BY <1>1, <1>2, InductiveInvariant, PTL DEF Spec

-----------------------------------------------------------------------------
(* Answers, and temporary files.                                              *)

\* Why a load may raise.
Cause == Undecodable \in InitialFiles \/ edits > 0 \/ unread > 0

\* A file that cannot be decoded was found so or left by an edit, and who has
\* not ended has not answered.
AnsweredInv ==
    /\ Raises(file) => Cause
    /\ \A r \in Requests : pc[r] \notin Ends => replies[r] = <<>>
    /\ AnsweredOnce

\* Faults are never uncounted.
LEMMA CauseStays ==
    ASSUME IInv, Cause, [Next]_vars
    PROVE  Cause'
<1>1. edits' \in {edits, edits + 1} /\ unread' \in {unread, unread + 1}
  BY DEF Next, Step, Initialize, ServeCached, Miss, Forward, EnsureActive, StartFails,
     HandshakeDone, Bootstrapped, Fetched, Forwarded, RequestDies, RequestFails, Load,
     SaveStep, SaveError, SaveFails, Exit, Crash, Ending, Edit, Idle, vars, faults
<1>. QED
  BY <1>1 DEF Cause, IInv, Counters

\* The file itself raises only because somebody has left it so.
LEMMA RaisingFile ==
    ASSUME IInv, AnsweredInv, [Next]_vars
    PROVE  Raises(file)' => Cause'
<1>1. CASE ~Edit
  <2>1. file' = file \/ file' = Missing \/ \E s \in saves : file' = s.data
    <3>1. ASSUME NEW r \in Requests, Step(r) PROVE file' = file \/ Loaded
      BY <3>1 DEF Step, ServeCached, Forward, EnsureActive, StartFails, Forwarded,
         RequestFails, Initialize, Miss, RequestDies, HandshakeDone, Bootstrapped,
         Fetched, disk, Load, Loaded
    <3>. QED
      BY <1>1, <3>1 DEF Loaded, LoadedFrom, Next, SaveStep, SaveError, SaveOpens,
         SaveRenamed, SaveFails, Exit, Crash, Ending, Idle, vars, disk
  <2>2. Missing.kind = "missing"
    BY BlankFile DEF Missing
  <2>. QED
    BY <2>1, <2>2, CauseStays DEF AnsweredInv, Raises, IInv, TypeOK
<1>2. CASE Edit
  BY <1>2 DEF Edit, Cause, IInv, Counters
<1>. QED
  BY <1>1, <1>2

\* How a handler goes on: unanswered, answered once, or left by a load's
\* exception with the answers it had, and those it makes of it.
LEMMA HandlerAnswers ==
    ASSUME IInv, AnsweredInv, NEW r \in Requests, Step(r)
    PROVE  /\ pc[r] \notin Ends
           /\ \/ \E q \in Phases \ Ends : Goto(r, q)
              \/ \E a \in {"cached", "reply", "error"} : End(r, <<a>>)
              \/ /\ r \notin Others /\ Cause'
                 /\ \/ EndIn(r, "raised", <<>>)
                    \/ End(r, <<"reply", "error">>)
<1>1. ASSUME NEW seen \in Views, Load(seen), Raises(seen)
      PROVE  Cause'
  <2>1. CASE seen = file
    <3>1. Cause /\ edits' = edits /\ unread' = unread
      BY <1>1, <2>1 DEF AnsweredInv, Load
    <3>. QED
      BY <3>1 DEF Cause
  <2>2. CASE seen # file
    BY <1>1, <2>2 DEF Load, Cause, IInv, Counters
  <2>. QED
    BY <2>1, <2>2
<1>2. r \in Initializes \cup Lists => r \notin Others
  BY CacheAssumption
<1>3. pc[r] \notin Ends
  BY DEF Step, ServeCached, Forward, EnsureActive, StartFails, Forwarded, Ends,
     RequestFails, Initialize, Miss, RequestDies, HandshakeDone, Bootstrapped, Fetched
<1>4. CASE Initialize(r) \/ Miss(r)
  BY <1>1, <1>2, <1>4 DEF Initialize, Miss, Phases, Ends
<1>5. CASE Fetched(r)
  <2>1. PICK seen \in Views :
           /\ r \in Lists /\ Load(seen)
           /\ \/ Raises(seen) /\ End(r, <<"reply", "error">>)
              \/ End(r, <<"reply">>)
    BY <1>5 DEF Fetched
  <2>2. CASE Raises(seen) /\ End(r, <<"reply", "error">>)
    BY <1>1, <1>2, <1>3, <2>1, <2>2
  <2>3. CASE End(r, <<"reply">>)
    <3>1. "reply" \in {"cached", "reply", "error"}
      OBVIOUS
    <3>2. \E a \in {"cached", "reply", "error"} : End(r, <<a>>)
      BY <2>3, <3>1, Zenon
    <3>. QED
      BY <1>3, <3>2
  <2>. QED
    BY <2>1, <2>2, <2>3
<1>6. CASE ~(Initialize(r) \/ Miss(r) \/ Fetched(r))
  BY <1>6 DEF Step, ServeCached, Forward, EnsureActive, StartFails, Forwarded,
     RequestFails, RequestDies, HandshakeDone, Bootstrapped, GiveUp, Activate, Phases, Ends
<1>. QED
  BY <1>3, <1>4, <1>5, <1>6

LEMMA AnsweredStep ==
    ASSUME IInv, AnsweredInv, [Next]_vars
    PROVE  AnsweredInv'
<1>1. Raises(file)' => Cause'
  BY RaisingFile
<1>2. CASE \E r \in Requests : Step(r)
  <2>1. PICK r \in Requests : Step(r)
    BY <1>2
  <2>2. pc[r] \notin Ends /\ replies[r] = <<>>
    BY <2>1, HandlerAnswers DEF AnsweredInv
  <2>3. pc \in [Requests -> Phases] /\ DOMAIN replies = Requests
    BY DEF IInv, TypeOK
  <2>4. \A q \in Requests \ {r} : pc'[q] = pc[q] /\ replies'[q] = replies[q]
    BY <2>1, <2>3, HandlerAnswers DEF Goto, End, EndIn
  <2>5. \/ pc'[r] \notin Ends /\ replies'[r] = <<>>
        \/ pc'[r] \in Ends /\ Len(replies'[r]) = 1
        \/ /\ pc'[r] \in Ends /\ r \notin Others /\ Cause'
           /\ replies'[r] = IF pc'[r] = "raised" THEN <<>> ELSE <<"reply", "error">>
    <3>1. CASE \E q \in Phases \ Ends : Goto(r, q)
      BY <2>2, <2>3, <3>1 DEF Goto
    <3>2. CASE \E a \in {"cached", "reply", "error"} : End(r, <<a>>)
      <4>1. PICK a : End(r, <<a>>)
        BY <3>2
      <4>2. replies'[r] = <<>> \o <<a>> /\ pc'[r] = "done"
        BY <2>2, <2>3, <4>1 DEF End, EndIn
      <4>3. Len(replies'[r]) = 1
        BY <4>2
      <4>. QED
        BY <4>2, <4>3 DEF Ends
    <3>3. CASE EndIn(r, "raised", <<>>) /\ r \notin Others /\ Cause'
      <4>1. replies'[r] = <<>> \o <<>> /\ pc'[r] = "raised"
        BY <2>2, <2>3, <3>3 DEF EndIn
      <4>2. replies'[r] = <<>>
        BY <4>1
      <4>. QED
        BY <3>3, <4>1, <4>2 DEF Ends
    <3>4. CASE End(r, <<"reply", "error">>) /\ r \notin Others /\ Cause'
      <4>1. replies'[r] = <<>> \o <<"reply", "error">> /\ pc'[r] = "done"
        BY <2>2, <2>3, <3>4 DEF End, EndIn
      <4>2. replies'[r] = <<"reply", "error">>
        BY <4>1
      <4>. QED
        BY <3>4, <4>1, <4>2 DEF Ends
    <3>. QED
      BY <2>1, <3>1, <3>2, <3>3, <3>4, HandlerAnswers
  <2>6. AnsweredOnce'
    BY <2>4, <2>5, CauseStays DEF AnsweredInv, AnsweredOnce, Cause
  <2>. QED
    BY <1>1, <2>4, <2>5, <2>6 DEF AnsweredInv
<1>3. CASE ~\E r \in Requests : Step(r)
  <2>1. replies' = replies /\ \A r \in Requests : pc'[r] = pc[r] \/ pc'[r] = "gone"
    BY <1>3 DEF Next, SaveStep, SaveError, Exit, Crash, Ending, Edit, Idle, vars, handlers
  <2>2. \A r \in Requests : pc'[r] = "gone" => pc[r] \notin Ends
    BY <1>3 DEF Next, SaveStep, SaveError, Exit, Crash, Ending, Edit, Idle, vars, handlers,
                Ends
  <2>3. AnsweredOnce'
    BY <2>1, <2>2, CauseStays DEF AnsweredInv, AnsweredOnce, Cause, Ends
  <2>. QED
    BY <1>1, <2>1, <2>2, <2>3 DEF AnsweredInv, Ends
<1>. QED
  BY <1>2, <1>3

LEMMA AnsweredInit == Init => AnsweredInv
<1>. SUFFICES ASSUME Init PROVE AnsweredInv
  OBVIOUS
<1>1. Raises(file) => Undecodable \in InitialFiles
  BY FoundFile DEF Init, Raises, Found
<1>2. \A r \in Requests : pc[r] \notin Ends
  BY DEF Init, Ends
<1>. QED
  BY <1>1, <1>2 DEF Init, AnsweredInv, AnsweredOnce, Ends, Cause

\* A handler that ends has answered, once; where a load has raised, initialize
\* and a list may get no answer, and a list two.
THEOREM EveryAnswerOnce == Spec => []AnsweredOnce
<1>1. AnsweredInv => AnsweredOnce
  BY DEF AnsweredInv
<1>. QED
  BY <1>1, AnsweredInit, AnsweredStep, InductiveInvariant, PTL DEF Spec

\* A save that fails removes its temporary file: who leaves one was killed, or
\* could not remove it.
THEOREM LitterIsExplained == Spec => []LitterHasCause
<1>1. Init => LitterHasCause
  BY DEF Init, LitterHasCause
<1>2. IInv /\ LitterHasCause /\ [Next]_vars => LitterHasCause'
  <2>. SUFFICES ASSUME IInv, LitterHasCause, [Next]_vars PROVE LitterHasCause'
    OBVIOUS
  <2>1. CASE Crash
    BY <2>1 DEF Crash, LitterHasCause, IInv, Counters
  <2>2. CASE SaveError
    BY <2>2 DEF SaveError, SaveFails, Litter, LitterHasCause, IInv, Counters
  <2>3. ASSUME NEW r \in Requests, Step(r) PROVE UNCHANGED <<litter, crashes, stuck>>
    <3>1. CASE \/ Initialize(r) \/ Miss(r) \/ HandshakeDone(r) \/ Fetched(r)
      BY <3>1 DEF Initialize, Miss, HandshakeDone, Fetched, Load
    <3>2. CASE \/ ServeCached(r) \/ Forward(r) \/ EnsureActive(r) \/ StartFails(r)
               \/ Bootstrapped(r) \/ Forwarded(r) \/ RequestDies(r) \/ RequestFails(r)
      BY <3>2 DEF ServeCached, Forward, EnsureActive, StartFails, Bootstrapped, Forwarded,
         RequestDies, RequestFails, disk, faults
    <3>. QED
      BY <2>3, <3>1, <3>2 DEF Step
  <2>4. CASE SaveStep \/ Exit \/ Edit \/ Idle \/ UNCHANGED vars
    BY <2>4 DEF SaveStep, SaveOpens, SaveRenamed, Exit, Ending, Edit, Idle, vars, disk,
       faults, LitterHasCause
  <2>. QED
    BY <2>1, <2>2, <2>3, <2>4 DEF Next, LitterHasCause
<1>. QED
  BY <1>1, <1>2, InductiveInvariant, PTL DEF Spec
=============================================================================
