--------------------------- MODULE ReaderLoopProofs ---------------------------
(***************************************************************************)
(* Proofs about the main loop, for sessions of any length: the messages    *)
(* are dispatched in order, each once, and the session ends only for a     *)
(* cause.                                                                  *)
(***************************************************************************)
EXTENDS ReaderLoop, SequenceTheorems, TLAPS

TypeOK ==
    /\ input \in Seq(Kinds)
    /\ arrived \in 0 .. Len(input) + 1
    /\ taken \in 0 .. Len(input) /\ taken <= arrived
    /\ reader \in {"reading", "message", "none", "raised"}
    /\ event \in BOOLEAN
    /\ watcher \in {"waiting", "done"}
    /\ done \subseteq {"read", "shutdown"}
    /\ loop \in {"wait", "reap", "over"}
    /\ dispatched \in Seq(Nat)

\* The messages read are dispatched but for the one the read task holds, which
\* is the line read last.
Kept ==
    /\ \A i, j \in DOMAIN dispatched : i < j => dispatched[i] < dispatched[j]
    /\ IF reader = "message"
       THEN taken \in Messages(taken) /\ ToSet(dispatched) = Messages(taken - 1)
       ELSE ToSet(dispatched) = Messages(taken)

\* A read task without a message has a reason, and the reason stays.
Reasons ==
    /\ reader = "none" =>
          \/ Broken
          \/ Ended /\ taken = Len(input)
          \/ taken > 0 /\ input[taken] = "null"
    /\ reader = "raised" => taken > 0 /\ input[taken] = "refused"

\* The loop is told of a shutdown by the event only, and ends for a shutdown or
\* for a read task without a message.
Told ==
    /\ watcher = "done" \/ "shutdown" \in done => event
    /\ loop = "over" => event \/ reader \in {"none", "raised"}

LoopInv == TypeOK /\ Kept /\ Reasons /\ Told

\* The sequences a session may be of.
LEMMA InputType == ASSUME NEW s \in BoundedSeq(Kinds, MaxLines) PROVE s \in Seq(Kinds)
<1>1. PICK m \in 0..MaxLines : s \in [1..m -> Kinds]
  BY DEF BoundedSeq, SeqOf
<1>. QED
  BY <1>1, KindsAssumption

\* One more line: a message or not one.
LEMMA NextLine ==
    ASSUME NEW n \in Nat
    PROVE  Messages(n + 1) = IF input[n + 1] \in {"object", "value"}
                             THEN Messages(n) \cup {n + 1} ELSE Messages(n)
  BY DEF Messages

\* What is appended to what was dispatched is one element more.
LEMMA Appended ==
    ASSUME NEW s \in Seq(Nat), NEW e \in Nat
    PROVE  /\ ToSet(Append(s, e)) = ToSet(s) \cup {e}
           /\ (\A i, j \in DOMAIN s : i < j => s[i] < s[j]) /\ (\A x \in ToSet(s) : x < e)
              => \A i, j \in DOMAIN Append(s, e) :
                    i < j => Append(s, e)[i] < Append(s, e)[j]
<1>1. /\ DOMAIN s = 1..Len(s) /\ Len(s) \in Nat
      /\ DOMAIN Append(s, e) = 1 .. Len(s) + 1
      /\ Append(s, e)[Len(s) + 1] = e
      /\ \A i \in 1..Len(s) : Append(s, e)[i] = s[i]
  OBVIOUS
<1>2. ToSet(Append(s, e)) = ToSet(s) \cup {e}
  <2>1. ASSUME NEW x PROVE x \in ToSet(Append(s, e)) => x \in ToSet(s) \cup {e}
    BY <1>1 DEF ToSet
  <2>2. ASSUME NEW x \in ToSet(s) PROVE x \in ToSet(Append(s, e))
    BY <1>1 DEF ToSet
  <2>3. e \in ToSet(Append(s, e))
    BY <1>1 DEF ToSet
  <2>. QED
    BY <2>1, <2>2, <2>3
<1>3. ASSUME \A i, j \in DOMAIN s : i < j => s[i] < s[j],
             \A x \in ToSet(s) : x < e,
             NEW i \in DOMAIN Append(s, e), NEW j \in DOMAIN Append(s, e), i < j
      PROVE  Append(s, e)[i] < Append(s, e)[j]
  <2>1. i \in 1..Len(s)
    BY <1>1, <1>3
  <2>2. Append(s, e)[i] = s[i] /\ s[i] \in ToSet(s)
    BY <1>1, <2>1 DEF ToSet
  <2>3. CASE j = Len(s) + 1
    BY <1>1, <1>3, <2>2, <2>3
  <2>4. CASE j \in 1..Len(s)
    BY <1>1, <1>3, <2>1, <2>2, <2>4
  <2>. QED
    BY <1>1, <2>3, <2>4
<1>. QED
  BY <1>2, <1>3

\* The invariant holds initially.
LEMMA LoopInit == Init => LoopInv
<1>. SUFFICES ASSUME Init PROVE LoopInv
  OBVIOUS
<1>1. input \in Seq(Kinds) /\ Len(input) \in Nat
  BY InputType DEF Init
<1>2. dispatched \in Seq(Nat)
  BY DEF Init
<1>3. /\ arrived \in 0 .. Len(input) + 1
      /\ taken \in 0 .. Len(input) /\ taken <= arrived
  BY <1>1 DEF Init
<1>4. TypeOK
  BY <1>1, <1>2, <1>3 DEF Init, TypeOK
<1>5. ToSet(dispatched) = {} /\ Messages(taken) = {} /\ DOMAIN dispatched = {}
  BY DEF Init, ToSet, Messages
<1>. QED
  BY <1>4, <1>5 DEF Init, LoopInv, Kept, Reasons, Told

\* A line read: a message is held, the rest is not.
LEMMA ReadLineStep == LoopInv /\ ReadLine => LoopInv'
<1>. SUFFICES ASSUME LoopInv, ReadLine PROVE LoopInv'
  OBVIOUS
<1>1. /\ reader = "reading" /\ loop = "wait" /\ taken < arrived /\ taken < Len(input)
      /\ taken' = taken + 1 /\ reader' = Outcome(input[taken + 1])
      /\ UNCHANGED <<input, end, arrived, event, watcher, done, loop, dispatched>>
  BY DEF ReadLine, client
<1>2. /\ taken \in Nat /\ Len(input) \in Nat /\ arrived \in Nat
      /\ input[taken + 1] \in {"object", "value", "null", "skipped", "refused"}
  <2>1. /\ input \in Seq(Kinds) /\ taken \in 0 .. Len(input)
        /\ arrived \in 0 .. Len(input) + 1
    BY DEF LoopInv, TypeOK
  <2>2. Len(input) \in Nat
    BY <2>1
  <2>3. taken \in Nat /\ arrived \in Nat /\ taken + 1 \in 1 .. Len(input)
    BY <1>1, <2>1, <2>2
  <2>4. input[taken + 1] \in Kinds
    BY <2>1, <2>3
  <2>. QED
    BY <2>2, <2>3, <2>4, KindsAssumption
<1>3. /\ input[taken + 1] \in {"object", "value"} => reader' = "message"
      /\ input[taken + 1] = "null" => reader' = "none"
      /\ input[taken + 1] = "skipped" => reader' = "reading"
      /\ input[taken + 1] = "refused" => reader' = "raised"
  BY <1>1 DEF Outcome
<1>4. \A n : Messages(n)' = Messages(n)
  BY <1>1 DEF Messages
<1>5. TypeOK'
  BY <1>1, <1>2, <1>3 DEF LoopInv, TypeOK
<1>6. ToSet(dispatched) = Messages(taken) /\ ToSet(dispatched)' = ToSet(dispatched)
  BY <1>1 DEF LoopInv, Kept
<1>7. Kept'
  <2>1. CASE input[taken + 1] \in {"object", "value"}
    <3>1. taken + 1 \in Messages(taken + 1) /\ (taken + 1) - 1 = taken
      BY <1>2, <2>1 DEF Messages
    <3>. QED
      BY <1>1, <1>3, <1>4, <1>6, <2>1, <3>1 DEF LoopInv, Kept
  <2>2. CASE input[taken + 1] \notin {"object", "value"}
    <3>1. Messages(taken + 1) = Messages(taken)
      BY <1>2, <2>2, NextLine
    <3>2. reader' # "message"
      BY <1>2, <1>3, <2>2
    <3>. QED
      BY <1>1, <1>4, <1>6, <3>1, <3>2 DEF LoopInv, Kept
  <2>. QED
    BY <2>1, <2>2
<1>8. Reasons'
  BY <1>1, <1>2, <1>3 DEF Reasons
<1>9. Told'
  BY <1>1 DEF LoopInv, Told
<1>. QED
  BY <1>5, <1>7, <1>8, <1>9 DEF LoopInv

\* The message held is dispatched, after those before it.
LEMMA DispatchStep == LoopInv /\ Dispatch => LoopInv'
<1>. SUFFICES ASSUME LoopInv, Dispatch PROVE LoopInv'
  OBVIOUS
<1>1. /\ loop = "reap" /\ reader = "message" /\ reader' = "reading"
      /\ dispatched' = Append(dispatched, taken)
      /\ done' = {} /\ UNCHANGED <<input, end, arrived, taken, event>>
      /\ IF event THEN loop' = "over" /\ UNCHANGED watcher
         ELSE loop' = "wait" /\ watcher' = "waiting"
  BY DEF Dispatch, NewTasks, client
<1>2. /\ dispatched \in Seq(Nat) /\ taken \in Nat
      /\ taken \in Messages(taken) /\ ToSet(dispatched) = Messages(taken - 1)
      /\ \A i, j \in DOMAIN dispatched : i < j => dispatched[i] < dispatched[j]
  BY <1>1 DEF LoopInv, TypeOK, Kept
<1>3. /\ taken - 1 \in Nat /\ (taken - 1) + 1 = taken
      /\ input[taken] \in {"object", "value"}
      /\ \A x \in Messages(taken - 1) : x < taken
  BY <1>2 DEF Messages
<1>4. Messages(taken) = Messages(taken - 1) \cup {taken}
  BY <1>3, NextLine
<1>5. /\ ToSet(dispatched') = Messages(taken)
      /\ \A i, j \in DOMAIN dispatched' : i < j => dispatched'[i] < dispatched'[j]
  BY <1>1, <1>2, <1>3, <1>4, Appended
<1>6. Messages(taken)' = Messages(taken)
  BY <1>1 DEF Messages
<1>7. TypeOK'
  <2>1. dispatched' \in Seq(Nat)
    BY <1>1, <1>2
  <2>. QED
    BY <1>1, <2>1 DEF LoopInv, TypeOK
<1>8. Kept'
  BY <1>1, <1>5, <1>6 DEF Kept
<1>9. Reasons' /\ Told'
  BY <1>1 DEF LoopInv, TypeOK, Reasons, Told
<1>. QED
  BY <1>7, <1>8, <1>9 DEF LoopInv

\* The client and the signal: what the loop did stays.
LEMMA OutsideStep == LoopInv /\ (Arrive \/ Signal) => LoopInv'
<1>. SUFFICES ASSUME LoopInv, Arrive \/ Signal PROVE LoopInv'
  OBVIOUS
<1>1. /\ UNCHANGED <<input, end, taken, reader, watcher, done, loop, dispatched>>
      /\ event => event'
      /\ arrived' = arrived \/ (~Ended /\ arrived' = arrived + 1)
      /\ event' \in BOOLEAN
  BY DEF Arrive, Signal, client, LoopInv, TypeOK
<1>2. Ended => Ended'
  BY <1>1 DEF Ended
<1>3. Broken => Broken'
  BY <1>1, <1>2 DEF Broken
<1>4. TypeOK'
  BY <1>1 DEF LoopInv, TypeOK, Ended
<1>5. Kept'
  BY <1>1 DEF LoopInv, Kept, Messages
<1>6. Reasons'
  BY <1>1, <1>2, <1>3 DEF LoopInv, Reasons
<1>7. Told'
  BY <1>1 DEF LoopInv, Told
<1>. QED
  BY <1>4, <1>5, <1>6, <1>7 DEF LoopInv

\* The steps of the loop that dispatch nothing.
LEMMA TurnStep == LoopInv /\ (ReadEnd \/ EventSeen \/ WaitReturns \/ Stop \/ Over) => LoopInv'
<1>. SUFFICES ASSUME LoopInv, ReadEnd \/ EventSeen \/ WaitReturns \/ Stop \/ Over
              PROVE  LoopInv'
  OBVIOUS
<1>1. /\ UNCHANGED <<input, end, arrived, taken, event, dispatched>>
      /\ \/ /\ reader = "reading" /\ reader' = "none" /\ UNCHANGED <<watcher, done, loop>>
            /\ (Broken \/ (Ended /\ taken = Len(input))) /\ loop = "wait"
         \/ event /\ watcher' = "done" /\ UNCHANGED <<reader, done, loop>>
         \/ done' = Completed /\ loop' = "reap" /\ UNCHANGED <<reader, watcher>>
         \/ /\ "shutdown" \in done \/ reader \in {"none", "raised"}
            /\ loop' = "over" /\ UNCHANGED <<reader, watcher, done>>
         \/ UNCHANGED <<reader, watcher, done, loop>>
  BY DEF ReadEnd, EventSeen, WaitReturns, Stop, Leave, Over, vars, client
<1>2. /\ Messages(taken)' = Messages(taken) /\ Messages(taken - 1)' = Messages(taken - 1)
      /\ Ended' = Ended /\ Broken' = Broken /\ ToSet(dispatched)' = ToSet(dispatched)
  BY <1>1 DEF Messages, Ended, Broken
<1>3. TypeOK'
  BY <1>1 DEF LoopInv, TypeOK, Completed
<1>4. Kept'
  BY <1>1, <1>2 DEF LoopInv, Kept
<1>5. Reasons'
  BY <1>1, <1>2 DEF LoopInv, Reasons
<1>6. Told'
  BY <1>1 DEF LoopInv, Told, Completed
<1>. QED
  BY <1>3, <1>4, <1>5, <1>6 DEF LoopInv

\* The invariant holds of every session, of any length.
THEOREM LoopInvariant == Spec => []LoopInv
<1>1. LoopInv /\ UNCHANGED vars => LoopInv'
  <2>. SUFFICES ASSUME LoopInv, UNCHANGED vars PROVE LoopInv'
    OBVIOUS
  <2>1. TypeOK' /\ Told'
    BY DEF vars, client, LoopInv, TypeOK, Told
  <2>2. Kept' /\ Reasons'
    BY DEF vars, client, LoopInv, Kept, Reasons, Messages, Broken, Ended
  <2>. QED
    BY <2>1, <2>2 DEF LoopInv
<1>2. LoopInv /\ [Next]_vars => LoopInv'
  BY <1>1, ReadLineStep, DispatchStep, OutsideStep, TurnStep DEF Next, Run
<1>. QED
  BY LoopInit, <1>2, PTL DEF Spec

\* Messages are dispatched in the order they came, each once and none left out;
\* only the last one before a shutdown may be dropped.
THEOREM DispatchedInOrderOnce == Spec => []InOrderOnce
<1>1. LoopInv => InOrderOnce
  <2>. SUFFICES ASSUME LoopInv PROVE InOrderOnce
    OBVIOUS
  <2>1. loop = "over" /\ reader = "message" => event
    BY DEF LoopInv, Told
  <2>2. CASE reader # "message"
    BY <2>1, <2>2 DEF LoopInv, Kept, InOrderOnce, Handed
  <2>3. CASE reader = "message"
    <3>1. /\ dispatched \in Seq(Nat) /\ taken \in Nat
          /\ taken \in Messages(taken) /\ ToSet(dispatched) = Messages(taken - 1)
          /\ \A i, j \in DOMAIN dispatched : i < j => dispatched[i] < dispatched[j]
      BY <2>3 DEF LoopInv, TypeOK, Kept
    <3>2. /\ taken - 1 \in Nat /\ (taken - 1) + 1 = taken
          /\ input[taken] \in {"object", "value"}
          /\ \A x \in Messages(taken - 1) : x < taken
      BY <3>1 DEF Messages
    <3>3. Messages(taken) = Messages(taken - 1) \cup {taken}
      BY <3>2, NextLine
    <3>4. Handed = Append(dispatched, taken)
      BY <2>3 DEF Handed
    <3>. QED
      BY <2>1, <3>1, <3>2, <3>3, <3>4, Appended DEF InOrderOnce
  <2>. QED
    BY <2>2, <2>3
<1>. QED
  BY <1>1, LoopInvariant, PTL

\* Nothing else ends a session than a signal, a reset, an EOF behind which no
\* line is left unread, or the line read last.
THEOREM EndedOnlyWhenTold == Spec => []EndsOnlyWhenTold
<1>1. LoopInv => EndsOnlyWhenTold
  BY DEF LoopInv, Reasons, Told, EndsOnlyWhenTold
<1>. QED
  BY <1>1, LoopInvariant, PTL

============================================================================
