----------------------------- MODULE ReaderLoop -----------------------------
(***************************************************************************)
(* The main loop of ProxyRunner.run (proxy.py) with read_message           *)
(* (jsonrpc.py). A turn of the loop waits for two tasks, one that reads a  *)
(* message and one that waits for the shutdown event; it cancels the one   *)
(* that is not done, then dispatches the message, or ends. Several things  *)
(* may happen between a task's end and the turn that looks at it. What is  *)
(* dispatched and what the end does is StandbyProxy's business.            *)
(***************************************************************************)
EXTENDS Naturals, SequencesExt

CONSTANTS
    Kinds,      \* the kinds of lines the client may write
    MaxLines    \* bound: lines of a session

\* A line is a JSON object; another JSON value; null; not JSON or empty; or one
\* that readline or json.loads refuses with another exception: above the limit
\* of 16 MB, or not UTF-8.
ASSUME KindsAssumption ==
    /\ Kinds \subseteq {"object", "value", "null", "skipped", "refused"}
    /\ MaxLines \in Nat

VARIABLES
    input,      \* the lines of the client, in this session
    end,        \* how stdin ends after them
    arrived,    \* how much is in the StreamReader's buffer; Len(input) + 1: all
    taken,      \* how many lines readline has returned
    reader,     \* the read task: reading, or message, none, raised for its result
    event,      \* the shutdown event is set
    watcher,    \* the task that waits for it: waiting or done
    done,       \* the tasks asyncio.wait returned as done
    loop,       \* wait, reap (the cancelled task is awaited) or over
    dispatched  \* the lines whose handle_message was started

client == <<input, end>>
vars == <<client, arrived, taken, reader, event, watcher, done, loop, dispatched>>

Init ==
    /\ input \in BoundedSeq(Kinds, MaxLines)
    /\ end \in {"eof", "reset"}
    /\ arrived = 0 /\ taken = 0
    /\ reader = "reading" /\ watcher = "waiting"
    /\ event = FALSE
    /\ done = {}
    /\ loop = "wait"
    /\ dispatched = <<>>

Ended == arrived > Len(input)

----------------------------------------------------------------------------
(* The client, the signal. *)

\* A line, in the end EOF or a reset, reaches the buffer.
Arrive ==
    /\ ~Ended
    /\ arrived' = arrived + 1
    /\ UNCHANGED <<client, taken, reader, event, watcher, done, loop, dispatched>>

\* SIGTERM or SIGINT
Signal ==
    /\ ~event
    /\ event' = TRUE
    /\ UNCHANGED <<client, arrived, taken, reader, watcher, done, loop, dispatched>>

----------------------------------------------------------------------------
(* read_message *)

\* Mutant of Outcome: a line that is no JSON returns None.
OutcomeNone(kind) ==
    CASE kind \in {"object", "value"}          -> "message"
      [] kind \in {"null", "skipped"}          -> "none"
      [] kind = "refused"                      -> "raised"

\* What becomes of the read task: None is the result of "null", too.
Outcome(kind) ==
    CASE kind \in {"object", "value"} -> "message"
      [] kind = "null"                -> "none"
      [] kind = "skipped"             -> "reading"
      [] kind = "refused"             -> "raised"

\* A reset is what readline looks at first, whatever the buffer holds.
Broken == Ended /\ end = "reset"

\* A cancelled read task never gets as far.
ReadLine ==
    /\ reader = "reading" /\ loop = "wait" /\ ~Broken
    /\ taken < arrived /\ taken < Len(input)
    /\ taken' = taken + 1
    /\ reader' = Outcome(input[taken + 1])
    /\ UNCHANGED <<client, arrived, event, watcher, done, loop, dispatched>>

ReadEnd ==
    /\ reader = "reading" /\ loop = "wait"
    /\ Broken \/ (Ended /\ taken = Len(input))
    /\ reader' = "none"
    /\ UNCHANGED <<client, arrived, taken, event, watcher, done, loop, dispatched>>

----------------------------------------------------------------------------
(* The loop. *)

EventSeen ==
    /\ event /\ watcher = "waiting" /\ loop = "wait"
    /\ watcher' = "done"
    /\ UNCHANGED <<client, arrived, taken, reader, event, done, loop, dispatched>>

\* Mutant of Completed: wait is given the read task only.
CompletedReads == IF reader # "reading" THEN {"read"} ELSE {}

Completed ==
    (IF reader # "reading" THEN {"read"} ELSE {})
      \cup (IF watcher = "done" THEN {"shutdown"} ELSE {})

\* FIRST_COMPLETED: one or both.
WaitReturns ==
    /\ loop = "wait" /\ Completed # {}
    /\ done' = Completed
    /\ loop' = "reap"
    /\ UNCHANGED <<client, arrived, taken, reader, event, watcher, dispatched>>

\* Mutant of NewTasks: the tasks are created once, before the loop.
NewTasksNone == UNCHANGED <<reader, watcher>>

NewTasks == reader' = "reading" /\ watcher' = "waiting"

\* The loop ends; a message that was read and not looked at is dropped.
Leave ==
    /\ loop' = "over"
    /\ UNCHANGED <<client, arrived, taken, reader, event, watcher, done, dispatched>>

Stop ==
    /\ loop = "reap"
    /\ "shutdown" \in done \/ reader \in {"none", "raised"}
    /\ Leave

\* The message is dispatched; then the loop looks at the event.
Dispatch ==
    /\ loop = "reap" /\ "shutdown" \notin done /\ reader = "message"
    /\ dispatched' = Append(dispatched, taken)
    /\ IF event
       THEN loop' = "over" /\ reader' = "reading" /\ UNCHANGED watcher
       ELSE loop' = "wait" /\ NewTasks
    /\ done' = {}
    /\ UNCHANGED <<client, arrived, taken, event>>

Over == loop = "over" /\ UNCHANGED vars

Run == ReadLine \/ ReadEnd \/ EventSeen \/ WaitReturns \/ Stop \/ Dispatch

Next == Arrive \/ Signal \/ Run \/ Over

Spec == Init /\ [][Next]_vars

\* asyncio runs what can run. Nothing is assumed of the client.
FairSpec == Spec /\ WF_vars(Run)

----------------------------------------------------------------------------
(* Properties. *)

\* The messages among the first n lines.
Messages(n) == {i \in 1..n : input[i] \in {"object", "value"}}

\* What became of the messages: dispatched, the last one held by the read task.
Handed == IF reader = "message" THEN Append(dispatched, taken) ELSE dispatched

\* Messages are dispatched in the order they came, each once and none left out,
\* through any number of cancelled tasks: what was read is dispatched or held by
\* the read task. Only the last one before a shutdown may be dropped: it was
\* read in the step in which the signal was seen.
InOrderOnce ==
    /\ \A i, j \in DOMAIN Handed : i < j => Handed[i] < Handed[j]
    /\ ToSet(Handed) = Messages(taken)
    /\ loop = "over" /\ reader = "message" => event

\* Nothing else ends a session than a signal, a reset, an EOF behind which no
\* line is left unread, or the line read last: one that holds null, which is
\* None as EOF is, or one that readline or json.loads refuses.
EndsOnlyWhenTold ==
    loop = "over" /\ ~event =>
       \/ Broken
       \/ Ended /\ taken = Len(input)
       \/ taken > 0 /\ input[taken] \in {"null", "refused"}

\* FR-2.5: SIGTERM or EOF end the loop, though the client may write on or
\* neither write nor close.
EndsWhenTold == (event \/ Ended) ~> loop = "over"

=============================================================================
