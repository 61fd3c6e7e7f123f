--------------------------- MODULE TransportStream ---------------------------
(***************************************************************************)
(* One connected transport: StdioTransport, SseTransport and               *)
(* StreamableHttpTransport, whose request, notify and close are the same   *)
(* code. The SDK's client owns the connection and gives the transport two  *)
(* memory streams without buffer: a send suspends until the other side     *)
(* receives, a receive until the other side sends, first come first        *)
(* served. Every request() reads the same read stream, until it finds the  *)
(* response with its own id; anything else it reads, it drops.             *)
(*                                                                         *)
(* phase names the await a call is suspended at:                           *)
(*   idle      not called yet                                              *)
(*   sending   write_stream.send, with the timeout of fail_after           *)
(*   reading   about to read the next item: receive() first yields         *)
(*   waiting   receive() found nothing and is queued for the next item     *)
(*   done      returned or raised                                          *)
(***************************************************************************)
EXTENDS Naturals, FiniteSets, SequencesExt

CONSTANTS
    Requests,           \* calls of request(), each with an id of its own
    Notes,              \* calls of notify()
    ServerMessage,      \* what the backend sends without being asked
    StreamError,        \* an exception the SDK puts into the read stream
    Readers,            \* tasks of the SDK that read the connection: one for
                        \* stdio and SSE, more for streamable HTTP
    MaxServerMessages   \* bound: messages the backend sends without being asked

Calls == Requests \cup Notes
Items == Requests \cup {ServerMessage, StreamError}

ASSUME CallAssumption ==
    /\ IsFiniteSet(Calls)
    /\ Requests \cap Notes = {}
    /\ ServerMessage \notin Calls /\ StreamError \notin Calls
    /\ ServerMessage # StreamError
    /\ Calls \cap {"none", "sent", "dead", "raised", "cancelled"} = {}

ASSUME BoundAssumption ==
    /\ Readers \in Nat \ {0}
    /\ MaxServerMessages \in Nat

VARIABLES
    phase,      \* where each call is suspended
    result,     \* what it returned, or how it raised
    receivers,  \* the calls queued in receive(), first come first served
    offers,     \* the items the SDK is waiting to hand over
    accepted,   \* the requests the backend has and has not answered
    pushed,     \* how many server messages there were
    readable,   \* the SDK's end of the read stream is open
    writable,   \* its end of the write stream: open, broken or closed
    closing,    \* close() was called
    overlapped  \* two requests have been in flight at the same time

sdk  == <<offers, accepted, pushed, readable, writable>>
vars == <<phase, result, receivers, sdk, closing, overlapped>>

InFlight == {c \in Calls : phase[c] \notin {"idle", "done"}}

\* "dead" is a TransportError, "raised" any other exception.
Results == Requests \cup {"none", "sent", "dead", "raised", "cancelled"}

Init ==
    /\ phase = [c \in Calls |-> "idle"]
    /\ result = [c \in Calls |-> "none"]
    /\ receivers = <<>>
    /\ offers = <<>>
    /\ accepted = {}
    /\ pushed = 0
    /\ readable = TRUE
    /\ writable = "open"
    /\ closing = FALSE
    /\ overlapped = FALSE

----------------------------------------------------------------------------
(* Pieces of a step. *)

Goto(c, p) == phase' = [phase EXCEPT ![c] = p] /\ UNCHANGED result

End(c, r) ==
    /\ phase' = [phase EXCEPT ![c] = "done"]
    /\ result' = [result EXCEPT ![c] = r]

\* Mutant of Matches: the ids never compare equal.
MatchesNever(c, item) == FALSE

\* "inner.id == id"
Matches(c, item) == item = c

\* The body of the loop over the read stream.
Take(c, item) ==
    \/ item = StreamError /\ End(c, "dead")
    \/ Matches(c, item) /\ End(c, item)
    \/ item # StreamError /\ ~Matches(c, item) /\ Goto(c, "reading")

----------------------------------------------------------------------------
(* request() and notify() *)

\* A send on a stream that its own side closed is caught; on one whose other
\* side is closed it raises BrokenResourceError, which is not.
Call(c) ==
    /\ phase[c] = "idle"
    /\ overlapped' = (overlapped \/ Cardinality(Requests \cap (InFlight \cup {c})) > 1)
    /\ \/ writable = "open" /\ Goto(c, "sending")
       \/ writable = "closed" /\ End(c, "dead")
       \/ writable = "broken" /\ End(c, "raised")
    /\ UNCHANGED <<receivers, sdk, closing>>

\* Mutant of HandedOver: a notification waits for a response.
HandedOverAwaits(c) ==
    /\ phase[c] = "sending"
    /\ writable = "open"
    /\ Goto(c, "reading")
    /\ accepted' = accepted \cup ({c} \cap Requests)
    /\ UNCHANGED <<receivers, offers, pushed, readable, writable, closing, overlapped>>

\* The SDK takes the message.
HandedOver(c) ==
    /\ phase[c] = "sending"
    /\ writable = "open"
    /\ \/ c \in Requests /\ Goto(c, "reading") /\ accepted' = accepted \cup {c}
       \/ c \in Notes /\ End(c, "sent") /\ UNCHANGED accepted
    /\ UNCHANGED <<receivers, offers, pushed, readable, writable, closing, overlapped>>

\* fail_after. The SDK may have taken the message in the same moment.
HandoverTimesOut(c) ==
    /\ phase[c] = "sending"
    /\ End(c, "dead")
    /\ accepted' \in {accepted, accepted \cup ({c} \cap Requests)}
    /\ UNCHANGED <<receivers, offers, pushed, readable, writable, closing, overlapped>>

\* Mutant of StreamEnded: the loop is entered again when the stream has ended.
StreamEndedRestarts(c) == Goto(c, "reading")

\* The loop is left without a response.
StreamEnded(c) == End(c, "dead")

Read(c) ==
    /\ phase[c] = "reading"
    /\ \/ /\ offers # <<>>
          /\ Take(c, Head(offers))
          /\ offers' = Tail(offers)
          /\ UNCHANGED receivers
       \/ /\ offers = <<>> /\ readable
          /\ Goto(c, "waiting")
          /\ receivers' = Append(receivers, c)
          /\ UNCHANGED offers
       \/ /\ offers = <<>> /\ ~readable
          /\ StreamEnded(c)
          /\ UNCHANGED <<receivers, offers>>
    /\ UNCHANGED <<accepted, pushed, readable, writable, closing, overlapped>>

\* A call that is queued in receive() leaves the queue.
Leave(c) ==
    \/ c \notin ToSet(receivers) /\ UNCHANGED receivers
    \/ \E i \in DOMAIN receivers :
          receivers[i] = c /\ receivers' = RemoveAt(receivers, i)

\* The router's wait_for, or the shutdown, cancels the task that called.
Cancelled(c) ==
    /\ c \in InFlight
    /\ End(c, "cancelled")
    /\ Leave(c)
    /\ UNCHANGED <<sdk, closing, overlapped>>

\* close() enters the SDK's shutdown; Closed is what it comes to.
Close ==
    /\ ~closing
    /\ closing' = TRUE
    /\ UNCHANGED <<phase, result, receivers, sdk, overlapped>>

----------------------------------------------------------------------------
(* The SDK and the backend. *)

\* A reader of the SDK has an item: the first queued receiver gets it, or the
\* reader waits with it until someone reads.
HandUp(item) ==
    \/ /\ receivers # <<>>
       /\ Take(Head(receivers), item)
       /\ receivers' = Tail(receivers)
       /\ UNCHANGED offers
    \/ /\ receivers = <<>>
       /\ Len(offers) < Readers
       /\ offers' = Append(offers, item)
       /\ UNCHANGED <<phase, result, receivers>>

Answer(c) ==
    /\ readable
    /\ c \in accepted
    /\ accepted' = accepted \ {c}
    /\ HandUp(c)
    /\ UNCHANGED <<pushed, readable, writable, closing, overlapped>>

Push(item) ==
    /\ readable
    /\ pushed < MaxServerMessages
    /\ pushed' = pushed + 1
    /\ HandUp(item)
    /\ UNCHANGED <<accepted, readable, writable, closing, overlapped>>

\* The connection ended, or the SDK closed it: every queued receiver wakes up.
ReadEnds ==
    /\ readable
    /\ readable' = FALSE
    /\ offers' = <<>>
    /\ receivers' = <<>>
    /\ phase' = [c \in Calls |-> IF phase[c] = "waiting" THEN "reading" ELSE phase[c]]
    /\ UNCHANGED <<result, accepted, pushed, writable, closing, overlapped>>

\* The SDK's writer ended: the sends that wait for it are broken off.
WriteEnds ==
    /\ writable = "open"
    /\ writable' \in {"broken", "closed"}
    /\ phase' = [c \in Calls |-> IF phase[c] = "sending" THEN "done" ELSE phase[c]]
    /\ result' = [c \in Calls |-> IF phase[c] = "sending" THEN "raised" ELSE result[c]]
    /\ UNCHANGED <<receivers, offers, accepted, pushed, readable, closing, overlapped>>

\* The context manager exited: both streams are closed.
WriteClosed ==
    /\ closing
    /\ writable = "broken"
    /\ writable' = "closed"
    /\ UNCHANGED <<phase, result, receivers, offers, accepted, pushed, readable, closing, overlapped>>

----------------------------------------------------------------------------

Handover(c) == HandedOver(c) \/ HandoverTimesOut(c)

\* Nothing is left to do once every call has returned.
Idle == (\A c \in Calls : phase[c] = "done") /\ UNCHANGED vars

Next ==
    \/ \E c \in Calls : Call(c) \/ Handover(c) \/ Read(c) \/ Cancelled(c)
    \/ \E c \in Requests : Answer(c)
    \/ \E item \in {ServerMessage, StreamError} : Push(item)
    \/ Close \/ ReadEnds \/ WriteEnds \/ WriteClosed
    \/ Idle

Spec == Init /\ [][Next]_vars

\* A call that can run is run; a handover has its timeout; and a close, which
\* the SDK bounds, ends both streams.
CodeFairness ==
    /\ \A c \in Calls : WF_vars(Handover(c)) /\ WF_vars(Read(c))
    /\ WF_vars(closing /\ ReadEnds)
    /\ WF_vars(closing /\ (WriteEnds \/ WriteClosed))

CodeSpec == Spec /\ CodeFairness

\* The backend answers the requests it got, in any order.
BackendFairness == WF_vars(\E c \in Requests : Answer(c))

AnsweringSpec == CodeSpec /\ BackendFairness

----------------------------------------------------------------------------
(* Properties. *)

\* Every variable has its type, and the queue holds exactly the calls that
\* wait in it, once each, which they do only while nothing is offered.
TypeOK ==
    /\ phase \in [Calls -> {"idle", "sending", "reading", "waiting", "done"}]
    /\ result \in [Calls -> Results]
    /\ ToSet(receivers) = {c \in Requests : phase[c] = "waiting"}
    /\ IsInjective(receivers)
    /\ offers \in Seq(Items) /\ Len(offers) <= Readers
    /\ receivers # <<>> => offers = <<>> /\ readable
    /\ accepted \subseteq Requests
    /\ pushed \in 0..MaxServerMessages
    /\ readable \in BOOLEAN /\ closing \in BOOLEAN /\ overlapped \in BOOLEAN
    /\ writable \in {"open", "broken", "closed"}

\* As long as requests come one at a time, a request that waits has its response
\* still to come: the backend has not answered it yet, or the answer is on
\* offer. No other call took it, cancelled ones and notifications included.
ResponseToCome ==
    readable /\ ~overlapped
             => \A c \in Requests :
                   phase[c] \in {"reading", "waiting"}
                     => c \in accepted \/ c \in ToSet(offers)

\* "Correlates request ID to response" (base.py): a request ends, if the
\* backend answers what it was asked.
EachAnswered == \A c \in Requests : phase[c] = "sending" ~> phase[c] = "done"

\* That holds while requests come one at a time, whatever was cancelled before.
Waiting == InFlight \cap Requests
SerialAnswered ==
    BackendFairness /\ []~overlapped => (Waiting # {} ~> Waiting = {})

\* close() ends every call in flight, whatever the backend does: the detection
\* of a death by one request sets the others free.
CloseReleases == closing ~> InFlight = {}

=============================================================================
