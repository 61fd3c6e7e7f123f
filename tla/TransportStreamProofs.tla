------------------------ MODULE TransportStreamProofs ------------------------
(***************************************************************************)
(* Proofs about a connected transport, for any number of calls, readers    *)
(* and unasked messages. Two invariants, one resting on the other: the     *)
(* queue of the receivers is what the phases of the calls say (QueueInv),  *)
(* and while requests come one at a time nobody takes the response of      *)
(* another (Alone with ResponseToCome).                                    *)
(***************************************************************************)
EXTENDS TransportStream, QueueLemmas, FiniteSetTheorems

PhaseNames == {"idle", "sending", "reading", "waiting", "done"}

\* Each waiting request is in the queue, once, and nobody else.
Queued == {c \in Requests : phase[c] = "waiting"}
Queue  == Line(receivers, Queued)

\* A notification never reads.
NotesSend == \A c \in Notes : phase[c] \in {"idle", "sending", "done"}

\* What is on offer, and when.
Offers ==
    /\ offers \in Seq(Items) /\ Len(offers) <= Readers
    /\ receivers # <<>> => offers = <<>> /\ readable

Plain ==
    /\ phase \in [Calls -> PhaseNames]
    /\ result \in [Calls -> Results]
    /\ accepted \subseteq Requests
    /\ pushed \in 0..MaxServerMessages
    /\ readable \in BOOLEAN /\ closing \in BOOLEAN /\ overlapped \in BOOLEAN
    /\ writable \in {"open", "broken", "closed"}

QueueInv == Plain /\ Queue /\ NotesSend /\ Offers

----------------------------------------------------------------------------
(* The queue under the four things that happen to it. *)

\* The queue, element by element.
LEMMA QueueShape ==
    ASSUME Queue
    PROVE  /\ receivers \in Seq(Requests) /\ Len(receivers) \in Nat
           /\ \A i \in 1..Len(receivers) :
                 receivers[i] \in Requests /\ phase[receivers[i]] = "waiting"
           /\ \A c \in Requests :
                 phase[c] = "waiting" => \E i \in 1..Len(receivers) : receivers[i] = c
           /\ \A i, j \in 1..Len(receivers) : receivers[i] = receivers[j] => i = j
<1>1. /\ receivers \in Seq(Queued) /\ Len(receivers) \in Nat
      /\ \A i \in 1..Len(receivers) : receivers[i] \in Queued
      /\ \A i, j \in 1..Len(receivers) : receivers[i] = receivers[j] => i = j
  BY LineType DEF Queue
<1>2. receivers \in Seq(Requests)
  BY <1>1 DEF Queued
<1>3. \A c \in Queued : \E i \in 1..Len(receivers) : receivers[i] = c
  BY DEF Queue, Line
<1>. QED
  BY <1>1, <1>2, <1>3 DEF Queued

\* A call that is not queued goes elsewhere.
LEMMA QueueElsewhere ==
    ASSUME Queue, phase \in [Calls -> PhaseNames], NEW c \in Calls, NEW p,
           phase[c] # "waiting", p # "waiting",
           phase' = [phase EXCEPT ![c] = p], receivers' = receivers
    PROVE  Queue'
<1>1. Queued' = Queued
  BY DEF Queued, Calls
<1>. QED
  BY <1>1 DEF Queue

\* A request joins the queue at its end.
LEMMA QueueJoined ==
    ASSUME Queue, phase \in [Calls -> PhaseNames], NEW c \in Requests,
           phase[c] # "waiting",
           phase' = [phase EXCEPT ![c] = "waiting"],
           receivers' = Append(receivers, c)
    PROVE  Queue'
<1>1. c \notin Queued /\ Queued' = Queued \cup {c}
  BY DEF Queued, Calls
<1>2. Line(Append(receivers, c), Queued \cup {c})
  BY <1>1, LineJoined DEF Queue
<1>. QED
  BY <1>1, <1>2 DEF Queue

\* The head of the queue gets an item.
LEMMA QueueServed ==
    ASSUME Queue, phase \in [Calls -> PhaseNames], receivers # <<>>,
           NEW p, p # "waiting",
           phase' = [phase EXCEPT ![Head(receivers)] = p],
           receivers' = Tail(receivers)
    PROVE  /\ Queue'
           /\ Head(receivers) \in Requests /\ phase[Head(receivers)] = "waiting"
<1>1. Line(Tail(receivers), Queued \ {Head(receivers)}) /\ Head(receivers) \in Queued
  BY LineServed DEF Queue
<1>2. Queued' = Queued \ {Head(receivers)}
  BY <1>1 DEF Queued, Calls
<1>. QED
  BY <1>1, <1>2 DEF Queue, Queued

\* A cancelled call is taken out, wherever it is.
LEMMA QueueLeft ==
    ASSUME Queue, phase \in [Calls -> PhaseNames], NEW c \in Calls,
           phase' = [phase EXCEPT ![c] = "done"], Leave(c), NotesSend
    PROVE  Queue' /\ (receivers = <<>> => receivers' = <<>>)
<1>0. Len(receivers) \in Nat /\ DOMAIN receivers = 1..Len(receivers)
  BY QueueShape
<1>1. CASE c \notin ToSet(receivers) /\ receivers' = receivers
  <2>1. phase[c] # "waiting"
    BY <1>0, <1>1, QueueShape DEF ToSet, NotesSend, Calls
  <2>. QED
    BY <1>1, <2>1, QueueElsewhere
<1>2. CASE \E i \in DOMAIN receivers : receivers[i] = c /\ receivers' = RemoveAt(receivers, i)
  <2>1. PICK i \in 1..Len(receivers) : receivers[i] = c /\ receivers' = RemoveAt(receivers, i)
    BY <1>0, <1>2
  <2>2. Line(RemoveAt(receivers, i), Queued \ {receivers[i]})
    BY LineLeft DEF Queue
  <2>3. Queued' = Queued \ {c}
    BY DEF Queued, Calls
  <2>. QED
    BY <1>0, <2>1, <2>2, <2>3 DEF Queue
<1>. QED
  BY <1>1, <1>2 DEF Leave

----------------------------------------------------------------------------
(* Pieces of a step. *)

\* What an item does to the call that gets it.
LEMMA TakeDoes ==
    ASSUME NEW c, NEW item, Take(c, item)
    PROVE  \E p \in {"done", "reading"} :
              /\ phase' = [phase EXCEPT ![c] = p]
              /\ \/ p = "reading" /\ item # c /\ result' = result
                 \/ p = "done" /\ result' = [result EXCEPT ![c] = "dead"]
                 \/ p = "done" /\ item = c /\ result' = [result EXCEPT ![c] = c]
  BY DEF Take, End, Goto, Matches

\* The head of what is on offer, and the rest.
LEMMA OffersTail ==
    ASSUME offers \in Seq(Items), offers # <<>>
    PROVE  /\ Head(offers) \in Items
           /\ Tail(offers) \in Seq(Items)
           /\ Len(Tail(offers)) = Len(offers) - 1
           /\ \A x \in ToSet(offers) : x = Head(offers) \/ x \in ToSet(Tail(offers))
<1>1. /\ Head(offers) \in Items /\ Head(offers) = offers[1]
      /\ Tail(offers) \in Seq(Items)
      /\ Len(offers) \in Nat \ {0}
      /\ Len(Tail(offers)) = Len(offers) - 1
      /\ DOMAIN offers = 1..Len(offers) /\ DOMAIN Tail(offers) = 1..Len(Tail(offers))
      /\ \A i \in 1..Len(Tail(offers)) : Tail(offers)[i] = offers[i + 1]
  BY HeadTailProperties, LenProperties
<1>2. ASSUME NEW x \in ToSet(offers), x # Head(offers)
      PROVE  x \in ToSet(Tail(offers))
  <2>1. PICK i \in 1..Len(offers) : offers[i] = x
    BY <1>1 DEF ToSet
  <2>2. i - 1 \in 1..Len(Tail(offers)) /\ (i - 1) + 1 = i
    BY <1>1, <1>2, <2>1
  <2>3. Tail(offers)[i - 1] = x
    BY <1>1, <2>1, <2>2
  <2>. QED
    BY <1>1, <2>2, <2>3 DEF ToSet
<1>. QED
  BY <1>1, <1>2

\* One more item on offer.
LEMMA OffersAppend ==
    ASSUME offers \in Seq(Items), NEW item \in Items
    PROVE  /\ Append(offers, item) \in Seq(Items)
           /\ Len(Append(offers, item)) = Len(offers) + 1
           /\ item \in ToSet(Append(offers, item))
           /\ ToSet(offers) \subseteq ToSet(Append(offers, item))
<1>1. /\ Append(offers, item) \in Seq(Items)
      /\ Len(offers) \in Nat
      /\ Len(Append(offers, item)) = Len(offers) + 1
      /\ DOMAIN offers = 1..Len(offers)
      /\ DOMAIN Append(offers, item) = 1..Len(offers) + 1
      /\ \A i \in 1..Len(offers) : Append(offers, item)[i] = offers[i]
      /\ Append(offers, item)[Len(offers) + 1] = item
  BY AppendProperties, LenProperties
<1>. QED
  BY <1>1 DEF ToSet

\* A call that reads is a request.
LEMMA ReadersAreRequests ==
    ASSUME NotesSend, NEW c \in Calls, phase[c] \in {"reading", "waiting"}
    PROVE  c \in Requests
  BY DEF NotesSend, Calls

\* A phase and a result that change for one call only.
LEMMA OneCallTypes ==
    ASSUME Plain, NEW c \in Calls, NEW p \in PhaseNames, NEW r \in Results,
           phase' = [phase EXCEPT ![c] = p],
           result' = result \/ result' = [result EXCEPT ![c] = r]
    PROVE  phase' \in [Calls -> PhaseNames] /\ result' \in [Calls -> Results]
  BY DEF Plain

\* Notifications keep clear of the read stream.
LEMMA NotesElsewhere ==
    ASSUME Plain, NotesSend, NEW c \in Calls, NEW p,
           p \in {"sending", "done"} \/ c \in Requests,
           phase' = [phase EXCEPT ![c] = p]
    PROVE  NotesSend'
  BY CallAssumption DEF NotesSend, Plain, Calls

----------------------------------------------------------------------------
(* The queue is what the phases say. *)

LEMMA HandUpQueue ==
    ASSUME QueueInv, NEW item \in Items, HandUp(item), readable, readable' = readable
    PROVE  /\ phase' \in [Calls -> PhaseNames] /\ result' \in [Calls -> Results]
           /\ Queue' /\ NotesSend' /\ Offers'
<1>1. CASE receivers # <<>> /\ Take(Head(receivers), item)
           /\ receivers' = Tail(receivers) /\ offers' = offers
  <2>. DEFINE h == Head(receivers)
  <2>1. PICK p \in {"done", "reading"} :
           /\ phase' = [phase EXCEPT ![h] = p]
           /\ \/ result' = result
              \/ result' = [result EXCEPT ![h] = "dead"]
              \/ result' = [result EXCEPT ![h] = h]
    BY <1>1, TakeDoes
  <2>2. Queue' /\ h \in Requests
    BY <1>1, <2>1, QueueServed DEF QueueInv, Plain
  <2>3. phase' \in [Calls -> PhaseNames] /\ result' \in [Calls -> Results]
    <3>1. h \in Calls /\ "dead" \in Results /\ h \in Results /\ p \in PhaseNames
      BY <2>2 DEF Calls, Results, PhaseNames
    <3>. QED
      BY <2>1, <3>1, OneCallTypes DEF QueueInv
  <2>4. NotesSend'
    BY <2>1, <2>2, NotesElsewhere DEF QueueInv, Calls
  <2>5. Offers'
    BY <1>1 DEF QueueInv, Offers
  <2>. QED
    BY <2>2, <2>3, <2>4, <2>5
<1>2. CASE receivers = <<>> /\ Len(offers) < Readers /\ offers' = Append(offers, item)
           /\ UNCHANGED <<phase, result, receivers>>
  <2>1. offers' \in Seq(Items) /\ Len(offers') <= Readers
    BY <1>2, OffersAppend, BoundAssumption, LenProperties DEF QueueInv, Offers
  <2>. QED
    BY <1>2, <2>1 DEF QueueInv, Plain, Queue, Queued, NotesSend, Offers
<1>. QED
  BY <1>1, <1>2 DEF HandUp

LEMMA ReadQueue ==
    ASSUME QueueInv, NEW c \in Calls, Read(c)
    PROVE  QueueInv'
<1>. USE DEF sdk
<1>1. c \in Requests /\ phase[c] = "reading" /\ phase[c] # "waiting"
  BY ReadersAreRequests DEF Read, QueueInv
<1>2. /\ "dead" \in Results /\ c \in Results /\ c \in Calls
      /\ "done" \in PhaseNames /\ "reading" \in PhaseNames /\ "waiting" \in PhaseNames
  BY <1>1 DEF Results, PhaseNames, Calls
<1>3. UNCHANGED <<accepted, pushed, readable, writable, closing, overlapped>>
  BY DEF Read
<1>4. CASE offers # <<>> /\ Take(c, Head(offers)) /\ offers' = Tail(offers)
           /\ receivers' = receivers
  <2>1. PICK p \in {"done", "reading"} :
           /\ phase' = [phase EXCEPT ![c] = p]
           /\ \/ result' = result
              \/ result' = [result EXCEPT ![c] = "dead"]
              \/ result' = [result EXCEPT ![c] = c]
    BY <1>4, TakeDoes
  <2>2. phase' \in [Calls -> PhaseNames] /\ result' \in [Calls -> Results]
    BY <1>2, <2>1, OneCallTypes DEF QueueInv
  <2>3. Queue'
    BY <1>1, <1>2, <1>4, <2>1, QueueElsewhere DEF QueueInv, Plain
  <2>4. NotesSend'
    BY <1>1, <2>1, NotesElsewhere DEF QueueInv
  <2>5. Offers'
    BY <1>3, <1>4, OffersTail, BoundAssumption, LenProperties DEF QueueInv, Offers
  <2>. QED
    BY <1>3, <2>2, <2>3, <2>4, <2>5 DEF QueueInv, Plain
<1>5. CASE offers = <<>> /\ readable /\ Goto(c, "waiting")
           /\ receivers' = Append(receivers, c) /\ offers' = offers
  <2>1. phase' = [phase EXCEPT ![c] = "waiting"] /\ result' = result
    BY <1>5 DEF Goto
  <2>2. phase' \in [Calls -> PhaseNames] /\ result' \in [Calls -> Results]
    BY <1>2, <2>1, OneCallTypes DEF QueueInv
  <2>3. Queue'
    BY <1>1, <1>5, <2>1, QueueJoined DEF QueueInv, Plain
  <2>4. NotesSend'
    BY <1>1, <2>1, NotesElsewhere DEF QueueInv
  <2>5. Offers'
    BY <1>3, <1>5 DEF QueueInv, Offers
  <2>. QED
    BY <1>3, <2>2, <2>3, <2>4, <2>5 DEF QueueInv, Plain
<1>6. CASE offers = <<>> /\ ~readable /\ StreamEnded(c) /\ UNCHANGED <<receivers, offers>>
  <2>1. phase' = [phase EXCEPT ![c] = "done"] /\ result' = [result EXCEPT ![c] = "dead"]
    BY <1>6 DEF StreamEnded, End
  <2>2. phase' \in [Calls -> PhaseNames] /\ result' \in [Calls -> Results]
    BY <1>2, <2>1, OneCallTypes DEF QueueInv
  <2>3. Queue'
    BY <1>1, <1>6, <2>1, QueueElsewhere DEF QueueInv, Plain
  <2>4. NotesSend'
    BY <1>1, <2>1, NotesElsewhere DEF QueueInv
  <2>5. Offers'
    BY <1>3, <1>6 DEF QueueInv, Offers
  <2>. QED
    BY <1>3, <2>2, <2>3, <2>4, <2>5 DEF QueueInv, Plain
<1>. QED
  BY <1>4, <1>5, <1>6 DEF Read

\* A call on its way to the write stream, or ending there.
LEMMA SendQueue ==
    ASSUME QueueInv, NEW c \in Calls,
           Call(c) \/ HandedOver(c) \/ HandoverTimesOut(c)
    PROVE  QueueInv'
<1>. USE DEF sdk
<1>1. /\ phase[c] # "waiting"
      /\ UNCHANGED <<receivers, offers, pushed, readable, writable, closing>>
  BY DEF Call, HandedOver, HandoverTimesOut
<1>2. PICK p \in {"sending", "reading", "done"}, r \in {"dead", "raised", "sent"} :
         /\ phase' = [phase EXCEPT ![c] = p]
         /\ result' = result \/ result' = [result EXCEPT ![c] = r]
         /\ p = "reading" => c \in Requests
  BY DEF Call, HandedOver, HandoverTimesOut, Goto, End
<1>3. p \in PhaseNames /\ r \in Results
  BY DEF PhaseNames, Results
<1>4. phase' \in [Calls -> PhaseNames] /\ result' \in [Calls -> Results]
  BY <1>2, <1>3, OneCallTypes DEF QueueInv
<1>5. Queue'
  BY <1>1, <1>2, QueueElsewhere DEF QueueInv, Plain
<1>6. NotesSend'
  BY <1>2, NotesElsewhere DEF QueueInv
<1>7. accepted' \subseteq Requests /\ overlapped' \in BOOLEAN
  BY DEF Call, HandedOver, HandoverTimesOut, QueueInv, Plain, Calls
<1>. QED
  BY <1>1, <1>4, <1>5, <1>6, <1>7 DEF QueueInv, Plain, Offers

LEMMA CancelledQueue ==
    ASSUME QueueInv, NEW c \in Calls, Cancelled(c)
    PROVE  QueueInv'
<1>. USE DEF sdk
<1>1. /\ phase' = [phase EXCEPT ![c] = "done"]
      /\ result' = [result EXCEPT ![c] = "cancelled"]
      /\ Leave(c) /\ UNCHANGED <<offers, accepted, pushed, readable, writable, closing, overlapped>>
  BY DEF Cancelled, End
<1>2. phase' \in [Calls -> PhaseNames] /\ result' \in [Calls -> Results]
  BY <1>1, OneCallTypes DEF QueueInv, PhaseNames, Results
<1>3. Queue' /\ (receivers = <<>> => receivers' = <<>>)
  BY <1>1, QueueLeft DEF QueueInv, Plain
<1>4. NotesSend'
  BY <1>1, NotesElsewhere DEF QueueInv
<1>. QED
  BY <1>1, <1>2, <1>3, <1>4 DEF QueueInv, Plain, Offers

LEMMA EndsQueue ==
    ASSUME QueueInv, ReadEnds \/ WriteEnds
    PROVE  QueueInv'
<1>1. CASE ReadEnds
  <2>1. receivers' = <<>> /\ offers' = <<>> /\ Len(offers') = 0
    BY <1>1 DEF ReadEnds
  <2>2. phase' \in [Calls -> PhaseNames] /\ \A c \in Calls : phase'[c] # "waiting"
    BY <1>1 DEF ReadEnds, QueueInv, Plain, PhaseNames
  <2>3. NotesSend'
    BY <1>1 DEF ReadEnds, QueueInv, NotesSend, Calls
  <2>4. Queue'
    <3>1. Queued' = {}
      BY <2>2 DEF Queued, Calls
    <3>. QED
      BY <2>1, <3>1, LineOfNobody DEF Queue
  <2>5. Plain'
    BY <1>1, <2>2 DEF ReadEnds, QueueInv, Plain
  <2>. QED
    BY <2>1, <2>3, <2>4, <2>5, BoundAssumption DEF QueueInv, Offers
<1>2. CASE WriteEnds
  <2>1. /\ phase' \in [Calls -> PhaseNames]
        /\ \A c \in Calls : /\ phase'[c] = "waiting" <=> phase[c] = "waiting"
                            /\ phase'[c] \in {phase[c], "done"}
    BY <1>2 DEF WriteEnds, QueueInv, Plain, PhaseNames
  <2>2. result' \in [Calls -> Results]
    BY <1>2 DEF WriteEnds, QueueInv, Plain, Results
  <2>3. UNCHANGED <<receivers, offers, accepted, pushed, readable, closing, overlapped>>
    BY <1>2 DEF WriteEnds
  <2>4. Queue'
    <3>1. Queued' = Queued
      BY <2>1 DEF Queued, Calls
    <3>. QED
      BY <2>3, <3>1 DEF QueueInv, Queue
  <2>5. NotesSend'
    BY <2>1 DEF QueueInv, NotesSend, Calls
  <2>6. writable' \in {"open", "broken", "closed"}
    BY <1>2 DEF WriteEnds
  <2>. QED
    BY <2>1, <2>2, <2>3, <2>4, <2>5, <2>6 DEF QueueInv, Plain, Offers
<1>. QED
  BY <1>1, <1>2

\* Every step keeps the queue in line with the phases.
LEMMA QueueStep == QueueInv /\ [Next]_vars => QueueInv'
<1>. SUFFICES ASSUME QueueInv, [Next]_vars PROVE QueueInv'
  OBVIOUS
<1>. USE DEF sdk
<1>1. ASSUME NEW c \in Calls, Call(c) \/ Handover(c) \/ Read(c) \/ Cancelled(c)
      PROVE  QueueInv'
  BY <1>1, SendQueue, ReadQueue, CancelledQueue DEF Handover
<1>2. ASSUME NEW c \in Requests, Answer(c) PROVE QueueInv'
  <2>1. c \in Items /\ HandUp(c) /\ readable
        /\ accepted' = accepted \ {c}
        /\ UNCHANGED <<pushed, readable, writable, closing, overlapped>>
    BY <1>2 DEF Answer, Items
  <2>. QED
    BY <2>1, HandUpQueue DEF QueueInv, Plain
<1>3. ASSUME NEW item \in {ServerMessage, StreamError}, Push(item) PROVE QueueInv'
  <2>1. item \in Items /\ HandUp(item) /\ readable
        /\ pushed < MaxServerMessages /\ pushed' = pushed + 1
        /\ UNCHANGED <<accepted, readable, writable, closing, overlapped>>
    BY <1>3 DEF Push, Items
  <2>2. pushed' \in 0..MaxServerMessages
    BY <2>1, BoundAssumption DEF QueueInv, Plain
  <2>. QED
    BY <2>1, <2>2, HandUpQueue DEF QueueInv, Plain
<1>4. CASE ReadEnds \/ WriteEnds
  BY <1>4, EndsQueue
<1>5. CASE Close \/ WriteClosed \/ UNCHANGED vars
  <2>1. /\ UNCHANGED <<phase, result, receivers, offers, accepted, pushed, readable, overlapped>>
        /\ closing' \in BOOLEAN /\ writable' \in {"open", "broken", "closed"}
    BY <1>5 DEF Close, WriteClosed, vars, QueueInv, Plain
  <2>. QED
    BY <2>1 DEF QueueInv, Plain, Queue, Queued, NotesSend, Offers
<1>. QED
  BY <1>1, <1>2, <1>3, <1>4, <1>5 DEF Next, Idle

\* The queue is empty at first, and nobody waits.
LEMMA QueueInit == Init => QueueInv
<1>. SUFFICES ASSUME Init PROVE QueueInv
  OBVIOUS
<1>1. receivers = <<>> /\ offers = <<>> /\ Len(receivers) = 0 /\ Len(offers) = 0
  BY DEF Init
<1>2. Plain /\ NotesSend
  <2>1. pushed \in 0..MaxServerMessages
    BY BoundAssumption DEF Init
  <2>2. phase \in [Calls -> PhaseNames] /\ result \in [Calls -> Results] /\ NotesSend
    BY DEF Init, PhaseNames, Results, NotesSend, Calls
  <2>. QED
    BY <2>1, <2>2 DEF Init, Plain
<1>3. Queue
  <2>1. Queued = {}
    BY DEF Init, Queued, Calls
  <2>. QED
    BY <1>1, <2>1, LineOfNobody DEF Queue
<1>4. Offers
  BY <1>1, BoundAssumption DEF Offers
<1>. QED
  BY <1>2, <1>3, <1>4 DEF QueueInv

\* The queue of the receivers is always what the phases of the calls say.
THEOREM QueueInvariant == Spec => []QueueInv
  BY QueueInit, QueueStep, PTL DEF Spec

\* The type invariant, in the words of the queue: it holds the waiting
\* requests, all of them and each once, and nothing is offered meanwhile.
THEOREM TypeCorrect == Spec => []TypeOK
<1>1. ASSUME QueueInv PROVE TypeOK
  <2>1. /\ Len(receivers) \in Nat /\ DOMAIN receivers = 1..Len(receivers)
        /\ \A i \in 1..Len(receivers) : receivers[i] \in Requests
    BY <1>1, QueueShape DEF QueueInv
  <2>2. ToSet(receivers) = {c \in Requests : phase[c] = "waiting"}
    BY <1>1, <2>1, QueueShape DEF QueueInv, ToSet
  <2>3. IsInjective(receivers)
    BY <1>1, <2>1, QueueShape DEF QueueInv, IsInjective
  <2>. QED
    BY <1>1, <2>2, <2>3 DEF TypeOK, QueueInv, Plain, PhaseNames, Offers
<1>. QED
  BY <1>1, QueueInvariant, PTL

----------------------------------------------------------------------------
(* Requests that come one at a time. *)

Begun(c) == phase[c] \notin {"idle", "done"}

\* Until two overlap, one request is in flight at the most.
Alone == ~overlapped => \A c, d \in Requests : Begun(c) /\ Begun(d) => c = d

SerialInv == Alone /\ ResponseToCome

\* Nobody but Call begins a request.
LEMMA OnlyCallBegins ==
    ASSUME QueueInv, [Next]_vars, \A d \in Calls : ~Call(d), NEW c \in Requests, Begun(c)'
    PROVE  Begun(c) /\ overlapped' = overlapped
<1>. USE DEF sdk
<1>0. c \in Calls /\ phase \in [Calls -> PhaseNames]
  BY DEF QueueInv, Plain, Calls
<1>1. ASSUME NEW d, NEW item, Take(d, item), phase[d] \in {"reading", "waiting"} PROVE Begun(c)
  BY <1>0, <1>1, TakeDoes DEF Begun
<1>2. ASSUME NEW d \in Calls, Handover(d) \/ Read(d) \/ Cancelled(d)
      PROVE  Begun(c) /\ overlapped' = overlapped
  <2>1. /\ Begun(d) /\ overlapped' = overlapped
        /\ \/ Take(d, Head(offers)) /\ phase[d] = "reading"
           \/ \E p : phase' = [phase EXCEPT ![d] = p]
    BY <1>2 DEF Handover, HandedOver, HandoverTimesOut, Read, Cancelled, Goto, StreamEnded,
                End, Begun, InFlight
  <2>. QED
    BY <1>0, <1>1, <2>1 DEF Begun
<1>3. ASSUME NEW item, HandUp(item) PROVE Begun(c)
  <2>1. CASE receivers # <<>> /\ Take(Head(receivers), item)
    <3>1. Head(receivers) = receivers[1] /\ 1 \in 1..Len(receivers)
      BY <2>1, QueueShape, EmptySeq DEF QueueInv
    <3>2. phase[Head(receivers)] = "waiting"
      BY <3>1, QueueShape DEF QueueInv
    <3>. QED
      BY <1>1, <2>1, <3>2
  <2>2. CASE UNCHANGED phase
    BY <2>2 DEF Begun
  <2>. QED
    BY <1>3, <2>1, <2>2 DEF HandUp
<1>4. CASE ReadEnds \/ WriteEnds \/ Close \/ WriteClosed \/ UNCHANGED vars
  BY <1>0, <1>4 DEF ReadEnds, WriteEnds, Close, WriteClosed, vars, Begun
<1>. QED
  BY <1>2, <1>3, <1>4 DEF Next, Idle, Answer, Push

\* Call counts.
LEMMA AloneStep == QueueInv /\ Alone /\ [Next]_vars => Alone'
<1>. SUFFICES ASSUME QueueInv, Alone, [Next]_vars, ~overlapped',
                     NEW c \in Requests, NEW d \in Requests, Begun(c)', Begun(d)'
              PROVE  c = d
  BY DEF Alone
<1>1. CASE \A e \in Calls : ~Call(e)
  BY <1>1, OnlyCallBegins DEF Alone
<1>2. ASSUME NEW e \in Calls, Call(e) PROVE c = d
  <2>. DEFINE S == Requests \cap (InFlight \cup {e})
  <2>1. ~(Cardinality(S) > 1)
    BY <1>2 DEF Call
  <2>2. IsFiniteSet(S) /\ Cardinality(S) \in Nat
    <3>1. IsFiniteSet(Requests)
      BY CallAssumption, FS_Subset DEF Calls
    <3>2. IsFiniteSet(S)
      BY <3>1, FS_Subset
    <3>. QED
      BY <3>2, FS_CardinalityType
  <2>3. c \in S /\ d \in S
    <3>1. \A x \in Calls : phase'[x] = phase[x] \/ x = e
      BY <1>2 DEF Call, Goto, End, QueueInv, Plain
    <3>. QED
      BY <3>1 DEF Begun, InFlight, Calls
  <2>4. Cardinality(S) <= 1
    BY <2>1, <2>2
  <2>. HIDE DEF S
  <2>5. {c} \in SUBSET S /\ Cardinality({c}) = 1
    BY <2>3, FS_Singleton
  <2>6. S = {c}
    BY <2>2, <2>4, <2>5, FS_Subset
  <2>. QED
    BY <2>3, <2>6
<1>. QED
  BY <1>1, <1>2

\* The response of the request in flight is taken by that request or by nobody.
LEMMA ResponseStep == QueueInv /\ SerialInv /\ [Next]_vars => ResponseToCome'
<1>. USE DEF sdk
<1>. DEFINE Reads(x) == phase[x] \in {"reading", "waiting"}
            Coming(x) == x \in accepted \/ x \in ToSet(offers)
<1>. SUFFICES ASSUME QueueInv, SerialInv, [Next]_vars, readable', ~overlapped',
                     NEW c \in Requests, Reads(c)'
              PROVE  Coming(c)'
  BY DEF ResponseToCome
<1>t. /\ phase \in [Calls -> PhaseNames] /\ c \in Calls
      /\ readable \in BOOLEAN /\ overlapped \in BOOLEAN /\ offers \in Seq(Items)
  BY DEF QueueInv, Plain, Offers, Calls
<1>r. readable /\ ~overlapped
  BY <1>t DEF Next, Idle, Call, Handover, HandedOver, HandoverTimesOut, Read, Cancelled,
              Answer, Push, ReadEnds, WriteEnds, Close, WriteClosed, vars
<1>b. Reads(c) => Coming(c)
  BY <1>r DEF SerialInv, ResponseToCome
<1>a. ASSUME NEW d \in Requests, Reads(c), Reads(d) PROVE c = d
  BY <1>r, <1>a DEF SerialInv, Alone, Begun
<1>1. ASSUME NEW d \in Calls, Call(d) \/ HandoverTimesOut(d) \/ Cancelled(d)
      PROVE  Coming(c)'
  <2>1. /\ \E p \in {"sending", "done"} : phase' = [phase EXCEPT ![d] = p]
        /\ accepted \subseteq accepted' /\ offers' = offers
    BY <1>1 DEF Call, HandoverTimesOut, Cancelled, Goto, End
  <2>2. Reads(c)
    BY <1>t, <2>1
  <2>. QED
    BY <1>b, <2>1, <2>2
<1>2. ASSUME NEW d \in Calls, HandedOver(d) PROVE Coming(c)'
  <2>1. CASE c = d
    BY <1>2, <2>1, <1>t, CallAssumption DEF HandedOver
  <2>2. CASE c # d
    <3>1. Reads(c) /\ accepted \subseteq accepted' /\ offers' = offers
      BY <1>2, <2>2, <1>t DEF HandedOver, Goto, End
    <3>. QED
      BY <1>b, <3>1
  <2>. QED
    BY <2>1, <2>2
<1>3. ASSUME NEW d \in Calls, Read(d) PROVE Coming(c)'
  <2>1. d \in Requests /\ Reads(d) /\ accepted' = accepted
    BY <1>3, ReadersAreRequests DEF Read, QueueInv
  <2>2. CASE offers # <<>> /\ Take(d, Head(offers)) /\ offers' = Tail(offers)
    <3>1. PICK p \in {"done", "reading"} :
             phase' = [phase EXCEPT ![d] = p] /\ (p = "reading" => Head(offers) # d)
      BY <2>2, TakeDoes
    <3>2. Reads(c)
      BY <1>t, <2>1, <3>1
    <3>3. c = d /\ Head(offers) # c
      BY <1>a, <1>t, <2>1, <3>1, <3>2
    <3>4. \A x \in ToSet(offers) : x = Head(offers) \/ x \in ToSet(Tail(offers))
      BY <1>t, <2>2, OffersTail
    <3>. QED
      BY <1>b, <2>1, <2>2, <3>2, <3>3, <3>4
  <2>3. CASE Goto(d, "waiting") /\ offers' = offers
    BY <1>t, <1>b, <2>1, <2>3 DEF Goto
  <2>. QED
    BY <1>3, <1>r, <2>2, <2>3 DEF Read
<1>4. ASSUME NEW item \in Items, HandUp(item),
             accepted' = accepted \/ accepted' = accepted \ {item}
      PROVE  Coming(c)'
  <2>1. CASE receivers # <<>> /\ Take(Head(receivers), item) /\ offers' = offers
    <3>. DEFINE h == Head(receivers)
    <3>1. h = receivers[1] /\ 1 \in 1..Len(receivers)
      BY <2>1, QueueShape, EmptySeq DEF QueueInv
    <3>2. h \in Requests /\ phase[h] = "waiting"
      BY <3>1, QueueShape DEF QueueInv
    <3>3. PICK p \in {"done", "reading"} :
             phase' = [phase EXCEPT ![h] = p] /\ (p = "reading" => item # h)
      BY <2>1, TakeDoes
    <3>4. Reads(c)
      BY <1>t, <3>2, <3>3
    <3>5. c = h /\ item # c
      BY <1>a, <1>t, <3>2, <3>3, <3>4
    <3>. QED
      BY <1>4, <1>b, <2>1, <3>4, <3>5
  <2>2. CASE offers' = Append(offers, item) /\ UNCHANGED phase
    <3>1. item \in ToSet(offers') /\ ToSet(offers) \subseteq ToSet(offers')
      BY <1>t, <2>2, OffersAppend
    <3>2. Coming(c)
      BY <1>b, <2>2
    <3>. QED
      BY <1>4, <3>1, <3>2
  <2>. QED
    BY <1>4, <2>1, <2>2 DEF HandUp
<1>5. ASSUME NEW d \in Requests, Answer(d) PROVE Coming(c)'
  BY <1>4, <1>5 DEF Answer, Items
<1>6. ASSUME NEW item \in {ServerMessage, StreamError}, Push(item) PROVE Coming(c)'
  BY <1>4, <1>6 DEF Push, Items
<1>7. CASE WriteEnds \/ Close \/ WriteClosed \/ UNCHANGED vars
  <2>1. Reads(c) /\ accepted' = accepted /\ offers' = offers
    BY <1>t, <1>7 DEF WriteEnds, Close, WriteClosed, vars
  <2>. QED
    BY <1>b, <2>1
<1>8. ~ReadEnds
  BY DEF ReadEnds
<1>. QED
  BY <1>1, <1>2, <1>3, <1>5, <1>6, <1>7, <1>8 DEF Next, Handover, Idle

\* While requests come one at a time, whatever was cancelled before, sent
\* unasked or is still on offer: the response of the one in flight is not lost.
THEOREM ResponsesStillCome == Spec => []ResponseToCome
<1>1. Init => SerialInv
  BY DEF Init, SerialInv, Alone, Begun, ResponseToCome, Calls
<1>2. QueueInv /\ SerialInv /\ [Next]_vars => SerialInv'
  BY AloneStep, ResponseStep DEF SerialInv
<1>3. SerialInv => ResponseToCome
  BY DEF SerialInv
<1>. QED
  BY <1>1, <1>2, <1>3, QueueInvariant, PTL DEF Spec

=============================================================================
