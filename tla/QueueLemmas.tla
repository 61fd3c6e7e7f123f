---------------------------- MODULE QueueLemmas ----------------------------
(***************************************************************************)
(* What a first-come-first-served queue of waiting parties is, and that    *)
(* joining it, being served and giving up keep it so. The lock of the      *)
(* router (asyncio.Lock keeps a deque of waiters) and the receivers of a   *)
(* memory stream are such queues.                                          *)
(***************************************************************************)
EXTENDS SequencesExt, SequenceTheorems, TLAPS

\* The queue q holds each member of W once, and nobody else.
Line(q, W) ==
    /\ q \in Seq(W)
    /\ \A w \in W : \E i \in 1..Len(q) : q[i] = w
    /\ \A i, j \in 1..Len(q) : q[i] = q[j] => i = j

\* What two sequences make.
LEMMA Joined ==
    ASSUME NEW S, NEW a \in Seq(S), NEW b \in Seq(S)
    PROVE  /\ a \o b \in Seq(S)
           /\ Len(a \o b) = Len(a) + Len(b)
           /\ \A j \in 1..Len(a) : (a \o b)[j] = a[j]
           /\ \A j \in 1..Len(b) : (a \o b)[Len(a) + j] = b[j]
<1>1. Len(a) \in Nat /\ Len(b) \in Nat
  BY LenProperties
<1>2. /\ a \o b \in Seq(S)
      /\ Len(a \o b) = Len(a) + Len(b)
      /\ \A j \in 1..(Len(a) + Len(b)) :
            (a \o b)[j] = IF j <= Len(a) THEN a[j] ELSE b[j - Len(a)]
  BY ConcatProperties
<1>3. ASSUME NEW j \in 1..Len(a) PROVE (a \o b)[j] = a[j]
  BY <1>1, <1>2
<1>4. ASSUME NEW j \in 1..Len(b) PROVE (a \o b)[Len(a) + j] = b[j]
  <2>1. Len(a) + j \in 1..(Len(a) + Len(b)) /\ ~(Len(a) + j <= Len(a))
        /\ (Len(a) + j) - Len(a) = j
    BY <1>1
  <2>. QED
    BY <1>2, <2>1
<1>. QED
  BY <1>2, <1>3, <1>4

\* What is left when one element is taken out.
LEMMA Removed ==
    ASSUME NEW S, NEW s \in Seq(S), NEW i \in 1..Len(s)
    PROVE  /\ RemoveAt(s, i) \in Seq(S)
           /\ Len(RemoveAt(s, i)) = Len(s) - 1
           /\ \A j \in 1..(i - 1) : RemoveAt(s, i)[j] = s[j]
           /\ \A j \in i..(Len(s) - 1) : RemoveAt(s, i)[j] = s[j + 1]
<1>0. Len(s) \in Nat /\ i \in Nat /\ i >= 1 /\ i <= Len(s)
  BY LenProperties
<1>1. PICK a \in Seq(S) : /\ a = SubSeq(s, 1, i - 1)
                          /\ Len(a) = i - 1
                          /\ \A j \in 1..(i - 1) : a[j] = s[j]
  <2>. DEFINE x == SubSeq(s, 1, i - 1)
  <2>1. /\ x \in Seq(S) /\ Len(x) = i - 1
        /\ \A j \in 1..(i - 1) : x[j] = s[j]
    BY <1>0, SubSeqProperties
  <2>. QED
    BY <2>1
<1>2. PICK b \in Seq(S) : /\ b = SubSeq(s, i + 1, Len(s))
                          /\ Len(b) = Len(s) - i
                          /\ \A j \in 1..(Len(s) - i) : b[j] = s[(i + 1) + (j - 1)]
  <2>. DEFINE x == SubSeq(s, i + 1, Len(s))
  <2>1. /\ x \in Seq(S) /\ Len(x) = Len(s) - i
        /\ \A j \in 1..(Len(s) - i) : x[j] = s[(i + 1) + (j - 1)]
    BY <1>0, SubSeqProperties
  <2>. QED
    BY <2>1
<1>3. PICK r : r = a \o b
  OBVIOUS
<1>4. /\ r \in Seq(S)
      /\ Len(r) = Len(a) + Len(b)
      /\ \A j \in 1..Len(a) : r[j] = a[j]
      /\ \A j \in 1..Len(b) : r[Len(a) + j] = b[j]
  BY <1>3, Joined
<1>5. ASSUME NEW j \in 1..(i - 1) PROVE r[j] = s[j]
  BY <1>1, <1>4
<1>6. ASSUME NEW j \in i..(Len(s) - 1) PROVE r[j] = s[j + 1]
  <2>1. PICK k \in 1..Len(b) : k = j - (i - 1)
    BY <1>0, <1>2
  <2>2. b[k] = s[(i + 1) + (k - 1)]
    BY <1>0, <1>2, <2>1
  <2>3. r[Len(a) + k] = b[k]
    BY <1>4
  <2>4. Len(a) + k = j /\ (i + 1) + (k - 1) = j + 1
    BY <1>0, <1>1, <1>2, <2>1
  <2>. QED
    BY <2>2, <2>3, <2>4
<1>7. RemoveAt(s, i) = r
  BY <1>1, <1>2, <1>3 DEF RemoveAt
<1>8. Len(r) = Len(s) - 1
  BY <1>0, <1>1, <1>2, <1>4
<1>. QED
  BY <1>4, <1>5, <1>6, <1>7, <1>8

\* A queue is a sequence of its members.
LEMMA LineType ==
    ASSUME NEW q, NEW W, Line(q, W)
    PROVE  /\ q \in Seq(W) /\ Len(q) \in Nat /\ \A i \in 1..Len(q) : q[i] \in W
           /\ \A i, j \in 1..Len(q) : q[i] = q[j] => i = j
<1>1. q \in Seq(W) /\ \A i, j \in 1..Len(q) : q[i] = q[j] => i = j
  BY DEF Line
<1>. QED
  BY <1>1, LenProperties, ElementOfSeq

\* A newcomer joins at the end.
LEMMA LineJoined ==
    ASSUME NEW q, NEW W, Line(q, W), NEW h, h \notin W
    PROVE  Line(Append(q, h), W \cup {h})
<1>. DEFINE r == Append(q, h)
<1>0. /\ q \in Seq(W) /\ Len(q) \in Nat /\ \A i \in 1..Len(q) : q[i] \in W
      /\ \A i, j \in 1..Len(q) : q[i] = q[j] => i = j
  BY LineType
<1>1. q \in Seq(W \cup {h})
  BY <1>0
<1>2. /\ r \in Seq(W \cup {h})
      /\ Len(r) = Len(q) + 1
      /\ \A i \in 1..Len(q) : r[i] = q[i]
      /\ r[Len(q) + 1] = h
  BY <1>1, AppendProperties
<1>3. \A w \in W \cup {h} : \E i \in 1..Len(r) : r[i] = w
  BY <1>0, <1>2 DEF Line
<1>4. \A i, j \in 1..Len(r) : r[i] = r[j] => i = j
  BY <1>0, <1>2
<1>. QED
  BY <1>2, <1>3, <1>4 DEF Line

\* A queue with a member fewer, in the same order, is the queue of the others.
LEMMA LineWithout ==
    ASSUME NEW q, NEW W, Line(q, W), NEW k \in 1..Len(q), NEW r,
           r \in Seq(W), Len(r) = Len(q) - 1,
           \A j \in 1..(k - 1) : r[j] = q[j],
           \A j \in k..(Len(q) - 1) : r[j] = q[j + 1]
    PROVE  Line(r, W \ {q[k]})
<1>1. /\ Len(q) \in Nat /\ \A i \in 1..Len(q) : q[i] \in W
      /\ \A i, j \in 1..Len(q) : q[i] = q[j] => i = j
  BY LineType
<1>2. ASSUME NEW j \in 1..Len(r)
      PROVE  \E i \in 1..Len(q) : /\ i # k /\ r[j] = q[i]
                                  /\ (j < k /\ i = j) \/ (j >= k /\ i = j + 1)
  <2>1. CASE j < k
    BY <1>1, <2>1
  <2>2. CASE j >= k
    <3>1. j \in k..(Len(q) - 1) /\ j + 1 \in 1..Len(q) /\ j + 1 # k
      BY <1>1, <2>2
    <3>. QED
      BY <2>2, <3>1
  <2>. QED
    BY <1>1, <2>1, <2>2
<1>3. \A j \in 1..Len(r) : r[j] \in W \ {q[k]}
  BY <1>1, <1>2
<1>4. r \in Seq(W \ {q[k]})
  BY <1>1, <1>3
<1>5. ASSUME NEW w \in W \ {q[k]}
      PROVE  \E j \in 1..Len(r) : r[j] = w
  <2>1. PICK i \in 1..Len(q) : q[i] = w
    BY DEF Line
  <2>2. CASE i < k
    BY <1>1, <2>1, <2>2
  <2>3. CASE i > k
    <3>1. i - 1 \in k..(Len(q) - 1) /\ i - 1 \in 1..Len(r) /\ (i - 1) + 1 = i
      BY <1>1, <2>3
    <3>2. r[i - 1] = q[(i - 1) + 1]
      BY <3>1
    <3>. QED
      BY <2>1, <3>1, <3>2
  <2>4. i # k
    BY <2>1
  <2>. QED
    BY <1>1, <2>2, <2>3, <2>4
<1>6. ASSUME NEW i \in 1..Len(r), NEW j \in 1..Len(r), r[i] = r[j]
      PROVE  i = j
  <2>1. PICK m \in 1..Len(q) : /\ m # k /\ r[i] = q[m]
                               /\ (i < k /\ m = i) \/ (i >= k /\ m = i + 1)
    BY <1>2
  <2>2. PICK n \in 1..Len(q) : /\ n # k /\ r[j] = q[n]
                               /\ (j < k /\ n = j) \/ (j >= k /\ n = j + 1)
    BY <1>2
  <2>3. m = n
    BY <1>1, <1>6, <2>1, <2>2
  <2>. QED
    BY <1>1, <2>1, <2>2, <2>3
<1>. QED
  BY <1>4, <1>5, <1>6 DEF Line

\* The head is served.
LEMMA LineServed ==
    ASSUME NEW q, NEW W, Line(q, W), q # <<>>
    PROVE  Line(Tail(q), W \ {Head(q)}) /\ Head(q) \in W
<1>1. /\ Head(q) = q[1] /\ Head(q) \in W
      /\ Len(q) \in Nat \ {0}
      /\ Tail(q) \in Seq(W)
      /\ Len(Tail(q)) = Len(q) - 1
      /\ \A i \in 1..(Len(q) - 1) : Tail(q)[i] = q[i + 1]
  BY HeadTailProperties DEF Line
<1>2. PICK k \in 1..Len(q) : k = 1
  BY <1>1
<1>3. PICK r : r = Tail(q)
  OBVIOUS
<1>4. /\ \A j \in 1..(k - 1) : r[j] = q[j]
      /\ \A j \in k..(Len(q) - 1) : r[j] = q[j + 1]
  BY <1>1, <1>2, <1>3
<1>5. Line(r, W \ {q[k]})
  BY <1>1, <1>3, <1>4, LineWithout
<1>. QED
  BY <1>1, <1>2, <1>3, <1>5

\* A party gives up, wherever it stands.
LEMMA LineLeft ==
    ASSUME NEW q, NEW W, Line(q, W), NEW k \in 1..Len(q)
    PROVE  Line(RemoveAt(q, k), W \ {q[k]})
<1>1. q \in Seq(W)
  BY DEF Line
<1>2. PICK r : r = RemoveAt(q, k)
  OBVIOUS
<1>3. /\ r \in Seq(W)
      /\ Len(r) = Len(q) - 1
      /\ \A j \in 1..(k - 1) : r[j] = q[j]
      /\ \A j \in k..(Len(q) - 1) : r[j] = q[j + 1]
  BY <1>1, <1>2, Removed
<1>. QED
  BY <1>2, <1>3, LineWithout

\* Nobody waits in an empty queue only.
LEMMA LineEmpty ==
    ASSUME NEW q, NEW W, Line(q, W)
    PROVE  q = <<>> <=> W = {}
<1>1. Len(q) \in Nat /\ \A i \in 1..Len(q) : q[i] \in W
  BY LineType
<1>2. q = <<>> <=> Len(q) = 0
  BY EmptySeq DEF Line
<1>. QED
  BY <1>1, <1>2 DEF Line

\* Without a member it is empty.
LEMMA LineOfNobody == Line(<<>>, {})
  BY EmptySeq DEF Line
=============================================================================
