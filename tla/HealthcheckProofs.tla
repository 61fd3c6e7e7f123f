-------------------------- MODULE HealthcheckProofs --------------------------
(***************************************************************************)
(* Proofs about the healthcheck loop, for every configuration. What a loop  *)
(* may take depends on the attempt it is at: Clock bounds the begin of an   *)
(* attempt and of a sleep from both sides, and is inductive with the types. *)
(***************************************************************************)
EXTENDS Healthcheck, TLAPS

\* Products grow with their first factor.
LEMMA TimesMonotone ==
    ASSUME NEW a \in Nat, NEW b \in Nat, NEW p \in Nat, a <= b
    PROVE  a * p <= b * p
<1>1. PICK d \in Nat : b = a + d
  <2>. b - a \in Nat /\ b = a + (b - a)
    OBVIOUS
  <2>. QED
    OBVIOUS
<1>2. b * p = a * p + d * p /\ d * p >= 0
  BY <1>1
<1>. QED
  BY <1>2

\* One more attempt is one more summand.
LEMMA TimesNext ==
    ASSUME NEW a \in Nat, NEW p \in Nat
    PROVE  (a + 1) * p = a * p + p
  OBVIOUS

\* The time of one attempt and the sleep after it.
Period == Timeout + Interval

\* An attempt begins no earlier than the sleeps before it allow and, unless a
\* response may trickle in, no later than attempts and sleeps take together.
Clock ==
    /\ phase = "probing" =>
          /\ since >= (attempt - 1) * Interval
          /\ kind # "http" => /\ since <= (attempt - 1) * Period
                              /\ heard = since
                              /\ now <= since + Timeout
    /\ phase = "sleeping" =>
          /\ attempt < MaxAttempts
          /\ since >= (attempt - 1) * Interval
          /\ kind # "http" => /\ since <= (attempt - 1) * Period + Timeout
                              /\ now <= since + Interval
    /\ phase \in {"passed", "failed", "cancelled"} /\ kind # "http" => now <= Budget
    /\ phase = "cancelled" => now = cap
    /\ PatientEnough
    /\ OneProbe

IInv == TypeOK /\ Clock

\* The whole budget is what the last attempt has behind it and its timeout.
LEMMA BudgetIs == Budget = (MaxAttempts - 1) * Period + Timeout
<1>. DEFINE m == MaxAttempts - 1
<1>1. m \in Nat /\ MaxAttempts = m + 1 /\ Timeout \in Nat /\ Interval \in Nat
  BY ConfigAssumption
<1>2. (m + 1) * Timeout = m * Timeout + Timeout
  BY <1>1, TimesNext
<1>3. m * (Timeout + Interval) = m * Timeout + m * Interval
  BY <1>1
<1>. QED
  BY <1>1, <1>2, <1>3 DEF Budget, Period

\* While it runs, the loop is within the budget.
LEMMA RunningWithinBudget ==
    ASSUME IInv, Running, kind # "http"
    PROVE  now <= Budget
<1>. DEFINE a == attempt - 1
            m == MaxAttempts - 1
<1>1. /\ a \in Nat /\ m \in Nat /\ a <= m /\ Period \in Nat
      /\ now \in Nat /\ since \in Nat /\ Timeout \in Nat /\ Interval \in Nat
  BY ConfigAssumption DEF IInv, TypeOK, Period
<1>2. CASE phase = "probing"
  <2>1. a * Period <= m * Period
    BY <1>1, TimesMonotone
  <2>2. now <= a * Period + Timeout
    BY <1>1, <1>2 DEF IInv, Clock
  <2>. QED
    BY <1>1, <2>1, <2>2, BudgetIs
<1>3. CASE phase = "sleeping"
  <2>1. (a + 1) * Period <= m * Period
    <3>1. attempt < MaxAttempts
      BY <1>3 DEF IInv, Clock
    <3>2. a + 1 \in Nat /\ a + 1 <= m
      BY <1>1, <3>1, ConfigAssumption DEF IInv, TypeOK
    <3>. QED
      BY <1>1, <3>2, TimesMonotone
  <2>2. (a + 1) * Period = a * Period + Period
    BY <1>1, TimesNext
  <2>3. now <= a * Period + Timeout + Interval
    BY <1>1, <1>3 DEF IInv, Clock
  <2>. QED
    BY <1>1, <2>1, <2>2, <2>3, BudgetIs DEF Period
<1>. QED
  BY <1>2, <1>3 DEF Running

\* A failed attempt begins a sleep or gives up.
LEMMA AttemptFailedStep ==
    ASSUME IInv, phase = "probing", MayFail, AttemptFailed, shell' = FALSE
    PROVE  IInv'
<1>. USE ConfigAssumption
<1>1. attempt \in Nat \ {0} /\ now \in Nat /\ since \in Nat /\ since <= now
  BY DEF IInv, TypeOK
<1>g. kind' = kind /\ cap' = cap /\ readyAt' = readyAt
  BY DEF AttemptFailed, given
<1>p. /\ phase' \in {"sleeping", "failed"}
      /\ since' = now /\ attempt' = attempt /\ now' = now /\ heard' = heard
  BY DEF AttemptFailed
<1>2. TypeOK'
  <2>1. kind' \in Kinds /\ cap' \in 0..Horizon /\ readyAt' \in 0..Horizon
    BY <1>g DEF IInv, TypeOK
  <2>2. now' \in Nat /\ since' \in 0..now' /\ heard' \in 0..now'
    BY <1>1, <1>p DEF IInv, TypeOK
  <2>3. attempt' \in 1..MaxAttempts
    BY <1>p DEF IInv, TypeOK
  <2>. QED
    BY <1>p, <2>1, <2>2, <2>3 DEF TypeOK
<1>3. CASE attempt < MaxAttempts
  <2>1. now >= (attempt - 1) * Interval
    <3>. DEFINE x == (attempt - 1) * Interval
    <3>1. x \in Int /\ since >= x
      BY <1>1 DEF IInv, Clock
    <3>. HIDE DEF x
    <3>2. now >= x
      BY <1>1, <3>1
    <3>. QED
      BY <3>2 DEF x
  <2>2. kind # "http" => now <= (attempt - 1) * Period + Timeout
    <3>. DEFINE x == (attempt - 1) * Period
    <3>1. x \in Int
      BY <1>1 DEF Period
    <3>2. kind # "http" => since <= x /\ now <= since + Timeout
      BY DEF IInv, Clock
    <3>. HIDE DEF x
    <3>3. kind # "http" => now <= x + Timeout
      BY <1>1, <3>1, <3>2
    <3>. QED
      BY <3>3 DEF x
  <2>3. phase' = "sleeping" /\ since' = now /\ now' = now /\ attempt' = attempt
    BY <1>3 DEF AttemptFailed, MoreAttempts
  <2>4. Clock'
    BY <1>1, <1>3, <1>g, <2>1, <2>2, <2>3 DEF Clock, PatientEnough, OneProbe
  <2>. QED
    BY <1>2, <2>4 DEF IInv
<1>4. CASE attempt = MaxAttempts
  <2>1. phase' = "failed" /\ now' = now
    BY <1>4 DEF AttemptFailed, MoreAttempts
  <2>2. kind # "http" => now <= Budget
    BY RunningWithinBudget DEF Running
  <2>3. readyAt > (MaxAttempts - 1) * Interval
    <3>. DEFINE x == (MaxAttempts - 1) * Interval
    <3>1. x \in Int /\ since >= x
      BY <1>4 DEF IInv, Clock
    <3>2. since < readyAt /\ readyAt \in Int
      BY DEF MayFail, IInv, TypeOK
    <3>. HIDE DEF x
    <3>3. readyAt > x
      BY <1>1, <3>1, <3>2
    <3>. QED
      BY <3>3 DEF x
  <2>4. Clock'
    BY <1>g, <2>1, <2>2, <2>3 DEF Clock, PatientEnough, OneProbe, Budget
  <2>. QED
    BY <1>2, <2>4 DEF IInv
<1>. QED
  BY <1>3, <1>4 DEF IInv, TypeOK

\* The next attempt begins a sleep later.
LEMMA WakeStep ==
    ASSUME IInv, Wake
    PROVE  IInv'
<1>. USE ConfigAssumption
<1>. DEFINE a == attempt - 1
<1>1. /\ a \in Nat /\ attempt = a + 1 /\ attempt < MaxAttempts
      /\ now \in Nat /\ since \in Nat /\ now = since + Interval
      /\ Period \in Nat /\ Interval \in Nat /\ Timeout \in Nat
  BY DEF IInv, TypeOK, Clock, Wake, Period
<1>2. /\ phase' = "probing" /\ attempt' = a + 2 /\ since' = now /\ heard' = now
      /\ now' = now /\ kind' = kind /\ cap' = cap /\ readyAt' = readyAt
      /\ shell' = (kind = "command")
  BY <1>1 DEF Wake, given
<1>3. TypeOK'
  BY <1>1, <1>2 DEF IInv, TypeOK, Wake
<1>4. now >= (a + 1) * Interval
  <2>1. (a + 1) * Interval = a * Interval + Interval
    BY <1>1, TimesNext
  <2>2. since >= a * Interval
    BY DEF IInv, Clock, Wake
  <2>. QED
    BY <1>1, <2>1, <2>2
<1>5. kind # "http" => now <= (a + 1) * Period
  <2>1. (a + 1) * Period = a * Period + Period
    BY <1>1, TimesNext
  <2>2. kind # "http" => since <= a * Period + Timeout
    BY DEF IInv, Clock, Wake
  <2>. QED
    BY <1>1, <2>1, <2>2 DEF Period
<1>6. attempt' - 1 = a + 1
  BY <1>1, <1>2
<1>7. Clock'
  BY <1>1, <1>2, <1>4, <1>5, <1>6 DEF Clock, PatientEnough, OneProbe
<1>. QED
  BY <1>3, <1>7 DEF IInv

\* Every step keeps the invariant.
LEMMA InvariantStep == IInv /\ [Next]_vars => IInv'
<1>. SUFFICES ASSUME IInv, [Next]_vars PROVE IInv'
  OBVIOUS
<1>. USE ConfigAssumption
<1>t. /\ now \in Nat /\ since \in Nat /\ heard \in Nat /\ since <= now /\ heard <= now
      /\ attempt \in 1..MaxAttempts
  BY DEF IInv, TypeOK
<1>1. CASE ProbeSucceeds
  <2>1. kind # "http" => now <= Budget
    BY <1>1, RunningWithinBudget DEF ProbeSucceeds, Running
  <2>. QED
    BY <1>1, <2>1 DEF ProbeSucceeds, given, IInv, TypeOK, Clock, PatientEnough, OneProbe, Budget
<1>2. CASE ProbeFails
  BY <1>2, AttemptFailedStep DEF ProbeFails
<1>3. CASE ProbeTimesOut
  BY <1>3, AttemptFailedStep DEF ProbeTimesOut, Killed
<1>4. CASE PartArrives
  BY <1>4 DEF PartArrives, given, IInv, TypeOK, Clock, PatientEnough, OneProbe
<1>5. CASE Wake
  BY <1>5, WakeStep
<1>6. CASE Cancelled
  <2>1. kind # "http" => now <= Budget
    BY <1>6, RunningWithinBudget DEF Cancelled
  <2>. QED
    BY <1>6, <2>1 DEF Cancelled, given, IInv, TypeOK, Clock, PatientEnough, OneProbe, Budget
<1>7. CASE Tick
  <2>1. now' = now + 1 /\ UNCHANGED <<kind, cap, readyAt, phase, attempt, since, heard, shell>>
    BY <1>7 DEF Tick, given
  <2>2. TypeOK'
    BY <1>t, <2>1 DEF IInv, TypeOK
  <2>5. kind' = kind
    BY <2>1
  <2>6. PatientEnough' /\ OneProbe'
    BY <2>1 DEF IInv, Clock, PatientEnough, OneProbe
  <2>3. CASE phase = "probing" /\ now < heard + Timeout
    <3>1. since' >= (attempt' - 1) * Interval
      BY <2>1, <2>3 DEF IInv, Clock
    <3>2. kind # "http" => since' <= (attempt' - 1) * Period /\ heard' = since'
      BY <2>1, <2>3 DEF IInv, Clock
    <3>3. kind # "http" => now' <= since' + Timeout
      BY <1>t, <2>1, <2>3 DEF IInv, Clock
    <3>4. phase' # "sleeping" /\ phase' \notin {"passed", "failed", "cancelled"}
          /\ phase' # "cancelled"
      BY <2>1, <2>3
    <3>. QED
      BY <2>2, <2>5, <2>6, <3>1, <3>2, <3>3, <3>4, Zenon DEF Clock, IInv
  <2>4. CASE phase = "sleeping" /\ now < since + Interval
    <3>1. attempt' < MaxAttempts /\ since' >= (attempt' - 1) * Interval
      BY <2>1, <2>4 DEF IInv, Clock
    <3>2. kind # "http" => since' <= (attempt' - 1) * Period + Timeout
      BY <2>1, <2>4 DEF IInv, Clock
    <3>3. now' <= since' + Interval
      BY <1>t, <2>1, <2>4
    <3>4. phase' # "probing" /\ phase' \notin {"passed", "failed", "cancelled"}
          /\ phase' # "cancelled"
      BY <2>1, <2>4
    <3>. QED
      BY <2>2, <2>5, <2>6, <3>1, <3>2, <3>3, <3>4, Zenon DEF Clock, IInv
  <2>. QED
    BY <1>7, <2>3, <2>4 DEF Tick
<1>8. CASE UNCHANGED vars
  BY <1>8 DEF vars, given, IInv, TypeOK, Clock, PatientEnough, OneProbe, Budget
<1>. QED
  BY <1>1, <1>2, <1>3, <1>4, <1>5, <1>6, <1>7, <1>8 DEF Next, Work, Ended

\* A loop that begins has spent nothing.
LEMMA InvariantInit == Init => IInv
<1>. SUFFICES ASSUME Init PROVE IInv
  OBVIOUS
<1>. USE ConfigAssumption
<1>1. (attempt - 1) * Interval = 0 /\ (attempt - 1) * Period = 0
  BY DEF Init, Period
<1>. QED
  BY <1>1 DEF Init, IInv, TypeOK, Clock, PatientEnough, OneProbe

\* Clock and the types always hold.
THEOREM InductiveInvariant == Spec => []IInv
  BY InvariantInit, InvariantStep, PTL DEF Spec

\* No configuration and no sequence of failures makes the loop outlast its
\* budget, unless the probe is an HTTP request.
THEOREM BudgetKept == Spec => []WithinBudget
<1>1. IInv => WithinBudget
  BY RunningWithinBudget DEF IInv, TypeOK, Clock, WithinBudget, Running
<1>. QED
  BY <1>1, InductiveInvariant, PTL

\* A backend that is ready in time for the last attempt is never given up.
THEOREM NoEarlyFailure == Spec => []PatientEnough
<1>1. IInv => PatientEnough
  BY DEF IInv, Clock
<1>. QED
  BY <1>1, InductiveInvariant, PTL

\* Nothing runs twice: the shell of a command probe has ended before the next
\* attempt begins, whatever ended its own.
THEOREM OneShellAtATime == Spec => []OneProbe
<1>1. IInv => OneProbe
  BY DEF IInv, Clock
<1>. QED
  BY <1>1, InductiveInvariant, PTL

\* The types of the loop's variables.
THEOREM TypeCorrect == Spec => []TypeOK
<1>1. IInv => TypeOK
  BY DEF IInv
<1>. QED
  BY <1>1, InductiveInvariant, PTL

=============================================================================
