----------------------------- MODULE Healthcheck -----------------------------
(***************************************************************************)
(* run_healthcheck (healthcheck.py) with its three kinds of probe, under   *)
(* the wait_for of a retry (router.py) when there is one. Time is counted  *)
(* in seconds and passes only while the loop waits: for a probe, or in its *)
(* sleep. The backend is ready from some moment on and then answers every  *)
(* probe that begins, in time.                                             *)
(***************************************************************************)
EXTENDS Integers

CONSTANTS
    Kinds,          \* of HealthcheckType: "http", "tcp" or "command"
    MaxAttempts,    \* max_attempts
    Interval,       \* interval
    Timeout,        \* timeout
    Horizon         \* bound: later than any of this can last

\* The validators of HealthcheckConfig bound them above as well: 600, 60, 60.
ASSUME ConfigAssumption ==
    /\ Kinds \subseteq {"http", "tcp", "command"}
    /\ MaxAttempts \in Nat \ {0}
    /\ Interval \in Nat \ {0}
    /\ Timeout \in Nat \ {0}
    /\ Horizon \in Nat

VARIABLES
    kind,       \* the healthcheck's type
    cap,        \* what the retry's wait_for has left when the loop begins;
                \* Horizon for a first request, which has no wait_for
    readyAt,    \* when the backend becomes ready; Horizon for never
    phase,      \* probing, sleeping, passed, failed or cancelled
    attempt,    \* the loop variable
    now,        \* seconds since the loop began
    since,      \* when the current probe or sleep began
    heard,      \* when the current probe last heard from the backend
    shell       \* the shell of a command probe is running

given == <<kind, cap, readyAt>>
vars  == <<given, phase, attempt, now, since, heard, shell>>

Running == phase \in {"probing", "sleeping"}

\* What the configuration allows the loop at the most.
Budget == MaxAttempts * Timeout + (MaxAttempts - 1) * Interval

Init ==
    /\ kind \in Kinds
    /\ cap \in 0..Horizon
    /\ readyAt \in 0..Horizon
    /\ phase = "probing"
    /\ attempt = 1
    /\ now = 0 /\ since = 0 /\ heard = 0
    /\ shell = (kind = "command")

\* Mutant of MoreAttempts: range(1, max_attempts).
MoreAttemptsShort == attempt < MaxAttempts - 1

\* Mutant of MoreAttempts: one sleep and one attempt too many.
MoreAttemptsLong == attempt <= MaxAttempts

MoreAttempts == attempt < MaxAttempts

\* An attempt without success: the sleep before the next, or HealthcheckError.
AttemptFailed ==
    /\ phase' = IF MoreAttempts THEN "sleeping" ELSE "failed"
    /\ since' = now
    /\ UNCHANGED <<given, attempt, now, heard>>

\* A probe of a backend that was ready when it began succeeds.
MayFail == since < readyAt

\* A 2xx status, an open port, exit code 0.
ProbeSucceeds ==
    /\ phase = "probing" /\ now >= readyAt
    /\ phase' = "passed"
    /\ shell' = FALSE
    /\ UNCHANGED <<given, attempt, now, since, heard>>

\* Another status or exit code, a refused connection, any exception, an
\* address that is not host:port.
ProbeFails ==
    /\ phase = "probing" /\ MayFail
    /\ AttemptFailed
    /\ shell' = FALSE

\* Mutant of Killed: the shell is left to itself.
KilledNever == shell

\* proc.kill, proc.wait
Killed == FALSE

\* The probe's own timeout. httpx applies it to each wait, not to the request.
ProbeTimesOut ==
    /\ phase = "probing" /\ MayFail
    /\ now = heard + Timeout
    /\ AttemptFailed
    /\ shell' = Killed

\* Part of an HTTP response arrives: another wait begins.
PartArrives ==
    /\ phase = "probing" /\ kind = "http" /\ MayFail
    /\ heard' = now
    /\ UNCHANGED <<given, phase, attempt, now, since, shell>>

\* Mutant of Wake: the attempts are not counted.
WakeUncounted ==
    /\ phase = "sleeping"
    /\ now = since + Interval
    /\ phase' = "probing"
    /\ since' = now /\ heard' = now
    /\ shell' = (kind = "command")
    /\ UNCHANGED <<given, attempt, now>>

Wake ==
    /\ phase = "sleeping"
    /\ now = since + Interval
    /\ phase' = "probing"
    /\ attempt' = attempt + 1
    /\ since' = now /\ heard' = now
    /\ shell' = (kind = "command")
    /\ UNCHANGED <<given, now>>

\* Mutant of Cancelled: the probe catches CancelledError with the rest.
CancelledSwallowed ==
    /\ phase = "probing" /\ now = cap /\ cap < Horizon
    /\ AttemptFailed
    /\ shell' = FALSE

\* The wait_for of the retry cancels the loop. CancelledError is no Exception:
\* the shell of a command probe is not killed.
Cancelled ==
    /\ Running /\ now = cap /\ cap < Horizon
    /\ phase' = "cancelled"
    /\ UNCHANGED <<given, attempt, now, since, heard, shell>>

Tick ==
    /\ \/ phase = "probing" /\ now < heard + Timeout
       \/ phase = "sleeping" /\ now < since + Interval
    /\ now < cap
    /\ now' = now + 1
    /\ UNCHANGED <<given, phase, attempt, since, heard, shell>>

\* Nothing is left to do, or time is at its bound.
Ended == (~Running \/ now = cap) /\ UNCHANGED vars

Work == \/ ProbeSucceeds \/ ProbeFails \/ ProbeTimesOut \/ Wake \/ Cancelled \/ Tick

Next == Work \/ PartArrives \/ Ended

Spec == Init /\ [][Next]_vars

\* Time passes and timers fire.
FairSpec == Spec /\ WF_vars(Work)

----------------------------------------------------------------------------
(* Properties. *)

TypeOK ==
    /\ kind \in Kinds /\ cap \in 0..Horizon /\ readyAt \in 0..Horizon
    /\ phase \in {"probing", "sleeping", "passed", "failed", "cancelled"}
    /\ attempt \in 1..MaxAttempts
    /\ now \in Nat /\ since \in 0..now /\ heard \in 0..now
    /\ shell \in BOOLEAN

\* The budget of a start: no sequence of failures and timeouts makes the loop
\* longer than the configuration says, hence no retry is cancelled in it whose
\* wait_for leaves that much. With the defaults it is 208 s, the cap 30 s. An
\* HTTP probe is excepted: httpx bounds each wait, not the attempt.
WithinBudget ==
    kind # "http" => /\ now <= Budget
                     /\ phase = "cancelled" => cap <= Budget

\* A backend that is ready in time for the last attempt is not given up: the
\* loop's patience is (max_attempts - 1) * interval at least, however fast the
\* attempts fail.
PatientEnough == phase = "failed" => readyAt > (MaxAttempts - 1) * Interval

\* The shell of a command probe ends with its attempt, so two never run at the
\* same time; only a cancelled retry leaves one behind.
OneProbe == shell => phase \in {"probing", "cancelled"}

\* The loop ends: by itself if the probe's timeout covers the attempt, by the
\* wait_for of a retry in any case.
Ends == kind # "http" \/ cap < Horizon => <>~Running

=============================================================================
