-------------------------- MODULE BackendLifecycle --------------------------
(***************************************************************************)
(* What StateMachine (state.py) and its callers promise of the backend's   *)
(* life, whoever drives it: every change of state is in the transition     *)
(* table, and a multi-step change is made by one owner, from the settled   *)
(* state in which it took the lock to the settled state in which it gives  *)
(* the lock back. Only a stop may be broken off, and then nothing follows. *)
(* StandbyRouter and StandbyProxy implement it.                            *)
(***************************************************************************)
CONSTANTS Owners, Nobody    \* who may hold the lock, and the free lock

VARIABLES state, owner

vars == <<state, owner>>

\* The table of state.py.
TRANSITIONS ==
    [COLD     |-> {"STARTING"},
     STARTING |-> {"HEALTHY", "FAILED", "STOPPING"},
     HEALTHY  |-> {"ACTIVE", "FAILED", "STOPPING"},
     ACTIVE   |-> {"STOPPING", "FAILED"},
     FAILED   |-> {"COLD"},
     STOPPING |-> {"COLD"}]

\* The states in which the lock may be free.
Settled == {"COLD", "ACTIVE", "FAILED"}

Init == state = "COLD" /\ owner = Nobody

\* Take the lock and leave a settled state: by one transition or, for a
\* restart, by FAILED -> COLD -> STARTING.
Claim(o) ==
    /\ owner = Nobody
    /\ owner' = o
    /\ \/ state' \in TRANSITIONS[state] \ {"COLD"}
       \/ state = "FAILED" /\ state' \in TRANSITIONS["COLD"]

\* One transition, the lock kept.
Advance(o) ==
    /\ owner = o
    /\ state' \in TRANSITIONS[state] \ Settled
    /\ UNCHANGED owner

\* At most one transition, into a settled state, and the lock is free.
Yield(o) ==
    /\ owner = o
    /\ owner' = Nobody
    /\ state' \in TRANSITIONS[state] \cup {state}
    /\ state' \in Settled

\* A stop that fails for good: the lock is free in STOPPING, the table knows no
\* way on but COLD, and no Claim is possible any more.
Abandon(o) ==
    /\ owner = o
    /\ owner' = Nobody
    /\ state = "STOPPING"
    /\ UNCHANGED state

Next == \E o \in Owners : Claim(o) \/ Advance(o) \/ Yield(o) \/ Abandon(o)

Spec == Init /\ [][Next]_vars

\* Whoever takes the lock gives it back.
Fairness == WF_vars(\E o \in Owners : Advance(o) \/ Yield(o) \/ Abandon(o))

FairSpec == Spec /\ Fairness

=============================================================================
