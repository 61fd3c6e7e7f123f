----------------------------- MODULE AtomicFile -----------------------------
(***************************************************************************)
(* What cache.py promises ("Write cache atomically"): a file whose content *)
(* changes in one step from one whole version to another. Saves are        *)
(* submitted and take effect later, in any order, or not at all; a file of *)
(* another version of the program may be deleted. Nobody reads a version   *)
(* that nobody submitted.                                                  *)
(***************************************************************************)
CONSTANTS
    Absent,          \* the file is not there
    Edited,          \* what somebody else may write
    Foreign          \* contents that another version wrote

VARIABLES
    content,
    pending          \* the saves submitted and not yet decided

Submit ==
    /\ pending \subseteq pending'
    /\ \A v, w \in pending' \ pending : v = w
    /\ content' = content \/ (content \in Foreign /\ content' = Absent)

\* The version becomes the content, all of it.
Commit ==
    \E w \in pending :
       /\ content' = w.data
       /\ pending' = pending \ {w}

\* Saves fail, or end with the program.
Drop ==
    /\ pending' \subseteq pending
    /\ UNCHANGED content

Edit == content' \in Edited /\ UNCHANGED pending

Spec == pending = {} /\ [][Submit \/ Commit \/ Drop \/ Edit]_<<content, pending>>

=============================================================================
