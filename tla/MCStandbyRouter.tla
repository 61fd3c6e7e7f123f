-------------------------- MODULE MCStandbyRouter --------------------------
(* Instances of StandbyRouter for TLC. The number of messages bounds the     *)
(* number of starts, hence of transports; nothing else needs a bound.        *)
EXTENDS StandbyRouter, TLC

\* Messages of one kind are interchangeable.
Symmetry == Permutations(Calls) \cup Permutations(Notes)
=============================================================================
