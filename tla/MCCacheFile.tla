---------------------------- MODULE MCCacheFile ----------------------------
(* Instances of CacheFile for TLC. *)
EXTENDS CacheFile

CONSTANTS tools, resources, extra, init, list1, list2, call

TwoLists == [r \in {list1, list2} |-> IF r = list1 THEN tools ELSE resources]

\* What a session finds: a stale file is deleted, or stays; or another session's.
AllFiles == {Stale, Snapshot({}, {tools})}

\* How somebody spoils it later. A garbled one would be as good as none.
EditedFiles == {Missing, Undecodable}
NoFiles == {Missing}

=============================================================================
