------------------------- MODULE MCSyncTransaction -------------------------
(* Small instances of SyncTransaction: two stacked entries.                 *)
EXTENDS SyncRefinement, SyncInvariants

\* Entry 1 and the collateral branch 11 live in repository 1.  In TwoRepos
\* entry 2 has a repository of its own, in OneRepo it shares the first.
TwoRepos == [r \in {1, 2, 11} |-> IF r = 2 THEN 2 ELSE 1]
OneRepo == [r \in {1, 2, 11} |-> 1]
UpdateRefs == [e \in {1, 2} |-> IF e = 1 THEN {1, 11} ELSE {2}]
=============================================================================
