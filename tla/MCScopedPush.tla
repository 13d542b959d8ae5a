---------------------------- MODULE MCScopedPush ----------------------------
(* old is below new in no way: a reparent has rewritten the branch; more    *)
(* is the user's work on new; their is a colleague's work on old.           *)
EXTENDS ScopedPush, TLC
CONSTANTS old, new, more, their, none
Commits == {old, new, more, their}
Terminals == Permutations(Procs)
Ancestry == {<<c, c>> : c \in Commits} \cup {<<new, more>>, <<old, their>>}
=============================================================================
