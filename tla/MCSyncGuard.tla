---------------------------- MODULE MCSyncGuard ----------------------------
(* Small instances of SyncGuard; terminals are model values.                *)
EXTENDS SyncGuard

CONSTANTS t1, t2, t3

\* Three terminals and no kill; one terminal, two kills and runs that stop.
Plain == [procs |-> {t1, t2, t3}, kills |-> 0, stop |-> FALSE,
          left |-> "nothing", stale |-> FALSE, meta |-> TRUE]
Residue == [Plain EXCEPT !.procs = {t1}, !.kills = 2, !.stop = TRUE]

\* The same with what an older tws left, alone and before two terminals, and
\* without a stack.yaml.
Older == {"legacy", "backup", "scoped", "orphan"}
Inherited ==
  {[Residue EXCEPT !.left = l, !.stale = g] : l \in Older, g \in BOOLEAN}
  \cup {[Plain EXCEPT !.procs = {t1, t2}, !.left = l] : l \in Older \ {"scoped"}}
Unstacked ==
  {[Plain EXCEPT !.procs = {t1, t2}, !.meta = FALSE], [Residue EXCEPT !.meta = FALSE]}

AllScenes == {Plain, Residue} \cup Inherited \cup Unstacked
=============================================================================
