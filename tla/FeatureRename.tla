---------------------------- MODULE FeatureRename ---------------------------
(***************************************************************************)
(* `tws rename feature` in an external workspace.  The feature's directory  *)
(* moves, and N pointers that name it (the .git files of its worktrees,     *)
(* their administrative back-pointers, at last the spaces registry) are     *)
(* replaced, each by way of a private staging directory.  A journal of      *)
(* numbered events says what was intended and what is done; --continue and  *)
(* --abort find the rest from where the objects are.  Kernel file locks     *)
(* keep the ordinary commands out: shared for them, exclusive for a rename. *)
(***************************************************************************)
EXTENDS Naturals, Sequences, FiniteSets

CONSTANTS
  N,                \* pointers; pointer N is the registry, one worktree for each other
  Others,           \* terminals with ordinary commands on the feature
  MaxKill, MaxUser  \* bounds: kills, writes by programs that take no lock

ASSUME FeatureRenameAssumption ==
  N \in Nat \ {0} /\ MaxKill \in Nat /\ MaxUser \in Nat

Pointers == 1..N
None == "none"

Worktrees == 1..(N - 1)
VARIABLES
  dir,       \* the name of the feature directory, "old" or "new"
  occupied,  \* somebody made a directory of the other name
  active,    \* what is at the place of each pointer
  room,      \* pointers whose staging directory exists, with "next" in it
  original,  \* what was moved to "original" in the staging directory
  published, \* what was moved to "published" there
  journal,   \* the journal was published
  log,       \* its events
  cmd,       \* the one rename that may hold the exclusive lock
  other,     \* the ordinary commands
  left,      \* recovery evidence that one of them left behind
  git,       \* Git in the worktrees: "same" as planned, "busy", or "changed"
  edited,    \* pointers that some program wrote without a lock
  since,     \* pointers (0: Git) touched by such a program since tws looked
  kills, user

objects == <<dir, occupied, active, room, original, published>>
record == <<journal, log>>
count == <<edited, since, kills, user>>
around == <<left, git>>
vars == <<objects, record, cmd, other, around, count>>

Init ==
  /\ dir = "old" /\ occupied = FALSE
  /\ active = [i \in Pointers |-> "pre"] /\ room = {}
  /\ original = [i \in Pointers |-> None] /\ published = [i \in Pointers |-> None]
  /\ journal = FALSE /\ log = {} /\ cmd = [pc |-> "idle"]
  /\ other = [q \in Others |-> "idle"] /\ left = FALSE /\ git = "same" /\ edited = {} /\ since = {} /\ kills = 0 /\ user = 0
-----------------------------------------------------------------------------
(* The journal.                                                             *)

Intent(e) == <<e, "intent">> \in log
Done(e) == <<e, "done">> \in log
\* An effect is a kind and the pointer it is about, or 0.
Of(kind) == <<kind, 0>>
Staged(i) == Done(<<"stage", i>>)
Completed == Done(Of("complete"))
Aborted == Done(Of("aborted"))
Pending == journal /\ ~Done(Of("cleaned"))

Undone == \A j \in Pointers : Staged(j) => Done(<<"restore", j>>)

\* What has to be done before an effect, and which decision forbids it.
After(kind, i) ==
  CASE kind = "stage"     -> ~Intent(Of("move")) /\ (i > 1 => Staged(i - 1))
    [] kind = "move"      -> \A j \in Pointers : Staged(j)
    [] kind = "preserve"  -> Done(Of("move")) /\ (i > 1 => Done(<<"publish", i - 1>>))
    [] kind = "publish"   -> Done(<<"preserve", i>>)
    [] kind = "complete"  -> Done(Of("move")) /\ \A j \in Pointers : Done(<<"publish", j>>)
    [] kind = "restore"   -> Done(<<"unpublish", i>>)
    [] kind = "move-back" -> Undone
    [] kind = "aborted"   -> Done(Of("move-back"))
    [] kind = "cleaned"   -> \A j \in Pointers : Staged(j) => Done(<<"cleanup", j>>)
    [] OTHER              -> TRUE
Allowed(kind) ==
  CASE kind \in {"cleanup", "cleaned"} -> Completed \/ Aborted
    [] kind \in {"abort", "unpublish", "restore", "move-back", "aborted"} ->
         ~Completed /\ ~Aborted /\ (kind = "abort" \/ Intent(Of("abort")))
    [] OTHER -> ~Completed /\ ~Aborted /\ ~Intent(Of("abort"))
Acceptable(e, phase) ==
  /\ Pending /\ (phase = "done" => Intent(e))
  /\ Allowed(e[1]) /\ After(e[1], e[2])
-----------------------------------------------------------------------------
(* The objects, told by identity and content.                               *)

Position(i) ==
  CASE active[i] = "pre" /\ original[i] = None /\ published[i] \in {None, "post"} -> "original"
    [] active[i] = None /\ original[i] = "pre" /\ published[i] \in {None, "post"} -> "preserved"
    [] active[i] = "post" /\ original[i] = "pre" /\ published[i] = None -> "published"
    [] OTHER -> "unknown"

Outcome == IF Completed THEN "post" ELSE "pre"
Located == ~occupied
Preflight == ~left
Idle == git # "busy"
Stable ==
  /\ Located /\ Preflight /\ Idle /\ git = "same"
  /\ \A i \in Pointers :
       CASE ~Staged(i) -> active[i] = "pre"
         [] Staged(i) /\ Intent(<<"cleanup", i>>) -> active[i] = Outcome
         [] OTHER -> i \in room /\ Position(i) # "unknown"

\* A walk finds a worktree by its .git file, which a rename may have set aside.
Physical == {i \in Worktrees : active[i] # None}
PhysicalInventory ==
  \A i \in Worktrees \ Physical :
    Intent(<<"preserve", i>>) /\ Position(i) = "preserved"
\* Git registers a worktree where its back-pointer says.
Registration(i) ==
  CASE active[i] = "pre" -> "old" [] active[i] = "post" -> "new" [] OTHER -> "elsewhere"
Inventory(name) == \A i \in Worktrees : Registration(i) = name

\* Mutant: the journal vouches for the pointers.
FinalByDirectory(moved) == Located /\ dir = (IF moved THEN "new" ELSE "old")

\* The registry is published only when every worktree answers at its new place.
FinalGit(name) == Stable /\ PhysicalInventory /\ dir = name /\ Inventory(name)
Final(moved) ==
  /\ FinalGit(IF moved THEN "new" ELSE "old")
  /\ \A i \in Pointers : active[i] = (IF moved THEN "post" ELSE "pre")
-----------------------------------------------------------------------------
(* Admission: every command looks for a pending journal, takes its lock and *)
(* looks again.                                                             *)

Inside(q) == other[q] \in {"held", "work"}
Look(q) ==
  /\ other[q] = "idle" /\ ~Pending
  /\ other' = [other EXCEPT ![q] = "looked"]
  /\ UNCHANGED <<objects, record, cmd, around, count>>
Hold(q) ==
  /\ other[q] = "looked"
  /\ other' = [other EXCEPT ![q] = IF cmd.pc \in {"idle", "lock"} THEN "held" ELSE "idle"]
  /\ UNCHANGED <<objects, record, cmd, around, count>>

\* Mutant: the look before the lock is enough.
LookAgainNever(q) ==
  /\ other[q] = "held"
  /\ other' = [other EXCEPT ![q] = "work"]
  /\ UNCHANGED <<objects, record, cmd, around, count>>

LookAgain(q) ==
  /\ other[q] = "held"
  /\ other' = [other EXCEPT ![q] = IF Pending THEN "idle" ELSE "work"]
  /\ UNCHANGED <<objects, record, cmd, around, count>>
\* A command may be the recovery of an earlier one.
Leave(q) ==
  /\ other[q] = "work" /\ left' \in {left, FALSE}
  /\ other' = [other EXCEPT ![q] = "idle"]
  /\ UNCHANGED <<objects, record, cmd, git, count>>

Stop == cmd' = [pc |-> "idle"]
StartRename(verb) ==
  /\ cmd.pc = "idle" /\ IF verb = "rename" THEN ~journal ELSE Pending
  /\ cmd' = [pc |-> "lock", verb |-> verb, mode |-> "none", k |-> 1]
  /\ UNCHANGED <<objects, record, other, around, count>>
Admit ==
  /\ cmd.pc = "lock"
  /\ IF (\E q \in Others : Inside(q)) \/ ~Preflight \/ (cmd.verb # "rename" /\ ~Pending)
     THEN Stop
     ELSE cmd' = [cmd EXCEPT !.pc = IF cmd.verb = "rename" THEN "plan" ELSE "judge"]
  /\ UNCHANGED <<objects, record, other, around, count>>
\* What a worktree is and where Git has it is read once, and frozen in the plan.
Inspected(i) == active[i] = "pre" /\ Idle
PlanRename ==
  /\ cmd.pc = "plan"
  /\ IF Located /\ (\A i \in Worktrees : Inspected(i)) /\ active[N] = "pre" /\ Inventory("old")
     THEN git' = "same" /\ cmd' = [cmd EXCEPT !.pc = "publish"]
     ELSE Stop /\ UNCHANGED git
  /\ UNCHANGED <<objects, record, other, left, count>>
\* The journal is prepared aside and appears by one rename.
PublishJournal ==
  /\ cmd.pc = "publish" /\ journal' = TRUE
  /\ cmd' = [cmd EXCEPT !.pc = "judge"]
  /\ UNCHANGED <<objects, log, other, around, count>>
Enter(mode) == cmd' = [cmd EXCEPT !.pc = "intent", !.mode = mode, !.k = 1]
Judge ==
  /\ cmd.pc = "judge"
  /\ CASE ~Stable \/ ~PhysicalInventory \/ (Completed /\ cmd.verb = "abort") -> Stop
       [] Stable /\ Completed /\ cmd.verb # "abort" -> Enter("cleanup")
       [] Stable /\ ~Completed /\ (cmd.verb = "abort" \/ Intent(Of("abort"))) ->
            Enter("rollback")
       [] OTHER -> Enter("forward")
  /\ UNCHANGED <<objects, record, other, around, count>>
-----------------------------------------------------------------------------
(* Effects.  Each is intended on record, checked, carried out and recorded; *)
(* what is found done already is only made durable.                         *)

Steps(mode) ==
  CASE mode = "forward" ->
         [j \in 1..(3 * N + 2) |->
            CASE j =< N    -> <<"stage", j>>
              [] j = N + 1 -> Of("move")
              [] j > N + 1 /\ j =< 3 * N + 1 ->
                   <<IF (j - N) % 2 = 0 THEN "preserve" ELSE "publish", (j - N) \div 2>>
              [] OTHER -> Of("complete")]
    [] mode = "rollback" ->
         [j \in 1..(2 * N + 3) |->
            CASE j = 1 -> Of("abort")
              [] j > 1 /\ j =< 2 * N + 1 ->
                   <<IF j % 2 = 0 THEN "unpublish" ELSE "restore", N + 1 - (j \div 2)>>
              [] j = 2 * N + 2 -> Of("move-back")
              [] OTHER -> Of("aborted")]
    [] OTHER ->
         [j \in 1..(N + 1) |-> IF j =< N THEN <<"cleanup", j>> ELSE Of("cleaned")]
E == Steps(cmd.mode)[cmd.k]
Skipped(e) == e[1] \in {"unpublish", "restore", "cleanup"} /\ ~Staged(e[2])
Fully == \A i \in Pointers : Staged(i) \/ (i \notin room /\ active[i] = "pre")

\* A fresh rename that fails undoes itself; a recovery stops where it is.
Fail ==
  IF cmd.verb = "rename" /\ cmd.mode = "forward" THEN Enter("rollback") ELSE Stop
Advance ==
  CASE cmd.k < Len(Steps(cmd.mode)) -> cmd' = [cmd EXCEPT !.pc = "intent", !.k = @ + 1]
    [] cmd.k = Len(Steps(cmd.mode)) /\ cmd.mode # "cleanup" -> Enter("cleanup")
    [] OTHER -> Stop

IntendEffect ==
  /\ cmd.pc = "intent"
  /\ CASE Skipped(E) \/ Done(E) -> Advance /\ UNCHANGED log
       [] ~Skipped(E) /\ ~Done(E) /\ (E = Of("abort") => Stable /\ PhysicalInventory /\ Fully)
          /\ (E = <<"preserve", N>> => FinalGit("new")) /\ Acceptable(E, "intent") ->
            log' = log \cup {<<E, "intent">>} /\ cmd' = [cmd EXCEPT !.pc = "check"]
       [] OTHER -> Fail /\ UNCHANGED log
  /\ UNCHANGED <<objects, journal, other, around, count>>

Found(e) ==
  CASE e[1] = "stage"                   -> FALSE
    [] e[1] = "move"                    -> dir = "new"
    [] e[1] = "move-back"               -> dir = "old"
    [] e[1] = "preserve"                -> Position(e[2]) # "original"
    [] e[1] = "publish"                 -> Position(e[2]) = "published"
    [] e[1] = "unpublish"               -> Position(e[2]) # "published"
    [] e[1] = "restore"                 -> Position(e[2]) = "original"
    [] e[1] = "cleanup"                 -> e[2] \notin room
    [] e[1] \in {"complete", "aborted"} -> Final(e[1] = "complete")
    [] e[1] = "cleaned"                 -> Final(Completed)
    [] OTHER                            -> TRUE
\* Residue that the journal does not explain is never removed.
Explained(i) ==
  /\ original[i] \in (IF Completed THEN {None, "pre"} ELSE {None})
  /\ published[i] \in (IF Intent(<<"unpublish", i>>) THEN {None, "post"} ELSE {None})
Ready(e) ==
  CASE e[1] \in {"publish", "restore"} -> Position(e[2]) = "preserved"
    [] e[1] \in {"complete", "aborted", "cleaned"} -> FALSE
    [] e[1] = "cleanup" -> Final(Completed) /\ Explained(e[2])
    [] e[1] = "stage" -> e[2] \notin room
    [] e[1] \in {"move", "move-back"} -> PhysicalInventory
    [] OTHER -> TRUE
CheckEffect ==
  /\ cmd.pc = "check"
  /\ CASE Stable /\ Found(E) -> cmd' = [cmd EXCEPT !.pc = "done"]
       [] Stable /\ ~Found(E) /\ Ready(E) -> cmd' = [cmd EXCEPT !.pc = "act"]
       [] OTHER -> Fail
  /\ since' = {}
  /\ UNCHANGED <<objects, record, other, around, edited, kills, user>>

\* Mutant: a rename replaces what it finds.
FreeOrNot(i) == TRUE

\* Renames never replace anything; what they catch is looked at afterwards.
Free(i) == active[i] = None
Capture(from, to, i) == to' = [to EXCEPT ![i] = from[i]] /\ from' = [from EXCEPT ![i] = None]
Act(kind, i) ==
  \/ /\ kind = "stage" /\ i \notin room /\ room' = room \cup {i}
     /\ UNCHANGED <<dir, active, original, published>>
  \/ /\ kind \in {"move", "move-back"} /\ ~occupied
     /\ dir' = (IF kind = "move" THEN "new" ELSE "old")
     /\ UNCHANGED <<active, room, original, published>>
  \/ /\ kind = "preserve" /\ Capture(active, original, i)
     /\ UNCHANGED <<dir, room, published>>
  \/ /\ kind = "publish" /\ Free(i) /\ active' = [active EXCEPT ![i] = "post"]
     /\ UNCHANGED <<dir, room, original, published>>
  \/ /\ kind = "unpublish" /\ Capture(active, published, i)
     /\ UNCHANGED <<dir, room, original>>
  \/ /\ kind = "restore" /\ Free(i) /\ Capture(original, active, i)
     /\ UNCHANGED <<dir, room, published>>
Moves(e) == occupied' = occupied /\ Act(e[1], e[2])
Right(e) ==
  CASE e[1] = "preserve"  -> original'[e[2]] = "pre"
    [] e[1] = "unpublish" -> published'[e[2]] = "post"
    [] OTHER              -> TRUE
\* An effect may be there although an error is reported, or not be there.
ActOnEffect ==
  /\ cmd.pc = "act" /\ E[1] # "cleanup"
  /\ \/ Moves(E) /\ Right(E) /\ cmd' = [cmd EXCEPT !.pc = "done"]
     \/ Moves(E) /\ Fail
     \/ Fail /\ UNCHANGED objects
  /\ UNCHANGED <<record, other, around, count>>

\* The staging directory is emptied one object at a time.
Clean ==
  /\ cmd.pc = "act" /\ E[1] = "cleanup"
  /\ LET i == E[2] IN
     CASE ~Stable \/ ~Explained(i) -> Fail /\ UNCHANGED <<original, published, room>>
       [] Stable /\ Explained(i) /\ original[i] # None ->
            original' = [original EXCEPT ![i] = None] /\ UNCHANGED <<published, room, cmd>>
       [] Stable /\ Explained(i) /\ original[i] = None /\ published[i] # None ->
            published' = [published EXCEPT ![i] = None] /\ UNCHANGED <<original, room, cmd>>
       [] OTHER ->
            room' = room \ {i} /\ cmd' = [cmd EXCEPT !.pc = "done"]
            /\ UNCHANGED <<original, published>>
  /\ UNCHANGED <<dir, occupied, active, record, other, around, count>>

RecordDone ==
  /\ cmd.pc = "done"
  /\ IF Acceptable(E, "done")
     THEN log' = log \cup {<<E, "done">>} /\ Advance
     ELSE Fail /\ UNCHANGED log
  /\ UNCHANGED <<objects, journal, other, around, count>>
-----------------------------------------------------------------------------
(* Kills, and programs that know nothing of tws.                            *)

KillRename ==
  /\ cmd.pc # "idle" /\ kills < MaxKill /\ kills' = kills + 1 /\ Stop
  /\ UNCHANGED <<objects, record, other, around, edited, since, user>>
KillOrdinary(q) ==
  /\ other[q] = "work" /\ kills < MaxKill /\ kills' = kills + 1
  /\ other' = [other EXCEPT ![q] = "idle"] /\ left' = TRUE
  /\ UNCHANGED <<objects, record, cmd, git, edited, since, user>>

Meddle(touched) ==
  /\ (Pending \/ cmd.pc \in {"plan", "publish"}) /\ user < MaxUser /\ user' = user + 1
  /\ since' = since \cup touched
  /\ UNCHANGED <<dir, room, original, published, record, cmd, other, left, kills>>
Overwrite(i) ==
  /\ Meddle({i}) /\ active' = [active EXCEPT ![i] = "foreign"]
  /\ edited' = edited \cup {i} /\ UNCHANGED <<occupied, git>>
Delete(i) ==
  /\ Meddle({i}) /\ active[i] = "post" /\ active' = [active EXCEPT ![i] = None]
  /\ UNCHANGED <<occupied, git, edited>>
Occupy == Meddle({}) /\ occupied' = ~occupied /\ UNCHANGED <<active, git, edited>>
WorkInWorktree(result) ==
  /\ Meddle({0}) /\ git # result /\ git' = result
  /\ UNCHANGED <<occupied, active, edited>>

Next ==
  \/ \E q \in Others : Look(q) \/ Hold(q) \/ LookAgain(q) \/ Leave(q)
  \/ \E verb \in {"rename", "continue", "abort"} : StartRename(verb)
  \/ Admit \/ PlanRename \/ PublishJournal \/ Judge
  \/ IntendEffect \/ CheckEffect \/ ActOnEffect \/ Clean \/ RecordDone
  \/ KillRename \/ (\E q \in Others : KillOrdinary(q))
  \/ (\E result \in {"same", "busy", "changed"} : WorkInWorktree(result))
  \/ (\E i \in Pointers : Overwrite(i) \/ Delete(i)) \/ Occupy

Spec == Init /\ [][Next]_vars
-----------------------------------------------------------------------------
(* What a rename promises.                                                  *)

\* WholeOrNothing: when an outcome is recorded, or the journal closed, every
\* pointer names the place where the directory is, whoever was killed, failed or
\* interfered before, and the directory moves only while Git in its worktrees is
\* as the plan found it; only what is touched after the last look is excused.
WholeOrNothing ==
  [][/\ \A kind \in {"complete", "aborted", "cleaned"} :
          ~Done(Of(kind)) /\ Done(Of(kind))' =>
            \A i \in Pointers \ since :
              active[i] = (IF dir = "new" THEN "post" ELSE "pre")
     /\ dir' # dir => git = "same" \/ 0 \in since]_vars

\* NothingOverwritten: what somebody else wrote to a pointer is still there, at
\* its place or set aside in the staging directory; and as long as nothing is
\* decided, so is the pointer as it was.
NothingOverwritten ==
  \A i \in Pointers :
    /\ i \in edited => "foreign" \in {active[i], original[i], published[i]}
    /\ ~Completed /\ i \notin edited => "pre" \in {active[i], original[i]}

\* NobodyInside: an ordinary command works on the feature only while no rename
\* is under way, pending recovery or holding the lock; and a rename is pending
\* only while no ordinary command is left half done.
NobodyInside ==
  /\ \A q \in Others :
       other[q] = "work" => ~Pending /\ cmd.pc \in {"idle", "lock"}
  /\ Pending => ~left
=============================================================================
