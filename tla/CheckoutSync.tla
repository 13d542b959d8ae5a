---------------------------- MODULE CheckoutSync ----------------------------
(***************************************************************************)
(* `tws sync` in checkout mode: features share one working tree, one       *)
(* workspace-wide mutation lock and one lock per feature, and a run is a    *)
(* journal with a stage per branch.  Terminals start, continue and abort    *)
(* syncs and rename features, and may be killed between any two effects.    *)
(* The pins, images and attribution of the journal are SyncTransaction's.   *)
(***************************************************************************)
EXTENDS Naturals, Sequences, FiniteSets

CONSTANTS
  Terminals,    \* processes, at most one command each at a time
  Plan,         \* the branches of each feature's stack, parents first
  Main,         \* a branch of nobody's plan, checked out at first
  Conflicting,  \* branches whose rebase may stop at a conflict
  Push,         \* --push
  Validate,     \* --test
  MaxRun,       \* lock claims of fresh syncs and renames
  MaxKill       \* kills

Features == DOMAIN Plan
InPlan(f) == {Plan[f][i] : i \in DOMAIN Plan[f]}
Branches == UNION {InPlan(f) : f \in Features}
Detached == "detached"
Dead == "dead"

ASSUME CheckoutAssumption ==
  /\ \A f \in Features : Plan[f] \in Seq(InPlan(f)) /\ Plan[f] # <<>>
  /\ \A f, g \in Features : f # g => InPlan(f) \cap InPlan(g) = {}
  /\ Main \notin Branches /\ Detached \notin Branches \cup {Main}
  /\ Conflicting \subseteq Branches /\ {Dead, "none"} \cap Terminals = {}
  /\ Push \in BOOLEAN /\ Validate \in BOOLEAN
  /\ MaxRun \in Nat /\ MaxKill \in Nat

VARIABLES
  tip,     \* "old", "new" (on its base) or "stray", per branch
  head,    \* the branch the working tree is on, or Detached
  stopped, \* the branch whose rebase has stopped, or Main
  dirty,   \* the working tree has tracked modifications
  remote,  \* the branches pushed
  meta,    \* features whose last_base_sha is recorded
  home,    \* features whose directory bears their name
  reg,     \* features that the registry knows by that name
  tx,      \* the journal of each feature
  moves,   \* the run whose movement evidence is on disk, or 0
  lock,    \* checkout-mutation.lock
  flock,   \* <feature>-checkout-sync.lock
  cmd,     \* the command of each terminal
  tested,  \* branches that passed validation since they last moved
  runs, kills

world == <<tip, head, stopped, dirty, remote, tested>>
files == <<meta, home, reg, tx, moves>>
locks == <<lock, flock>>
count == <<runs, kills>>
vars == <<world, files, locks, cmd, count>>

NoTx == [run |-> 0]
Free == [pid |-> "none"]
Idle == [pc |-> "idle"]

Init ==
  /\ tip = [b \in Branches \cup {Main} |-> "old"] /\ head = Main
  /\ stopped = Main /\ dirty = FALSE /\ remote = {} /\ tested = {}
  /\ meta = {} /\ home = Features /\ reg = Features
  /\ tx = [f \in Features |-> NoTx] /\ moves = 0
  /\ lock = Free /\ flock = [f \in Features |-> "none"]
  /\ cmd = [p \in Terminals |-> Idle]
  /\ runs = 0 /\ kills = 0
-----------------------------------------------------------------------------
(* Processes and locks.  A process that ends leaves its locks to the dead.  *)

Rebasing == stopped # Main
\* States of a command that holds no lock yet.
Waiting == {"idle", "claim", "unlink", "relock"}
At(p, s) == cmd[p].pc = s
Go(p, s) == cmd' = [cmd EXCEPT ![p].pc = s]
F(p) == cmd[p].f
X(p) == tx[F(p)]
Pending == {f \in Features : tx[f] # NoTx}
Set(p, x) == tx' = [tx EXCEPT ![F(p)] = x]
\* The journal is saved with x and the command goes on at s.
Save(p, x, s) == Set(p, x) /\ Go(p, s) /\ UNCHANGED <<meta, home, reg, moves>>

Died(p) ==
  /\ lock' = IF lock.pid = p THEN [lock EXCEPT !.pid = Dead] ELSE lock
  /\ flock' = [f \in Features |-> IF flock[f] = p THEN Dead ELSE flock[f]]
Stop(p) == cmd' = [cmd EXCEPT ![p] = Idle] /\ Died(p)
Refuse(p) == cmd' = [cmd EXCEPT ![p] = Idle] /\ UNCHANGED locks
Still == UNCHANGED <<world, files, count>>

\* State that a killed command left for its recovery; a lock is an orphan when
\* its owner left none.
Recoverable == Pending # {} \/ moves # 0
OwnerState(l) == IF l.op = "sync" THEN tx[l.f] # NoTx ELSE moves = l.run
Mine(p) ==
  [pid |-> p, f |-> F(p), op |-> IF cmd[p].verb = "rename" THEN "metadata" ELSE "sync",
   run |-> IF cmd[p].verb \in {"sync", "rename"} THEN runs + 1 ELSE cmd[p].run]
Fresh(p) == cmd[p].verb \in {"sync", "rename"}
\* Mutant: only the journal of the command's own feature is in the way.
ReservedHere(p) == Fresh(p) => X(p) = NoTx /\ moves = 0

\* Recovery may find its own journal; anybody else's is in the way.
Reserved(p) ==
  IF Fresh(p) THEN ~Recoverable ELSE Pending \subseteq {F(p)} /\ moves = 0

\* A fresh sync looks at the working tree before it takes any lock.
StartSync(p, f) ==
  /\ At(p, "idle") /\ tx[f] = NoTx /\ ~Rebasing /\ ~dirty
  /\ head # Detached /\ f \in home /\ runs < MaxRun
  /\ cmd' = [cmd EXCEPT ![p] =
       [pc |-> "claim", verb |-> "sync", f |-> f, run |-> 0, orig |-> head,
        was |-> tip[head], stack |-> f \in meta, saw |-> Free]]
  /\ Still /\ UNCHANGED locks
Command(p, f, verb, pc) ==
  /\ cmd' = [cmd EXCEPT ![p] =
       [pc |-> pc, verb |-> verb, f |-> f, run |-> tx[f].run, saw |-> Free]]
  /\ Still /\ UNCHANGED locks
StartContinue(p, f) ==
  /\ At(p, "idle") /\ tx[f] # NoTx /\ ~tx[f].back
  /\ Command(p, f, "continue", "claim")
StartAbort(p, f) ==
  /\ At(p, "idle") /\ tx[f] # NoTx /\ Command(p, f, "abort", "claim")
StartRename(p, f) ==
  /\ At(p, "idle") /\ f \in home /\ runs < MaxRun
  /\ Command(p, f, "rename", "claim")

Take(p) ==
  IF Reserved(p)
  THEN /\ lock' = Mine(p) /\ UNCHANGED flock
       /\ runs' = IF Fresh(p) THEN runs + 1 ELSE runs
       /\ cmd' = [cmd EXCEPT ![p].pc = "feature-lock", ![p].run = Mine(p).run]
  ELSE Refuse(p) /\ UNCHANGED runs

Taken(p) ==
  \/ lock.pid # Dead
  \/ Fresh(p) /\ OwnerState(lock)
  \/ ~Fresh(p) /\ (lock.run # cmd[p].run \/ lock.op # "sync")
Claim(p) ==
  /\ At(p, "claim")
  /\ CASE lock = Free -> Take(p)
       [] lock # Free /\ Taken(p) -> Refuse(p) /\ UNCHANGED runs
       [] OTHER -> /\ cmd' = [cmd EXCEPT ![p].pc = "unlink", ![p].saw = lock]
                   /\ UNCHANGED <<runs, locks>>
  /\ UNCHANGED <<world, files, kills>>
\* The comparison and the removal are one step here: SyncGuard has the interval.
Unlink(p) ==
  /\ At(p, "unlink")
  /\ IF lock # Free /\ lock = cmd[p].saw
     THEN lock' = Free /\ Go(p, "relock") /\ UNCHANGED flock
     ELSE Refuse(p)
  /\ Still
Relock(p) ==
  /\ At(p, "relock")
  /\ IF lock = Free THEN Take(p) ELSE Refuse(p) /\ UNCHANGED runs
  /\ UNCHANGED <<world, files, kills>>

Unlocked(p) == lock' = IF lock # Free /\ lock.run = cmd[p].run THEN Free ELSE lock
FeatureLock(p) ==
  /\ At(p, "feature-lock")
  /\ LET free == \/ flock[F(p)] = "none"
                 \/ flock[F(p)] = Dead /\ (Fresh(p) => X(p) = NoTx) IN
     CASE cmd[p].verb = "rename" -> Go(p, "evidence") /\ UNCHANGED locks
       [] cmd[p].verb # "rename" /\ free ->
            /\ flock' = [flock EXCEPT ![F(p)] = p] /\ UNCHANGED lock
            /\ Go(p, IF Fresh(p) THEN "birth" ELSE "reload")
       [] OTHER -> Unlocked(p) /\ cmd' = [cmd EXCEPT ![p] = Idle] /\ UNCHANGED flock
  /\ Still

ReleaseFeature(p) ==
  /\ At(p, "release")
  /\ flock' = [flock EXCEPT ![F(p)] = "none"] /\ UNCHANGED lock
  /\ Go(p, "unlock") /\ Still
ReleaseMutation(p) ==
  /\ At(p, "unlock")
  /\ Unlocked(p) /\ cmd' = [cmd EXCEPT ![p] = Idle] /\ UNCHANGED flock /\ Still
-----------------------------------------------------------------------------
(* Images of the journal.                                                   *)

Cur(x, f) == Plan[f][x.i]
Expected(x, b) == IF b \in x.moved THEN "new" ELSE x.pre[b]
RefImage(x, but) == \A b \in (Branches \cup {Main}) \ but : tip[b] = Expected(x, b)
Image(x) == RefImage(x, {}) /\ head = x.at

\* What the validator of the journal lets anyone save once rollback began.
Savable(x) ==
  x.back => ~x.pub /\ x.val # "failed" /\ ("refs" \in x.restored => x.moved = {})

\* The pending action, which is about the branch x.on, explains what is found.
Closed(x) ==
  [x EXCEPT !.act = "closed", !.at = head,
            !.moved = IF tip[x.on] = "new" THEN @ \cup {x.on} ELSE @ \ {x.on}]
Closable(x) ==
  /\ RefImage(x, {x.on}) /\ head \in {x.at, x.on}
  /\ Savable(Closed(x))
-----------------------------------------------------------------------------
(* A fresh run is born under its locks, then goes through its plan.         *)

Birth(p) ==
  /\ At(p, "birth")
  /\ IF F(p) \in home /\ cmd[p].stack = (F(p) \in meta) /\ ~Rebasing
     THEN /\ Save(p, [run |-> cmd[p].run, orig |-> cmd[p].orig, was |-> cmd[p].was,
                      first |-> head, at |-> head, want |-> "", pre |-> tip, moved |-> {},
                      had |-> F(p) \in meta, ready |-> FALSE, i |-> 1,
                      stage |-> "planned", act |-> "none", on |-> Main, val |-> "none",
                      back |-> FALSE, undo |-> FALSE, restored |-> {}, pub |-> FALSE,
                      pushed |-> {}, done |-> FALSE], "pin")
          /\ tested' = tested \ InPlan(F(p)) /\ remote' = remote \ InPlan(F(p))
     ELSE Go(p, "release") /\ UNCHANGED <<files, tested, remote>>
  /\ UNCHANGED <<tip, head, stopped, dirty, locks, count>>
Ready(p) ==
  /\ At(p, "pin")
  /\ Save(p, [X(p) EXCEPT !.ready = TRUE], "next")
  /\ UNCHANGED <<world, locks, count>>

Begin(p) ==
  /\ At(p, "next") /\ X(p).i =< Len(Plan[F(p)])
  /\ IF X(p).ready /\ X(p).act # "intent" /\ Image(X(p))
     THEN /\ Save(p, [X(p) EXCEPT !.act = "intent", !.on = Cur(X(p), F(p))], "switch")
          /\ UNCHANGED locks
     ELSE Stop(p) /\ UNCHANGED files
  /\ UNCHANGED <<world, count>>
Switch(p) ==
  /\ At(p, "switch")
  /\ Save(p, [X(p) EXCEPT !.stage = "switched"], "checkout")
  /\ UNCHANGED <<world, locks, count>>
\* Git may refuse to switch a modified working tree.
Checkout(p) ==
  /\ At(p, "checkout")
  /\ \/ head' = Cur(X(p), F(p)) /\ Go(p, "rebase") /\ UNCHANGED locks
     \/ dirty /\ Stop(p) /\ UNCHANGED head
  /\ UNCHANGED <<tip, stopped, dirty, remote, tested, files, count>>
Rebase(p) ==
  /\ At(p, "rebase")
  /\ Save(p, [X(p) EXCEPT !.stage = "rebasing"], "replay")
  /\ UNCHANGED <<world, locks, count>>

\* git rebase moves whatever branch the working tree is on.
Rebased(p, b) ==
  IF head = b THEN "new" ELSE IF head \in X(p).moved THEN "new" ELSE "stray"
Replay(p) ==
  /\ At(p, "replay")
  /\ LET b == Cur(X(p), F(p)) IN
     \/ /\ ~dirty /\ head # Detached
        /\ tip' = [tip EXCEPT ![head] = Rebased(p, b)]
        /\ tested' = IF tip' = tip THEN tested ELSE tested \ {head}
        /\ Go(p, "replayed") /\ UNCHANGED <<head, stopped>>
     \/ /\ ~dirty /\ head = b /\ b \in Conflicting /\ tip[b] = "old"
        /\ stopped' = b /\ head' = Detached /\ Go(p, "conflict")
        /\ UNCHANGED <<tip, tested>>
     \/ /\ dirty \/ head = Detached
        /\ Go(p, "failed") /\ UNCHANGED <<tip, tested, head, stopped>>
  /\ UNCHANGED <<dirty, remote, files, locks, count>>
Conflict(p) ==
  /\ At(p, "conflict")
  /\ Set(p, [X(p) EXCEPT !.stage = "conflict"]) /\ Stop(p)
  /\ UNCHANGED <<world, meta, home, reg, moves, count>>
Replayed(p) ==
  /\ At(p, "replayed")
  /\ Save(p, [X(p) EXCEPT !.stage = "rebased"], "observe")
  /\ UNCHANGED <<world, locks, count>>
Observe(p) ==
  /\ At(p, "observe") \/ At(p, "failed")
  /\ LET x == X(p) IN
     CASE x.act # "intent" /\ At(p, "observe") ->
            Go(p, "ancestry") /\ UNCHANGED <<files, locks>>
       [] x.act = "intent" /\ Closable(x) /\ At(p, "observe") ->
            Save(p, Closed(x), "ancestry") /\ UNCHANGED locks
       [] x.act = "intent" /\ Closable(x) /\ At(p, "failed") /\ ~x.back ->
            Set(p, Closed(x)) /\ Stop(p) /\ UNCHANGED <<meta, home, reg, moves>>
       [] OTHER -> Stop(p) /\ UNCHANGED files
  /\ UNCHANGED <<world, count>>

Ancestry(p) ==
  /\ At(p, "ancestry")
  /\ CASE tip[Cur(X(p), F(p))] # "new" -> Stop(p) /\ UNCHANGED files
       [] tip[Cur(X(p), F(p))] = "new" /\ Validate ->
            Save(p, [X(p) EXCEPT !.stage = "validating"], "validate") /\ UNCHANGED locks
       [] OTHER -> Go(p, "advance") /\ UNCHANGED <<files, locks>>
  /\ UNCHANGED <<world, count>>
ValidateIntent(p) ==
  /\ At(p, "validate")
  /\ IF X(p).val # "intent" /\ Image(X(p))
     THEN Save(p, [X(p) EXCEPT !.val = "intent"], "test") /\ UNCHANGED locks
     ELSE Stop(p) /\ UNCHANGED files
  /\ UNCHANGED <<world, count>>
Validator(p) ==
  /\ At(p, "test")
  /\ \/ /\ tested' = tested \cup {Cur(X(p), F(p))} /\ UNCHANGED locks
        /\ Save(p, [X(p) EXCEPT !.val = "observed"], "advance")
     \/ /\ Set(p, IF X(p).back THEN X(p) ELSE [X(p) EXCEPT !.val = "failed"]) /\ Stop(p)
        /\ UNCHANGED <<tested, meta, home, reg, moves>>
  /\ UNCHANGED <<tip, head, stopped, dirty, remote, count>>
Advance(p) ==
  /\ At(p, "advance")
  /\ Save(p, [X(p) EXCEPT !.i = @ + 1, !.stage = "planned"], "next")
  /\ UNCHANGED <<world, locks, count>>
-----------------------------------------------------------------------------
(* After the last branch: metadata, the original branch, publication.       *)

WriteMetadata(p) ==
  /\ At(p, "next") /\ X(p).i > Len(Plan[F(p)])
  /\ IF "meta" \notin X(p).restored /\ \A b \in InPlan(F(p)) : tip[b] = "new"
     THEN meta' = meta \cup {F(p)} /\ Go(p, "restoring") /\ UNCHANGED locks
     ELSE Stop(p) /\ UNCHANGED meta
  /\ UNCHANGED <<world, home, reg, tx, moves, count>>
Restoring(p) ==
  /\ At(p, "restoring")
  /\ Save(p, [X(p) EXCEPT !.stage = "restoring"], "restore")
  /\ UNCHANGED <<world, locks, count>>
\* The working tree goes back where the journal says it was found ...
Restore(p) ==
  /\ At(p, "restore")
  /\ LET x == X(p) IN
     CASE x.want = "" -> Save(p, [x EXCEPT !.want = x.first], "give-back") /\ UNCHANGED locks
       [] x.want # "" /\ head = x.want ->
            Save(p, [x EXCEPT !.at = x.want, !.want = ""], "publish") /\ UNCHANGED locks
       [] x.want # "" /\ head # x.want /\ head = x.at ->
            Go(p, "give-back") /\ UNCHANGED <<files, locks>>
       [] OTHER -> Stop(p) /\ UNCHANGED files
  /\ UNCHANGED <<world, count>>
\* ... by a checkout of the branch that was current before the lock was taken.
GiveBack(p) ==
  /\ At(p, "give-back")
  /\ \/ /\ head' = X(p).orig
        /\ IF X(p).orig \notin InPlan(F(p)) /\ tip[X(p).orig] # X(p).was
           THEN Stop(p) ELSE Go(p, "given-back") /\ UNCHANGED locks
     \/ dirty /\ Stop(p) /\ UNCHANGED head
  /\ UNCHANGED <<tip, stopped, dirty, remote, tested, files, count>>
GivenBack(p) ==
  /\ At(p, "given-back")
  /\ IF head = X(p).want
     THEN Save(p, [X(p) EXCEPT !.at = head, !.want = ""], "publish") /\ UNCHANGED locks
     ELSE Stop(p) /\ UNCHANGED files
  /\ UNCHANGED <<world, count>>

Publish(p) ==
  /\ At(p, "publish")
  /\ IF Push THEN Save(p, [X(p) EXCEPT !.stage = "publishing"], "push")
     ELSE Go(p, "finish") /\ UNCHANGED files
  /\ UNCHANGED <<world, locks, count>>
Unpushed(x, f) == {i \in DOMAIN Plan[f] : Plan[f][i] \notin x.pushed}
NextPush(x, f) == Plan[f][CHOOSE i \in Unpushed(x, f) : \A j \in Unpushed(x, f) : i =< j]
PushIntent(p) ==
  /\ At(p, "push")
  /\ CASE Unpushed(X(p), F(p)) = {} -> Go(p, "finish") /\ UNCHANGED <<files, locks>>
       [] Unpushed(X(p), F(p)) # {} /\ ~X(p).back /\ RefImage(X(p), {}) ->
            Save(p, [X(p) EXCEPT !.pub = TRUE], "network") /\ UNCHANGED locks
       [] OTHER -> Stop(p) /\ UNCHANGED files
  /\ UNCHANGED <<world, count>>
\* A push may land although it is reported to have failed.
Network(p) ==
  /\ At(p, "network")
  /\ \E landed, reported \in BOOLEAN :
       /\ reported => landed
       /\ remote' = IF landed THEN remote \cup {NextPush(X(p), F(p))} ELSE remote
       /\ IF reported THEN Go(p, "pushed") /\ UNCHANGED locks ELSE Stop(p)
  /\ UNCHANGED <<tip, head, stopped, dirty, tested, files, count>>
Pushed(p) ==
  /\ At(p, "pushed")
  /\ Save(p, [X(p) EXCEPT !.pushed = @ \cup {NextPush(X(p), F(p))}], "push")
  /\ UNCHANGED <<world, locks, count>>
Finish(p) ==
  /\ At(p, "finish")
  /\ IF X(p).back => cmd[p].verb = "abort"
     THEN Save(p, [X(p) EXCEPT !.done = TRUE], "remove") /\ UNCHANGED locks
     ELSE Stop(p) /\ UNCHANGED files
  /\ UNCHANGED <<world, count>>
Remove(p) ==
  /\ At(p, "remove")
  /\ Save(p, NoTx, "release")
  /\ UNCHANGED <<world, locks, count>>
-----------------------------------------------------------------------------
(* --continue and --abort: the journal is read again under the locks.       *)

Reload(p) ==
  /\ At(p, "reload")
  /\ LET x == X(p) IN
     CASE \/ x.run # cmd[p].run
          \/ x.back /\ cmd[p].verb = "continue" /\ x.done -> Stop(p)
       [] x.run = cmd[p].run /\ x.done /\ (x.back => cmd[p].verb = "abort") ->
            Go(p, "remove") /\ UNCHANGED locks
       [] x.run = cmd[p].run /\ ~x.done /\ cmd[p].verb = "abort" ->
            IF x.pub THEN Stop(p)
            ELSE Go(p, IF x.back THEN "preflight" ELSE "reconcile") /\ UNCHANGED locks
       [] OTHER -> Go(p, "reconcile") /\ UNCHANGED locks
  /\ Still

\* An interrupted validation failed; an interrupted action is closed with what
\* it is found to have done, and only then does the stage follow it.
Reconcile(p) ==
  /\ At(p, "reconcile")
  /\ LET x == X(p)
         changed == tip[x.on] # Expected(x, x.on) IN
     CASE x.act = "intent" /\ Rebasing -> Go(p, "forward") /\ UNCHANGED <<files, locks>>
       [] x.act = "intent" /\ ~Rebasing /\ Closable(x) ->
            /\ Save(p, Closed(x),
                    IF cmd[p].verb = "abort" THEN "forward"
                    ELSE IF changed THEN "was-rebased" ELSE "was-planned")
            /\ UNCHANGED locks
       [] x.act # "intent" /\ x.val = "intent" /\ Image(x) /\ ~x.back ->
            Save(p, [x EXCEPT !.val = "failed"], "forward") /\ UNCHANGED locks
       [] x.act # "intent" /\ x.val # "intent" ->
            Go(p, "forward") /\ UNCHANGED <<files, locks>>
       [] OTHER -> Stop(p) /\ UNCHANGED files
  /\ UNCHANGED <<world, count>>
StageFollows(p) ==
  /\ \/ /\ At(p, "was-planned")
        /\ Save(p, [X(p) EXCEPT !.stage = "planned"], "forward")
     \/ /\ At(p, "was-rebased")
        /\ Save(p, [X(p) EXCEPT !.stage = IF @ \in {"rebasing", "switched"}
                                          THEN "rebased" ELSE @], "forward")
  /\ UNCHANGED <<world, locks, count>>
\* A restoration that was begun is completed first.
Forward(p) ==
  /\ At(p, "forward")
  /\ LET x == X(p)
         next == IF cmd[p].verb = "abort" THEN "preflight" ELSE "resume" IN
     CASE x.want = "" -> Go(p, next) /\ UNCHANGED <<files, head, locks>>
       [] x.want # "" /\ head = x.want ->
            /\ Save(p, [x EXCEPT !.at = x.want, !.want = ""], next)
            /\ UNCHANGED <<head, locks>>
       [] x.want # "" /\ head # x.want /\ head = x.at /\ ~dirty ->
            head' = x.want /\ UNCHANGED <<files, cmd, locks>>
       [] OTHER -> Stop(p) /\ UNCHANGED <<files, head>>
  /\ UNCHANGED <<tip, stopped, dirty, remote, tested, count>>

\* Mutant: a branch whose validation was interrupted is not validated again.
ResumeValidated(p) ==
  /\ At(p, "resume") /\ X(p).stage = "validating"
  /\ Go(p, "advance") /\ UNCHANGED <<files, locks, world, count>>

Resume(p) ==
  /\ At(p, "resume")
  /\ LET x == X(p) IN
     CASE x.stage \in {"planned", "rebasing"} /\ Rebasing ->
            /\ Set(p, [x EXCEPT !.stage = "conflict"]) /\ Stop(p)
            /\ UNCHANGED <<meta, home, reg, moves>>
       [] x.stage \in {"planned", "rebasing"} /\ ~Rebasing ->
            Go(p, "next") /\ UNCHANGED <<files, locks>>
       [] x.stage = "conflict" /\ ~Rebasing /\ tip[Cur(x, F(p))] = "new" ->
            Save(p, [x EXCEPT !.stage = "rebased"], "ancestry") /\ UNCHANGED locks
       [] x.stage = "switched" -> Go(p, "rebase") /\ UNCHANGED <<files, locks>>
       [] x.stage = "rebased" -> Go(p, "ancestry") /\ UNCHANGED <<files, locks>>
       [] x.stage = "validating" -> Go(p, "validate") /\ UNCHANGED <<files, locks>>
       [] x.stage = "restoring" -> Go(p, "restore") /\ UNCHANGED <<files, locks>>
       [] x.stage = "publishing" -> Go(p, "push") /\ UNCHANGED <<files, locks>>
       [] OTHER -> Stop(p) /\ UNCHANGED files
  /\ UNCHANGED <<world, count>>

\* Nothing is undone unless everything is where the run put it.
Owned(x) == Rebasing /\ x.act = "intent"
Rollbackable(x) ==
  /\ Rebasing => Owned(x)
  /\ Owned(x) \/ ~dirty
  /\ \A b \in Branches \cup {Main} : tip[b] \in {x.pre[b], Expected(x, b)}
  /\ \/ head \in {x.at, x.first} \/ Owned(x)
     \/ x.undo /\ head = Detached
     \/ x.act = "intent" /\ head # Detached
Preflight(p) ==
  /\ At(p, "preflight")
  /\ IF Rollbackable(X(p))
     THEN Save(p, [X(p) EXCEPT !.back = TRUE, !.want = ""], "undo-rebase") /\ UNCHANGED locks
     ELSE Stop(p) /\ UNCHANGED files
  /\ UNCHANGED <<world, count>>
UndoRebase(p) ==
  /\ At(p, "undo-rebase")
  /\ CASE Owned(X(p)) ->
            stopped' = Main /\ head' = stopped /\ UNCHANGED <<files, locks, cmd>>
       [] ~Owned(X(p)) /\ X(p).act = "intent" /\ Closable(X(p)) ->
            Save(p, Closed(X(p)), "detach") /\ UNCHANGED <<stopped, head, locks>>
       [] X(p).act # "intent" /\ Rollbackable(X(p)) ->
            Go(p, "detach") /\ UNCHANGED <<files, stopped, head, locks>>
       [] OTHER -> Stop(p) /\ UNCHANGED <<files, stopped, head>>
  /\ UNCHANGED <<tip, dirty, remote, tested, count>>
DetachHead(p) ==
  /\ At(p, "detach")
  /\ CASE ~Rollbackable(X(p)) -> Stop(p) /\ UNCHANGED <<files, head>>
       [] Rollbackable(X(p)) /\ (head = Detached \/ tip[head] = X(p).pre[head]) ->
            /\ Go(p, IF "refs" \in X(p).restored THEN "meta-back" ELSE "refs-back")
            /\ UNCHANGED <<files, head, locks>>
       [] OTHER ->
            IF X(p).undo THEN head' = Detached /\ UNCHANGED <<files, locks, cmd>>
            ELSE Save(p, [X(p) EXCEPT !.undo = TRUE], "detach") /\ UNCHANGED <<head, locks>>
  /\ UNCHANGED <<tip, stopped, dirty, remote, tested, count>>
\* Mutant: branches that the run was through with are not put back.
RestoreRefsAtStop(p) ==
  /\ At(p, "refs-back")
  /\ LET left == {Plan[F(p)][i] : i \in X(p).i .. Len(Plan[F(p)])} IN
     tip' = [b \in DOMAIN tip |-> IF b \in left THEN X(p).pre[b] ELSE tip[b]]
  /\ tested' = {b \in tested : tip'[b] = tip[b]}
  /\ Go(p, "refs-were-restored")
  /\ UNCHANGED <<head, stopped, dirty, remote, files, locks, count>>

RestoreRefs(p) ==
  /\ At(p, "refs-back")
  /\ tip' = [b \in DOMAIN tip |-> IF tip[b] = Expected(X(p), b) THEN X(p).pre[b] ELSE tip[b]]
  /\ tested' = {b \in tested : tip'[b] = tip[b]}
  /\ Go(p, "refs-were-restored")
  /\ UNCHANGED <<head, stopped, dirty, remote, files, locks, count>>
RefsRestored(p) ==
  /\ At(p, "refs-were-restored")
  /\ Save(p, [X(p) EXCEPT !.moved = {}, !.restored = @ \cup {"refs"}], "meta-back")
  /\ UNCHANGED <<world, locks, count>>
RestoreMetadata(p) ==
  /\ At(p, "meta-back")
  /\ \/ /\ (F(p) \in meta) # X(p).had /\ meta' = meta \ {F(p)} /\ UNCHANGED <<tx, cmd>>
     \/ /\ (F(p) \in meta) = X(p).had /\ Go(p, "head-back")
        /\ Set(p, [X(p) EXCEPT !.restored = @ \cup {"meta"}]) /\ UNCHANGED meta
  /\ UNCHANGED <<world, home, reg, moves, locks, count>>
RestoreHead(p) ==
  /\ At(p, "head-back")
  /\ CASE head = X(p).first ->
            /\ Save(p, [X(p) EXCEPT !.at = head, !.undo = FALSE], "finish")
            /\ UNCHANGED <<head, locks>>
       [] head # X(p).first /\ ~dirty -> head' = X(p).first /\ UNCHANGED <<files, locks, cmd>>
       [] OTHER -> Stop(p) /\ UNCHANGED <<files, head>>
  /\ UNCHANGED <<tip, stopped, dirty, remote, tested, count>>
-----------------------------------------------------------------------------
(* Another mutation under the same lock: `tws rename` moves a feature's      *)
(* directory and rewrites the registry, with evidence of the movement.       *)

Evidence(p) ==
  /\ At(p, "evidence")
  /\ IF F(p) \in home THEN moves' = cmd[p].run /\ Go(p, "move")
     ELSE Go(p, "unlock") /\ UNCHANGED moves
  /\ UNCHANGED <<world, meta, home, reg, tx, locks, count>>
MoveFeature(p) ==
  /\ At(p, "move")
  /\ home' = home \ {F(p)} /\ Go(p, "register")
  /\ UNCHANGED <<world, meta, reg, tx, moves, locks, count>>
\* Mutant: a registry that cannot be written leaves the directory renamed.
RegisterAnyhow(p) ==
  /\ At(p, "register")
  /\ \/ reg' = reg \ {F(p)}
     \/ UNCHANGED reg
  /\ Go(p, "commit-moves")
  /\ UNCHANGED <<world, meta, home, tx, moves, locks, count>>

Register(p) ==
  /\ At(p, "register")
  /\ \/ reg' = reg \ {F(p)} /\ UNCHANGED home
     \/ home' = home \cup {F(p)} /\ UNCHANGED reg
  /\ Go(p, "commit-moves")
  /\ UNCHANGED <<world, meta, tx, moves, locks, count>>
CommitMoves(p) ==
  /\ At(p, "commit-moves")
  /\ moves' = 0 /\ Go(p, "unlock")
  /\ UNCHANGED <<world, meta, home, reg, tx, locks, count>>
-----------------------------------------------------------------------------
(* Kills and people.                                                        *)

Kill(p) ==
  /\ ~At(p, "idle") /\ kills < MaxKill
  /\ kills' = kills + 1 /\ Stop(p)
  /\ UNCHANGED <<world, files, runs>>
\* People work in the tree while an unfinished run waits for its recovery.
Dirty ==
  /\ ~dirty /\ ~Rebasing
  /\ Pending # {} /\ \A p \in Terminals : cmd[p].pc \in Waiting
  /\ dirty' = TRUE
  /\ UNCHANGED <<tip, head, stopped, remote, tested, files, locks, cmd, count>>
Stash ==
  /\ dirty /\ dirty' = FALSE
  /\ UNCHANGED <<tip, head, stopped, remote, tested, files, locks, cmd, count>>
\* git rebase --continue or --abort, by hand.
EndRebase ==
  /\ Rebasing
  /\ tip' \in {tip, [tip EXCEPT ![stopped] = "new"]}
  /\ tested' = IF tip' = tip THEN tested ELSE tested \ {stopped}
  /\ head' = stopped /\ stopped' = Main
  /\ UNCHANGED <<dirty, remote, files, locks, cmd, count>>

Run(p) ==
  \/ Birth(p) \/ Ready(p) \/ Begin(p) \/ Switch(p) \/ Checkout(p) \/ Rebase(p)
  \/ Replay(p) \/ Conflict(p) \/ Replayed(p) \/ Observe(p) \/ Ancestry(p)
  \/ ValidateIntent(p) \/ Validator(p) \/ Advance(p) \/ WriteMetadata(p) \/ Restoring(p)
  \/ Restore(p) \/ GiveBack(p) \/ GivenBack(p) \/ Publish(p) \/ PushIntent(p)
  \/ Network(p) \/ Pushed(p) \/ Finish(p) \/ Remove(p)
Recover(p) ==
  \/ Reload(p) \/ Reconcile(p) \/ StageFollows(p) \/ Forward(p) \/ Resume(p)
  \/ Preflight(p) \/ UndoRebase(p) \/ DetachHead(p) \/ RestoreRefs(p)
  \/ RefsRestored(p) \/ RestoreMetadata(p) \/ RestoreHead(p)
Lock(p) ==
  \/ Claim(p) \/ Unlink(p) \/ Relock(p) \/ FeatureLock(p)
  \/ ReleaseFeature(p) \/ ReleaseMutation(p)
Rename(p) == Evidence(p) \/ MoveFeature(p) \/ Register(p) \/ CommitMoves(p)
Start(p) ==
  \E f \in Features :
    StartSync(p, f) \/ StartContinue(p, f) \/ StartAbort(p, f) \/ StartRename(p, f)
Next ==
  \/ \E p \in Terminals : Start(p) \/ Lock(p) \/ Run(p) \/ Recover(p) \/ Rename(p) \/ Kill(p)
  \/ Dirty \/ Stash \/ EndRebase

Spec == Init /\ [][Next]_vars
-----------------------------------------------------------------------------
(* What the locks and the stages are for.                                   *)

\* OneRecovery: of all terminals and all features one command at a time is past
\* the workspace-wide lock, whoever died holding it, and the working tree and
\* the feature directories belong to one unfinished operation at most: a second
\* journal is never born, and a feature with a journal is never renamed away
\* from it.
OneRecovery ==
  /\ \A p, q \in Terminals : p # q => cmd[p].pc \in Waiting \/ cmd[q].pc \in Waiting
  /\ Cardinality(Pending) + (IF moves # 0 THEN 1 ELSE 0) =< 1
  /\ \A f \in Pending : f \in home /\ f \in reg

\* RenameAllOrNothing: without movement evidence the directories and the
\* registry agree; a rename cut short leaves evidence that stops the others.
RenameAllOrNothing == moves = 0 => home = reg

\* SettledWhole: a run ends in one of two ways, however often it was killed,
\* continued or aborted: every branch on its base, validated, recorded in
\* stack.yaml and published; or every branch and stack.yaml as they were. The
\* working tree is back where the journal found it.
Complete(f) ==
  /\ f \in meta /\ \A b \in InPlan(f) : tip[b] = "new"
  /\ Validate => InPlan(f) \subseteq tested
  /\ Push => InPlan(f) \subseteq remote
Undone(f) ==
  /\ \A b \in InPlan(f) : tip[b] = tx[f].pre[b]
  /\ (f \in meta) = tx[f].had
SettledWhole ==
  [][\A f \in Features : tx[f] # NoTx /\ tx'[f] = NoTx =>
       /\ IF tx[f].back THEN Undone(f) ELSE Complete(f)
       /\ head = tx[f].first]_vars

\* PublishedIsFinal: once the journal says that publication began, the whole
\* plan is rebased, validated and recorded, and no rollback ever starts.
PublishedIsFinal ==
  \A f \in Pending : tx[f].pub =>
    /\ ~tx[f].back /\ f \in meta
    /\ \A b \in InPlan(f) : tip[b] = "new" /\ (Validate => b \in tested)
=============================================================================
