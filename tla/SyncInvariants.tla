--------------------------- MODULE SyncInvariants ---------------------------
(* The inductive invariants of SyncTransaction: what every command, however *)
(* it is interrupted, relies on when it looks at a journal.  The runs check *)
(* them on small instances; SyncTransaction_proofs proves them.             *)
EXTENDS SyncTransaction

\* The value a step is about to store has been prepared by the step before.
TargetsOK ==
  /\ pc = "metaWrite" => jmeta.intent \in Commits
  /\ pc \in {"network", "pushResult"} => pub.cur \in Entries
  /\ pc \in {"rbCas", "rbCasSave"} => sel \in Repos

\* TypeOK and what is needed to make it inductive.
TypeInv == TypeOK /\ TargetsOK
-----------------------------------------------------------------------------
(* Where the journal stands, by the label of the running command.           *)

ForwardLabels ==
  {"pin", "pinSave", "freeze", "snapshot", "recover", "next", "rebase",
   "observe", "valBegin", "valRun", "valEnd", "meta", "metaWrite",
   "metaCheck", "progress", "push", "network", "pushResult", "recMeta",
   "recVal", "recAct", "resume"}
CleanupLabels == {"delPins", "delPin", "delSave"}
RefsLabels == {"rbDetach", "rbSwitch", "rbDetSave", "rbRefs", "rbCas",
               "rbCasSave"}
LateLabels == {"rbMeta", "rbMetaWrite", "rbMetaSave", "rbHold",
               "rbHoldSwitch", "rbHoldSave", "rbDone"}

NobodyRebasing == \A e \in Entries : wt[e] # "rebasing"

Idle == verb = "none" <=> pc = "idle"

\* Before birth there is nothing to recover.
Unborn ==
  payload = "none" =>
    verb = "none" /\ phase = "preparing" /\ ~rb.on /\ ~ready

\* Until the snapshot is ready no branch has been rewritten.
Unready ==
  /\ ~ready => NobodyRebasing /\ \A r \in Refs : ref[r] <= 0
  /\ pc = "rebase" => ready

\* A forward step runs only while nothing has been decided.
GoingForward ==
  /\ pc \in ForwardLabels => ~rb.on /\ phase \notin {"cleanup", "rolling-back"}
  /\ pc = "complete" => ~rb.on
  /\ pc = "rbPre" => completion = ""
  /\ ~rb.on => rb.refs = {}

\* A rollback restores branches only after the last rebase has ended, and
\* goes on to stack.yaml and the worktrees only after all branches.
GoingBack ==
  /\ pc \in {"rbAct", "rbPre2"} \cup RefsLabels \cup LateLabels =>
       rb.on /\ phase = "rolling-back"
  /\ phase = "rolling-back" => rb.on
  /\ pc = "rbPre2" => act.st # "intent"
  /\ pc \in LateLabels => Repos \subseteq rb.refs
  /\ (rb.refs # {} \/ pc \in RefsLabels) => NobodyRebasing

Restored ==
  /\ \A r \in Refs : RepoOf[r] \in rb.refs => ref[r] <= 0
  /\ pc = "rbCasSave" => \A r \in Refs : RepoOf[r] = sel => ref[r] <= 0

\* Cleanup begins only after a decision: complete, cancelled or rolled back.
Ending ==
  /\ pc \in CleanupLabels => phase = "cleanup"
  /\ completion # "" => phase = "cleanup" /\ ~rb.on
  /\ phase = "cleanup" =>
       completion # "" \/ (rb.on /\ Repos \subseteq rb.refs)

Pinned ==
  /\ ready /\ phase # "cleanup" => pin = Refs
  /\ pc = "snapshot" => pin = Refs

\* Why PreimagePinned holds: pins exist from before the first rewrite until a
\* decision is recorded, and a recorded rollback has already restored every
\* branch.
CoreInv ==
  /\ Idle /\ Unborn /\ Unready /\ GoingForward /\ GoingBack /\ Restored
  /\ Ending /\ Pinned

\* Why BranchWorkKept holds: the journal never adopts somebody else's commit as
\* an expected tip, because the reflog of a branch somebody else moved shows
\* it.
ForeignTips ==
  \A r \in Refs : /\ jref[r].exp # UserWork
                  /\ reflog[r] # "other" => ref[r] # UserWork

-----------------------------------------------------------------------------
(* How far the run has come, and what may therefore still be changed.       *)

BirthLabels == {"pin", "pinSave", "recover", "freeze", "snapshot"}
ObservedLabels == {"valBegin", "valRun", "valEnd", "meta", "metaWrite",
                   "metaCheck", "progress"}
ReconcileLabels == {"recMeta", "recVal", "recAct"}
RollbackLabels == {"rbPre", "rbAct", "rbPre2"} \cup RefsLabels \cup LateLabels

\* The last action is the last recorded one or its successor, and a rebase
\* that was observed is never run again.
Advance ==
  /\ act.entry \in {done, done + 1}
  /\ done # 0 /\ act.entry = done => act.st = "observed"
  /\ pc \in {"rebase", "observe"} => Pending /\ act.entry = done + 1
  /\ pc \in ObservedLabels => act.st = "observed" /\ act.entry = done + 1
  /\ pc = "next" => act.entry = done \/ act.st # "observed"
  /\ payload = "none" \/ (verb = "sync" /\ pc \in BirthLabels) => act.st = "none"

\* Publication and completion come after the last entry; rollback comes
\* before any publication.
Publishable ==
  /\ pub.durable => done = N
  /\ pc \in {"push", "network", "pushResult"} => done = N
  /\ pc \in {"network", "pushResult"} => pub.durable
  /\ completion = "forward-complete" => done = N
  /\ pc = "complete" => done = N \/ completion # ""
  /\ pc \in RollbackLabels => ~pub.durable
  /\ verb = "abort" /\ pc \in BirthLabels \cup ReconcileLabels => ~pub.durable

\* No action is pending once branches are being restored; pins are deleted
\* only in cleanup.
Retreating ==
  /\ (rb.refs # {} \/ pc \in RefsLabels \cup LateLabels) => ~Pending
  /\ rb.pins # {} => phase = "cleanup"
  /\ pc = "snapshot" => \A r \in Refs : jref[r].pinned

\* What JournalReadable says, and where the run stands when it saves.
ProgressInv == Advance /\ Publishable /\ Retreating /\ JournalReadable

\* Only the worktree of the pending action is ever in a rebase, and what that
\* rebase is going to move is still where the journal expects it.
RebaseConfined ==
  /\ \A e \in Entries : wt[e] = "rebasing" => Pending /\ act.entry = e
  /\ pc = "rebase" \/ ~NobodyRebasing =>
       \A r \in Allowed[act.entry] : ref[r] \in {UserWork, jref[r].exp}

\* stack.yaml is about to record the last action, or is recorded as restored
\* for good.
Recording ==
  /\ pc \in {"metaWrite", "metaCheck"} => jmeta.intent = act.entry
  /\ jmeta.rest \/ pc = "rbMetaSave" => meta <= 0
  /\ pc \in {"rbHold", "rbHoldSwitch", "rbHoldSave", "rbDone"} => jmeta.rest
  /\ rb.on /\ phase = "cleanup" => jmeta.rest

\* A worktree that is recorded as restored does not come back to the run's
\* commits.
HolderUndone(e) ==
  /\ jhold[e].rest => Repos \subseteq rb.refs
  /\ jhold[e].rest \/ (pc = "rbHoldSave" /\ sel = e) =>
       Pos(e)[2] <= 0
  /\ pc = "rbSwitch" /\ sel = e => ~jhold[e].rest
  /\ pc = "rbDone" \/ (rb.on /\ phase = "cleanup") => jhold[e].rest

\* Why EffectsExplained holds: a rebase moves only what is where the journal
\* expects it, and what is recorded as restored stays restored.
EffectInv ==
  /\ RebaseConfined /\ Recording /\ \A e \in Entries : HolderUndone(e)
  /\ EffectsExplained

\* What a remote shows is the recorded source of a publication on record.
Delivered ==
  \A e \in Entries :
    remote[e] # Nothing => pub.durable /\ remote[e] = pub.src[e]

\* stack.yaml records every entry that is done, and what the journal expects
\* of it is never somebody else's edit.
RecordsAgree ==
  /\ jmeta.exp # UserWork /\ jmeta.intent # UserWork
  /\ ~rb.on => \/ meta \in {UserWork, done}
               \/ act.st = "observed" /\ meta = act.entry
  /\ pc = "progress" => meta \in {UserWork, act.entry}

\* An entry counts as pushed when its branch has reached the remote, and a run
\* that pushes is complete when all have.
RemotesAgree ==
  /\ pub.durable \/ pc \in {"push", "network", "pushResult"} => Push
  /\ \A e \in pub.ok : remote[e] # Nothing
  /\ pc = "pushResult" /\ res = "ok" => remote[pub.cur] # Nothing
  /\ pc = "complete" /\ completion = "" /\ Push => pub.ok = Entries

\* The journal never expects a worktree at somebody else's commit, and a
\* worktree that is left in a rebase is not at one.
ForeignHolders ==
  \A e \in Entries : /\ jhold[e].exp[2] # UserWork
                     /\ wt[e] = "rebasing" => head[e] # UserWork

\* If people wait for a command to end, what it checked before it rewrites or
\* restores still holds when it does.
Undisturbed ==
  ~Concurrent =>
    /\ pc = "rebase" => ref[act.entry] # UserWork
    /\ pc \in RefsLabels \cup LateLabels =>
         /\ \A r \in Refs : ref[r] # UserWork
         /\ \A e \in Entries : Pos(e)[2] # UserWork

\* Why UserWorkKept holds.
HolderInv == ForeignHolders /\ Undisturbed

\* What every command may rely on when it takes up a journal: where the run
\* stands follows from it, it accounts for all that the run did, and it
\* mistakes nobody else's work for the run's.
SafetyInv ==
  /\ CoreInv /\ ForeignTips /\ ProgressInv /\ EffectInv /\ Delivered
  /\ RecordsAgree /\ RemotesAgree /\ HolderInv
=============================================================================
