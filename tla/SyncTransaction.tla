-------------------------- MODULE SyncTransaction --------------------------
(* The recovery journal of one external `tws sync` run: birth, pinning, the *)
(* forward loop (rebase, validate, record stack.yaml), publication, and the *)
(* three verbs that may finish it (the run itself, --continue and --abort). *)
(*                                                                          *)
(* A tws process is a sequence of steps between durable writes; it may be   *)
(* killed before any of them (Crash), and people keep working in the        *)
(* repositories (the User* actions).  Exactly one tws process acts at a     *)
(* time: that is the business of the run guard, modelled in SyncGuard.      *)
(* Every save() writes the whole journal atomically, so the in-memory copy  *)
(* and the file agree at each step boundary; a save that fails ends the     *)
(* command, which is the same as a crash before it.                         *)
EXTENDS Integers, FiniteSets

CONSTANTS
  N,            \* selected stack entries, numbered in execution order
  Collateral,   \* further local branches of the same repositories
  Repos,        \* repositories (Git common dirs)
  RepoOf,       \* the repository of each branch
  Allowed,      \* entry -> branches its rebase may move (--update-refs)
  EarlyCutoffs, \* cutoffs are frozen at birth (--no-fetch or guarded runs)
  Validate,     \* a validation command is configured
  Push,         \* the run was started with --push
  Concurrent,   \* people also act while a tws process is running
  MaxUser,      \* bound on the number of user interferences
  MaxCrash      \* bound on the number of killed processes

Entries == 1..N
Refs == Entries \cup Collateral

ASSUME ConstantsAssumption ==
  /\ N \in Nat \ {0}
  /\ Collateral \subseteq Nat \ Entries
  /\ Repos \subseteq Nat
  /\ RepoOf \in [Refs -> Repos]
  /\ Allowed \in [Entries -> SUBSET Refs]
  /\ \A e \in Entries : /\ e \in Allowed[e]
                        /\ \A r \in Allowed[e] : RepoOf[r] = RepoOf[e]
  /\ {EarlyCutoffs, Validate, Push, Concurrent} \subseteq BOOLEAN
  /\ MaxUser \in Nat /\ MaxCrash \in Nat

(* A commit is 0 (the preimage every branch has at birth), k > 0 (the k-th  *)
(* rewrite of that branch by this run), or UserWork: a tip that contains a  *)
(* commit made by somebody else, before or after being replayed.  The same  *)
(* numbering is used for stack.yaml: k > 0 records entries 1..k.            *)
UserWork == -1
Nothing == -2
Commits == Nat \cup {UserWork}
Replayed(c) == IF c = UserWork THEN UserWork ELSE c + 1

RefsIn(p) == {r \in Refs : RepoOf[r] = p}

VARIABLES
  \* Git and the file system
  ref,      \* branch -> commit
  reflog,   \* branch -> what its reflog shows since the last action's anchor
  started,  \* HEAD reflog holds the last action's (start) marker, not aborted
  wt,       \* entry -> its worktree: on its "branch", "detached", "rebasing"
  head,     \* entry -> commit of a detached worktree
  dirty,    \* entries whose worktree has tracked modifications
  pin,      \* branches whose preimage pin ref exists
  meta,     \* content of stack.yaml
  remote,   \* entry -> commit on the remote branch
  \* the journal, as last saved
  payload,  \* "none", "live" (the file exists) or "gone" (removed)
  phase, cutoffs, ready, completion,
  jref,     \* branch -> [exp, pinned, del]
  jhold,    \* entry -> [exp, pend, det, rest]
  jmeta,    \* [exp, intent, pend, rest]
  act,      \* last action: [entry, st]
  val,      \* status of the last validation
  done,     \* number of completed entries
  pub,      \* publication: [durable, cur, src, ok]
  rb,       \* rollback: [on, refs, pins]
  \* the running command
  verb, pc, sel, res,
  \* bounds
  crashes, moves

git == <<ref, reflog, started, wt, head, dirty, pin, meta, remote>>
journal == <<payload, phase, cutoffs, ready, completion, jref, jhold, jmeta,
             act, val, done, pub, rb>>
bounds == <<crashes, moves>>
vars == <<git, journal, verb, pc, sel, res, bounds>>

Phases == {"preparing", "forward", "failed", "published", "rolling-back",
           "cleanup"}
Labels == {"idle", "pin", "pinSave", "freeze", "snapshot", "recover", "next",
           "rebase", "observe", "valBegin", "valRun", "valEnd", "meta",
           "metaWrite", "metaCheck", "progress", "push", "network",
           "pushResult", "complete", "delPins", "delPin", "delSave",
           "recMeta", "recVal", "recAct", "resume", "rbPre", "rbAct",
           "rbPre2", "rbDetach", "rbSwitch", "rbDetSave", "rbRefs", "rbCas",
           "rbCasSave", "rbMeta", "rbMetaWrite", "rbMetaSave", "rbHold",
           "rbHoldSwitch", "rbHoldSave", "rbDone"}
Position == {"branch", "detached"} \X Commits

Init ==
  /\ ref = [r \in Refs |-> 0] /\ reflog = [r \in Refs |-> "anchor"]
  /\ started = FALSE
  /\ wt = [e \in Entries |-> "branch"] /\ head = [e \in Entries |-> 0]
  /\ dirty = {} /\ pin = {} /\ meta = 0
  /\ remote = [e \in Entries |-> Nothing]
  /\ payload = "none" /\ phase = "preparing"
  /\ cutoffs = FALSE /\ ready = FALSE /\ completion = ""
  /\ jref = [r \in Refs |-> [exp |-> 0, pinned |-> FALSE, del |-> FALSE]]
  /\ jhold = [e \in Entries |-> [exp |-> <<"branch", 0>>, pend |-> FALSE,
                                 det |-> FALSE, rest |-> FALSE]]
  /\ jmeta = [exp |-> 0, intent |-> Nothing, pend |-> FALSE, rest |-> FALSE]
  /\ act = [entry |-> 0, st |-> "none"] /\ val = "none" /\ done = 0
  /\ pub = [durable |-> FALSE, cur |-> 0,
            src |-> [e \in Entries |-> Nothing], ok |-> {}]
  /\ rb = [on |-> FALSE, refs |-> {}, pins |-> {}]
  /\ verb = "none" /\ pc = "idle" /\ sel = 0 /\ res = "ok"
  /\ crashes = 0 /\ moves = 0
-----------------------------------------------------------------------------
(* What the code reads of the repositories before it acts.                  *)

\* HEAD of a worktree as `git worktree list` shows it; a rebasing worktree
\* is listed as detached.
Pos(e) == IF wt[e] = "branch" THEN <<"branch", ref[e]>>
                              ELSE <<"detached", head[e]>>

RefImage(p) == \A r \in RefsIn(p) : ref[r] = jref[r].exp
HolderImage(p) == \A e \in Entries \cap RefsIn(p) : Pos(e) = jhold[e].exp
MetaImage == meta = jmeta.exp
Images(p) == MetaImage /\ RefImage(p) /\ HolderImage(p)

CleanupOnly == phase = "cleanup" /\ completion # ""
RollingBack == phase = "rolling-back" \/ rb.on
Pending == act.st = "intent"
ActiveRebase == Pending /\ wt[act.entry] = "rebasing"

\* Cutoff evidence may still be rebuilt: nothing has been mutated yet.
CutoffsRecoverable ==
  /\ ~cutoffs /\ act.st = "none" /\ val = "none"
  /\ jmeta.exp = 0 /\ ~jmeta.pend /\ jmeta.intent = Nothing
  /\ ~pub.durable /\ ~rb.on /\ phase \in {"preparing", "forward"}

\* Mutant: the reflog is not consulted.
AttributableByTip ==
  LET e == act.entry IN
  /\ \A r \in RefsIn(RepoOf[e]) : ref[r] # jref[r].exp => r \in Allowed[e]
  /\ \A h \in Entries \cap RefsIn(RepoOf[e]) : Pos(h) # jhold[h].exp => h = e

\* Every local difference since the pending action's intent is the work of
\* that action's rebase, by reflog evidence, and nothing else changed.
Attributable ==
  LET e == act.entry IN
  /\ \A r \in RefsIn(RepoOf[e]) :
       ref[r] # jref[r].exp =>
         r \in Allowed[e] /\ reflog[r] = "run" /\ started
  /\ \A h \in Entries \cap RefsIn(RepoOf[e]) :
       Pos(h) # jhold[h].exp => h = e /\ wt[e] = "branch" /\ started

\* Mutant: where the worktrees stand is not looked at.
PreflightRefsOnly ==
  /\ val # "mutated" /\ meta \in {0, jmeta.exp, jmeta.intent}
  /\ \A r \in Refs : ref[r] \in {0, jref[r].exp}

\* syncTransactionPreflight: rollback may proceed from here.
Preflight ==
  /\ val # "mutated"
  /\ jmeta.rest => meta = 0
  /\ meta \in {0, jmeta.exp, jmeta.intent}
  /\ \A r \in Refs :
       /\ jref[r].pinned /\ RepoOf[r] \notin rb.pins =>
            r \in pin \/ jref[r].del
       /\ ref[r] \in {0, jref[r].exp}
  /\ \A e \in Entries :
       LET owned == ActiveRebase /\ e = act.entry IN
       /\ wt[e] = "rebasing" => owned /\ started
       /\ wt[e] # "rebasing" => e \notin dirty
       /\ \/ owned
          \/ Pos(e) \in {jhold[e].exp, <<"branch", 0>>}
          \/ /\ jhold[e].pend /\ wt[e] = "detached"
             /\ head[e] = jhold[e].exp[2]
-----------------------------------------------------------------------------
(* Control of the running command.                                          *)

At(label) == verb # "none" /\ pc = label
Goto(label) == pc' = label /\ UNCHANGED verb
Exit == pc' = "idle" /\ verb' = "none"
Start(v, label) == verb = "none" /\ verb' = v /\ pc' = label

\* The command stops on a refusal or an error and leaves everything as it is.
Refuse == Exit /\ sel' = 0 /\ res' = "ok" /\ UNCHANGED <<git, journal, bounds>>
\* The command goes on after a check that changed nothing.
Pass(label) == Goto(label) /\ UNCHANGED <<git, journal, sel, res, bounds>>
Check(label, ok, next) == At(label) /\ IF ok THEN Pass(next) ELSE Refuse

(* ------------------------------ birth ---------------------------------- *)

\* Capture, preflight and the first durable journal; guard and sentinel are
\* in SyncGuard.
Birth ==
  /\ payload = "none" /\ Start("sync", "pin")
  /\ dirty = {} /\ \A e \in Entries : wt[e] # "rebasing"
  /\ payload' = "live" /\ cutoffs' = EarlyCutoffs
  /\ UNCHANGED <<git, phase, ready, completion, jref, jhold, jmeta, act, val,
                 done, pub, rb, sel, res, bounds>>

PinCreate ==
  /\ At("pin") /\ Goto("pinSave")
  /\ \E r \in Refs : /\ ~jref[r].pinned \/ r \notin pin
                     /\ pin' = pin \cup {r} /\ sel' = r
  /\ UNCHANGED <<ref, reflog, started, wt, head, dirty, meta, remote, journal,
                 res, bounds>>

PinSave ==
  /\ At("pinSave") /\ Goto("pin") /\ sel' = 0
  /\ jref' = [jref EXCEPT ![sel].pinned = TRUE]
  /\ UNCHANGED <<git, payload, phase, cutoffs, ready, completion, jhold, jmeta,
                 act, val, done, pub, rb, res, bounds>>

\* Mutant: one pin per run.
PinsDoneAfterFirst ==
  /\ At("pin") /\ \E r \in Refs : jref[r].pinned
  /\ Pass(IF cutoffs THEN "snapshot" ELSE "freeze")

PinsDone ==
  /\ At("pin") /\ \A r \in Refs : jref[r].pinned /\ r \in pin
  /\ Pass(IF cutoffs THEN "snapshot" ELSE "freeze")

FreezeCutoffs ==
  /\ At("freeze") /\ Goto("pin") /\ cutoffs' = TRUE
  /\ UNCHANGED <<git, payload, phase, ready, completion, jref, jhold, jmeta,
                 act, val, done, pub, rb, sel, res, bounds>>

\* A cutoff that cannot be proved cancels a fresh run; a continuation stops.
FreezeRefused ==
  /\ At("freeze")
  /\ \/ /\ verb = "sync" /\ ~RollingBack /\ Goto("delPins")
        /\ act.st = "none" /\ jmeta.exp = 0 /\ ~pub.durable
        /\ phase' = "cleanup" /\ completion' = "cancelled-before-mutation"
        /\ UNCHANGED <<git, payload, cutoffs, ready, jref, jhold, jmeta, act,
                       val, done, pub, rb, sel, res, bounds>>
     \/ verb = "continue" /\ Refuse

SnapshotReady ==
  /\ At("snapshot") /\ Goto(IF verb = "sync" THEN "next" ELSE "recMeta")
  /\ ready' = TRUE /\ phase' = IF ready THEN phase ELSE "forward"
  /\ UNCHANGED <<git, payload, cutoffs, completion, jref, jhold, jmeta, act,
                 val, done, pub, rb, sel, res, bounds>>

(* --------------------------- forward loop ------------------------------ *)

BeginAction ==
  /\ At("next") /\ done < N
  /\ LET e == done + 1 IN
       IF ready /\ ~Pending /\ Images(RepoOf[e])
       THEN /\ Goto("rebase") /\ act' = [entry |-> e, st |-> "intent"]
            /\ reflog' = [r \in Refs |->
                            IF r \in Allowed[e] THEN "anchor" ELSE reflog[r]]
            /\ started' = FALSE
            /\ UNCHANGED <<ref, wt, head, dirty, pin, meta, remote, payload,
                           phase, cutoffs, ready, completion, jref, jhold,
                           jmeta, val, done, pub, rb, sel, res, bounds>>
       ELSE Refuse

\* Branches checked out in another worktree are skipped by --update-refs.
Movable(e) == Allowed[e] \ (Entries \ {e})

\* The rebase of entry e completes: its tip and the collateral tips move.
MoveTips(e) ==
  /\ ref' = [r \in Refs |->
               IF r \in Movable(e) THEN Replayed(ref[r]) ELSE ref[r]]
  /\ reflog' = [r \in Refs |->
                  CASE r \notin Movable(e)    -> reflog[r]
                    [] reflog[r] = "anchor"   -> "run"
                    [] OTHER                  -> "other"]

\* git rebase: replays, finds nothing to do, fails, or stops on a conflict.
Rebase ==
  /\ At("rebase") /\ Goto("observe")
  /\ LET e == act.entry IN
     \/ /\ wt[e] = "branch" /\ e \notin dirty
        /\ MoveTips(e) /\ started' = TRUE /\ res' = "ok"
        /\ UNCHANGED <<wt, head>>
     \/ /\ wt[e] = "branch" /\ e \notin dirty
        /\ wt' = [wt EXCEPT ![e] = "rebasing"]
        /\ head' = [head EXCEPT ![e] = 0]
        /\ started' = TRUE /\ res' = "err" /\ UNCHANGED <<ref, reflog>>
     \/ res' \in {"ok", "err"}
        /\ UNCHANGED <<ref, reflog, started, wt, head>>
  /\ UNCHANGED <<dirty, pin, meta, remote, journal, sel, bounds>>

\* Mutant: only the selected branch is adopted.
AdoptSelected(status) ==
  /\ jref' = [jref EXCEPT ![act.entry].exp = ref[act.entry]]
  /\ jhold' = [jhold EXCEPT ![act.entry].exp = Pos(act.entry)]
  /\ act' = [act EXCEPT !.st = status]
  /\ phase' = IF status = "failed" THEN "failed" ELSE phase
  /\ UNCHANGED <<payload, cutoffs, ready, completion, jmeta, val, done, pub,
                 rb>>

\* completeSyncAction's update: adopt what is live in the action's repository.
Adopt(status) ==
  LET p == RepoOf[act.entry] IN
  /\ jref' = [r \in Refs |-> IF RepoOf[r] = p
                             THEN [jref[r] EXCEPT !.exp = ref[r]] ELSE jref[r]]
  /\ jhold' = [e \in Entries |-> IF RepoOf[e] = p
                                 THEN [jhold[e] EXCEPT !.exp = Pos(e)]
                                 ELSE jhold[e]]
  /\ act' = [act EXCEPT !.st = status]
  /\ phase' = IF status = "failed" THEN "failed" ELSE phase
  /\ UNCHANGED <<payload, cutoffs, ready, completion, jmeta, val, done, pub,
                 rb>>

Observe ==
  /\ At("observe") /\ res' = "ok"
  /\ IF ~ActiveRebase /\ Attributable
     THEN /\ Adopt(IF res = "ok" THEN "observed" ELSE "failed")
          /\ IF res = "err" THEN Exit
             ELSE Goto(IF Validate THEN "valBegin" ELSE "meta")
          /\ UNCHANGED <<git, sel, bounds>>
     ELSE Refuse

SetVal(status) ==
  /\ val' = status
  /\ phase' = IF status \in {"failed", "mutated"} THEN "failed" ELSE phase
  /\ UNCHANGED <<payload, cutoffs, ready, completion, jref, jhold, jmeta, act,
                 done, pub, rb>>

BeginValidation ==
  /\ At("valBegin")
  /\ IF ready /\ val \notin {"intent", "mutated"} /\ Images(RepoOf[act.entry])
     THEN Goto("valRun") /\ SetVal("intent")
          /\ UNCHANGED <<git, sel, res, bounds>>
     ELSE Refuse

\* The configured command succeeds, fails, or commits on the branch.
Validator ==
  /\ At("valRun") /\ Goto("valEnd") /\ res' \in {"ok", "err"}
  /\ \/ UNCHANGED <<ref, reflog>>
     \/ /\ wt[act.entry] = "branch"
        /\ ref' = [ref EXCEPT ![act.entry] = UserWork]
        /\ reflog' = [reflog EXCEPT ![act.entry] = "other"]
  /\ UNCHANGED <<started, wt, head, dirty, pin, meta, remote, journal, sel,
                 bounds>>

\* Refs and holders equalled the journal when the validation began.
ValidatorMutated ==
  ~(RefImage(RepoOf[act.entry]) /\ HolderImage(RepoOf[act.entry]))

EndValidation ==
  /\ At("valEnd") /\ res' = "ok"
  /\ LET status == CASE ValidatorMutated -> "mutated"
                     [] res = "err"      -> "failed"
                     [] OTHER            -> "observed"
     IN SetVal(status) /\ IF status = "observed" THEN Goto("meta") ELSE Exit
  /\ UNCHANGED <<git, sel, bounds>>

SetMeta(m) ==
  /\ jmeta' = m
  /\ UNCHANGED <<payload, phase, cutoffs, ready, completion, jref, jhold, act,
                 val, done, pub, rb>>

\* reconcileMetadataIntent: a write whose result was never recorded landed.
MetaLanded == jmeta.pend /\ meta = jmeta.intent /\ ~MetaImage
AdoptMeta == SetMeta([jmeta EXCEPT !.exp = meta, !.pend = FALSE])

\* Mutant: the write does not wait for its intent to be saved.
MetaIntentUnsaved ==
  At("meta") /\ Pass(IF meta = act.entry THEN "progress" ELSE "metaWrite")

\* SyncWriteStack: stack.yaml is to record the entries up to act.entry.
MetaIntent ==
  /\ At("meta")
  /\ \/ /\ MetaLanded /\ AdoptMeta
        /\ Goto("meta") /\ UNCHANGED <<git, sel, res, bounds>>
     \/ ~MetaLanded /\ ~MetaImage /\ Refuse
     \/ MetaImage /\ meta = act.entry /\ Pass("progress")
     \/ /\ MetaImage /\ meta # act.entry
        /\ SetMeta([jmeta EXCEPT !.intent = act.entry, !.pend = TRUE])
        /\ Goto("metaWrite") /\ UNCHANGED <<git, sel, res, bounds>>

\* WriteStackBytesAtomic replaces whatever the file holds by now.
MetaWrite ==
  /\ At("metaWrite") /\ Goto("metaCheck") /\ meta' = jmeta.intent
  /\ UNCHANGED <<ref, reflog, started, wt, head, dirty, pin, remote, journal,
                 sel, res, bounds>>

MetaCheck ==
  /\ At("metaCheck")
  /\ IF meta = jmeta.intent
     THEN /\ AdoptMeta
          /\ Goto("progress") /\ UNCHANGED <<git, sel, res, bounds>>
     ELSE Refuse

Progress ==
  /\ At("progress") /\ Goto("next") /\ done' = act.entry
  /\ UNCHANGED <<git, payload, phase, cutoffs, ready, completion, jref, jhold,
                 jmeta, act, val, pub, rb, sel, res, bounds>>

\* Mutant: off by one.
ForwardDoneEarly ==
  At("next") /\ done + 1 >= N /\ Pass(IF Push THEN "push" ELSE "complete")

ForwardDone ==
  At("next") /\ done = N /\ Pass(IF Push THEN "push" ELSE "complete")

(* --------------------------- publication ------------------------------- *)

SetPub(p) ==
  /\ pub' = p /\ phase' = "published"
  /\ UNCHANGED <<payload, cutoffs, ready, completion, jref, jhold, jmeta, act,
                 val, done, rb>>

Publishing(e) ==
  [pub EXCEPT !.durable = TRUE, !.cur = e,
              !.src[e] = IF @ = Nothing THEN jref[e].exp ELSE @]

\* SyncPreparePublication and SyncBeginPublication for the next entry.
BeginPublication ==
  /\ At("push")
  /\ \E e \in Entries \ pub.ok :
       /\ \A d \in Entries \ pub.ok : e <= d
       /\ IF Images(RepoOf[e])
          THEN /\ Goto("network") /\ SetPub(Publishing(e))
               /\ UNCHANGED <<git, sel, res, bounds>>
          ELSE Refuse

\* The remote may have accepted a push whose answer is lost.
Network ==
  /\ At("network") /\ Goto("pushResult")
  /\ \/ /\ remote' = [remote EXCEPT ![pub.cur] = pub.src[pub.cur]]
        /\ res' \in {"ok", "err"}
     \/ UNCHANGED remote /\ res' = "err"
  /\ UNCHANGED <<ref, reflog, started, wt, head, dirty, pin, meta, journal,
                 sel, bounds>>

PushResult ==
  /\ At("pushResult") /\ res' = "ok"
  /\ SetPub([pub EXCEPT !.cur = 0,
                        !.ok = IF res = "ok" THEN @ \cup {pub.cur} ELSE @])
  /\ IF res = "ok" THEN Goto("push") ELSE Exit
  /\ UNCHANGED <<git, sel, bounds>>

\* Mutant: a push that was attempted counts as done.
PushDoneAttempted ==
  /\ At("push") /\ \A e \in Entries : pub.src[e] # Nothing
  /\ Pass("complete")

PushDone == At("push") /\ pub.ok = Entries /\ Pass("complete")

(* ----------------------------- cleanup --------------------------------- *)

\* The durable decision that the run is over; nothing is rewound after it.
Complete ==
  /\ At("complete")
  /\ IF RollingBack THEN Refuse
     ELSE /\ Goto("delPins") /\ phase' = "cleanup"
          /\ completion' = IF completion = "" THEN "forward-complete"
                                              ELSE completion
          /\ UNCHANGED <<git, payload, cutoffs, ready, jref, jhold, jmeta, act,
                         val, done, pub, rb, sel, res, bounds>>

Unfinished == {r \in Refs : RepoOf[r] \notin rb.pins}

SetPin(r, pinned, del) ==
  /\ jref' = [jref EXCEPT ![r].pinned = pinned, ![r].del = del]
  /\ UNCHANGED <<payload, phase, cutoffs, ready, completion, jhold, jmeta, act,
                 val, done, pub, rb>>

DeleteIntent ==
  /\ At("delPins")
  /\ \E r \in Unfinished :
       \/ /\ r \in pin /\ SetPin(r, jref[r].pinned, TRUE)
          /\ sel' = r /\ Goto("delPin")
       \/ /\ r \notin pin /\ jref[r].del
          /\ SetPin(r, FALSE, FALSE) /\ Goto("delPins") /\ UNCHANGED sel
  /\ UNCHANGED <<git, res, bounds>>

DeletePin ==
  /\ At("delPin") /\ Goto("delSave") /\ pin' = pin \ {sel}
  /\ UNCHANGED <<ref, reflog, started, wt, head, dirty, meta, remote, journal,
                 sel, res, bounds>>

DeleteSave ==
  /\ At("delSave") /\ Goto("delPins") /\ SetPin(sel, FALSE, FALSE)
  /\ sel' = 0 /\ UNCHANGED <<git, res, bounds>>

RepoPinsGone ==
  /\ At("delPins") /\ Goto("delPins")
  /\ \E p \in Repos \ rb.pins :
       /\ \A r \in RefsIn(p) :
            r \notin pin /\ ~jref[r].pinned /\ ~jref[r].del
       /\ rb' = [rb EXCEPT !.pins = @ \cup {p}]
  /\ UNCHANGED <<git, payload, phase, cutoffs, ready, completion, jref, jhold,
                 jmeta, act, val, done, pub, sel, res, bounds>>

\* clearSyncRunState removes the journal once every pin is gone.
Clear ==
  /\ At("delPins") /\ Repos \subseteq rb.pins /\ Exit /\ payload' = "gone"
  /\ UNCHANGED <<git, phase, cutoffs, ready, completion, jref, jhold, jmeta,
                 act, val, done, pub, rb, sel, res, bounds>>

(* ------------------------- --continue, --abort -------------------------- *)

ContinueCommand ==
  /\ payload = "live"
  /\ CleanupOnly \/ ~(RollingBack \/ ActiveRebase)
  /\ CleanupOnly \/ done = N \/ cutoffs \/ CutoffsRecoverable
  /\ Start("continue", CASE CleanupOnly                      -> "complete"
                         [] ~CleanupOnly /\ done < N /\ CutoffsRecoverable
                                                             -> "recover"
                         [] OTHER                            -> "recMeta")
  /\ UNCHANGED <<git, journal, sel, res, bounds>>

RecoverPreflight ==
  Check("recover",
        /\ \A p \in Repos : Images(p)
        /\ dirty = {} /\ \A e \in Entries : wt[e] # "rebasing",
        "freeze")

\* Mutant: publication does not forbid rollback.
AbortAfterPublication ==
  /\ payload = "live"
  /\ Start("abort", IF CleanupOnly THEN "delPins" ELSE "recMeta")
  /\ UNCHANGED <<git, journal, sel, res, bounds>>

AbortCommand ==
  /\ payload = "live"
  /\ CleanupOnly \/ ~pub.durable
  /\ Start("abort", CASE CleanupOnly                 -> "delPins"
                      [] ~CleanupOnly /\ RollingBack -> "rbPre"
                      [] OTHER                       -> "recMeta")
  /\ UNCHANGED <<git, journal, sel, res, bounds>>

ReconcileMeta ==
  /\ At("recMeta")
  /\ IF MetaLanded
     THEN /\ AdoptMeta
          /\ Goto("recVal") /\ UNCHANGED <<git, sel, res, bounds>>
     ELSE IF MetaImage THEN Pass("recVal") ELSE Refuse

\* A validation whose result was never recorded counts as failed.
ReconcileValidation ==
  /\ At("recVal")
  /\ CASE val = "mutated" -> Refuse
       [] val = "intent"  ->
            LET status == IF ValidatorMutated THEN "mutated" ELSE "failed" IN
            /\ SetVal(status)
            /\ IF status = "mutated" THEN Exit ELSE Goto("recAct")
            /\ UNCHANGED <<git, sel, res, bounds>>
       [] OTHER -> Pass("recAct")

AfterReconcile == IF verb = "abort" THEN "rbPre" ELSE "resume"

ReconcileAction ==
  /\ At("recAct")
  /\ IF ActiveRebase \/ ~Pending THEN Pass(AfterReconcile)
     ELSE IF Attributable
     THEN /\ Adopt(IF RefImage(RepoOf[act.entry]) /\ ~started
                   THEN "failed" ELSE "observed")
          /\ Goto(AfterReconcile) /\ UNCHANGED <<git, sel, res, bounds>>
     ELSE Refuse

\* A rebase that was observed but not recorded is validated and recorded.
Resume ==
  /\ At("resume")
  /\ Pass(IF act.st = "observed" /\ act.entry > done
          THEN IF Validate THEN "valBegin" ELSE "meta"
          ELSE "next")

SetRollback(r) ==
  /\ rb' = r
  /\ UNCHANGED <<payload, cutoffs, ready, completion, jmeta, act, val, done,
                 pub>>

\* Mutant: a rollback can be begun, but not begun again.
RollbackPreflightOnce ==
  /\ At("rbPre")
  /\ IF ~Preflight \/ RollingBack THEN Refuse
     ELSE /\ SetRollback([rb EXCEPT !.on = TRUE]) /\ phase' = "rolling-back"
          /\ Goto("rbAct")
          /\ UNCHANGED <<git, jref, jhold, sel, res, bounds>>

RollbackPreflight ==
  /\ At("rbPre")
  /\ IF ~Preflight THEN Refuse
     ELSE IF phase = "cleanup" /\ RollingBack THEN Pass("delPins")
     ELSE /\ SetRollback([rb EXCEPT !.on = TRUE]) /\ phase' = "rolling-back"
          /\ Goto("rbAct")
          /\ UNCHANGED <<git, jref, jhold, sel, res, bounds>>

\* git rebase --abort, if the pending action is in a rebase; then the action
\* is closed with the evidence that is left.
RollbackAction ==
  /\ At("rbAct")
  /\ \/ /\ ActiveRebase /\ Goto("rbAct") /\ started' = FALSE
        /\ wt' = [wt EXCEPT ![act.entry] = "branch"]
        /\ head' = [head EXCEPT ![act.entry] = 0]
        /\ UNCHANGED <<ref, reflog, dirty, pin, meta, remote, journal, sel,
                       res, bounds>>
     \/ /\ ~ActiveRebase /\ Pending
        /\ IF Attributable
           THEN /\ Adopt("observed") /\ Goto("rbPre2")
                /\ UNCHANGED <<git, sel, res, bounds>>
           ELSE Refuse
     \/ ~Pending /\ Pass("rbPre2")

RollbackPreflight2 == Check("rbPre2", Preflight, "rbDetach")

SetHold(e, h) ==
  /\ jhold' = [jhold EXCEPT ![e] = h]
  /\ UNCHANGED <<payload, phase, cutoffs, ready, completion, jref, jmeta, act,
                 val, done, pub, rb>>

\* Worktrees that still hold a branch the run moved are detached first.
Affected ==
  {e \in Entries : /\ ~jhold[e].det /\ jhold[e].exp[1] = "branch"
                   /\ jref[e].exp # 0}

DetachIntent ==
  /\ At("rbDetach")
  /\ IF Affected = {} THEN Pass("rbRefs")
     ELSE \E e \in Affected :
            /\ SetHold(e, [jhold[e] EXCEPT !.pend = TRUE])
            /\ sel' = e /\ Goto("rbSwitch") /\ UNCHANGED <<git, res, bounds>>

DetachSwitch ==
  /\ At("rbSwitch")
  /\ LET at == jhold[sel].exp[2] IN
     IF Pos(sel) \in {jhold[sel].exp, <<"detached", at>>}
     THEN /\ wt' = [wt EXCEPT ![sel] = "detached"]
          /\ head' = [head EXCEPT ![sel] = at] /\ Goto("rbDetSave")
          /\ UNCHANGED <<ref, reflog, started, dirty, pin, meta, remote,
                         journal, sel, res, bounds>>
     ELSE Refuse

DetachSave ==
  /\ At("rbDetSave") /\ Goto("rbDetach") /\ sel' = 0
  /\ SetHold(sel, [jhold[sel] EXCEPT !.exp = <<"detached", @[2]>>,
                                     !.det = TRUE, !.pend = FALSE])
  /\ UNCHANGED <<git, res, bounds>>

RestorableRefs(p) == \A r \in RefsIn(p) : ref[r] \in {0, jref[r].exp}

\* One atomic reference transaction per repository.
RefsIntent ==
  /\ At("rbRefs")
  /\ IF Repos \subseteq rb.refs THEN Pass("rbMeta")
     ELSE \E p \in Repos \ rb.refs :
            IF RestorableRefs(p)
            THEN /\ Goto("rbCas") /\ sel' = p
                 /\ UNCHANGED <<git, journal, res, bounds>>
            ELSE Refuse

\* Mutant: a plain update of the references, without their old values.
RefsRestoreBlindly ==
  /\ At("rbCas") /\ Goto("rbCasSave")
  /\ ref' = [r \in Refs |-> IF RepoOf[r] = sel THEN 0 ELSE ref[r]]
  /\ UNCHANGED <<reflog, started, wt, head, dirty, pin, meta, remote, journal,
                 sel, res, bounds>>

RefsRestore ==
  /\ At("rbCas")
  /\ IF RestorableRefs(sel)
     THEN /\ Goto("rbCasSave")
          /\ ref' = [r \in Refs |-> IF RepoOf[r] = sel THEN 0 ELSE ref[r]]
          /\ UNCHANGED <<reflog, started, wt, head, dirty, pin, meta, remote,
                         journal, sel, res, bounds>>
     ELSE Refuse

\* Mutant: the restored tips are not recorded as expected.
RefsSaveStale ==
  /\ At("rbCasSave") /\ Goto("rbRefs") /\ sel' = 0
  /\ SetRollback([rb EXCEPT !.refs = @ \cup {sel}])
  /\ UNCHANGED <<git, phase, jref, jhold, res, bounds>>

RefsSave ==
  /\ At("rbCasSave") /\ Goto("rbRefs") /\ sel' = 0
  /\ jref' = [r \in Refs |-> IF RepoOf[r] = sel
                             THEN [jref[r] EXCEPT !.exp = 0] ELSE jref[r]]
  /\ SetRollback([rb EXCEPT !.refs = @ \cup {sel}])
  /\ UNCHANGED <<git, phase, jhold, res, bounds>>

MetaRestored == SetMeta([jmeta EXCEPT !.exp = 0, !.pend = FALSE, !.rest = TRUE])

\* Mutant: a stack.yaml that is as expected is taken for restored.
RestoreMetaIfForeign ==
  /\ At("rbMeta")
  /\ IF MetaImage THEN /\ MetaRestored /\ Goto("rbHold")
                       /\ UNCHANGED <<git, sel, res, bounds>>
     ELSE Refuse

RestoreMeta ==
  /\ At("rbMeta")
  /\ \/ /\ (jmeta.rest \/ meta = 0) /\ MetaRestored
        /\ Goto("rbHold") /\ UNCHANGED <<git, sel, res, bounds>>
     \/ /\ ~jmeta.rest /\ meta # 0
        /\ IF meta \in {jmeta.exp, jmeta.intent} THEN Pass("rbMetaWrite")
                                                ELSE Refuse

\* A plain durable overwrite: between the check above and this write the
\* file may have been edited.
RestoreMetaWrite ==
  /\ At("rbMetaWrite") /\ Goto("rbMetaSave") /\ meta' = 0
  /\ UNCHANGED <<ref, reflog, started, wt, head, dirty, pin, remote, journal,
                 sel, res, bounds>>

RestoreMetaSave ==
  /\ At("rbMetaSave") /\ Goto("rbHold") /\ MetaRestored
  /\ UNCHANGED <<git, sel, res, bounds>>

Home == <<"branch", 0>>

RestoreHolder ==
  /\ At("rbHold")
  /\ IF \A e \in Entries : jhold[e].rest THEN Pass("rbDone")
     ELSE \E e \in Entries :
       /\ ~jhold[e].rest
       /\ CASE Pos(e) = Home ->
                 /\ SetHold(e, [jhold[e] EXCEPT !.exp = Home, !.rest = TRUE])
                 /\ Goto("rbHold") /\ UNCHANGED <<git, sel, res, bounds>>
            [] Pos(e) # Home /\ wt[e] # "rebasing" /\ e \notin dirty ->
                 /\ Goto("rbHoldSwitch") /\ sel' = e
                 /\ UNCHANGED <<git, journal, res, bounds>>
            [] OTHER -> Refuse

\* `git switch` to the original branch, wherever the worktree is by now.
RestoreHolderSwitch ==
  /\ At("rbHoldSwitch") /\ Goto("rbHoldSave")
  /\ wt' = [wt EXCEPT ![sel] = "branch"] /\ head' = [head EXCEPT ![sel] = 0]
  /\ UNCHANGED <<ref, reflog, started, dirty, pin, meta, remote, journal, sel,
                 res, bounds>>

RestoreHolderSave ==
  /\ At("rbHoldSave") /\ Goto("rbHold") /\ sel' = 0
  /\ SetHold(sel, [jhold[sel] EXCEPT !.exp = Home, !.rest = TRUE])
  /\ UNCHANGED <<git, res, bounds>>

RolledBack ==
  /\ At("rbDone") /\ Goto("delPins") /\ phase' = "cleanup"
  /\ UNCHANGED <<git, payload, cutoffs, ready, completion, jref, jhold, jmeta,
                 act, val, done, pub, rb, sel, res, bounds>>
-----------------------------------------------------------------------------
(* The environment.                                                         *)

Crash ==
  /\ verb # "none" /\ crashes < MaxCrash /\ crashes' = crashes + 1
  /\ Exit /\ sel' = 0 /\ res' = "ok" /\ UNCHANGED <<git, journal, moves>>

Interferes ==
  /\ payload = "live" /\ moves < MaxUser /\ moves' = moves + 1
  /\ Concurrent \/ verb = "none"
  /\ UNCHANGED <<journal, verb, pc, sel, res, crashes>>

\* A commit on the branch, or on the detached HEAD, of some worktree.
UserCommit ==
  /\ Interferes
  /\ \/ \E r \in Refs :
          /\ r \in Entries => wt[r] = "branch"
          /\ ref' = [ref EXCEPT ![r] = UserWork]
          /\ reflog' = [reflog EXCEPT ![r] = "other"] /\ UNCHANGED head
     \/ \E e \in Entries :
          /\ wt[e] = "detached" /\ head' = [head EXCEPT ![e] = UserWork]
          /\ UNCHANGED <<ref, reflog>>
  /\ UNCHANGED <<started, wt, dirty, pin, meta, remote>>

\* stack.yaml or a tracked file is edited, or a worktree is detached in place.
UserEdit ==
  /\ Interferes
  /\ \/ meta' = UserWork /\ UNCHANGED <<dirty, wt, head>>
     \/ \E e \in Entries \ dirty :
          dirty' = dirty \cup {e} /\ UNCHANGED <<meta, wt, head>>
     \/ \E e \in Entries :
          /\ wt[e] = "branch" /\ wt' = [wt EXCEPT ![e] = "detached"]
          /\ head' = [head EXCEPT ![e] = ref[e]] /\ UNCHANGED <<meta, dirty>>
  /\ UNCHANGED <<ref, reflog, started, pin, remote>>

\* The documented way out of a conflict, or giving the rebase up.
UserResolves ==
  /\ verb = "none" /\ payload = "live"
  /\ \E e \in Entries :
       /\ wt[e] = "rebasing"
       /\ wt' = [wt EXCEPT ![e] = "branch"] /\ head' = [head EXCEPT ![e] = 0]
       /\ \/ MoveTips(e) /\ UNCHANGED started
          \/ started' = FALSE /\ UNCHANGED <<ref, reflog>>
  /\ UNCHANGED <<dirty, pin, meta, remote, journal, verb, pc, sel, res, bounds>>

UserCleans ==
  /\ verb = "none" /\ payload = "live" /\ dirty # {} /\ dirty' = {}
  /\ UNCHANGED <<ref, reflog, started, wt, head, pin, meta, remote, journal,
                 verb, pc, sel, res, bounds>>

Over == payload = "gone" /\ verb = "none" /\ UNCHANGED vars
-----------------------------------------------------------------------------
ForwardSteps ==
  \/ PinCreate \/ PinSave \/ PinsDone \/ FreezeCutoffs \/ FreezeRefused
  \/ SnapshotReady \/ BeginAction \/ Rebase \/ Observe \/ BeginValidation
  \/ Validator \/ EndValidation \/ MetaIntent \/ MetaWrite \/ MetaCheck
  \/ Progress \/ ForwardDone \/ BeginPublication \/ Network \/ PushResult
  \/ PushDone \/ Complete

CleanupSteps ==
  DeleteIntent \/ DeletePin \/ DeleteSave \/ RepoPinsGone \/ Clear

RecoverySteps ==
  RecoverPreflight \/ ReconcileMeta \/ ReconcileValidation
  \/ ReconcileAction \/ Resume

RollbackSteps ==
  \/ RollbackPreflight \/ RollbackAction \/ RollbackPreflight2
  \/ DetachIntent \/ DetachSwitch \/ DetachSave
  \/ RefsIntent \/ RefsRestore \/ RefsSave
  \/ RestoreMeta \/ RestoreMetaWrite \/ RestoreMetaSave
  \/ RestoreHolder \/ RestoreHolderSwitch \/ RestoreHolderSave \/ RolledBack

\* One step of the running tws command.
CommandStep == ForwardSteps \/ CleanupSteps \/ RecoverySteps \/ RollbackSteps

UserSteps == UserCommit \/ UserEdit \/ UserResolves \/ UserCleans

Next ==
  \/ Birth \/ ContinueCommand \/ AbortCommand \/ CommandStep
  \/ Crash \/ UserSteps \/ Over

Spec == Init /\ [][Next]_vars

(* Fairness.  A process that runs goes on until it exits or is killed; the  *)
(* person who started the sync comes back to it, again and again, with both *)
(* verbs, and the remote does not refuse forever.  Once --abort has begun,   *)
(* nobody finishes the conflicted rebase by hand: the branch would then     *)
(* hold work that the rollback refuses to touch.                            *)
HandsOff ==
  rb.on /\ verb = "none" => \A r \in Refs : ref'[r] \in {ref[r], UserWork}
HandsOffSpec == Init /\ [][Next /\ HandsOff]_vars
FairSpec ==
  /\ HandsOffSpec
  /\ WF_vars(CommandStep)
  /\ SF_vars(ContinueCommand) /\ SF_vars(AbortCommand)
  /\ SF_vars(Network /\ res' = "ok")
-----------------------------------------------------------------------------
(* Properties.                                                              *)

RefEntry == [exp : Commits, pinned : BOOLEAN, del : BOOLEAN]
HoldEntry == [exp : Position, pend : BOOLEAN, det : BOOLEAN, rest : BOOLEAN]
Contents == Commits \cup {Nothing}
MetaEntry ==
  [exp : Commits, intent : Contents, pend : BOOLEAN, rest : BOOLEAN]
ActionEntry == [entry : 0..N, st : {"none", "intent", "observed", "failed"}]
Publication == [durable : BOOLEAN, cur : 0..N, src : [Entries -> Contents],
                ok : SUBSET Entries]
Rollback == [on : BOOLEAN, refs : SUBSET Repos, pins : SUBSET Repos]

GitTypeOK ==
  /\ ref \in [Refs -> Commits]
  /\ reflog \in [Refs -> {"anchor", "run", "other"}]
  /\ started \in BOOLEAN
  /\ wt \in [Entries -> {"branch", "detached", "rebasing"}]
  /\ head \in [Entries -> Commits]
  /\ dirty \subseteq Entries /\ pin \subseteq Refs /\ meta \in Commits
  /\ remote \in [Entries -> Contents]

JournalTypeOK ==
  /\ payload \in {"none", "live", "gone"} /\ phase \in Phases
  /\ cutoffs \in BOOLEAN /\ ready \in BOOLEAN
  /\ completion \in {"", "forward-complete", "cancelled-before-mutation"}
  /\ jref \in [Refs -> RefEntry] /\ jhold \in [Entries -> HoldEntry]
  /\ jmeta \in MetaEntry /\ act \in ActionEntry
  /\ val \in {"none", "intent", "observed", "failed", "mutated"}
  /\ done \in 0..N /\ pub \in Publication /\ rb \in Rollback

CommandTypeOK ==
  /\ verb \in {"none", "sync", "continue", "abort"} /\ pc \in Labels
  /\ sel \in Refs \cup Repos \cup {0} /\ res \in {"ok", "err"}
  /\ crashes \in 0..MaxCrash /\ moves \in 0..MaxUser

\* Every variable holds a value of the journal's or the repository's domain.
TypeOK ==
  GitTypeOK /\ JournalTypeOK /\ CommandTypeOK

\* While a branch holds a commit made by the run and the run may still be
\* rolled back, the branch's preimage is protected from garbage collection.
PreimagePinned ==
  payload = "live" /\ ~CleanupOnly => \A r \in Refs : ref[r] > 0 => r \in pin

\* Nothing reaches a remote before the whole selection is rebased, recorded in
\* stack.yaml and the publication intent is durable; what is pushed is the
\* recorded source, and a run that pushed is never rolled back.
PublicationOrdered ==
  (\E e \in Entries : remote[e] # Nothing) =>
    /\ pub.durable /\ done = N /\ ~rb.on
    /\ \A e \in Entries :
         remote[e] # Nothing => remote[e] = pub.src[e] /\ pub.src[e] # UserWork

\* A commit of the run is the expected tip of its branch or lies inside what
\* the pending action may move.
TipExplained(r) ==
  ref[r] > 0 =>
    \/ ref[r] = jref[r].exp
    \/ Pending /\ r \in Allowed[act.entry] /\ ref[r] = jref[r].exp + 1

\* stack.yaml never records an entry whose rebase the journal has not observed.
RecordExplained ==
  meta > 0 => meta <= act.entry /\ (meta = act.entry => act.st = "observed")

\* Once rollback is recorded as finished no branch, worktree or stack.yaml
\* shows anything of the run.
NothingLeft ==
  rb.on /\ phase = "cleanup" =>
    /\ \A r \in Refs : ref[r] <= 0
    /\ \A e \in Entries : Pos(e)[2] <= 0
    /\ meta <= 0

\* EffectsExplained: whatever the run did is explained by its journal at every
\* moment.
EffectsExplained ==
  (\A r \in Refs : TipExplained(r)) /\ RecordExplained /\ NothingLeft

\* What validateSyncTransactionRelationships demands of a journal it loads, in
\* its parts that speak of progress.
ReadinessAgrees == /\ ready => phase # "preparing"
                   /\ act.st # "none" => ready
CompletionAgrees ==
  /\ completion # "" => phase = "cleanup" /\ ~rb.on
  /\ completion = "cancelled-before-mutation" =>
       act.st = "none" /\ ~pub.durable /\ jmeta.exp = 0
  /\ phase = "cleanup" => completion # "" \/ rb.on
RollbackAgrees ==
  /\ rb.on => phase \in {"rolling-back", "cleanup"}
  /\ ~rb.on => phase # "rolling-back" /\ ~jmeta.rest /\ rb.refs = {}
PublicationAgrees ==
  /\ pub.durable => ~rb.on
  /\ ~pub.durable => /\ phase # "published" /\ pub.cur = 0 /\ pub.ok = {}
                     /\ \A e \in Entries : pub.src[e] = Nothing
MetadataAgrees == /\ jmeta.rest => jmeta.exp = 0
                  /\ jmeta.pend => jmeta.intent # Nothing
RefAgrees(r) ==
  /\ RepoOf[r] \in rb.refs => jref[r].exp = 0
  /\ RepoOf[r] \in rb.pins => ~jref[r].pinned /\ ~jref[r].del
  /\ jref[r].del => phase = "cleanup"
  /\ ready /\ phase # "cleanup" => jref[r].pinned
HolderAgrees(e) == ~rb.on => ~(jhold[e].pend \/ jhold[e].det \/ jhold[e].rest)
\* Only an action that allows it has changed what is expected of a branch.
ActionAgrees == act.st = "none" <=> act.entry = 0
ExpectedAgrees(r) ==
  jref[r].exp # 0 => \E e \in 1..act.entry : r \in Allowed[e]
ValidationAgrees == val # "none" => act.entry # 0
\* A push was recorded with the tip that the journal expects of its branch.
SourcesAgree ==
  /\ \A e \in Entries : pub.src[e] \in {Nothing, jref[e].exp}
  /\ \A e \in pub.ok : pub.src[e] # Nothing
  /\ pub.cur # 0 => pub.src[pub.cur] # Nothing

\* JournalReadable: a journal tws saved is never one that tws itself refuses to
\* read back, which no verb could recover from.
JournalReadable ==
  /\ ReadinessAgrees /\ CompletionAgrees /\ RollbackAgrees
  /\ PublicationAgrees /\ MetadataAgrees /\ ActionAgrees /\ ValidationAgrees
  /\ SourcesAgree
  /\ \A r \in Refs : RefAgrees(r) /\ ExpectedAgrees(r)
  /\ \A e \in Entries : HolderAgrees(e)

\* A commit made by somebody else stays the tip of its branch.
BranchWorkKept ==
  [][\A r \in Refs : ref[r] = UserWork => ref'[r] = UserWork]_vars

\* Nothing anybody else did after birth is overwritten: commits on a branch,
\* commits on a detached worktree, edits of stack.yaml.
UserWorkKept ==
  [][/\ \A r \in Refs : ref[r] = UserWork => ref'[r] = UserWork
     /\ \A e \in Entries : Pos(e)[2] = UserWork => Pos(e)'[2] = UserWork
     /\ meta = UserWork => meta' = UserWork]_vars

\* After publication has begun or completion is recorded, no tws command
\* moves a branch, a worktree or stack.yaml.
NoRewind ==
  [][payload = "live" /\ (pub.durable \/ CleanupOnly) /\ verb # "none"
     /\ moves' = moves => UNCHANGED <<ref, wt, head, meta>>]_vars

\* A run interrupted before its first rebase can still be continued.
ContinueCanBegin ==
  At("next") /\ verb = "continue" /\ done < N => ready

\* However often it is killed, a sync ends with its journal removed, and no pin
\* ref outlives the journal that could delete it: no crash point leaves a
\* journal that neither --continue nor --abort can finish.  Who moved a branch
\* or edited stack.yaml meanwhile may have to put it back first.
EveryRunEnds ==
  (payload = "live") ~> \/ payload = "gone" /\ pin = {}
                        \/ moves > 0

\* Once the first push is recorded as intended, the only way out is forward:
\* every selected branch reaches its remote and the run is recorded complete,
\* if nobody else moves a branch or edits stack.yaml.
PublishedRunCompletes ==
  pub.durable ~>
    \/ moves > 0
    \/ /\ payload = "gone" /\ completion = "forward-complete"
       /\ \A e \in Entries : remote[e] = pub.src[e]
=============================================================================
