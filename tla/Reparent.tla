------------------------------- MODULE Reparent -------------------------------
(* tws stack reparent in external mode (reparent_exec.go, reparent_state.go, *)
(* reparent_refs.go, reparent_remote.go): the rows of the closure are        *)
(* replayed in a scratch worktree, their branches are moved in one ref       *)
(* transaction while the worktrees that hold them are detached, stack.yaml   *)
(* is rewritten, and a journal lets --continue and --abort take over a run   *)
(* that was killed, paused by a conflict or refused.                         *)
EXTENDS Integers, FiniteSets

CONSTANTS
  N,          \* the rows 1..N, each replayed onto the tip of the one before
  Held,       \* rows whose branch a linked worktree has checked out
  Conflicts,  \* rows whose replay may stop at a conflict
  Published,  \* rows with a remote-tracking ref
  Prior,      \* published rows the follow-up record already names
  MaxKill, MaxUser \* bounds: killed commands, interferences by the user

Rows == 1..N

ASSUME ReparentAssumption ==
  /\ N \in Nat \ {0} /\ Held \subseteq Rows /\ Conflicts \subseteq Rows
  /\ Prior \subseteq Published /\ Published \subseteq Rows
  /\ MaxKill \in Nat /\ MaxUser \in Nat

VARIABLES
  ref,     \* row -> its branch: "pre" image, "new" tip, or "user" work on the
           \* first, or "ahead" with work on the second
  stack,   \* stack.yaml: the bytes "before" or "after"
  wt,      \* held row -> its worktree is "on" the branch or "off" (detached)
  dirty,   \* held rows whose worktree has tracked modifications
  rec,     \* row -> its row of the follow-up record
  seen,    \* row -> what the remote-tracking ref was last seen to contain
  pins,    \* private refs, as <<row, "old">> and <<row, "new">>
  scratch, \* the scratch worktree
  j, m,    \* the journal on disk, and the running command's copy of it
  pc, sw,  \* the command's step, and the holder it is switching
  tried,   \* holders this attempt could not re-attach
  was,     \* the refs as classified before the transaction
  kills, user

world == <<ref, stack, wt, dirty, seen>>
files == <<rec, pins, scratch>>
vars == <<world, files, j, m, pc, sw, tried, was, kills, user>>

Stages == <<"initializing", "preflight", "pinning-preimages", "computing",
  "conflict-paused", "building-post-image", "pinning-computed",
  "writing-remote-record", "detaching-holders", "committing-refs",
  "refs-committed", "writing-metadata", "metadata-written",
  "restoring-holders", "cleanup", "completed", "aborting", "aborted", "failed">>
Rank(s) == CHOOSE i \in 1..19 : Stages[i] = s
Terminalish == {"failed", "aborting", "aborted", "completed"}
Effective(x) == IF x.stage \in Terminalish THEN x.resume ELSE x.stage
At(x, s) == Rank(Effective(x)) >= Rank(s)

NoRun == [on |-> FALSE, stage |-> "initializing", resume |-> "initializing",
  row |-> [r \in Rows |-> "pending"], h |-> [r \in Held |-> "none"],
  to |-> [r \in Held |-> "pre"], why |-> {}, defer |-> {}, context |-> FALSE,
  undo |-> FALSE, compat |-> FALSE, post |-> FALSE, after |-> FALSE,
  cas |-> FALSE, commit |-> FALSE, proof |-> FALSE, follow |-> {},
  before |-> [r \in Rows |-> "none"], clear |-> {}, restore |-> FALSE]

Init ==
  /\ ref = [r \in Rows |-> "pre"] /\ stack = "before"
  /\ wt = [r \in Held |-> "on"] /\ dirty = {}
  /\ rec = [r \in Rows |-> IF r \in Prior THEN "prior" ELSE "none"]
  /\ seen \in {s \in [Rows -> {"none", "stale", "pre"}] : \A r \in Rows :
       /\ s[r] = "none" <=> r \notin Published
       /\ s[r] = "stale" => r \in Prior}
  /\ pins = {} /\ scratch = "none"
  /\ j = NoRun /\ m = NoRun /\ pc = "idle" /\ sw = 0
  /\ tried = {} /\ was = [r \in Rows |-> "pre"]
  /\ kills = 0 /\ user = 0
-----------------------------------------------------------------------------
SetStage(x, s) ==
  [x EXCEPT !.stage = s, !.resume = IF s \in Terminalish THEN @ ELSE s]
Save(x) == m' = x /\ j' = x
Enter(s) == Save(SetStage(m, s))
Go(label) == pc' = label
Exit == pc' = "idle"
Doing(s) == pc = "run" /\ m.stage = s
Quiet == UNCHANGED <<sw, tried, was, kills, user>>
Still == UNCHANGED <<world, files>> /\ Quiet

\* Classes of a branch: a row without a recorded tip has no planned value.
Planned(x, r) == x.row[r] # "pending"
Foreign(x, r) == ~(ref[r] = "pre" \/ (ref[r] = "new" /\ Planned(x, r)))
SomeForeign(x) == ~x.commit /\ \E r \in Rows : Foreign(x, r)
Landed(r) == ref[r] \in {"new", "ahead"}
AllNew == \A r \in Rows : ref[r] = "new"
\* The commit point, proven from the refs and the bytes of stack.yaml.
Committed(x) ==
  x.commit \/ (x.post /\ stack = "after" /\ \A r \in Rows : Landed(r))
Proven(x) == [x EXCEPT !.commit = @ \/ Committed(x)]

Ours == {r \in Rows : rec[r] = "ours"}
ProofHolds(x) ==
  x.proof /\ x.follow \subseteq Ours /\ (x.follow = {} => Ours = {})
Refreshed(x) == IF x.proof THEN [x EXCEPT !.follow = Ours] ELSE x

\* Mutant: only the rows that were never published are left out of a clear.
ObservedByPresence == {r \in Rows : rec[r] # "none" /\ seen[r] # "none"}

\* Rows of the record that the remote-tracking ref proves published.
Observed == {r \in Rows : \/ rec[r] = "prior" /\ seen[r] = "pre"
                          \/ rec[r] = "ours" /\ seen[r] = "new"}

-----------------------------------------------------------------------------
(* Where worktrees may be while the journal says what it says.              *)

\* A holder that is detached again counts as restored until it is detached.
Back == {"restored", "redetaching"}
Off == {"detaching", "redetaching"}
Recorded(x, r) == x.commit \/ ref[r] \in {"pre", "new"}
HolderPosition(x, r) ==
  /\ x.h[r] = "none" => wt[r] = "on" /\ ref[r] = "pre"
  /\ x.h[r] \in Off => wt[r] = "off" \/ ref[r] = x.to[r]
  /\ x.h[r] = "detached" =>
       wt[r] = "off" \/ (r \in x.defer /\ Recorded(x, r) /\ r \notin dirty)
  /\ x.h[r] = "restoring" =>
       wt[r] = "off" \/ ((x.commit \/ ref[r] = x.to[r]) /\ r \notin dirty)
  /\ x.h[r] = "restored" => wt[r] = "on" /\ Recorded(x, r)

Rebasing == scratch \in {"conflict", "marked"}
ContextPosition(x) == x.context =>
  \/ scratch = "base"
  \/ scratch = "canceled" /\ x.stage \in {"computing", "conflict-paused"}
  \/ scratch = "marked" /\ ~x.undo
  \/ scratch = "conflict" /\ x.stage = "computing"
  \/ scratch = "resolved" /\ x.stage = "conflict-paused"

Snapshot(x) == ContextPosition(x) /\ \A r \in Held : HolderPosition(x, r)

\* Switch intents whose switch is found done, and worktrees the user put back.
Completed(x) ==
  [x EXCEPT
    !.h = [r \in Held |->
      IF @[r] \in Off /\ wt[r] = "off" THEN "detached"
      ELSE IF @[r] = "restoring" /\ wt[r] = "on" THEN "restored" ELSE @[r]],
    !.why = {r \in @ : ~(x.h[r] = "restoring" /\ wt[r] = "on")}]
Reattached(x) ==
  LET back == {r \in x.defer : x.h[r] = "detached" /\ wt[r] = "on"} IN
  [x EXCEPT !.h = [r \in Held |-> IF r \in back THEN "restored" ELSE @[r]],
            !.why = @ \ back, !.defer = @ \ back]
Reconciled(x) == Reattached(Completed(x))

RestorationComplete(x) ==
  /\ x.stage = "restoring-holders" /\ x.defer = {}
  /\ \A r \in Held : x.h[r] \in Back \cup {"none"}
NeedsHolders(x) ==
  x.stage \notin {"cleanup", "completed", "aborted"} /\ ~RestorationComplete(x)

\* What the loader accepts, part by part.
StageAgrees(x) ==
  IF x.stage \in Terminalish THEN x.resume \notin Terminalish ELSE x.resume = x.stage
\* A row is replayed onto its parent's recorded tip, in order.
RowsAgree(x) ==
  \A r \in Rows : Planned(x, r) => \A s \in Rows : s < r => Planned(x, s)
MetadataAgrees(x) == x.post => \A r \in Rows : Planned(x, r)
HoldersAgree(x) ==
  x.why = x.defer /\ \A r \in x.defer : x.h[r] \notin Back \cup {"none"}
PostImageAgrees(x) == x.after => x.post
CasAgrees(x) ==
  x.cas => At(x, "committing-refs") /\ \A r \in Rows : x.row[r] = "committed"
CommitAgrees(x) ==
  /\ x.after => At(x, "writing-metadata")
  /\ x.commit => x.cas /\ x.after /\ At(x, "writing-metadata")
ProgressAgrees(x) ==
  /\ ~At(x, "computing") => \A r \in Rows : x.row[r] = "pending"
  /\ ~At(x, "building-post-image") => \A r \in Rows : x.row[r] # "committed"
  /\ At(x, "building-post-image") =>
       \A r \in Rows : x.row[r] = IF x.cas THEN "committed" ELSE "validated"
EvidenceAgrees(x) ==
  /\ At(x, "preflight") => x.compat
  /\ At(x, "pinning-computed") => x.post
  /\ At(x, "detaching-holders") => x.proof
  /\ At(x, "refs-committed") => x.cas
  /\ At(x, "restoring-holders") => x.commit
RemoteAgrees(x) ==
  /\ x.proof \/ x.follow # {} => At(x, "writing-remote-record")
  /\ x.clear # {} => At(x, "preflight") /\ x.compat
Readable(x) ==
  /\ StageAgrees(x) /\ RowsAgree(x) /\ MetadataAgrees(x) /\ HoldersAgree(x)
  /\ PostImageAgrees(x) /\ CasAgrees(x) /\ CommitAgrees(x) /\ ProgressAgrees(x)
  /\ EvidenceAgrees(x) /\ RemoteAgrees(x)

LoadReparentState == j.on /\ Readable(j)
\* A recovery command gets past its checks.
Admits(verb) ==
  LET x == Reconciled(j) IN
  /\ LoadReparentState
  /\ verb = "continue" => j.stage \notin {"aborting", "aborted"}
  /\ Committed(j) \/ \A r \in Rows : Planned(j, r) => ~Foreign(j, r)
  /\ NeedsHolders(j) =>
       /\ \A r \in Held : j.h[r] \in Off \cup {"restoring"} => HolderPosition(j, r)
       /\ Snapshot(x)
  /\ verb = "continue" /\ ~j.compat => ~SomeForeign(Proven(j))
-----------------------------------------------------------------------------
(* The forward run, stage by stage.                                         *)

Begin ==
  /\ pc = "idle" /\ ~j.on /\ stack = "before"
  /\ \A r \in Rows : ref[r] = "pre"
  /\ \A r \in Held : wt[r] = "on" /\ r \notin dirty
  /\ Save([NoRun EXCEPT !.on = TRUE, !.before = rec])
  /\ Go("run") /\ Still

Compat ==
  /\ Doing("initializing") /\ ~m.compat
  /\ Save([m EXCEPT !.compat = TRUE]) /\ UNCHANGED pc /\ Still

StartPreflight ==
  /\ Doing("initializing") /\ m.compat
  /\ Enter("preflight") /\ Go("clear") /\ Still

\* Rows of the record that have been published since are cleared first.
ClearIntent ==
  /\ pc = "clear" /\ m.clear = {} /\ Observed # {}
  /\ Save([m EXCEPT !.clear = Observed]) /\ UNCHANGED pc /\ Still
ClearApply ==
  /\ pc = "clear" /\ \E r \in m.clear : rec[r] # "none"
  /\ rec' = [r \in Rows |-> IF r \in m.clear THEN "none" ELSE rec[r]]
  /\ UNCHANGED <<world, pins, scratch, j, m, pc>> /\ Quiet
ClearDone ==
  /\ pc = "clear" /\ m.clear # {} /\ \A r \in m.clear : rec[r] = "none"
  /\ Save(Refreshed([m EXCEPT !.clear = {}])) /\ UNCHANGED pc /\ Still
Cleared ==
  /\ pc = "clear" /\ m.clear = {} /\ Observed = {}
  /\ Save(Refreshed(m)) /\ Go("resume") /\ Still

\* A failed attempt is entered again at its resume stage.
Resume ==
  /\ pc = "resume"
  /\ Save(Proven(IF m.stage = "failed" THEN SetStage(m, m.resume) ELSE m))
  /\ Go("run") /\ Still

Preflight ==
  /\ Doing("preflight")
  /\ IF scratch = "none"
     THEN scratch' = "base" /\ UNCHANGED <<j, m>>
     ELSE UNCHANGED scratch /\ Save(SetStage([m EXCEPT !.context = TRUE],
                                             "pinning-preimages"))
  /\ UNCHANGED <<world, rec, pins, pc>> /\ Quiet

PinPreimages ==
  /\ Doing("pinning-preimages")
  /\ \/ /\ pins' = pins \cup (Rows \X {"old"}) /\ UNCHANGED <<j, m>>
        /\ pins' # pins
     \/ /\ Rows \X {"old"} \subseteq pins /\ Enter("computing")
        /\ UNCHANGED pins
  /\ UNCHANGED <<world, rec, scratch, pc>> /\ Quiet

Unfinished == {r \in Rows : m.row[r] # "validated"}
Current == CHOOSE r \in Unfinished : \A s \in Unfinished : r =< s
Computing(stage) == Doing("computing") /\ Unfinished # {} /\ m.row[Current] = stage
SetRow(r, s) == Save([m EXCEPT !.row[r] = s])
Fail(x, resume) == Save([x EXCEPT !.stage = "failed", !.resume = resume]) /\ Exit

\* A row is replayed onto the validated and pinned tip of the one before; the
\* first row's destination was pinned by the plan.
rowDestination(r) ==
  \A s \in Rows : s = r - 1 => m.row[s] \in {"validated", "committed"} /\ <<s, "new">> \in pins
probeRowLive(r) == [head |-> ref[r], destination |-> rowDestination(r)]
assessRowRevalidation(r) == probeRowLive(r) = [head |-> "pre", destination |-> TRUE]

\* The row's inputs are measured again, and its commits are replayed.
Replay ==
  /\ Computing("pending") /\ ~Rebasing /\ scratch \in {"base", "canceled"}
  /\ IF ~assessRowRevalidation(Current)
     THEN Fail(m, "computing") /\ UNCHANGED scratch
     ELSE /\ scratch' \in {"tip"} \cup (IF Current \in Conflicts THEN {"conflict"} ELSE {})
          /\ UNCHANGED <<j, m, pc>>
  /\ UNCHANGED <<world, rec, pins>> /\ Quiet

RecordTip ==
  /\ Computing("pending") /\ scratch = "tip"
  /\ scratch' = "base" /\ SetRow(Current, "computed")
  /\ UNCHANGED <<world, rec, pins, pc>> /\ Quiet

\* A stopped rebase gets a marker that its completion will set; then the run
\* is saved as paused and exits, or, found by --continue, still refuses.
MarkConflict ==
  /\ Computing("pending") /\ scratch = "conflict"
  /\ scratch' = "marked" /\ UNCHANGED <<j, m, pc, world, rec, pins>> /\ Quiet
PauseConflict ==
  /\ Computing("pending") /\ scratch = "marked"
  /\ Enter("conflict-paused") /\ Exit /\ Still

\* Only the marker proves that the rebase was finished and not cancelled; a
\* scratch HEAD that is back at the old tip is taken as where it should be.
assessConflictResolution == ~Rebasing /\ scratch = "resolved" /\ rowDestination(Current)
CancelledRebase == IF scratch = "canceled" THEN "base" ELSE scratch
ResumeConflict ==
  /\ Doing("conflict-paused") /\ m.row[Current] = "pending"
  /\ IF assessConflictResolution
     THEN scratch' = "base" /\ SetRow(Current, "computed") /\ UNCHANGED pc
     ELSE scratch' = CancelledRebase /\ Exit /\ UNCHANGED <<j, m>>
  /\ UNCHANGED <<world, rec, pins>> /\ Quiet

Advancing(stage) ==
  /\ pc = "run" /\ m.stage \in {"computing", "conflict-paused"}
  /\ Unfinished # {} /\ m.row[Current] = stage

\* The scratch HEAD, and the pin when there is to be one, are at the recorded tip.
verifyComputedRowState(pinned) == scratch = "base" /\ (pinned => <<Current, "new">> \in pins)

\* Mutant: the row counts as pinned before its pin exists.
PinTipLater ==
  Advancing("computed") /\ SetRow(Current, "pinned") /\ UNCHANGED pc /\ Still

PinTip ==
  /\ Advancing("computed") /\ verifyComputedRowState(FALSE)
  /\ IF <<Current, "new">> \notin pins
     THEN pins' = pins \cup {<<Current, "new">>} /\ UNCHANGED <<j, m>>
     ELSE UNCHANGED pins /\ SetRow(Current, "pinned")
  /\ UNCHANGED <<world, rec, scratch, pc>> /\ Quiet

Validate ==
  /\ Advancing("pinned")
  /\ \/ verifyComputedRowState(TRUE) /\ UNCHANGED pc
        /\ Save(SetStage([m EXCEPT !.row[Current] = "validated"], "computing"))
     \/ Fail(m, "computing")
  /\ Still

\* Every row's entry is to name the new tip of the row before.
buildPostImageBytes == \A r \in Rows : Planned(m, r)
BuildPostImage ==
  /\ Doing("computing") /\ Unfinished = {} /\ buildPostImageBytes
  /\ Save(SetStage([m EXCEPT !.post = TRUE], "pinning-computed"))
  /\ UNCHANGED pc /\ Still

PinComputed ==
  /\ Doing("pinning-computed")
  /\ pins' = pins \cup (Rows \X {"new"}) /\ Enter("writing-remote-record")
  /\ UNCHANGED <<world, rec, scratch, pc>> /\ Quiet

Followups == [r \in Rows |-> IF seen[r] # "none" THEN "ours" ELSE "none"]
WriteRecord ==
  /\ Doing("writing-remote-record") /\ rec # Followups
  /\ rec' = Followups
  /\ UNCHANGED <<world, pins, scratch, j, m, pc>> /\ Quiet
SaveRecord ==
  /\ Doing("writing-remote-record") /\ rec = Followups
  /\ Save(SetStage([m EXCEPT !.proof = TRUE, !.follow = Ours], "detaching-holders"))
  /\ UNCHANGED pc /\ Still
-----------------------------------------------------------------------------
(* Holders are detached before the ref transaction, by --abort again.        *)

Detaching ==
  /\ Doing("detaching-holders")
  /\ IF m.proof THEN Go("detach") ELSE Exit
  /\ UNCHANGED <<j, m>> /\ Still

\* Every ref is classified before any of them is written.
Classify ==
  /\ Doing("committing-refs")
  /\ IF SomeForeign(m) THEN Exit /\ UNCHANGED <<j, m, was>>
     ELSE IF m.cas /\ AllNew THEN Enter("refs-committed") /\ UNCHANGED <<pc, was>>
     ELSE was' = ref /\ Go("detach") /\ UNCHANGED <<j, m>>
  /\ UNCHANGED <<world, files, sw, tried, kills, user>>

ToDetach == IF pc = "redetach" THEN {r \in Held : m.h[r] \in Back}
            ELSE {r \in Held : wt[r] = "on"}
First(S) == CHOOSE r \in S : \A s \in S : r =< s

DetachIntent ==
  /\ pc \in {"detach", "redetach"} /\ sw = 0 /\ ToDetach # {}
  /\ LET r == First(ToDetach) x == Completed(m) IN
     IF Snapshot(x) /\ wt[r] = "on" /\ r \notin dirty /\ ref[r] \in {"pre", "new"}
     THEN /\ Save([x EXCEPT !.h[r] = IF @ \in Back THEN "redetaching" ELSE "detaching", !.to[r] = ref[r],
                              !.why = @ \ {r}])
          /\ sw' = r /\ UNCHANGED pc
     ELSE Exit /\ Save(x) /\ UNCHANGED sw
  /\ UNCHANGED <<world, files, tried, was, kills, user>>

SwitchOff ==
  /\ pc \in {"detach", "redetach"} /\ sw # 0 /\ wt[sw] = "on"
  /\ wt' = [wt EXCEPT ![sw] = "off"]
  /\ UNCHANGED <<ref, stack, dirty, seen, files, j, m, pc>> /\ Quiet

DetachDone ==
  /\ pc \in {"detach", "redetach"} /\ sw # 0 /\ wt[sw] = "off"
  /\ Save([m EXCEPT !.h[sw] = "detached"]) /\ sw' = 0
  /\ UNCHANGED <<world, files, pc, tried, was, kills, user>>

\* Mutant: nothing is detached again after a failed attempt.
HoldersDetachedOnce ==
  /\ pc = "detach" /\ sw = 0
  /\ m.stage = "committing-refs" \/ ToDetach = {}
  /\ IF m.stage = "detaching-holders" THEN Enter("committing-refs") /\ Go("run")
     ELSE Go("cas") /\ UNCHANGED <<j, m>>
  /\ Still

HoldersDetached ==
  /\ pc = "detach" /\ sw = 0 /\ ToDetach = {}
  /\ IF m.stage = "detaching-holders" THEN Enter("committing-refs") /\ Go("run")
     ELSE /\ UNCHANGED <<j, m>>
          /\ Go(IF ~Snapshot(m) THEN "idle"
                ELSE IF ~ProofHolds(m) THEN "put-back" ELSE "cas")
  /\ Still

\* One transaction: every row is updated or verified from its classified value.
Cas ==
  /\ pc = "cas"
  /\ IF ref = was
     THEN ref' = [r \in Rows |-> IF ref[r] = "pre" THEN "new" ELSE ref[r]]
          /\ Go("cas-done")
     ELSE Go("fail-back") /\ UNCHANGED ref
  /\ UNCHANGED <<stack, wt, dirty, seen, files, j, m, sw, tried, was, kills, user>>

\* Git is killed while it renames the refs of a prepared transaction.
KilledCas ==
  /\ pc \in {"cas", "cas-back"} /\ kills < MaxKill /\ ref = was
  /\ \E S \in SUBSET Rows :
       ref' = [r \in Rows |->
         IF r \in S /\ ref[r] \in {"pre", "new"}
         THEN IF pc = "cas" THEN "new" ELSE "pre" ELSE ref[r]]
  /\ kills' = kills + 1 /\ m' = j /\ Exit /\ sw' = 0 /\ tried' = {}
  /\ UNCHANGED <<stack, wt, dirty, seen, files, j, was, user>>

SaveCas ==
  /\ pc = "cas-done"
  /\ Save(SetStage([m EXCEPT !.row = [r \in Rows |-> "committed"], !.cas = TRUE],
                   "refs-committed"))
  /\ Go("run") /\ Still

\* Refs that are not where the plan wants them send the run back.
Rewinds == ~m.commit /\ \E r \in Rows : ref[r] = "pre"
RefsCommitted ==
  /\ Doing("refs-committed")
  /\ IF SomeForeign(m) THEN Exit /\ UNCHANGED <<j, m>>
     ELSE /\ Enter(IF \E r \in Rows : ref[r] = "pre" THEN "committing-refs"
                   ELSE "writing-metadata")
          /\ UNCHANGED pc
  /\ Still

WriteMetadata ==
  /\ Doing("writing-metadata")
  /\ IF SomeForeign(m) THEN Exit /\ UNCHANGED <<stack, j, m>>
     ELSE IF Rewinds THEN Enter("committing-refs") /\ UNCHANGED <<stack, pc>>
     ELSE stack' = "after" /\ Go("written") /\ UNCHANGED <<j, m>>
  /\ UNCHANGED <<ref, wt, dirty, seen, files>> /\ Quiet

MetadataWritten ==
  /\ pc = "written"
  /\ Save(SetStage([m EXCEPT !.after = TRUE], "metadata-written"))
  /\ Go("run") /\ Still

\* Mutant: the written metadata alone is the commit point.
CommitPointByMetadata ==
  /\ Doing("metadata-written")
  /\ Save(SetStage([m EXCEPT !.commit = TRUE], "restoring-holders"))
  /\ UNCHANGED pc /\ Still

CommitPoint ==
  /\ Doing("metadata-written")
  /\ IF Committed(m)
     THEN Save(SetStage(Proven(m), "restoring-holders")) /\ UNCHANGED pc
     ELSE IF SomeForeign(m) THEN Exit /\ UNCHANGED <<j, m>>
     ELSE Enter("committing-refs") /\ UNCHANGED pc
  /\ Still
-----------------------------------------------------------------------------
(* Holders are re-attached: after the commit point, by --abort, and, as far  *)
(* as possible, after a transaction that failed.                            *)

StartRestoring ==
  /\ Doing("restoring-holders")
  /\ IF RestorationComplete(m) \/ Snapshot(m)
     THEN m' = [m EXCEPT !.defer = {}] /\ Go("restore") ELSE Exit /\ UNCHANGED m
  /\ tried' = {}
  /\ UNCHANGED <<world, files, j, sw, was, kills, user>>

ToRestore == {r \in Held : m.h[r] \notin Back \cup {"none"}} \ tried
Restoring == pc \in {"restore", "put-back", "fail-back"}
CanRestore(r) == Snapshot(Completed(m)) /\ r \notin dirty

RestoreIntent ==
  /\ Restoring /\ sw = 0 /\ ToRestore # {}
  /\ LET r == First(ToRestore) x == Completed(m) IN
     /\ CanRestore(r)
     /\ IF x.h[r] = "restored" THEN Save(x) /\ UNCHANGED sw
        ELSE Save([x EXCEPT !.h[r] = "restoring", !.to[r] = ref[r]]) /\ sw' = r
  /\ UNCHANGED <<world, files, pc, tried, was, kills, user>>

SwitchOn ==
  /\ Restoring /\ sw # 0 /\ wt[sw] = "off"
  /\ wt' = [wt EXCEPT ![sw] = "on"]
  /\ UNCHANGED <<ref, stack, dirty, seen, files, j, m, pc>> /\ Quiet

RestoreDone ==
  /\ Restoring /\ sw # 0 /\ wt[sw] = "on" /\ HolderPosition(m, sw)
  /\ Save([m EXCEPT !.h[sw] = "restored", !.why = @ \ {sw}]) /\ sw' = 0
  /\ UNCHANGED <<world, files, pc, tried, was, kills, user>>

\* What cannot be re-attached is deferred; only the forward run saves at once,
\* and putting holders back names the reason without deferring.
RestoreFails ==
  /\ Restoring
  /\ LET r == IF sw # 0 THEN sw ELSE First(ToRestore)
         x == [m EXCEPT !.why = @ \cup {r},
                        !.defer = IF pc = "restore" THEN @ \cup {r} ELSE @] IN
     /\ \/ sw # 0 /\ wt[sw] = "on" /\ ~HolderPosition(m, sw)
        \/ sw = 0 /\ ToRestore # {} /\ ~CanRestore(r)
     /\ tried' = tried \cup {r}
     /\ IF m.stage = "restoring-holders" THEN Save(x) ELSE m' = x /\ UNCHANGED j
  /\ sw' = 0
  /\ UNCHANGED <<world, files, pc, was, kills, user>>

\* Mutant: a worktree that could not be re-attached does not keep the journal.
HoldersRestoredAnyhow ==
  /\ Restoring /\ sw = 0 /\ ToRestore = {}
  /\ tried' = {}
  /\ Enter("cleanup") /\ Go("run")
  /\ UNCHANGED <<world, files, sw, was, kills, user>>

HoldersRestored ==
  /\ Restoring /\ sw = 0 /\ ToRestore = {}
  /\ tried' = {}
  /\ IF pc = "fail-back" THEN Fail(m, "detaching-holders")
     ELSE IF pc = "put-back" \/ m.defer # {} THEN Save(m) /\ Exit
     ELSE IF m.stage = "restoring-holders" THEN Enter("cleanup") /\ Go("run")
     ELSE Save(m) /\ Go(IF m.commit THEN "clean" ELSE "record-back")
  /\ UNCHANGED <<world, files, sw, was, kills, user>>
-----------------------------------------------------------------------------
(* Cleanup, in this order; the journal goes last.                           *)

StartCleanup ==
  /\ \/ Doing("cleanup") \/ Doing("completed")
  /\ Go("clean") /\ UNCHANGED <<j, m>> /\ Still

RemoveScratch ==
  /\ pc = "clean" /\ scratch # "none"
  /\ scratch' = "none"
  /\ UNCHANGED <<world, rec, pins, j, m, pc>> /\ Quiet
DropPins ==
  /\ pc = "clean" /\ scratch = "none" /\ pins # {}
  /\ \E p \in pins : pins' = pins \ {p}
  /\ UNCHANGED <<world, rec, scratch, j, m, pc>> /\ Quiet

Finish ==
  /\ pc = "clean" /\ scratch = "none" /\ pins = {}
  /\ LET last == IF m.stage \in {"aborting", "aborted"} THEN "aborted" ELSE "completed" IN
     IF m.stage # last THEN Enter(last) /\ UNCHANGED pc
     ELSE Save(NoRun) /\ Exit
  /\ Still
-----------------------------------------------------------------------------
(* --continue and --abort.                                                  *)

\* The envelope that keeps other commands out is written again if need be.
recoverCompatArtifacts(x) == [x EXCEPT !.compat = TRUE]
Opened(verb) ==
  LET x == IF NeedsHolders(j) THEN Reconciled(j) ELSE j IN
  [(IF verb = "continue" THEN recoverCompatArtifacts(x) ELSE x) EXCEPT
     !.stage = IF verb = "continue" /\ @ = "initializing" THEN "preflight" ELSE @,
     !.resume = IF verb = "continue" /\ @ = "initializing" THEN "preflight" ELSE @]

Continue ==
  /\ pc = "idle" /\ Admits("continue")
  /\ Save(Opened("continue")) /\ Go("clear") /\ Still

\* --abort first completes a pending write of the follow-up record.
AbortOpened ==
  LET x == Proven(Opened("abort")) IN
  IF x.restore THEN [x EXCEPT !.restore = FALSE, !.proof = FALSE, !.follow = {}]
  ELSE [x EXCEPT !.clear = {},
                 !.follow = IF x.proof /\ x.clear # {} THEN Ours \ x.clear ELSE @]
RecordCompleted ==
  IF j.restore THEN j.before
  ELSE [r \in Rows |-> IF r \in j.clear THEN "none" ELSE rec[r]]
AbortEntry(committed) ==
  IF ~committed THEN "rollback"
  ELSE IF j.stage \in {"cleanup", "completed", "aborted"} THEN "clean" ELSE "restore"

Abort ==
  /\ pc = "idle" /\ Admits("abort")
  /\ j' = SetStage(AbortOpened, "aborting")
  /\ m' = IF Committed(j) THEN [j' EXCEPT !.defer = {}] ELSE j'
  /\ rec' = RecordCompleted /\ Go(AbortEntry(Committed(j)))
  /\ UNCHANGED <<world, pins, scratch>> /\ Quiet

\* A rebase in progress is aborted, with an intent; then every row is
\* classified before any ref is written.
AbortRebase ==
  /\ pc = "rollback" /\ (Rebasing \/ scratch = "canceled")
  /\ IF Rebasing /\ ~m.undo THEN Save([m EXCEPT !.undo = TRUE]) /\ UNCHANGED scratch
     ELSE scratch' = "base" /\ Save([m EXCEPT !.undo = FALSE])
  /\ UNCHANGED <<world, rec, pins, pc>> /\ Quiet

AbortClassify ==
  /\ pc = "rollback" /\ ~Rebasing /\ scratch # "canceled"
  /\ IF (\E r \in Rows : Foreign(m, r)) \/ ~Snapshot(Completed(m))
     THEN Exit /\ UNCHANGED <<m, j, was>>
     ELSE Save(Completed(m)) /\ was' = ref /\ Go("redetach")
  /\ UNCHANGED <<world, files, sw, tried, kills, user>>

Redetached ==
  /\ pc = "redetach" /\ sw = 0 /\ ToDetach = {}
  /\ Go(IF Snapshot(m) THEN "cas-back" ELSE "idle") /\ UNCHANGED <<j, m>> /\ Still

AbortCas ==
  /\ pc = "cas-back"
  /\ IF ref = was
     THEN ref' = [r \in Rows |-> IF ref[r] = "new" THEN "pre" ELSE ref[r]]
          /\ Go("stack-back")
     ELSE Exit /\ UNCHANGED ref
  /\ UNCHANGED <<stack, wt, dirty, seen, files, j, m>> /\ Quiet

RestoreStack ==
  /\ pc = "stack-back"
  /\ stack' = "before"
  /\ Go(IF stack = "after" THEN "stack-saved" ELSE "attach")
  /\ UNCHANGED <<ref, wt, dirty, seen, files, j, m>> /\ Quiet
StackRestored ==
  /\ pc = "stack-saved"
  /\ Save([m EXCEPT !.after = FALSE]) /\ Go("attach") /\ Still
AttachForAbort ==
  /\ pc = "attach"
  /\ m' = [m EXCEPT !.defer = {}] /\ UNCHANGED j
  /\ Go(IF Snapshot(m) THEN "restore" ELSE "idle") /\ Still

\* The follow-up record goes back to what it was before the run, if it is that,
\* that with rows cleared, or the run's own.
abortRemoteRecordPreimage == m.before
ClearProgress == \A r \in Rows : rec[r] \in {abortRemoteRecordPreimage[r], "none"}
validateAbortRemoteRecordSource == Ours # {} \/ ClearProgress
RecordBackIntent ==
  /\ pc = "record-back" /\ ~m.restore
  /\ IF validateAbortRemoteRecordSource THEN Save([m EXCEPT !.restore = TRUE]) /\ UNCHANGED pc
     ELSE Exit /\ UNCHANGED <<j, m>>
  /\ Still
RecordBack ==
  /\ pc = "record-back" /\ m.restore /\ rec # abortRemoteRecordPreimage
  /\ rec' = abortRemoteRecordPreimage
  /\ UNCHANGED <<world, pins, scratch, j, m, pc>> /\ Quiet
RecordBackDone ==
  /\ pc = "record-back" /\ m.restore /\ rec = m.before
  /\ Save([m EXCEPT !.restore = FALSE, !.proof = FALSE, !.follow = {}])
  /\ Go("clean") /\ Still
-----------------------------------------------------------------------------
Kill ==
  /\ pc # "idle" /\ kills < MaxKill
  /\ kills' = kills + 1 /\ Exit /\ m' = j /\ sw' = 0 /\ tried' = {}
  /\ UNCHANGED <<world, files, j, was, user>>

\* What the user does meanwhile: commits and their undoing, a reset to the
\* old tip before the commit point, pushes, edits in the worktrees.
Meddle ==
  /\ user < MaxUser /\ user' = user + 1
  /\ \/ \E r \in Rows :
          /\ ref[r] \in {"pre", "new"}
          /\ ref' = [ref EXCEPT ![r] = IF @ = "pre" THEN "user" ELSE "ahead"]
          /\ UNCHANGED <<dirty, seen>>
     \/ \E r \in Rows :
          /\ ref[r] = "new" /\ j.on /\ ~j.commit
          /\ ref' = [ref EXCEPT ![r] = "pre"] /\ UNCHANGED <<dirty, seen>>
     \/ \E r \in Published :
          /\ seen' = [seen EXCEPT ![r] = IF Landed(r) THEN "new" ELSE "pre"]
          /\ seen[r] # "new" /\ UNCHANGED <<ref, dirty>>
     \/ \E r \in Held \ dirty : dirty' = dirty \cup {r} /\ UNCHANGED <<ref, seen>>
  /\ UNCHANGED <<stack, wt, files, j, m, pc, sw, tried, was, kills>>

Mend ==
  /\ \/ \E r \in Rows :
          /\ ref[r] \in {"user", "ahead"}
          /\ ref' = [ref EXCEPT ![r] = IF @ = "user" THEN "pre" ELSE "new"]
          /\ UNCHANGED <<dirty, wt>>
     \/ \E r \in dirty : dirty' = dirty \ {r} /\ UNCHANGED <<ref, wt>>
     \/ \E r \in Held : /\ r \in j.defer /\ pc = "idle" /\ wt[r] = "off"
                        /\ wt' = [wt EXCEPT ![r] = "on"] /\ UNCHANGED <<ref, dirty>>
  /\ UNCHANGED <<stack, seen, files, j, m, pc>> /\ Quiet

\* The user ends a stopped rebase, or moves a stray scratch HEAD back. Git
\* sets the marker when the last commit is replayed, if it was installed.
EndRebase ==
  /\ pc = "idle"
  /\ \/ scratch = "marked" /\ scratch' \in {"resolved", "canceled"}
     \/ scratch = "conflict" /\ scratch' \in {"tip", "canceled"}
     \/ scratch = "tip" /\ scratch' = "base"
  /\ UNCHANGED <<world, rec, pins, j, m, pc>> /\ Quiet

Forward ==
  \/ Begin \/ Compat \/ StartPreflight
  \/ ClearIntent \/ ClearApply \/ ClearDone \/ Cleared \/ Resume
  \/ Preflight \/ PinPreimages \/ Replay \/ RecordTip \/ MarkConflict \/ PauseConflict
  \/ ResumeConflict \/ PinTip \/ Validate \/ BuildPostImage \/ PinComputed
  \/ WriteRecord \/ SaveRecord \/ Detaching \/ Classify \/ DetachIntent \/ SwitchOff
  \/ DetachDone \/ HoldersDetached \/ Cas \/ SaveCas \/ RefsCommitted
  \/ WriteMetadata \/ MetadataWritten \/ CommitPoint
  \/ StartRestoring \/ RestoreIntent \/ SwitchOn \/ RestoreDone \/ RestoreFails
  \/ HoldersRestored \/ StartCleanup \/ RemoveScratch \/ DropPins \/ Finish
Recovery ==
  \/ Continue \/ Abort \/ AbortRebase \/ AbortClassify \/ Redetached \/ AbortCas
  \/ RestoreStack \/ StackRestored \/ AttachForAbort \/ RecordBackIntent \/ RecordBack \/ RecordBackDone
Next == Forward \/ Recovery \/ Kill \/ KilledCas \/ Meddle \/ Mend \/ EndRebase

Spec == Init /\ [][Next]_vars
-----------------------------------------------------------------------------
(* What a reparent promises.                                                *)

\* AtomicOutcome: once no journal is left, the whole closure moved (every
\* branch at or past its new tip, stack.yaml rewritten) or none of it did,
\* wherever the run was killed, paused, refused, continued or aborted; and
\* every worktree is back on its branch.
AtomicOutcome ==
  ~j.on /\ pc = "idle" =>
    /\ \/ stack = "after" /\ \A r \in Rows : Landed(r)
       \/ stack = "before" /\ \A r \in Rows : ~Landed(r)
    /\ \A r \in Held : wt[r] = "on"

\* NoMoveUnderHolder: a branch that a worktree has checked out is never moved
\* by the run; that would leave the worktree's index and files behind its HEAD.
MovedDetached ==
  \A r \in Held : ref[r] # ref'[r] /\ {ref[r], ref'[r]} = {"pre", "new"}
    => wt[r] = "off" \/ user' # user
NoMoveUnderHolder == [][MovedDetached]_vars

\* CommitFinal: the commit point in the journal is a fact about the
\* repository, and stays one: every ref landed and the metadata is written.
CommitFinal ==
  j.commit => stack = "after" /\ \A r \in Rows : Landed(r)

\* FollowupRecorded: a published branch that was moved and not yet seen on the
\* remote is in the follow-up record; a row of an earlier reparent stays until
\* the remote shows it; and an aborted run leaves no row of its own.
FollowupRecorded ==
  \A r \in Published :
    /\ Landed(r) /\ seen[r] # "new" => rec[r] = "ours"
    /\ seen[r] = "stale" => rec[r] # "none"
    /\ ~j.on /\ ~Landed(r) => rec[r] # "ours"

\* PinsKept: until the commit point the old tip of a moved branch is pinned,
\* and a recorded tip that is not yet a branch is pinned, so that no garbage
\* collection takes away what --abort or --continue needs; no pin outlives
\* the journal.
PinsKept ==
  /\ \A r \in Rows : Landed(r) /\ j.on /\ ~j.commit => <<r, "old">> \in pins
  /\ \A r \in Rows :
       j.row[r] \in {"pinned", "validated", "committed"} /\ ~Landed(r)
         /\ j.stage \notin {"aborting", "aborted"} => <<r, "new">> \in pins
  /\ ~j.on => pins = {}
=============================================================================
