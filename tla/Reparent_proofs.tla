--------------------------- MODULE Reparent_proofs ---------------------------
(* However a reparent is killed, paused, refused, continued or aborted, its *)
(* branches and stack.yaml move together, nothing it may need is collected, *)
(* and what has to be published is recorded, for any number of rows.        *)
EXTENDS Reparent, TLAPS, WellFoundedInduction

StageSet == {"initializing", "preflight", "pinning-preimages", "computing",
  "conflict-paused", "building-post-image", "pinning-computed",
  "writing-remote-record", "detaching-holders", "committing-refs",
  "refs-committed", "writing-metadata", "metadata-written",
  "restoring-holders", "cleanup", "completed", "aborting", "aborted", "failed"}
Values == {"pre", "new", "user", "ahead"}
Positions == {"none", "detaching", "redetaching", "detached", "restoring", "restored"}
Outcomes == {"pending", "computed", "pinned", "validated", "committed"}
Followup == {"none", "prior", "ours"}
State ==
  [on : BOOLEAN, stage : StageSet, resume : StageSet, row : [Rows -> Outcomes],
   h : [Held -> Positions], to : [Held -> Values], why : SUBSET Held,
   defer : SUBSET Held, context : BOOLEAN, undo : BOOLEAN, compat : BOOLEAN,
   post : BOOLEAN, after : BOOLEAN, cas : BOOLEAN, commit : BOOLEAN,
   proof : BOOLEAN, follow : SUBSET Rows, before : [Rows -> Followup],
   clear : SUBSET Rows, restore : BOOLEAN]
Labels == {"idle", "run", "clear", "resume", "detach", "cas", "cas-done", "written",
  "put-back", "fail-back", "restore", "clean", "rollback", "redetach", "cas-back",
  "stack-back", "stack-saved", "attach", "record-back"}

WorldTypes ==
  /\ ref \in [Rows -> Values] /\ stack \in {"before", "after"}
  /\ wt \in [Held -> {"on", "off"}] /\ dirty \in SUBSET Held
  /\ rec \in [Rows -> Followup]
  /\ seen \in [Rows -> {"none", "stale", "pre", "new"}]
  /\ \A r \in Published : seen[r] # "none"
  /\ pins \in SUBSET (Rows \X {"old", "new"})
  /\ was \in [Rows -> Values]
RunTypes ==
  /\ j \in State /\ m \in State /\ pc \in Labels
  /\ sw \in Held \cup {0} /\ tried \in SUBSET Held
Types == WorldTypes /\ RunTypes

\* A command's copy of the journal is the one on disk but for what it has
\* found out about holders.
Alike(x, y) ==
  /\ x.on = y.on /\ x.stage = y.stage /\ x.resume = y.resume /\ x.row = y.row
  /\ x.h = y.h /\ x.commit = y.commit /\ x.proof = y.proof /\ x.before = y.before
  /\ x.clear = y.clear /\ x.restore = y.restore
CopyOK == pc # "idle" => Alike(m, j)

Aborting == {"aborting", "aborted"}
Ended == {"cleanup", "completed"}
Early == {"initializing", "preflight", "pinning-preimages"}
Late == {"writing-remote-record", "detaching-holders", "committing-refs",
  "refs-committed", "writing-metadata", "metadata-written", "restoring-holders"}
\* The stage a forward run is at, or will be entered again at.
Reached(x) == IF x.stage = "failed" THEN x.resume ELSE x.stage

Undoing == {"rollback", "redetach", "cas-back", "stack-back", "stack-saved",
            "attach", "record-back"}
LabelsOK ==
  /\ pc = "idle" => sw = 0
  /\ pc # "idle" => j.on
  /\ ~j.on => j = NoRun
  /\ pc \in {"run", "clear", "resume"} => j.stage \notin Aborting
  /\ pc = "run" => j.stage # "failed"
  /\ pc = "detach" => j.stage \in {"detaching-holders", "committing-refs"}
  /\ pc \in {"cas", "cas-done", "put-back", "fail-back"} => j.stage = "committing-refs"
  /\ pc = "written" => j.stage = "writing-metadata"
  /\ pc \in Undoing => j.stage = "aborting" /\ ~j.commit
  /\ pc = "restore" => j.stage \in {"restoring-holders", "aborting"}
  /\ pc = "clean" => j.stage \in Ended \cup Aborting
  /\ j.stage = "failed" => j.resume \in {"computing", "detaching-holders"}
  /\ j.stage \in Ended \cup {"restoring-holders"} => j.commit
  /\ sw # 0 => pc \in {"detach", "redetach", "restore", "put-back", "fail-back"}
  /\ ~Restoring => tried = {}
  /\ pc = "restore" => tried \subseteq m.defer
  /\ sw # 0 /\ pc \in {"detach", "redetach"} => j.h[sw] \in Off
  /\ sw # 0 /\ Restoring => j.h[sw] = "restoring"

NoneLanded == \A r \in Rows : ~Landed(r)
AllBack == \A r \in Held : wt[r] = "on" /\ j.h[r] \in Back \cup {"none"}
Undone == stack = "before" /\ NoneLanded

\* What is pinned when.
PinsOK ==
  /\ j.on /\ Reached(j) \notin Early \cup Ended \cup Aborting =>
       Rows \X {"old"} \subseteq pins
  /\ j.on /\ Reached(j) \in Late => Rows \X {"new"} \subseteq pins
  /\ j.stage \notin Ended \cup Aborting =>
       \A r \in Rows : j.row[r] \in {"pinned", "validated", "committed"} => <<r, "new">> \in pins
  /\ j.on /\ ~NoneLanded => Reached(j) \in Late \cup Ended \cup Aborting

\* Where holders are.
HoldersOK == \A r \in Held :
  /\ j.h[r] \in {"none", "restored"} => wt[r] = "on"
  /\ j.on /\ j.h[r] \in {"none", "detaching"} => ~Landed(r)
  /\ j.h[r] \in Off /\ wt[r] = "off" =>
       \/ sw = r /\ pc \in {"detach", "redetach"}
       \/ pc = "idle" /\ j.stage \in {"detaching-holders", "committing-refs", "aborting"}
  /\ j.h[r] = "detached" /\ wt[r] = "on" => pc = "idle" /\ r \in j.defer
  /\ j.h[r] = "restoring" /\ wt[r] = "on" => pc = "idle" \/ Restoring

\* What a ref transaction may rely on.
TransactionOK ==
  /\ pc = "cas" => j.proof /\ \A r \in Held : wt[r] = "off"
  /\ pc \in {"redetach", "cas-back"} => \A r \in Rows : was[r] \in {"pre", "new"}
  /\ pc = "cas-back" => \A r \in Held : wt[r] = "off" \/ ~Landed(r)

\* What rollback has done, and what cleanup may rely on.
UndoneOK ==
  /\ pc = "stack-back" => NoneLanded
  /\ pc \in {"stack-saved", "attach", "record-back"} => Undone
  /\ pc \in {"restore", "clean"} /\ ~j.commit => Undone
  /\ pc = "clean" /\ ~j.commit => \A r \in Published : rec[r] # "ours"
  /\ pc \in {"clean", "record-back"} \/ j.stage \in Ended \cup {"aborted"} => AllBack

\* The follow-up record.
RecordOK ==
  /\ pc \notin {"idle", "clear"} => j.clear = {}
  /\ \A r \in Published : r \in j.clear =>
       seen[r] \in {"new", "pre"} /\ (rec[r] = "ours" => seen[r] = "new")
  /\ j.proof /\ j.stage \notin Aborting =>
       \A r \in Published : rec[r] = "ours" \/ seen[r] = "new"
  /\ j.on => \A r \in Published :
       j.before[r] # "ours" /\ (seen[r] = "stale" => j.before[r] # "none")
  /\ j.restore => /\ j.stage = "aborting" /\ ~j.commit /\ NoneLanded /\ j.clear = {}
                  /\ pc \in {"idle", "record-back"}

ReparentInv ==
  /\ Types /\ CopyOK /\ LabelsOK /\ PinsOK /\ HoldersOK /\ TransactionOK /\ UndoneOK
  /\ RecordOK /\ AtomicOutcome /\ CommitFinal /\ FollowupRecorded /\ PinsKept
-----------------------------------------------------------------------------
(* Rows and holders are visited from the first to the last.                 *)

\* A set of rows that is not empty has a first one.
LEMMA Least ==
  ASSUME NEW S \in SUBSET Rows, S # {} PROVE \E r \in S : \A s \in S : r =< s
<1>1. S \subseteq Nat
  BY ReparentAssumption DEF Rows
<1>2. IsWellFoundedOn(OpToRel(<, Nat), Nat)
  BY NatLessThanWellFounded
<1>3. PICK r \in S : \A s \in S : ~(<<s, r>> \in OpToRel(<, Nat))
  BY <1>1, <1>2, WFMin
<1>4. ASSUME NEW s \in S PROVE r =< s
  <2>1. r \in Nat /\ s \in Nat
    BY <1>1
  <2>2. ~(s < r)
    BY <1>3, <2>1 DEF OpToRel
  <2> QED BY <2>1, <2>2
<1> QED BY <1>4

\* The row being replayed is one that is not validated yet.
LEMMA CurrentIn ==
  ASSUME Unfinished # {} PROVE Current \in Unfinished /\ Current \in Rows
<1>1. Unfinished \in SUBSET Rows
  BY DEF Unfinished
<1>2. \E r \in Unfinished : \A s \in Unfinished : r =< s
  BY <1>1, Least
<1> QED BY <1>1, <1>2 DEF Current

\* The holder being switched is one of those to be switched.
LEMMA FirstIn ==
  ASSUME NEW S \in SUBSET Held, S # {} PROVE First(S) \in S
<1>1. S \in SUBSET Rows
  BY ReparentAssumption
<1>2. \E r \in S : \A s \in S : r =< s
  BY <1>1, Least
<1> QED BY <1>2 DEF First
-----------------------------------------------------------------------------
(* What a step does to the journal.                                         *)

StageKept == j'.stage = j.stage /\ j'.resume = j.resume
RowsKept == j'.on = j.on /\ j'.row = j.row
HoldersKept == j'.h = j.h
CommitKept == j'.commit = j.commit
FollowKept == /\ j'.proof = j.proof /\ j'.before = j.before /\ j'.clear = j.clear
              /\ j'.restore = j.restore
JournalKept == StageKept /\ RowsKept /\ HoldersKept /\ CommitKept /\ FollowKept
\* Only the stage changes.
Entered(s) == j'.stage = s /\ RowsKept /\ HoldersKept /\ CommitKept /\ FollowKept
\* Only the outcome of the current row changes.
RowTo(s) == /\ j'.row = [j.row EXCEPT ![Current] = s] /\ j'.on = j.on
            /\ HoldersKept /\ CommitKept /\ FollowKept
\* What a look at a holder finds of a switch that was only announced.
Found(x, r) == IF x.h[r] \in Off /\ wt[r] = "off" THEN "detached"
               ELSE IF x.h[r] = "restoring" /\ wt[r] = "on" THEN "restored" ELSE x.h[r]
\* What a recovery records of a holder it finds.
Put(x, r) == IF r \in x.defer /\ Found(x, r) = "detached" /\ wt[r] = "on" THEN "restored"
             ELSE Found(x, r)
Reattaches ==
  IF NeedsHolders(j) THEN \A r \in Held : j'.h[r] = Put(j, r) ELSE HoldersKept

\* What a command knows of its journal is what the disk has.
LEMMA Copies ==
  ASSUME Types, CopyOK, pc # "idle"
  PROVE  /\ m.on = j.on /\ m.stage = j.stage /\ m.resume = j.resume /\ m.row = j.row
         /\ m.h = j.h /\ m.commit = j.commit /\ m.proof = j.proof /\ m.before = j.before
         /\ m.clear = j.clear /\ m.restore = j.restore
  BY DEF CopyOK, Alike

\* Setting the stage changes nothing else.
LEMMA StageIs ==
  ASSUME NEW x \in State, NEW s \in StageSet
  PROVE  /\ SetStage(x, s) \in State
         /\ SetStage(x, s).stage = s
         /\ SetStage(x, s).resume = (IF s \in Terminalish THEN x.resume ELSE s)
         /\ SetStage(x, s).row = x.row /\ SetStage(x, s).h = x.h
         /\ SetStage(x, s).on = x.on /\ SetStage(x, s).commit = x.commit
         /\ SetStage(x, s).proof = x.proof /\ SetStage(x, s).before = x.before
         /\ SetStage(x, s).clear = x.clear /\ SetStage(x, s).restore = x.restore
         /\ SetStage(x, s).defer = x.defer /\ SetStage(x, s).post = x.post
  BY ZenonT(60) DEF SetStage, State, StageSet, Terminalish

\* One journal has what another has, but for what the properties do not tell
\* apart.
SameAs(y, x) ==
  /\ y.on = x.on /\ y.stage = x.stage /\ y.resume = x.resume /\ y.row = x.row
  /\ y.h = x.h /\ y.commit = x.commit /\ y.proof = x.proof /\ y.before = x.before
  /\ y.clear = x.clear /\ y.restore = x.restore /\ y.defer = x.defer

\* Looking at the follow-up record and at the commit point, and the state of
\* no run.
LEMMA RefreshedIs ==
  ASSUME NEW x \in State PROVE Refreshed(x) \in State /\ SameAs(Refreshed(x), x)
  BY DEF Refreshed, State, Ours, SameAs

\* The commit point is journaled where the repository shows it.
LEMMA ProvenIs ==
  ASSUME NEW x \in State
  PROVE  /\ Proven(x) \in State /\ (Proven(x).commit <=> x.commit \/ Committed(x))
         /\ Proven(x).on = x.on /\ Proven(x).stage = x.stage
         /\ Proven(x).resume = x.resume /\ Proven(x).row = x.row /\ Proven(x).h = x.h
         /\ Proven(x).proof = x.proof /\ Proven(x).before = x.before
         /\ Proven(x).clear = x.clear /\ Proven(x).restore = x.restore
         /\ Proven(x).defer = x.defer /\ Proven(x).post = x.post
<1>1. (x.commit \/ Committed(x)) \in BOOLEAN
  BY DEF Committed, State
<1>2. Proven(x) = [x EXCEPT !.commit = x.commit \/ Committed(x)]
  BY DEF Proven
<1> QED BY <1>1, <1>2 DEF State

\* The state of no run is a state of a journal.
LEMMA NoRunIs == NoRun \in State
  BY DEF NoRun, State, StageSet, Outcomes, Positions, Values, Followup

\* A look at the holders changes only what is known of them.
LEMMA CompletedIs ==
  ASSUME NEW x \in State
  PROVE  /\ Completed(x) \in State /\ Completed(x).h = [r \in Held |-> Found(x, r)]
         /\ Completed(x).on = x.on /\ Completed(x).stage = x.stage
         /\ Completed(x).resume = x.resume /\ Completed(x).row = x.row
         /\ Completed(x).commit = x.commit /\ Completed(x).proof = x.proof
         /\ Completed(x).before = x.before /\ Completed(x).clear = x.clear
         /\ Completed(x).restore = x.restore /\ Completed(x).defer = x.defer
         /\ Completed(x).post = x.post
<1> DEFINE w == {r \in x.why : ~(x.h[r] = "restoring" /\ wt[r] = "on")}
           h == [r \in Held |-> Found(x, r)]
<1>1. h \in [Held -> Positions]
  BY DEF State, Found, Positions
<1>2. w \in SUBSET Held
  BY DEF State
<1>3. Completed(x) = [x EXCEPT !.h = h, !.why = w]
  BY DEF Completed, Found
<1> HIDE DEF w, h
<1>4. /\ [x EXCEPT !.h = h, !.why = w] \in State /\ [x EXCEPT !.h = h, !.why = w].h = h
      /\ SameAs([[x EXCEPT !.h = h, !.why = w] EXCEPT !.h = x.h], x)
      /\ [x EXCEPT !.h = h, !.why = w].post = x.post
  BY <1>1, <1>2 DEF State, SameAs
<1> QED
  BY <1>3, <1>4, ZenonT(60) DEF SameAs, State, h

\* A recovery records what it finds, and takes a deferred holder that is back
\* as restored.
LEMMA ReconciledIs ==
  ASSUME NEW x \in State
  PROVE  /\ Reconciled(x) \in State
         /\ \A r \in Held : Reconciled(x).h[r] = Put(x, r)
         /\ Reconciled(x).on = x.on /\ Reconciled(x).stage = x.stage
         /\ Reconciled(x).resume = x.resume /\ Reconciled(x).row = x.row
         /\ Reconciled(x).commit = x.commit /\ Reconciled(x).proof = x.proof
         /\ Reconciled(x).before = x.before /\ Reconciled(x).clear = x.clear
         /\ Reconciled(x).restore = x.restore /\ Reconciled(x).post = x.post
<1> DEFINE y == Completed(x)
           back == {r \in y.defer : y.h[r] = "detached" /\ wt[r] = "on"}
           h == [r \in Held |-> IF r \in back THEN "restored" ELSE y.h[r]]
           z == [y EXCEPT !.h = h, !.why = @ \ back, !.defer = @ \ back]
<1>1. /\ y \in State /\ y.h = [r \in Held |-> Found(x, r)]
      /\ y.on = x.on /\ y.stage = x.stage /\ y.resume = x.resume /\ y.row = x.row
      /\ y.commit = x.commit /\ y.proof = x.proof /\ y.before = x.before
      /\ y.clear = x.clear /\ y.restore = x.restore /\ y.defer = x.defer /\ y.post = x.post
  BY CompletedIs
<1> HIDE DEF y
<1>2. h \in [Held -> Positions] /\ \A r \in Held : h[r] = Put(x, r)
  BY <1>1 DEF State, Positions, Put
<1> HIDE DEF h, back
<1>3. /\ z \in State /\ z.h = h /\ z.on = y.on /\ z.stage = y.stage
      /\ z.resume = y.resume /\ z.row = y.row /\ z.commit = y.commit
      /\ z.proof = y.proof /\ z.before = y.before /\ z.clear = y.clear
      /\ z.restore = y.restore /\ z.post = y.post
  BY <1>1, <1>2 DEF State
<1>4. Reconciled(x) = z
  BY DEF Reconciled, Reattached, back, h, y
<1> QED
  BY <1>1, <1>2, <1>3, <1>4

\* What a command that looks at the holders finds.
LEMMA FoundIs ==
  ASSUME Types, CopyOK, pc # "idle"
  PROVE  \A r \in Held : Completed(m).h[r] = Found(j, r)
<1>1. m.h = j.h
  BY Copies
<1>2. \A r \in Held : Found(m, r) = Found(j, r)
  BY <1>1 DEF Found
<1>3. m \in State
  BY DEF Types, RunTypes
<1>4. Completed(m).h = [r \in Held |-> Found(m, r)]
  BY <1>3, CompletedIs
<1> QED BY <1>2, <1>4

\* What the types say of the parts.
LEMMA TypesMean ==
  ASSUME Types
  PROVE  /\ ref \in [Rows -> Values] /\ wt \in [Held -> {"on", "off"}]
         /\ rec \in [Rows -> Followup]
         /\ seen \in [Rows -> {"none", "stale", "pre", "new"}]
         /\ \A r \in Published : seen[r] # "none"
         /\ pins \in SUBSET (Rows \X {"old", "new"}) /\ was \in [Rows -> Values]
         /\ sw \in Held \cup {0} /\ tried \in SUBSET Held
         /\ j.h \in [Held -> Positions] /\ j.row \in [Rows -> Outcomes]
         /\ j.clear \in SUBSET Rows /\ j.defer \in SUBSET Held /\ j.commit \in BOOLEAN
         /\ j.before \in [Rows -> Followup] /\ j.on \in BOOLEAN
         /\ Held \subseteq Rows /\ Published \subseteq Rows /\ 0 \notin Rows
<1>1. j \in State /\ WorldTypes
  BY DEF Types, RunTypes
<1>2. 0 \notin Rows
  BY ReparentAssumption DEF Rows
<1> QED
  BY <1>1, <1>2, ReparentAssumption DEF Types, RunTypes, WorldTypes, State

\* The state of no run says nothing of rows and holders.
LEMMA NoRunHas ==
  /\ ~NoRun.on /\ NoRun.stage = "initializing" /\ NoRun.resume = "initializing"
  /\ ~NoRun.commit /\ ~NoRun.proof /\ ~NoRun.restore
  /\ NoRun.clear = {} /\ NoRun.defer = {}
  /\ NoRun.row = [r \in Rows |-> "pending"] /\ NoRun.h = [r \in Held |-> "none"]
  BY DEF NoRun

\* What is taken for committed is.
LEMMA CommittedIs ==
  ASSUME NEW x, Committed(x)
  PROVE  x.commit \/ (stack = "after" /\ \A r \in Rows : Landed(r))
  BY DEF Committed

\* What a command finds of a holder is so: nothing is under way.
LEMMA FoundOK ==
  ASSUME Types, HoldersOK, pc # "idle", NEW r \in Held
  PROVE  /\ Found(j, r) \in {"none", "restored"} => wt[r] = "on"
         /\ Found(j, r) \in {"none", "detaching"} => Found(j, r) = j.h[r]
         /\ ~(Found(j, r) \in Off /\ wt[r] = "off")
         /\ ~(Found(j, r) = "detached" /\ wt[r] = "on")
         /\ ~(Found(j, r) = "restoring" /\ wt[r] = "on")
<1>1. wt[r] \in {"on", "off"} /\ j.h[r] \in Positions
  BY TypesMean
<1> QED
  BY <1>1 DEF Found, HoldersOK, Off, Positions

\* What a recovery records of a holder is so.
LEMMA PutOK ==
  ASSUME Types, HoldersOK, UndoneOK, pc = "idle", Reattaches, NEW r \in Held
  PROVE  /\ j'.h[r] \in {"none", "restored"} => wt[r] = "on"
         /\ j'.h[r] \in {"none", "detaching"} => j'.h[r] = j.h[r]
         /\ ~(j'.h[r] \in Off /\ wt[r] = "off")
         /\ ~(j'.h[r] = "detached" /\ wt[r] = "on")
         /\ ~(j'.h[r] = "restoring" /\ wt[r] = "on")
<1>1. wt[r] \in {"on", "off"} /\ j.h[r] \in Positions
  BY TypesMean
<1>2. CASE NeedsHolders(j)
  BY <1>1, <1>2 DEF Reattaches, Put, Found, HoldersOK, Off, Positions
<1>3. CASE ~NeedsHolders(j)
  <2>1. j'.h = j.h
    BY <1>3 DEF Reattaches, HoldersKept
  <2>2. j.stage \in Ended \cup {"aborted", "restoring-holders"}
    BY <1>3 DEF NeedsHolders, RestorationComplete, Ended
  <2>3. j.h[r] \in Back \cup {"none"}
    BY <1>3, <2>2 DEF NeedsHolders, RestorationComplete, UndoneOK, AllBack, Ended
  <2> QED
    BY <1>1, <2>1, <2>2, <2>3 DEF HoldersOK, Back, Off, Positions, Ended
<1> QED BY <1>2, <1>3

\* When no holder is left to restore and none is deferred, all are back.
LEMMA AllRestored ==
  ASSUME Types, CopyOK, LabelsOK, HoldersOK, pc = "restore", ToRestore = {}, m.defer = {}
  PROVE  AllBack
<1> SUFFICES ASSUME NEW r \in Held PROVE wt[r] = "on" /\ j.h[r] \in Back \cup {"none"}
  BY DEF AllBack
<1>1. wt[r] \in {"on", "off"} /\ j.h[r] \in Positions
  BY TypesMean
<1>2. tried = {}
  BY DEF LabelsOK
<1>3. j.h[r] \in Back \cup {"none"}
  BY <1>2, Copies DEF ToRestore
<1> QED
  BY <1>1, <1>3 DEF HoldersOK, Back, Off

\* A step of a command that leaves the journal and its copy alone.
LEMMA Untouched ==
  ASSUME Types, CopyOK, pc # "idle", UNCHANGED <<j, m, sw, tried>>, pc' \in Labels
  PROVE  RunTypes' /\ CopyOK' /\ JournalKept
  BY DEF Types, RunTypes, CopyOK, Alike, JournalKept, StageKept, RowsKept, HoldersKept,
    CommitKept, FollowKept
-----------------------------------------------------------------------------
(* What each step does to the journal and to the repository.                *)

\* A new reparent starts from a state where nothing has moved and every
\* worktree is on its branch.
LEMMA BeginIs ==
  ASSUME Types, CopyOK, Begin
  PROVE  /\ RunTypes' /\ CopyOK'
         /\ UNCHANGED <<ref, stack, wt, dirty, seen, rec, pins, sw, tried,
           was>>
         /\ pc = "idle" /\ pc' = "run" /\ ~j.on /\ NoneLanded
         /\ \A r \in Held : wt[r] = "on"
         /\ j'.on /\ j'.stage = "initializing" /\ ~j'.commit /\ ~j'.proof /\ ~j'.restore
         /\ j'.before = rec /\ j'.clear = {}
         /\ \A r \in Rows : j'.row[r] = "pending"
         /\ \A r \in Held : j'.h[r] = "none"
<1> DEFINE y == [NoRun EXCEPT !.on = TRUE, !.before = rec]
<1>1. /\ y \in State /\ y.on /\ y.stage = "initializing" /\ ~y.commit /\ ~y.proof
      /\ ~y.restore /\ y.before = rec /\ y.clear = {}
      /\ y.row = [r \in Rows |-> "pending"] /\ y.h = [r \in Held |-> "none"]
  BY NoRunIs DEF Types, WorldTypes, State, NoRun
<1>2. j' = y /\ m' = y /\ pc = "idle" /\ pc' = "run" /\ UNCHANGED <<sw, tried>>
  BY DEF Begin, Save, Go, Still, Quiet
<1> HIDE DEF y
<1>3. RunTypes' /\ CopyOK'
  BY <1>1, <1>2 DEF Types, RunTypes, Labels, CopyOK, Alike
<1>4. /\ UNCHANGED <<ref, stack, wt, dirty, seen, rec, pins, sw, tried, was>>
      /\ ~j.on /\ NoneLanded /\ \A r \in Held : wt[r] = "on"
  BY DEF Begin, NoneLanded, Landed, Still, Quiet, world, files
<1> QED
  BY <1>1, <1>2, <1>3, <1>4

\* The envelope that keeps other commands out is written; the journal says
\* only that.
LEMMA CompatIs ==
  ASSUME Types, CopyOK, Compat
  PROVE  /\ RunTypes' /\ CopyOK'
         /\ UNCHANGED <<ref, stack, wt, dirty, seen, rec, pins, sw, tried,
           was>>
         /\ pc = "run" /\ UNCHANGED pc /\ JournalKept
<1> DEFINE y == [m EXCEPT !.compat = TRUE]
<1>1. j \in State /\ m \in State
  BY DEF Types, RunTypes
<1>2. pc # "idle"
  BY DEF Compat, Doing
<1>3. /\ y \in State
      /\ SameAs(y, m)
  BY <1>1 DEF State, SameAs
<1>4. j' = y /\ m' = y
  BY DEF Compat, Save
<1> HIDE DEF y
<1>5. j' \in State /\ m' \in State
  BY <1>1, <1>3, <1>4
<1>6. CopyOK'
  BY <1>2, <1>4 DEF CopyOK, Alike
<1>7. /\ JournalKept
  BY <1>1, <1>2, <1>3, <1>4, Copies DEF SameAs, JournalKept, StageKept, RowsKept,
    HoldersKept, CommitKept, FollowKept
<1> QED
  BY <1>1, <1>2, <1>4, <1>5, <1>6, <1>7, Copies DEF Types, RunTypes, Labels, Compat,
    Doing, world, files, Quiet, Still

\* A new run goes on to clear the follow-up record of what has been published.
LEMMA StartPreflightIs ==
  ASSUME Types, CopyOK, StartPreflight
  PROVE  /\ RunTypes' /\ CopyOK'
         /\ UNCHANGED <<ref, stack, wt, dirty, seen, rec, pins, sw, tried,
           was>>
         /\ pc = "run" /\ pc' = "clear" /\ j.stage = "initializing" /\ Entered("preflight")
<1>1. j \in State /\ m \in State
  BY DEF Types, RunTypes
<1>2. pc # "idle"
  BY DEF StartPreflight, Doing
<1>3. j' = SetStage(m, "preflight") /\ m' = SetStage(m, "preflight")
  BY DEF StartPreflight, Save, Enter
<1>4. /\ "preflight" \in StageSet /\ "preflight" \notin Terminalish
  BY DEF StageSet, Terminalish
<1>5. j' \in State /\ m' \in State
  BY <1>1, <1>3, <1>4, StageIs
<1>6. CopyOK'
  BY <1>2, <1>3 DEF CopyOK, Alike
<1>7. /\ Entered("preflight")
  BY <1>1, <1>2, <1>3, <1>4, Copies, StageIs DEF Entered, StageKept, RowsKept,
    HoldersKept, CommitKept, FollowKept
<1> QED
  BY <1>1, <1>2, <1>3, <1>5, <1>6, <1>7, Copies DEF Types, RunTypes, Labels,
    StartPreflight, Doing, Go, world, files, Quiet, Still

\* The rows seen published are journaled before the record is written.
LEMMA ClearIntentIs ==
  ASSUME Types, CopyOK, ClearIntent
  PROVE  /\ RunTypes' /\ CopyOK'
         /\ UNCHANGED <<ref, stack, wt, dirty, seen, rec, pins, sw, tried,
           was>>
         /\ pc = "clear" /\ UNCHANGED pc /\ j.clear = {}
         /\ StageKept /\ RowsKept /\ HoldersKept /\ CommitKept
         /\ j'.proof = j.proof /\ j'.before = j.before /\ j'.restore = j.restore /\ j'.clear = Observed
<1> DEFINE y == [m EXCEPT !.clear = Observed]
<1>1. j \in State /\ m \in State
  BY DEF Types, RunTypes
<1>2. pc # "idle"
  BY DEF ClearIntent
<1>3. /\ y \in State
      /\ y.on = m.on /\ y.stage = m.stage /\ y.resume = m.resume
      /\ y.row = m.row /\ y.h = m.h /\ y.commit = m.commit /\ y.proof = m.proof
      /\ y.before = m.before /\ y.restore = m.restore /\ y.defer = m.defer
      /\ y.clear = Observed
  BY <1>1 DEF State, Observed
<1>4. j' = y /\ m' = y
  BY DEF ClearIntent, Save
<1> HIDE DEF y
<1>5. j' \in State /\ m' \in State
  BY <1>1, <1>3, <1>4
<1>6. CopyOK'
  BY <1>2, <1>4 DEF CopyOK, Alike
<1>7. /\ StageKept /\ RowsKept /\ HoldersKept /\ CommitKept /\ j'.proof = j.proof
      /\ j'.before = j.before /\ j'.restore = j.restore /\ j'.clear = Observed
  BY <1>1, <1>2, <1>3, <1>4, Copies DEF StageKept, RowsKept, HoldersKept, CommitKept,
    FollowKept
<1> QED
  BY <1>1, <1>2, <1>4, <1>5, <1>6, <1>7, Copies DEF Types, RunTypes, Labels,
    ClearIntent, world, files, Quiet, Still

\* The record loses the journaled rows and no others.
LEMMA ClearApplyIs ==
  ASSUME Types, CopyOK, ClearApply
  PROVE  /\ RunTypes' /\ CopyOK'
         /\ UNCHANGED <<ref, stack, wt, dirty, seen, pins, sw, tried, was>>
         /\ pc = "clear" /\ UNCHANGED pc /\ JournalKept
         /\ rec' = [r \in Rows |-> IF r \in j.clear THEN "none" ELSE rec[r]]
<1>1. pc # "idle" /\ UNCHANGED <<j, m, sw, tried>>
  BY DEF ClearApply, Quiet
<1>2. pc' \in Labels
  BY <1>1 DEF ClearApply, Types, RunTypes, Labels
<1>3. RunTypes' /\ CopyOK' /\ JournalKept
  BY <1>1, <1>2, Untouched
<1> QED
  BY <1>1, <1>3, Copies DEF ClearApply, world, Quiet

\* The intent to clear is taken back.
LEMMA ClearDoneIs ==
  ASSUME Types, CopyOK, ClearDone
  PROVE  /\ RunTypes' /\ CopyOK'
         /\ UNCHANGED <<ref, stack, wt, dirty, seen, rec, pins, sw, tried,
           was>>
         /\ pc = "clear" /\ UNCHANGED pc
         /\ StageKept /\ RowsKept /\ HoldersKept /\ CommitKept
         /\ j'.proof = j.proof /\ j'.before = j.before /\ j'.restore = j.restore /\ j'.clear = {}
<1> DEFINE y == [m EXCEPT !.clear = {}]
<1>1. j \in State /\ m \in State
  BY DEF Types, RunTypes
<1>2. pc # "idle"
  BY DEF ClearDone
<1>3. /\ y \in State
      /\ y.on = m.on /\ y.stage = m.stage /\ y.resume = m.resume
      /\ y.row = m.row /\ y.h = m.h /\ y.commit = m.commit /\ y.proof = m.proof
      /\ y.before = m.before /\ y.restore = m.restore /\ y.defer = m.defer
      /\ y.clear = {}
  BY <1>1 DEF State
<1>4. j' = Refreshed(y) /\ m' = Refreshed(y)
  BY DEF ClearDone, Save
<1> HIDE DEF y
<1>5. j' \in State /\ m' \in State
  BY <1>1, <1>3, <1>4, RefreshedIs
<1>6. CopyOK'
  BY <1>2, <1>4 DEF CopyOK, Alike
<1>7. /\ StageKept /\ RowsKept /\ HoldersKept /\ CommitKept /\ j'.proof = j.proof
      /\ j'.before = j.before /\ j'.restore = j.restore /\ j'.clear = {}
  BY <1>1, <1>2, <1>3, <1>4, Copies, RefreshedIs DEF SameAs, StageKept, RowsKept,
    HoldersKept, CommitKept, FollowKept
<1> QED
  BY <1>1, <1>2, <1>4, <1>5, <1>6, <1>7, Copies DEF Types, RunTypes, Labels, ClearDone,
    world, files, Quiet, Still

\* The clearing over, the run is resumed with an empty intent.
LEMMA ClearedIs ==
  ASSUME Types, CopyOK, Cleared
  PROVE  /\ RunTypes' /\ CopyOK'
         /\ UNCHANGED <<ref, stack, wt, dirty, seen, rec, pins, sw, tried,
           was>>
         /\ pc = "clear" /\ pc' = "resume" /\ j.clear = {} /\ JournalKept
<1>1. j \in State /\ m \in State
  BY DEF Types, RunTypes
<1>2. pc # "idle"
  BY DEF Cleared
<1>3. j' = Refreshed(m) /\ m' = Refreshed(m)
  BY DEF Cleared, Save
<1>4. j' \in State /\ m' \in State
  BY <1>1, <1>3, RefreshedIs
<1>5. CopyOK'
  BY <1>2, <1>3 DEF CopyOK, Alike
<1>6. /\ JournalKept
  BY <1>1, <1>2, <1>3, Copies, RefreshedIs DEF SameAs, JournalKept, StageKept, RowsKept,
    HoldersKept, CommitKept, FollowKept
<1> QED
  BY <1>1, <1>2, <1>3, <1>4, <1>5, <1>6, Copies DEF Types, RunTypes, Labels, Cleared,
    Go, world, files, Quiet, Still

\* A run is entered again at its stage, or at the one a failed attempt is to
\* resume at; a commit point met meanwhile is journaled.
LEMMA ResumeIs ==
  ASSUME Types, CopyOK, Resume
  PROVE  /\ RunTypes' /\ CopyOK'
         /\ UNCHANGED <<ref, stack, wt, dirty, seen, rec, pins, sw, tried,
           was>>
         /\ pc = "resume" /\ pc' = "run"
         /\ j'.stage = Reached(j) /\ RowsKept /\ HoldersKept /\ FollowKept
         /\ j'.commit <=> j.commit \/ Committed(m)
<1> DEFINE y == IF m.stage = "failed" THEN SetStage(m, m.resume) ELSE m
<1>1. j \in State /\ m \in State
  BY DEF Types, RunTypes
<1>2. pc # "idle"
  BY DEF Resume
<1>3. m.resume \in StageSet
  BY <1>1 DEF State
<1>4. /\ y \in State
      /\ y.on = m.on /\ y.row = m.row /\ y.h = m.h /\ y.commit = m.commit
      /\ y.proof = m.proof /\ y.before = m.before /\ y.clear = m.clear
      /\ y.restore = m.restore /\ y.defer = m.defer /\ y.post = m.post
      /\ y.stage = IF m.stage = "failed" THEN m.resume ELSE m.stage
  BY <1>1, <1>3, StageIs
<1>5. j' = Proven(y) /\ m' = Proven(y)
  BY DEF Resume, Save
<1> HIDE DEF y
<1>6. j' \in State /\ m' \in State
  BY <1>4, <1>5, ProvenIs
<1>7. CopyOK'
  BY <1>5 DEF CopyOK, Alike
<1>8. /\ j'.stage = Reached(j) /\ RowsKept /\ HoldersKept /\ FollowKept
      /\ (j'.commit <=> j.commit \/ Committed(m))
  <2>1. Committed(y) <=> Committed(m)
    BY <1>4 DEF Committed
  <2> QED
    BY <1>2, <1>4, <1>5, <2>1, Copies, ProvenIs DEF Reached, RowsKept, HoldersKept,
      FollowKept, Committed
<1> QED
  BY <1>6, <1>7, <1>8 DEF Types, RunTypes, Labels, Resume, Go, Still, world, files,
    Quiet

\* The scratch worktree is created, then the stage entered that pins the old
\* tips.
LEMMA PreflightIs ==
  ASSUME Types, CopyOK, Preflight
  PROVE  /\ RunTypes' /\ CopyOK'
         /\ UNCHANGED <<ref, stack, wt, dirty, seen, rec, pins, sw, tried,
           was>>
         /\ pc = "run" /\ UNCHANGED pc /\ j.stage = "preflight"
         /\ JournalKept \/ Entered("pinning-preimages")
<1> DEFINE y == [m EXCEPT !.context = TRUE]
<1>1. j \in State /\ m \in State
  BY DEF Types, RunTypes
<1>2. pc # "idle"
  BY DEF Preflight, Doing
<1>3. /\ y \in State
      /\ SameAs(y, m)
  BY <1>1 DEF State, SameAs
<1>4. \/ UNCHANGED <<j, m>>
      \/ j' = SetStage(y, "pinning-preimages") /\ m' = SetStage(y, "pinning-preimages")
  BY DEF Preflight, Save
<1> HIDE DEF y
<1>5. /\ "pinning-preimages" \in StageSet /\ "pinning-preimages" \notin Terminalish
  BY DEF StageSet, Terminalish
<1>6. j' \in State /\ m' \in State
  BY <1>1, <1>3, <1>4, <1>5, StageIs
<1>7. CopyOK'
  BY <1>2, <1>4 DEF CopyOK, Alike
<1>8. /\ JournalKept \/ Entered("pinning-preimages")
  BY <1>1, <1>2, <1>3, <1>4, <1>5, Copies, StageIs DEF SameAs, JournalKept, Entered,
    StageKept, RowsKept, HoldersKept, CommitKept, FollowKept
<1> QED
  BY <1>1, <1>2, <1>4, <1>6, <1>7, <1>8, Copies DEF Types, RunTypes, Labels, Preflight,
    Doing, world, Quiet

\* The replay starts only after every old tip is pinned.
LEMMA PinPreimagesIs ==
  ASSUME Types, CopyOK, PinPreimages
  PROVE  /\ RunTypes' /\ CopyOK'
         /\ UNCHANGED <<ref, stack, wt, dirty, seen, rec, sw, tried, was>>
         /\ pc = "run" /\ UNCHANGED pc /\ j.stage = "pinning-preimages"
         /\ pins \subseteq pins' /\ pins' \subseteq pins \cup (Rows \X {"old"})
         /\ JournalKept \/ (Rows \X {"old"} \subseteq pins /\ Entered("computing"))
<1>1. j \in State /\ m \in State
  BY DEF Types, RunTypes
<1>2. pc # "idle"
  BY DEF PinPreimages, Doing
<1>3. \/ UNCHANGED <<j, m>>
      \/ Rows \X {"old"} \subseteq pins /\ j' = SetStage(m, "computing") /\ m' = SetStage(m, "computing")
  BY DEF PinPreimages, Save, Enter
<1>4. /\ "computing" \in StageSet /\ "computing" \notin Terminalish
  BY DEF StageSet, Terminalish
<1>5. j' \in State /\ m' \in State
  BY <1>1, <1>3, <1>4, StageIs
<1>6. CopyOK'
  BY <1>2, <1>3 DEF CopyOK, Alike
<1>7. /\ JournalKept \/ (Rows \X {"old"} \subseteq pins /\ Entered("computing"))
  BY <1>1, <1>2, <1>3, <1>4, Copies, StageIs DEF JournalKept, Entered, StageKept,
    RowsKept, HoldersKept, CommitKept, FollowKept
<1> QED
  BY <1>1, <1>2, <1>3, <1>5, <1>6, <1>7, Copies DEF Types, RunTypes, Labels,
    PinPreimages, Doing, world, Quiet

\* A row is replayed, or its changed inputs fail the run.
LEMMA ReplayIs ==
  ASSUME Types, CopyOK, Replay
  PROVE  /\ RunTypes' /\ CopyOK'
         /\ UNCHANGED <<ref, stack, wt, dirty, seen, rec, pins, sw, tried,
           was>>
         /\ pc = "run" /\ j.stage = "computing"
         /\ \/ UNCHANGED pc /\ JournalKept
            \/ pc' = "idle" /\ Entered("failed") /\ j'.resume = "computing"
<1> DEFINE z == [m EXCEPT !.stage = "failed", !.resume = "computing"]
<1>1. j \in State /\ m \in State
  BY DEF Types, RunTypes
<1>2. pc # "idle"
  BY DEF Replay, Doing, Computing
<1>3. /\ z \in State
      /\ z.on = m.on /\ z.row = m.row /\ z.h = m.h /\ z.commit = m.commit
      /\ z.proof = m.proof /\ z.before = m.before /\ z.clear = m.clear
      /\ z.restore = m.restore /\ z.defer = m.defer
      /\ z.stage = "failed"
      /\ z.resume = "computing"
  BY <1>1 DEF State, StageSet
<1>4. \/ UNCHANGED <<j, m, pc>>
      \/ pc' = "idle" /\ j' = z /\ m' = z
  BY DEF Replay, Fail, Save, Exit
<1> HIDE DEF z
<1>5. j' \in State /\ m' \in State
  BY <1>1, <1>3, <1>4
<1>6. CopyOK'
  BY <1>2, <1>4 DEF CopyOK, Alike
<1>7. /\ \/ UNCHANGED pc /\ JournalKept
         \/ pc' = "idle" /\ Entered("failed") /\ j'.resume = "computing"
  BY <1>1, <1>2, <1>3, <1>4, Copies DEF JournalKept, Entered, StageKept, RowsKept,
    HoldersKept, CommitKept, FollowKept
<1> QED
  BY <1>1, <1>2, <1>4, <1>5, <1>6, <1>7, Copies DEF Types, RunTypes, Labels, Replay,
    Doing, Computing, Exit, world, Quiet

\* The tip a replay produced is journaled for the current row.
LEMMA RecordTipIs ==
  ASSUME Types, CopyOK, RecordTip
  PROVE  /\ RunTypes' /\ CopyOK'
         /\ UNCHANGED <<ref, stack, wt, dirty, seen, rec, pins, sw, tried,
           was>>
         /\ pc = "run" /\ UNCHANGED pc /\ RowTo("computed") /\ StageKept
<1> DEFINE y == [m EXCEPT !.row[Current] = "computed"]
<1>1. j \in State /\ m \in State
  BY DEF Types, RunTypes
<1>2. pc # "idle"
  BY DEF RecordTip, Doing, Computing
<1>3. /\ y \in State
      /\ y.on = m.on /\ y.stage = m.stage /\ y.resume = m.resume /\ y.h = m.h
      /\ y.commit = m.commit /\ y.proof = m.proof /\ y.before = m.before
      /\ y.clear = m.clear /\ y.restore = m.restore /\ y.defer = m.defer
      /\ y.row = [m.row EXCEPT ![Current] = "computed"]
  BY <1>1 DEF State, Outcomes
<1>4. j' = y /\ m' = y
  BY DEF RecordTip, SetRow, Save
<1> HIDE DEF y
<1>5. j' \in State /\ m' \in State
  BY <1>1, <1>3, <1>4
<1>6. CopyOK'
  BY <1>2, <1>4 DEF CopyOK, Alike
<1>7. /\ RowTo("computed") /\ StageKept
  BY <1>1, <1>2, <1>3, <1>4, Copies DEF RowTo, StageKept, RowsKept, HoldersKept,
    CommitKept, FollowKept
<1> QED
  BY <1>1, <1>2, <1>4, <1>5, <1>6, <1>7, Copies DEF Types, RunTypes, Labels, RecordTip,
    Doing, Computing, world, Quiet

\* The marker that tells a finished rebase from a cancelled one is left in the
\* scratch worktree.
LEMMA MarkConflictIs ==
  ASSUME Types, CopyOK, MarkConflict
  PROVE  /\ RunTypes' /\ CopyOK'
         /\ UNCHANGED <<ref, stack, wt, dirty, seen, rec, pins, sw, tried,
           was>>
         /\ pc = "run" /\ UNCHANGED pc /\ JournalKept
<1>1. pc # "idle" /\ UNCHANGED <<j, m, sw, tried>>
  BY DEF MarkConflict, Doing, Computing, Quiet
<1>2. pc' \in Labels
  BY <1>1 DEF MarkConflict, Types, RunTypes, Labels
<1>3. RunTypes' /\ CopyOK' /\ JournalKept
  BY <1>1, <1>2, Untouched
<1> QED
  BY <1>1, <1>3, Copies DEF MarkConflict, Doing, Computing, world, Quiet

\* The run is saved as paused before the command exits.
LEMMA PauseConflictIs ==
  ASSUME Types, CopyOK, PauseConflict
  PROVE  /\ RunTypes' /\ CopyOK'
         /\ UNCHANGED <<ref, stack, wt, dirty, seen, rec, pins, sw, tried,
           was>>
         /\ pc = "run" /\ pc' = "idle" /\ j.stage = "computing" /\ Entered("conflict-paused")
<1>1. j \in State /\ m \in State
  BY DEF Types, RunTypes
<1>2. pc # "idle"
  BY DEF PauseConflict, Doing, Computing
<1>3. j' = SetStage(m, "conflict-paused") /\ m' = SetStage(m, "conflict-paused")
  BY DEF PauseConflict, Save, Enter
<1>4. /\ "conflict-paused" \in StageSet /\ "conflict-paused" \notin Terminalish
  BY DEF StageSet, Terminalish
<1>5. j' \in State /\ m' \in State
  BY <1>1, <1>3, <1>4, StageIs
<1>6. CopyOK'
  BY <1>2, <1>3 DEF CopyOK, Alike
<1>7. /\ Entered("conflict-paused")
  BY <1>1, <1>2, <1>3, <1>4, Copies, StageIs DEF Entered, StageKept, RowsKept,
    HoldersKept, CommitKept, FollowKept
<1> QED
  BY <1>1, <1>2, <1>3, <1>5, <1>6, <1>7, Copies DEF Types, RunTypes, Labels,
    PauseConflict, Doing, Computing, Exit, world, files, Quiet, Still

\* A finished rebase gives the row its tip; anything else leaves the run
\* paused.
LEMMA ResumeConflictIs ==
  ASSUME Types, CopyOK, ResumeConflict
  PROVE  /\ RunTypes' /\ CopyOK'
         /\ UNCHANGED <<ref, stack, wt, dirty, seen, rec, pins, sw, tried,
           was>>
         /\ pc = "run"
         /\ \/ UNCHANGED pc /\ RowTo("computed") /\ StageKept
            \/ pc' = "idle" /\ JournalKept
<1> DEFINE y == [m EXCEPT !.row[Current] = "computed"]
<1>1. j \in State /\ m \in State
  BY DEF Types, RunTypes
<1>2. pc # "idle"
  BY DEF ResumeConflict, Doing
<1>3. /\ y \in State
      /\ y.on = m.on /\ y.stage = m.stage /\ y.resume = m.resume /\ y.h = m.h
      /\ y.commit = m.commit /\ y.proof = m.proof /\ y.before = m.before
      /\ y.clear = m.clear /\ y.restore = m.restore /\ y.defer = m.defer
      /\ y.row = [m.row EXCEPT ![Current] = "computed"]
  BY <1>1 DEF State, Outcomes
<1>4. \/ UNCHANGED pc /\ j' = y /\ m' = y
      \/ pc' = "idle" /\ UNCHANGED <<j, m>>
  BY DEF ResumeConflict, SetRow, Save, Exit
<1> HIDE DEF y
<1>5. j' \in State /\ m' \in State
  BY <1>1, <1>3, <1>4
<1>6. CopyOK'
  BY <1>2, <1>4 DEF CopyOK, Alike
<1>7. /\ \/ UNCHANGED pc /\ RowTo("computed") /\ StageKept
         \/ pc' = "idle" /\ JournalKept
  BY <1>1, <1>2, <1>3, <1>4, Copies DEF JournalKept, RowTo, StageKept, RowsKept,
    HoldersKept, CommitKept, FollowKept
<1> QED
  BY <1>1, <1>2, <1>4, <1>5, <1>6, <1>7, Copies DEF Types, RunTypes, Labels,
    ResumeConflict, Doing, Exit, world, Quiet

\* A row is pinned in the repository before it is in the journal.
LEMMA PinTipIs ==
  ASSUME Types, CopyOK, PinTip
  PROVE  /\ RunTypes' /\ CopyOK'
         /\ UNCHANGED <<ref, stack, wt, dirty, seen, rec, sw, tried, was>>
         /\ pc = "run" /\ UNCHANGED pc
         /\ \/ JournalKept /\ pins' = pins \cup {<<Current, "new">>}
            \/ UNCHANGED pins /\ <<Current, "new">> \in pins /\ RowTo("pinned") /\ StageKept
<1> DEFINE y == [m EXCEPT !.row[Current] = "pinned"]
<1>1. j \in State /\ m \in State
  BY DEF Types, RunTypes
<1>2. pc # "idle"
  BY DEF PinTip, Advancing
<1>3. /\ y \in State
      /\ y.on = m.on /\ y.stage = m.stage /\ y.resume = m.resume /\ y.h = m.h
      /\ y.commit = m.commit /\ y.proof = m.proof /\ y.before = m.before
      /\ y.clear = m.clear /\ y.restore = m.restore /\ y.defer = m.defer
      /\ y.row = [m.row EXCEPT ![Current] = "pinned"]
  BY <1>1 DEF State, Outcomes
<1>4. \/ pins' = pins \cup {<<Current, "new">>} /\ UNCHANGED <<j, m>>
      \/ UNCHANGED pins /\ <<Current, "new">> \in pins /\ j' = y /\ m' = y
  BY DEF PinTip, SetRow, Save
<1> HIDE DEF y
<1>5. j' \in State /\ m' \in State
  BY <1>1, <1>3, <1>4
<1>6. CopyOK'
  BY <1>2, <1>4 DEF CopyOK, Alike
<1>7. /\ \/ JournalKept /\ pins' = pins \cup {<<Current, "new">>}
         \/ UNCHANGED pins /\ <<Current, "new">> \in pins /\ RowTo("pinned") /\ StageKept
  BY <1>1, <1>2, <1>3, <1>4, Copies DEF JournalKept, RowTo, StageKept, RowsKept,
    HoldersKept, CommitKept, FollowKept
<1> QED
  BY <1>1, <1>2, <1>4, <1>5, <1>6, <1>7, Copies DEF Types, RunTypes, Labels, PinTip,
    Advancing, world, Quiet

\* A row is validated only with its pin, or the run fails.
LEMMA ValidateIs ==
  ASSUME Types, CopyOK, Validate
  PROVE  /\ RunTypes' /\ CopyOK'
         /\ UNCHANGED <<ref, stack, wt, dirty, seen, rec, pins, sw, tried,
           was>>
         /\ pc = "run" /\ j.stage \in {"computing", "conflict-paused"}
         /\ \/ UNCHANGED pc /\ <<Current, "new">> \in pins /\ RowTo("validated") /\ j'.stage = "computing"
            \/ pc' = "idle" /\ Entered("failed") /\ j'.resume = "computing"
<1> DEFINE y == [m EXCEPT !.row[Current] = "validated"]
           z == [m EXCEPT !.stage = "failed", !.resume = "computing"]
<1>1. j \in State /\ m \in State
  BY DEF Types, RunTypes
<1>2. pc # "idle"
  BY DEF Validate, Advancing
<1>3. /\ y \in State
      /\ y.on = m.on /\ y.stage = m.stage /\ y.resume = m.resume /\ y.h = m.h
      /\ y.commit = m.commit /\ y.proof = m.proof /\ y.before = m.before
      /\ y.clear = m.clear /\ y.restore = m.restore /\ y.defer = m.defer
      /\ y.row = [m.row EXCEPT ![Current] = "validated"]
  BY <1>1 DEF State, Outcomes
<1>4. /\ z \in State
      /\ z.on = m.on /\ z.row = m.row /\ z.h = m.h /\ z.commit = m.commit
      /\ z.proof = m.proof /\ z.before = m.before /\ z.clear = m.clear
      /\ z.restore = m.restore /\ z.defer = m.defer
      /\ z.stage = "failed"
      /\ z.resume = "computing"
  BY <1>1, <1>3 DEF State, StageSet
<1>5. \/ UNCHANGED pc /\ <<Current, "new">> \in pins /\ j' = SetStage(y, "computing") /\ m' = SetStage(y, "computing")
      \/ pc' = "idle" /\ j' = z /\ m' = z
  BY DEF Validate, Save, Fail, Exit, verifyComputedRowState
<1> HIDE DEF y, z
<1>6. /\ "computing" \in StageSet /\ "computing" \notin Terminalish
  BY DEF StageSet, Terminalish
<1>7. j' \in State /\ m' \in State
  BY <1>1, <1>3, <1>4, <1>5, <1>6, StageIs
<1>8. CopyOK'
  BY <1>2, <1>5 DEF CopyOK, Alike
<1>9. /\ \/ UNCHANGED pc /\ <<Current, "new">> \in pins /\ RowTo("validated") /\ j'.stage = "computing"
         \/ pc' = "idle" /\ Entered("failed") /\ j'.resume = "computing"
  BY <1>1, <1>2, <1>3, <1>4, <1>5, <1>6, Copies, StageIs DEF Entered, RowTo, StageKept,
    RowsKept, HoldersKept, CommitKept, FollowKept
<1> QED
  BY <1>1, <1>2, <1>5, <1>7, <1>8, <1>9, Copies DEF Types, RunTypes, Labels, Validate,
    Advancing, Exit, world, files, Quiet, Still

\* The image of stack.yaml is built once every row is validated.
LEMMA BuildPostImageIs ==
  ASSUME Types, CopyOK, BuildPostImage
  PROVE  /\ RunTypes' /\ CopyOK'
         /\ UNCHANGED <<ref, stack, wt, dirty, seen, rec, pins, sw, tried,
           was>>
         /\ pc = "run" /\ UNCHANGED pc /\ j.stage = "computing" /\ Entered("pinning-computed")
<1> DEFINE y == [m EXCEPT !.post = TRUE]
<1>1. j \in State /\ m \in State
  BY DEF Types, RunTypes
<1>2. pc # "idle"
  BY DEF BuildPostImage, Doing
<1>3. /\ y \in State
      /\ SameAs(y, m)
  BY <1>1 DEF State, SameAs
<1>4. j' = SetStage(y, "pinning-computed") /\ m' = SetStage(y, "pinning-computed")
  BY DEF BuildPostImage, Save
<1> HIDE DEF y
<1>5. /\ "pinning-computed" \in StageSet /\ "pinning-computed" \notin Terminalish
  BY DEF StageSet, Terminalish
<1>6. j' \in State /\ m' \in State
  BY <1>1, <1>3, <1>4, <1>5, StageIs
<1>7. CopyOK'
  BY <1>2, <1>4 DEF CopyOK, Alike
<1>8. /\ Entered("pinning-computed")
  BY <1>1, <1>2, <1>3, <1>4, <1>5, Copies, StageIs DEF SameAs, Entered, StageKept,
    RowsKept, HoldersKept, CommitKept, FollowKept
<1> QED
  BY <1>1, <1>2, <1>4, <1>6, <1>7, <1>8, Copies DEF Types, RunTypes, Labels,
    BuildPostImage, Doing, world, files, Quiet, Still

\* Every new tip is pinned before the follow-up record is written.
LEMMA PinComputedIs ==
  ASSUME Types, CopyOK, PinComputed
  PROVE  /\ RunTypes' /\ CopyOK'
         /\ UNCHANGED <<ref, stack, wt, dirty, seen, rec, sw, tried, was>>
         /\ pc = "run" /\ UNCHANGED pc /\ j.stage = "pinning-computed"
         /\ pins' = pins \cup (Rows \X {"new"}) /\ Entered("writing-remote-record")
<1>1. j \in State /\ m \in State
  BY DEF Types, RunTypes
<1>2. pc # "idle"
  BY DEF PinComputed, Doing
<1>3. j' = SetStage(m, "writing-remote-record") /\ m' = SetStage(m, "writing-remote-record")
  BY DEF PinComputed, Save, Enter
<1>4. /\ "writing-remote-record" \in StageSet /\ "writing-remote-record" \notin Terminalish
  BY DEF StageSet, Terminalish
<1>5. j' \in State /\ m' \in State
  BY <1>1, <1>3, <1>4, StageIs
<1>6. CopyOK'
  BY <1>2, <1>3 DEF CopyOK, Alike
<1>7. /\ Entered("writing-remote-record")
  BY <1>1, <1>2, <1>3, <1>4, Copies, StageIs DEF Entered, StageKept, RowsKept,
    HoldersKept, CommitKept, FollowKept
<1> QED
  BY <1>1, <1>2, <1>3, <1>5, <1>6, <1>7, Copies DEF Types, RunTypes, Labels,
    PinComputed, Doing, world, Quiet

\* The follow-up record names the rows with an upstream.
LEMMA WriteRecordIs ==
  ASSUME Types, CopyOK, WriteRecord
  PROVE  /\ RunTypes' /\ CopyOK'
         /\ UNCHANGED <<ref, stack, wt, dirty, seen, pins, sw, tried, was>>
         /\ pc = "run" /\ UNCHANGED pc /\ JournalKept /\ rec' = Followups
<1>1. pc # "idle" /\ UNCHANGED <<j, m, sw, tried>>
  BY DEF WriteRecord, Doing, Quiet
<1>2. pc' \in Labels
  BY <1>1 DEF WriteRecord, Types, RunTypes, Labels
<1>3. RunTypes' /\ CopyOK' /\ JournalKept
  BY <1>1, <1>2, Untouched
<1> QED
  BY <1>1, <1>3, Copies DEF WriteRecord, Doing, world, Quiet

\* The journal claims the record after it is written.
LEMMA SaveRecordIs ==
  ASSUME Types, CopyOK, SaveRecord
  PROVE  /\ RunTypes' /\ CopyOK'
         /\ UNCHANGED <<ref, stack, wt, dirty, seen, rec, pins, sw, tried,
           was>>
         /\ pc = "run" /\ UNCHANGED pc /\ rec = Followups /\ j.stage = "writing-remote-record"
         /\ j'.stage = "detaching-holders" /\ RowsKept /\ HoldersKept /\ CommitKept
         /\ j'.before = j.before /\ j'.clear = j.clear /\ j'.restore = j.restore
<1> DEFINE y == [m EXCEPT !.proof = TRUE, !.follow = Ours]
<1>1. j \in State /\ m \in State
  BY DEF Types, RunTypes
<1>2. pc # "idle"
  BY DEF SaveRecord, Doing
<1>3. /\ y \in State
      /\ y.on = m.on /\ y.stage = m.stage /\ y.resume = m.resume
      /\ y.row = m.row /\ y.h = m.h /\ y.commit = m.commit
      /\ y.before = m.before /\ y.clear = m.clear /\ y.restore = m.restore
      /\ y.defer = m.defer
  BY <1>1 DEF State, Ours
<1>4. j' = SetStage(y, "detaching-holders") /\ m' = SetStage(y, "detaching-holders")
  BY DEF SaveRecord, Save
<1> HIDE DEF y
<1>5. /\ "detaching-holders" \in StageSet /\ "detaching-holders" \notin Terminalish
  BY DEF StageSet, Terminalish
<1>6. j' \in State /\ m' \in State
  BY <1>1, <1>3, <1>4, <1>5, StageIs
<1>7. CopyOK'
  BY <1>2, <1>4 DEF CopyOK, Alike
<1>8. /\ j'.stage = "detaching-holders" /\ RowsKept /\ HoldersKept /\ CommitKept
      /\ j'.before = j.before /\ j'.clear = j.clear /\ j'.restore = j.restore
  BY <1>1, <1>2, <1>3, <1>4, <1>5, Copies, StageIs DEF StageKept, RowsKept, HoldersKept,
    CommitKept, FollowKept
<1> QED
  BY <1>1, <1>2, <1>4, <1>6, <1>7, <1>8, Copies DEF Types, RunTypes, Labels, SaveRecord,
    Doing, world, files, Quiet, Still

\* No holder is detached without the claim on the record.
LEMMA DetachingIs ==
  ASSUME Types, CopyOK, Detaching
  PROVE  /\ RunTypes' /\ CopyOK'
         /\ UNCHANGED <<ref, stack, wt, dirty, seen, rec, pins, sw, tried,
           was>>
         /\ pc = "run" /\ j.stage = "detaching-holders" /\ JournalKept /\ pc' \in {"detach", "idle"}
<1>1. pc # "idle" /\ UNCHANGED <<j, m, sw, tried>>
  BY DEF Detaching, Doing, Quiet, Still
<1>2. pc' \in Labels
  BY <1>1 DEF Detaching, Go, Exit, Types, RunTypes, Labels
<1>3. RunTypes' /\ CopyOK' /\ JournalKept
  BY <1>1, <1>2, Untouched
<1> QED
  BY <1>1, <1>3, Copies DEF Detaching, Doing, Go, Exit, world, files, Quiet, Still

\* Every ref is classified before the holders are detached again.
LEMMA ClassifyIs ==
  ASSUME Types, CopyOK, Classify
  PROVE  /\ RunTypes' /\ CopyOK'
         /\ UNCHANGED <<ref, stack, wt, dirty, seen, rec, pins, sw, tried>>
         /\ pc = "run" /\ j.stage = "committing-refs" /\ was' \in {was, ref}
         /\ \/ pc' \in {"idle", "detach"} /\ JournalKept
            \/ UNCHANGED pc /\ Entered("refs-committed")
<1>1. j \in State /\ m \in State
  BY DEF Types, RunTypes
<1>2. pc # "idle"
  BY DEF Classify, Doing
<1>3. \/ pc' \in {"idle", "detach"} /\ UNCHANGED <<j, m>>
      \/ UNCHANGED pc /\ j' = SetStage(m, "refs-committed") /\ m' = SetStage(m, "refs-committed")
  BY DEF Classify, Save, Enter, Exit, Go
<1>4. /\ "refs-committed" \in StageSet /\ "refs-committed" \notin Terminalish
  BY DEF StageSet, Terminalish
<1>5. j' \in State /\ m' \in State
  BY <1>1, <1>3, <1>4, StageIs
<1>6. CopyOK'
  BY <1>2, <1>3 DEF CopyOK, Alike
<1>7. /\ \/ pc' \in {"idle", "detach"} /\ JournalKept
         \/ UNCHANGED pc /\ Entered("refs-committed")
  BY <1>1, <1>2, <1>3, <1>4, Copies, StageIs DEF JournalKept, Entered, StageKept,
    RowsKept, HoldersKept, CommitKept, FollowKept
<1> QED
  BY <1>1, <1>2, <1>3, <1>5, <1>6, <1>7, Copies DEF Types, RunTypes, Labels, Classify,
    Doing, Go, Exit, world, files

\* The next holder to detach is journaled before its worktree is switched, and
\* only if that is on its branch; all others are recorded as they are found.
LEMMA DetachIntentIs ==
  ASSUME Types, CopyOK, DetachIntent
  PROVE  /\ RunTypes' /\ CopyOK'
         /\ UNCHANGED <<ref, stack, wt, dirty, seen, rec, pins, tried, was>>
         /\ pc \in {"detach", "redetach"} /\ sw = 0
         /\ StageKept /\ RowsKept /\ CommitKept /\ FollowKept
         /\ \/ /\ pc' = "idle" /\ sw' = 0
               /\ \A r \in Held : j'.h[r] = Found(j, r)
            \/ /\ UNCHANGED pc /\ sw' \in Held /\ wt[sw'] = "on"
               /\ \A r \in Held \ {sw'} : j'.h[r] = Found(j, r)
               /\ j'.h[sw'] = IF Found(j, sw') \in Back THEN "redetaching" ELSE "detaching"
<1> DEFINE r == First(ToDetach)
           x == Completed(m)
           p == IF x.h[r] \in Back THEN "redetaching" ELSE "detaching"
           y == [x EXCEPT !.h[r] = IF @ \in Back THEN "redetaching" ELSE "detaching",
                          !.to[r] = ref[r], !.why = @ \ {r}]
<1>1. m \in State /\ j \in State /\ pc # "idle"
  BY DEF Types, RunTypes, DetachIntent
<1>2. r \in Held
  <2>1. ToDetach \in SUBSET Held /\ ToDetach # {}
    BY DEF ToDetach, DetachIntent
  <2> QED BY <2>1, FirstIn
<1>3. \/ pc' = "idle" /\ j' = x /\ m' = x /\ sw' = sw
      \/ UNCHANGED pc /\ j' = y /\ m' = y /\ sw' = r /\ wt[r] = "on"
  BY DEF DetachIntent, Save, Exit
<1>4. \A s \in Held : x.h[s] = Found(j, s)
  BY <1>1, FoundIs
<1> HIDE DEF r
<1>5. /\ x \in State /\ x.on = m.on /\ x.stage = m.stage /\ x.resume = m.resume
      /\ x.row = m.row /\ x.commit = m.commit /\ x.proof = m.proof
      /\ x.before = m.before /\ x.clear = m.clear /\ x.restore = m.restore
  BY <1>1, CompletedIs
<1> HIDE DEF x
<1>6. p \in Positions /\ ref[r] \in Values
  BY <1>2, ReparentAssumption DEF Types, WorldTypes, Positions
<1>7. y = [x EXCEPT !.h[r] = p, !.to[r] = ref[r], !.why = x.why \ {r}]
  BY <1>2, <1>5 DEF State
<1> HIDE DEF p
<1>8. /\ y \in State /\ y.on = x.on /\ y.stage = x.stage /\ y.resume = x.resume
      /\ y.row = x.row /\ y.commit = x.commit /\ y.proof = x.proof
      /\ y.before = x.before /\ y.clear = x.clear /\ y.restore = x.restore
      /\ y.h = [x.h EXCEPT ![r] = p]
  <2> DEFINE h == [x.h EXCEPT ![r] = p]
             to == [x.to EXCEPT ![r] = ref[r]]
             why == x.why \ {r}
  <2>1. h \in [Held -> Positions] /\ to \in [Held -> Values] /\ why \in SUBSET Held
    BY <1>2, <1>5, <1>6 DEF State
  <2>2. y = [x EXCEPT !.h = h, !.to = to, !.why = why]
    BY <1>5, <1>7 DEF State
  <2> HIDE DEF h, to, why
  <2>3. LET z == [x EXCEPT !.h = h, !.to = to, !.why = why] IN
        /\ z \in State /\ z.on = x.on /\ z.stage = x.stage /\ z.resume = x.resume
        /\ z.row = x.row /\ z.commit = x.commit /\ z.proof = x.proof
        /\ z.before = x.before /\ z.clear = x.clear /\ z.restore = x.restore
        /\ z.h = h
    BY <1>5, <2>1 DEF State
  <2> QED BY <2>2, <2>3 DEF h
<1> HIDE DEF y
<1>9. m' \in State /\ j' \in State /\ CopyOK'
  BY <1>3, <1>5, <1>8 DEF CopyOK, Alike
<1>10. StageKept /\ RowsKept /\ CommitKept /\ FollowKept
  BY <1>1, <1>3, <1>5, <1>8, Copies DEF StageKept, RowsKept, CommitKept, FollowKept
<1>11. y.h[r] = p /\ \A s \in Held \ {r} : y.h[s] = Found(j, s)
  BY <1>2, <1>4, <1>5, <1>8 DEF State
<1>12. pc \in {"detach", "redetach"} /\ sw = 0 /\ UNCHANGED <<world, files, tried, was>>
  BY DEF DetachIntent
<1> QED
  BY <1>1, <1>2, <1>3, <1>4, <1>9, <1>10, <1>11, <1>12 DEF Types, RunTypes, Labels,
    world, files, p

\* The worktree of the announced switch, and no other, leaves its branch.
LEMMA SwitchOffIs ==
  ASSUME Types, CopyOK, SwitchOff
  PROVE  /\ RunTypes' /\ CopyOK'
         /\ UNCHANGED <<ref, stack, dirty, seen, rec, pins, sw, tried, was>>
         /\ pc \in {"detach", "redetach"} /\ UNCHANGED pc /\ sw # 0 /\ JournalKept
         /\ wt' = [wt EXCEPT ![sw] = "off"]
<1>1. pc # "idle" /\ UNCHANGED <<j, m, sw, tried>>
  BY DEF SwitchOff, Quiet
<1>2. pc' \in Labels
  BY <1>1 DEF SwitchOff, Types, RunTypes, Labels
<1>3. RunTypes' /\ CopyOK' /\ JournalKept
  BY <1>1, <1>2, Untouched
<1> QED
  BY <1>1, <1>3, Copies DEF SwitchOff, files, Quiet

\* A switch that was made is recorded.
LEMMA DetachDoneIs ==
  ASSUME Types, CopyOK, DetachDone
  PROVE  /\ RunTypes' /\ CopyOK'
         /\ UNCHANGED <<ref, stack, wt, dirty, seen, rec, pins, tried, was>>
         /\ pc \in {"detach", "redetach"} /\ UNCHANGED pc /\ sw \in Held /\ wt[sw] = "off" /\ sw' = 0
         /\ StageKept /\ RowsKept /\ CommitKept /\ FollowKept
         /\ j'.h = [j.h EXCEPT ![sw] = "detached"]
<1> DEFINE y == [m EXCEPT !.h[sw] = "detached"]
<1>1. j \in State /\ m \in State
  BY DEF Types, RunTypes
<1>2. pc # "idle"
  BY DEF DetachDone
<1>3. /\ y \in State
      /\ y.on = m.on /\ y.stage = m.stage /\ y.resume = m.resume
      /\ y.row = m.row /\ y.commit = m.commit /\ y.proof = m.proof
      /\ y.before = m.before /\ y.clear = m.clear /\ y.restore = m.restore
      /\ y.defer = m.defer
      /\ y.h = [m.h EXCEPT ![sw] = "detached"]
  BY <1>1 DEF State, Positions
<1>4. j' = y /\ m' = y
  BY DEF DetachDone, Save
<1> HIDE DEF y
<1>5. j' \in State /\ m' \in State
  BY <1>1, <1>3, <1>4
<1>6. CopyOK'
  BY <1>2, <1>4 DEF CopyOK, Alike
<1>7. /\ StageKept /\ RowsKept /\ CommitKept /\ FollowKept
      /\ j'.h = [j.h EXCEPT ![sw] = "detached"]
  BY <1>1, <1>2, <1>3, <1>4, Copies DEF StageKept, RowsKept, HoldersKept, CommitKept,
    FollowKept
<1> QED
  BY <1>1, <1>2, <1>4, <1>5, <1>6, <1>7, Copies DEF Types, RunTypes, Labels, DetachDone,
    world, files

\* The ref transaction is entered only with every holder detached and the
\* claim on the record still true.
LEMMA HoldersDetachedIs ==
  ASSUME Types, CopyOK, HoldersDetached
  PROVE  /\ RunTypes' /\ CopyOK'
         /\ UNCHANGED <<ref, stack, wt, dirty, seen, rec, pins, sw, tried,
           was>>
         /\ pc = "detach" /\ sw = 0 /\ \A r \in Held : wt[r] = "off"
         /\ \/ pc' = "run" /\ j.stage = "detaching-holders" /\ Entered("committing-refs")
            \/ j.stage # "detaching-holders" /\ pc' \in {"idle", "put-back"} /\ JournalKept
            \/ j.stage # "detaching-holders" /\ pc' = "cas" /\ j.proof /\ JournalKept
<1>1. j \in State /\ m \in State
  BY DEF Types, RunTypes
<1>2. pc # "idle"
  BY DEF HoldersDetached
<1>3. \/ pc' = "run" /\ m.stage = "detaching-holders" /\ j' = SetStage(m, "committing-refs") /\ m' = SetStage(m, "committing-refs")
      \/ m.stage # "detaching-holders" /\ pc' \in {"idle", "put-back"} /\ UNCHANGED <<j, m>>
      \/ m.stage # "detaching-holders" /\ pc' = "cas" /\ m.proof /\ UNCHANGED <<j, m>>
  BY DEF HoldersDetached, Save, Enter, Go, ProofHolds
<1>4. /\ "committing-refs" \in StageSet /\ "committing-refs" \notin Terminalish
  BY DEF StageSet, Terminalish
<1>5. j' \in State /\ m' \in State
  BY <1>1, <1>3, <1>4, StageIs
<1>6. CopyOK'
  BY <1>2, <1>3 DEF CopyOK, Alike
<1>7. /\ \/ pc' = "run" /\ j.stage = "detaching-holders" /\ Entered("committing-refs")
         \/ j.stage # "detaching-holders" /\ pc' \in {"idle", "put-back"} /\ JournalKept
         \/ j.stage # "detaching-holders" /\ pc' = "cas" /\ j.proof /\ JournalKept
  BY <1>1, <1>2, <1>3, <1>4, Copies, StageIs DEF JournalKept, Entered, StageKept,
    RowsKept, HoldersKept, CommitKept, FollowKept
<1> QED
  BY <1>1, <1>2, <1>3, <1>5, <1>6, <1>7, Copies DEF Types, RunTypes, Labels,
    HoldersDetached, Go, world, files, Quiet, Still, ToDetach, WorldTypes

\* The transaction moves every row or none.
LEMMA CasIs ==
  ASSUME Types, CopyOK, Cas
  PROVE  /\ RunTypes' /\ CopyOK'
         /\ UNCHANGED <<stack, wt, dirty, seen, rec, pins, sw, tried, was>>
         /\ pc = "cas" /\ JournalKept
         /\ \/ pc' = "fail-back" /\ UNCHANGED ref
            \/ pc' = "cas-done" /\ ref' = [r \in Rows |-> IF ref[r] = "pre" THEN "new" ELSE ref[r]]
<1>1. pc # "idle" /\ UNCHANGED <<j, m, sw, tried>>
  BY DEF Cas
<1>2. pc' \in Labels
  BY <1>1 DEF Cas, Go, Types, RunTypes, Labels
<1>3. RunTypes' /\ CopyOK' /\ JournalKept
  BY <1>1, <1>2, Untouched
<1> QED
  BY <1>1, <1>3, Copies DEF Cas, Go, files

\* A killed transaction has moved any of the rows, in its own direction.
LEMMA KilledCasIs ==
  ASSUME Types, CopyOK, KilledCas
  PROVE  /\ RunTypes' /\ CopyOK'
         /\ UNCHANGED <<stack, wt, dirty, seen, rec, pins, was>>
         /\ pc \in {"cas", "cas-back"} /\ pc' = "idle" /\ sw' = 0 /\ tried' = {} /\ JournalKept /\ ref = was
         /\ \E S \in SUBSET Rows :
              ref' = [r \in Rows |->
                IF r \in S /\ ref[r] \in {"pre", "new"}
                THEN IF pc = "cas" THEN "new" ELSE "pre" ELSE ref[r]]
<1>1. j \in State /\ pc # "idle"
  BY DEF Types, RunTypes, KilledCas
<1>2. m' = j /\ j' = j /\ pc' = "idle" /\ sw' = 0 /\ tried' = {}
  BY DEF KilledCas, Exit
<1>3. RunTypes' /\ CopyOK' /\ JournalKept
  BY <1>1, <1>2 DEF RunTypes, Labels, CopyOK, Alike, JournalKept, StageKept, RowsKept,
    HoldersKept, CommitKept, FollowKept
<1> QED
  BY <1>1, <1>2, <1>3 DEF KilledCas, files

\* The journal records the transaction after it is made.
LEMMA SaveCasIs ==
  ASSUME Types, CopyOK, SaveCas
  PROVE  /\ RunTypes' /\ CopyOK'
         /\ UNCHANGED <<ref, stack, wt, dirty, seen, rec, pins, sw, tried,
           was>>
         /\ pc = "cas-done" /\ pc' = "run" /\ j'.stage = "refs-committed" /\ j'.on = j.on
         /\ HoldersKept /\ CommitKept /\ FollowKept /\ j'.row = [r \in Rows |-> "committed"]
<1> DEFINE y == [m EXCEPT !.row = [r \in Rows |-> "committed"], !.cas = TRUE]
<1>1. j \in State /\ m \in State
  BY DEF Types, RunTypes
<1>2. pc # "idle"
  BY DEF SaveCas
<1>3. /\ y \in State
      /\ y.on = m.on /\ y.stage = m.stage /\ y.resume = m.resume /\ y.h = m.h
      /\ y.commit = m.commit /\ y.proof = m.proof /\ y.before = m.before
      /\ y.clear = m.clear /\ y.restore = m.restore /\ y.defer = m.defer
      /\ y.row = [r \in Rows |-> "committed"]
  BY <1>1 DEF State, Outcomes
<1>4. j' = SetStage(y, "refs-committed") /\ m' = SetStage(y, "refs-committed")
  BY DEF SaveCas, Save
<1> HIDE DEF y
<1>5. /\ "refs-committed" \in StageSet /\ "refs-committed" \notin Terminalish
  BY DEF StageSet, Terminalish
<1>6. j' \in State /\ m' \in State
  BY <1>1, <1>3, <1>4, <1>5, StageIs
<1>7. CopyOK'
  BY <1>2, <1>4 DEF CopyOK, Alike
<1>8. /\ j'.stage = "refs-committed" /\ j'.on = j.on /\ HoldersKept /\ CommitKept
      /\ FollowKept /\ j'.row = [r \in Rows |-> "committed"]
  BY <1>1, <1>2, <1>3, <1>4, <1>5, Copies, StageIs DEF StageKept, RowsKept, HoldersKept,
    CommitKept, FollowKept
<1> QED
  BY <1>1, <1>2, <1>4, <1>6, <1>7, <1>8, Copies DEF Types, RunTypes, Labels, SaveCas,
    Go, world, files, Quiet, Still

\* The run goes on to stack.yaml, or back to the transaction.
LEMMA RefsCommittedIs ==
  ASSUME Types, CopyOK, RefsCommitted
  PROVE  /\ RunTypes' /\ CopyOK'
         /\ UNCHANGED <<ref, stack, wt, dirty, seen, rec, pins, sw, tried,
           was>>
         /\ pc = "run" /\ j.stage = "refs-committed"
         /\ \/ pc' = "idle" /\ JournalKept
            \/ UNCHANGED pc /\ (Entered("committing-refs") \/ Entered("writing-metadata"))
<1>1. j \in State /\ m \in State
  BY DEF Types, RunTypes
<1>2. pc # "idle"
  BY DEF RefsCommitted, Doing
<1>3. \/ pc' = "idle" /\ UNCHANGED <<j, m>>
      \/ UNCHANGED pc /\ j' = SetStage(m, "committing-refs") /\ m' = SetStage(m, "committing-refs")
      \/ UNCHANGED pc /\ j' = SetStage(m, "writing-metadata") /\ m' = SetStage(m, "writing-metadata")
  BY DEF RefsCommitted, Save, Enter, Exit
<1>4. /\ "committing-refs" \in StageSet /\ "committing-refs" \notin Terminalish
      /\ "writing-metadata" \in StageSet /\ "writing-metadata" \notin Terminalish
  BY DEF StageSet, Terminalish
<1>5. j' \in State /\ m' \in State
  BY <1>1, <1>3, <1>4, StageIs
<1>6. CopyOK'
  BY <1>2, <1>3 DEF CopyOK, Alike
<1>7. /\ \/ pc' = "idle" /\ JournalKept
         \/ UNCHANGED pc /\ (Entered("committing-refs") \/ Entered("writing-metadata"))
  BY <1>1, <1>2, <1>3, <1>4, Copies, StageIs DEF JournalKept, Entered, StageKept,
    RowsKept, HoldersKept, CommitKept, FollowKept
<1> QED
  BY <1>1, <1>2, <1>3, <1>5, <1>6, <1>7, Copies DEF Types, RunTypes, Labels,
    RefsCommitted, Doing, Exit, world, files, Quiet, Still

\* stack.yaml is written only when no row is left at its old tip or anywhere
\* else.
LEMMA WriteMetadataIs ==
  ASSUME Types, CopyOK, WriteMetadata
  PROVE  /\ RunTypes' /\ CopyOK'
         /\ UNCHANGED <<ref, wt, dirty, seen, rec, pins, sw, tried, was>>
         /\ pc = "run" /\ j.stage = "writing-metadata"
         /\ \/ pc' = "idle" /\ JournalKept /\ UNCHANGED stack
            \/ UNCHANGED <<pc, stack>> /\ Entered("committing-refs")
            \/ pc' = "written" /\ JournalKept /\ stack' = "after"
<1>1. j \in State /\ m \in State
  BY DEF Types, RunTypes
<1>2. pc # "idle"
  BY DEF WriteMetadata, Doing
<1>3. \/ pc' = "idle" /\ UNCHANGED <<stack, j, m>>
      \/ UNCHANGED <<pc, stack>> /\ j' = SetStage(m, "committing-refs") /\ m' = SetStage(m, "committing-refs")
      \/ pc' = "written" /\ stack' = "after" /\ UNCHANGED <<j, m>>
  BY DEF WriteMetadata, Save, Enter, Exit, Go
<1>4. /\ "committing-refs" \in StageSet /\ "committing-refs" \notin Terminalish
  BY DEF StageSet, Terminalish
<1>5. j' \in State /\ m' \in State
  BY <1>1, <1>3, <1>4, StageIs
<1>6. CopyOK'
  BY <1>2, <1>3 DEF CopyOK, Alike
<1>7. /\ \/ pc' = "idle" /\ JournalKept /\ UNCHANGED stack
         \/ UNCHANGED <<pc, stack>> /\ Entered("committing-refs")
         \/ pc' = "written" /\ JournalKept /\ stack' = "after"
  BY <1>1, <1>2, <1>3, <1>4, Copies, StageIs DEF JournalKept, Entered, StageKept,
    RowsKept, HoldersKept, CommitKept, FollowKept
<1> QED
  BY <1>1, <1>2, <1>3, <1>5, <1>6, <1>7, Copies DEF Types, RunTypes, Labels,
    WriteMetadata, Doing, Go, Exit, files, Quiet

\* The journal records stack.yaml after it is written.
LEMMA MetadataWrittenIs ==
  ASSUME Types, CopyOK, MetadataWritten
  PROVE  /\ RunTypes' /\ CopyOK'
         /\ UNCHANGED <<ref, stack, wt, dirty, seen, rec, pins, sw, tried,
           was>>
         /\ pc = "written" /\ pc' = "run" /\ Entered("metadata-written")
<1> DEFINE y == [m EXCEPT !.after = TRUE]
<1>1. j \in State /\ m \in State
  BY DEF Types, RunTypes
<1>2. pc # "idle"
  BY DEF MetadataWritten
<1>3. /\ y \in State
      /\ SameAs(y, m)
  BY <1>1 DEF State, SameAs
<1>4. j' = SetStage(y, "metadata-written") /\ m' = SetStage(y, "metadata-written")
  BY DEF MetadataWritten, Save
<1> HIDE DEF y
<1>5. /\ "metadata-written" \in StageSet /\ "metadata-written" \notin Terminalish
  BY DEF StageSet, Terminalish
<1>6. j' \in State /\ m' \in State
  BY <1>1, <1>3, <1>4, <1>5, StageIs
<1>7. CopyOK'
  BY <1>2, <1>4 DEF CopyOK, Alike
<1>8. /\ Entered("metadata-written")
  BY <1>1, <1>2, <1>3, <1>4, <1>5, Copies, StageIs DEF SameAs, Entered, StageKept,
    RowsKept, HoldersKept, CommitKept, FollowKept
<1> QED
  BY <1>1, <1>2, <1>4, <1>6, <1>7, <1>8, Copies DEF Types, RunTypes, Labels,
    MetadataWritten, Go, world, files, Quiet, Still

\* The commit point is journaled only where the repository shows it.
LEMMA CommitPointIs ==
  ASSUME Types, CopyOK, CommitPoint
  PROVE  /\ RunTypes' /\ CopyOK'
         /\ UNCHANGED <<ref, stack, wt, dirty, seen, rec, pins, sw, tried,
           was>>
         /\ pc = "run" /\ j.stage = "metadata-written"
         /\ \/ /\ UNCHANGED pc /\ j'.stage = "restoring-holders" /\ RowsKept /\ HoldersKept /\ FollowKept
               /\ j'.commit /\ Committed(m)
            \/ pc' = "idle" /\ JournalKept
            \/ UNCHANGED pc /\ Entered("committing-refs")
<1>1. j \in State /\ m \in State
  BY DEF Types, RunTypes
<1>2. pc # "idle"
  BY DEF CommitPoint, Doing
<1>3. \/ Committed(m) /\ UNCHANGED pc /\ j' = SetStage(Proven(m), "restoring-holders") /\ m' = SetStage(Proven(m), "restoring-holders")
      \/ pc' = "idle" /\ UNCHANGED <<j, m>>
      \/ UNCHANGED pc /\ j' = SetStage(m, "committing-refs") /\ m' = SetStage(m, "committing-refs")
  BY DEF CommitPoint, Save, Enter, Exit
<1>4. /\ "restoring-holders" \in StageSet /\ "restoring-holders" \notin Terminalish
      /\ "committing-refs" \in StageSet /\ "committing-refs" \notin Terminalish
  BY DEF StageSet, Terminalish
<1>5. j' \in State /\ m' \in State
  BY <1>1, <1>3, <1>4, StageIs, ProvenIs
<1>6. CopyOK'
  BY <1>2, <1>3 DEF CopyOK, Alike
<1>7. /\ \/ /\ UNCHANGED pc /\ j'.stage = "restoring-holders" /\ RowsKept /\ HoldersKept /\ FollowKept
            /\ j'.commit /\ Committed(m)
         \/ pc' = "idle" /\ JournalKept
         \/ UNCHANGED pc /\ Entered("committing-refs")
  BY <1>1, <1>2, <1>3, <1>4, Copies, StageIs, ProvenIs DEF JournalKept, Entered,
    StageKept, RowsKept, HoldersKept, CommitKept, FollowKept
<1> QED
  BY <1>1, <1>2, <1>3, <1>5, <1>6, <1>7, Copies DEF Types, RunTypes, Labels,
    CommitPoint, Doing, Exit, world, files, Quiet, Still

\* The worktrees are to be put back with no holder deferred yet.
LEMMA StartRestoringIs ==
  ASSUME Types, CopyOK, StartRestoring
  PROVE  /\ RunTypes' /\ CopyOK'
         /\ UNCHANGED <<ref, stack, wt, dirty, seen, rec, pins, sw, was>>
         /\ pc = "run" /\ j.stage = "restoring-holders" /\ JournalKept /\ tried' = {}
         /\ pc' \in {"restore", "idle"}
<1> DEFINE y == [m EXCEPT !.defer = {}]
<1>1. j \in State /\ m \in State /\ pc # "idle"
  BY DEF Types, RunTypes, StartRestoring, Doing
<1>2. y \in State /\ SameAs([y EXCEPT !.defer = m.defer], m)
  BY <1>1 DEF State, SameAs
<1>3. j' = j /\ (m' = m \/ m' = y)
  BY DEF StartRestoring
<1>4. Alike(m, j)
  BY <1>1 DEF CopyOK
<1>5. Alike(y, j)
  BY <1>1, <1>4 DEF Alike
<1> HIDE DEF y
<1>6. m' \in State /\ j' \in State /\ CopyOK' /\ JournalKept
  BY <1>1, <1>2, <1>3, <1>4, <1>5 DEF CopyOK, Alike, JournalKept, StageKept, RowsKept,
    HoldersKept, CommitKept, FollowKept
<1> QED
  BY <1>1, <1>6, Copies DEF Types, RunTypes, Labels, StartRestoring, Go, Exit, Doing,
    world, files, Quiet, Still

\* The next holder to restore is journaled before its worktree is switched.
LEMMA RestoreIntentIs ==
  ASSUME Types, CopyOK, RestoreIntent
  PROVE  /\ RunTypes' /\ CopyOK'
         /\ UNCHANGED <<ref, stack, wt, dirty, seen, rec, pins, tried, was>>
         /\ Restoring /\ UNCHANGED pc /\ sw = 0 /\ m'.defer = m.defer
         /\ StageKept /\ RowsKept /\ CommitKept /\ FollowKept
         /\ \/ sw' = 0 /\ \A r \in Held : j'.h[r] = Found(j, r)
            \/ /\ sw' \in Held /\ j.h[sw'] \notin Back \cup {"none"} /\ j'.h[sw'] = "restoring"
               /\ \A r \in Held \ {sw'} : j'.h[r] = Found(j, r)
<1> DEFINE r == First(ToRestore)
           x == Completed(m)
           y == [x EXCEPT !.h[r] = "restoring", !.to[r] = ref[r]]
<1>1. m \in State /\ j \in State /\ pc # "idle"
  BY DEF Types, RunTypes, RestoreIntent, Restoring
<1>2. r \in Held /\ j.h[r] \notin Back \cup {"none"}
  <2>1. ToRestore \in SUBSET Held /\ ToRestore # {}
    BY DEF ToRestore, RestoreIntent
  <2> QED BY <1>1, <2>1, FirstIn, Copies DEF ToRestore
<1>3. \/ j' = x /\ m' = x /\ sw' = sw
      \/ j' = y /\ m' = y /\ sw' = r
  BY DEF RestoreIntent, Save
<1>4. \A s \in Held : x.h[s] = Found(j, s)
  BY <1>1, FoundIs
<1> HIDE DEF r
<1>5. /\ x \in State /\ x.on = m.on /\ x.stage = m.stage /\ x.resume = m.resume
      /\ x.row = m.row /\ x.commit = m.commit /\ x.proof = m.proof
      /\ x.before = m.before /\ x.clear = m.clear /\ x.restore = m.restore
      /\ x.defer = m.defer
  BY <1>1, CompletedIs
<1> HIDE DEF x
<1>6. ref[r] \in Values
  BY <1>2, ReparentAssumption DEF Types, WorldTypes
<1>7. /\ y \in State /\ y.on = x.on /\ y.stage = x.stage /\ y.resume = x.resume
      /\ y.row = x.row /\ y.commit = x.commit /\ y.proof = x.proof
      /\ y.before = x.before /\ y.clear = x.clear /\ y.restore = x.restore
      /\ y.defer = x.defer /\ y.h = [x.h EXCEPT ![r] = "restoring"]
  BY <1>2, <1>5, <1>6 DEF State, Positions
<1> HIDE DEF y
<1>8. m' \in State /\ j' \in State /\ CopyOK'
  BY <1>3, <1>5, <1>7 DEF CopyOK, Alike
<1>9. StageKept /\ RowsKept /\ CommitKept /\ FollowKept /\ m'.defer = m.defer
  BY <1>1, <1>3, <1>5, <1>7, Copies DEF StageKept, RowsKept, CommitKept, FollowKept
<1>10. y.h[r] = "restoring" /\ \A s \in Held \ {r} : y.h[s] = Found(j, s)
  BY <1>2, <1>4, <1>5, <1>7 DEF State
<1>11. Restoring /\ sw = 0 /\ UNCHANGED <<world, files, pc, tried, was>>
  BY DEF RestoreIntent
<1> QED
  BY <1>1, <1>2, <1>3, <1>4, <1>8, <1>9, <1>10, <1>11 DEF Types, RunTypes, world, files

\* The worktree of the announced switch, and no other, returns to its branch.
LEMMA SwitchOnIs ==
  ASSUME Types, CopyOK, SwitchOn
  PROVE  /\ RunTypes' /\ CopyOK'
         /\ UNCHANGED <<ref, stack, dirty, seen, rec, pins, sw, tried, was>>
         /\ Restoring /\ UNCHANGED pc /\ sw # 0 /\ JournalKept /\ m'.defer = m.defer
         /\ wt' = [wt EXCEPT ![sw] = "on"]
<1>1. pc # "idle" /\ UNCHANGED <<j, m, sw, tried>>
  BY DEF SwitchOn, Restoring, Quiet
<1>2. pc' \in Labels
  BY <1>1 DEF SwitchOn, Types, RunTypes, Labels
<1>3. RunTypes' /\ CopyOK' /\ JournalKept
  BY <1>1, <1>2, Untouched
<1> QED
  BY <1>1, <1>3, Copies DEF SwitchOn, Restoring, files, Quiet

\* A holder is recorded as restored once its worktree is back.
LEMMA RestoreDoneIs ==
  ASSUME Types, CopyOK, RestoreDone
  PROVE  /\ RunTypes' /\ CopyOK'
         /\ UNCHANGED <<ref, stack, wt, dirty, seen, rec, pins, tried, was>>
         /\ Restoring /\ UNCHANGED pc /\ sw \in Held /\ wt[sw] = "on" /\ sw' = 0 /\ m'.defer = m.defer
         /\ StageKept /\ RowsKept /\ CommitKept /\ FollowKept
         /\ j'.h = [j.h EXCEPT ![sw] = "restored"]
<1> DEFINE y == [m EXCEPT !.h[sw] = "restored", !.why = @ \ {sw}]
<1>1. j \in State /\ m \in State
  BY DEF Types, RunTypes
<1>2. pc # "idle"
  BY DEF RestoreDone, Restoring
<1>3. /\ y \in State
      /\ y.on = m.on /\ y.stage = m.stage /\ y.resume = m.resume
      /\ y.row = m.row /\ y.commit = m.commit /\ y.proof = m.proof
      /\ y.before = m.before /\ y.clear = m.clear /\ y.restore = m.restore
      /\ y.defer = m.defer
      /\ y.h = [m.h EXCEPT ![sw] = "restored"]
  BY <1>1 DEF State, Positions
<1>4. j' = y /\ m' = y
  BY DEF RestoreDone, Save
<1> HIDE DEF y
<1>5. j' \in State /\ m' \in State
  BY <1>1, <1>3, <1>4
<1>6. CopyOK'
  BY <1>2, <1>4 DEF CopyOK, Alike
<1>7. /\ m'.defer = m.defer /\ StageKept /\ RowsKept /\ CommitKept /\ FollowKept
      /\ j'.h = [j.h EXCEPT ![sw] = "restored"]
  BY <1>1, <1>2, <1>3, <1>4, Copies DEF StageKept, RowsKept, HoldersKept, CommitKept,
    FollowKept
<1> QED
  BY <1>1, <1>2, <1>4, <1>5, <1>6, <1>7, Copies DEF Types, RunTypes, Labels,
    RestoreDone, Restoring, world, files

\* A holder that cannot be restored is given up for this attempt, and deferred
\* when the attempt is to say so.
LEMMA RestoreFailsIs ==
  ASSUME Types, CopyOK, RestoreFails
  PROVE  /\ RunTypes' /\ CopyOK'
         /\ UNCHANGED <<ref, stack, wt, dirty, seen, rec, pins, was>>
         /\ Restoring /\ UNCHANGED pc /\ sw' = 0 /\ JournalKept
         /\ \E r \in Held : tried' = tried \cup {r} /\ (pc = "restore" => m'.defer = m.defer \cup {r})
<1> DEFINE r == IF sw # 0 THEN sw ELSE First(ToRestore)
           x == [m EXCEPT !.why = @ \cup {r}, !.defer = IF pc = "restore" THEN @ \cup {r} ELSE @]
<1>1. m \in State /\ j \in State /\ pc # "idle" /\ Restoring
  BY DEF Types, RunTypes, RestoreFails, Restoring
<1>2. r \in Held
  <2>1. CASE sw = 0
    <3>1. ToRestore \in SUBSET Held /\ ToRestore # {}
      BY <2>1 DEF ToRestore, RestoreFails
    <3> QED BY <2>1, <3>1, FirstIn
  <2>2. CASE sw # 0
    BY <2>2 DEF Types, RunTypes
  <2> QED BY <2>1, <2>2
<1>3. m' = x /\ (j' = x \/ j' = j) /\ tried' = tried \cup {r} /\ sw' = 0
  BY DEF RestoreFails, Save
<1> HIDE DEF r
<1>4. /\ x \in State /\ SameAs([x EXCEPT !.defer = m.defer], m)
      /\ pc = "restore" => x.defer = m.defer \cup {r}
  BY <1>1, <1>2 DEF State, SameAs
<1>5. Alike(x, j) /\ Alike(x, x)
  <2>1. Alike(m, j)
    BY <1>1 DEF CopyOK
  <2> QED BY <1>1, <2>1 DEF Alike, State
<1> HIDE DEF x
<1>6. m' \in State /\ j' \in State /\ CopyOK' /\ JournalKept
  BY <1>1, <1>3, <1>4, <1>5 DEF CopyOK, Alike, JournalKept, StageKept, RowsKept,
    HoldersKept, CommitKept, FollowKept
<1>7. UNCHANGED <<world, files, pc, was>>
  BY DEF RestoreFails
<1> QED
  BY <1>1, <1>2, <1>3, <1>4, <1>6, <1>7 DEF Types, RunTypes, world, files

\* Cleanup follows only when no holder is left and none is deferred; a failed
\* attempt ends there.
LEMMA HoldersRestoredIs ==
  ASSUME Types, CopyOK, HoldersRestored
  PROVE  /\ RunTypes' /\ CopyOK'
         /\ UNCHANGED <<ref, stack, wt, dirty, seen, rec, pins, sw, was>>
         /\ Restoring /\ sw = 0 /\ ToRestore = {} /\ tried' = {}
         /\ \/ /\ pc = "fail-back" /\ pc' = "idle" /\ Entered("failed") /\ j'.resume = "detaching-holders"
            \/ pc' = "idle" /\ JournalKept
            \/ /\ pc = "restore" /\ pc' = "run" /\ m.defer = {} /\ j.stage = "restoring-holders"
               /\ Entered("cleanup")
            \/ /\ pc = "restore" /\ pc' = (IF j.commit THEN "clean" ELSE "record-back") /\ m.defer = {}
               /\ j.stage # "restoring-holders" /\ JournalKept
<1> DEFINE z == [m EXCEPT !.stage = "failed", !.resume = "detaching-holders"]
<1>1. j \in State /\ m \in State
  BY DEF Types, RunTypes
<1>2. pc # "idle"
  BY DEF HoldersRestored, Restoring
<1>3. /\ z \in State
      /\ z.on = m.on /\ z.row = m.row /\ z.h = m.h /\ z.commit = m.commit
      /\ z.proof = m.proof /\ z.before = m.before /\ z.clear = m.clear
      /\ z.restore = m.restore /\ z.defer = m.defer
      /\ z.stage = "failed"
      /\ z.resume = "detaching-holders"
  BY <1>1 DEF State, StageSet
<1>4. /\ sw = 0 /\ ToRestore = {} /\ tried' = {}
      /\ \/ pc = "fail-back" /\ pc' = "idle" /\ j' = z /\ m' = z
         \/ pc' = "idle" /\ j' = m /\ m' = m
         \/ /\ pc = "restore" /\ pc' = "run" /\ m.defer = {} /\ m.stage = "restoring-holders"
            /\ j' = SetStage(m, "cleanup") /\ m' = SetStage(m, "cleanup")
         \/ /\ pc = "restore" /\ pc' = (IF m.commit THEN "clean" ELSE "record-back")
            /\ m.defer = {} /\ m.stage # "restoring-holders" /\ j' = m /\ m' = m
  BY DEF HoldersRestored, Restoring, Fail, Save, Enter, Exit, Go
<1> HIDE DEF z
<1>5. /\ "cleanup" \in StageSet /\ "cleanup" \notin Terminalish
  BY DEF StageSet, Terminalish
<1>6. j' \in State /\ m' \in State
  BY <1>1, <1>3, <1>4, <1>5, StageIs
<1>7. CopyOK'
  BY <1>2, <1>4 DEF CopyOK, Alike
<1>8. /\ \/ /\ pc = "fail-back" /\ pc' = "idle" /\ Entered("failed") /\ j'.resume = "detaching-holders"
         \/ pc' = "idle" /\ JournalKept
         \/ /\ pc = "restore" /\ pc' = "run" /\ m.defer = {} /\ j.stage = "restoring-holders"
            /\ Entered("cleanup")
         \/ /\ pc = "restore" /\ pc' = (IF j.commit THEN "clean" ELSE "record-back") /\ m.defer = {}
            /\ j.stage # "restoring-holders" /\ JournalKept
  BY <1>1, <1>2, <1>3, <1>4, <1>5, Copies, StageIs DEF JournalKept, Entered, StageKept,
    RowsKept, HoldersKept, CommitKept, FollowKept
<1> QED
  BY <1>1, <1>2, <1>4, <1>6, <1>7, <1>8, Copies DEF Types, RunTypes, Labels,
    HoldersRestored, Restoring, Go, Exit, world, files

\* Cleanup changes nothing by starting.
LEMMA StartCleanupIs ==
  ASSUME Types, CopyOK, StartCleanup
  PROVE  /\ RunTypes' /\ CopyOK'
         /\ UNCHANGED <<ref, stack, wt, dirty, seen, rec, pins, sw, tried,
           was>>
         /\ pc = "run" /\ pc' = "clean" /\ j.stage \in Ended /\ JournalKept
<1>1. pc # "idle" /\ UNCHANGED <<j, m, sw, tried>>
  BY DEF StartCleanup, Doing, Quiet, Still
<1>2. pc' \in Labels
  BY <1>1 DEF StartCleanup, Go, Types, RunTypes, Labels
<1>3. RunTypes' /\ CopyOK' /\ JournalKept
  BY <1>1, <1>2, Untouched
<1> QED
  BY <1>1, <1>3, Copies DEF StartCleanup, Doing, Go, world, files, Quiet, Still, Ended

\* The scratch worktree goes first.
LEMMA RemoveScratchIs ==
  ASSUME Types, CopyOK, RemoveScratch
  PROVE  /\ RunTypes' /\ CopyOK'
         /\ UNCHANGED <<ref, stack, wt, dirty, seen, rec, pins, sw, tried,
           was>>
         /\ pc = "clean" /\ UNCHANGED pc /\ JournalKept
<1>1. pc # "idle" /\ UNCHANGED <<j, m, sw, tried>>
  BY DEF RemoveScratch, Quiet
<1>2. pc' \in Labels
  BY <1>1 DEF RemoveScratch, Types, RunTypes, Labels
<1>3. RunTypes' /\ CopyOK' /\ JournalKept
  BY <1>1, <1>2, Untouched
<1> QED
  BY <1>1, <1>3, Copies DEF RemoveScratch, world, Quiet

\* Pins are dropped one by one.
LEMMA DropPinsIs ==
  ASSUME Types, CopyOK, DropPins
  PROVE  /\ RunTypes' /\ CopyOK'
         /\ UNCHANGED <<ref, stack, wt, dirty, seen, rec, sw, tried, was>>
         /\ pc = "clean" /\ UNCHANGED pc /\ JournalKept /\ pins' \subseteq pins
<1>1. pc # "idle" /\ UNCHANGED <<j, m, sw, tried>>
  BY DEF DropPins, Quiet
<1>2. pc' \in Labels
  BY <1>1 DEF DropPins, Types, RunTypes, Labels
<1>3. RunTypes' /\ CopyOK' /\ JournalKept
  BY <1>1, <1>2, Untouched
<1> QED
  BY <1>1, <1>3, Copies DEF DropPins, world, Quiet

\* The journal goes last, when no pin is left.
LEMMA FinishIs ==
  ASSUME Types, CopyOK, Finish
  PROVE  /\ RunTypes' /\ CopyOK'
         /\ UNCHANGED <<ref, stack, wt, dirty, seen, rec, pins, sw, tried,
           was>>
         /\ pc = "clean"
         /\ \/ /\ UNCHANGED pc
               /\ IF j.stage \in Aborting THEN Entered("aborted") ELSE Entered("completed")
            \/ pc' = "idle" /\ pins = {} /\ j' = NoRun
<1>1. j \in State /\ m \in State
  BY DEF Types, RunTypes
<1>2. pc # "idle"
  BY DEF Finish
<1>3. \/ m.stage \in Aborting /\ UNCHANGED pc /\ j' = SetStage(m, "aborted") /\ m' = SetStage(m, "aborted")
      \/ m.stage \notin Aborting /\ UNCHANGED pc /\ j' = SetStage(m, "completed") /\ m' = SetStage(m, "completed")
      \/ pins = {} /\ pc' = "idle" /\ j' = NoRun /\ m' = NoRun
  BY DEF Finish, Save, Enter, Exit, Aborting
<1>4. /\ "aborted" \in StageSet /\ "aborted" \in Terminalish
      /\ "completed" \in StageSet /\ "completed" \in Terminalish
  BY DEF StageSet, Terminalish
<1>5. j' \in State /\ m' \in State
  BY <1>1, <1>3, <1>4, StageIs, NoRunIs
<1>6. CopyOK'
  BY <1>2, <1>3 DEF CopyOK, Alike
<1>7. /\ \/ /\ UNCHANGED pc
            /\ IF j.stage \in Aborting THEN Entered("aborted") ELSE Entered("completed")
         \/ pc' = "idle" /\ pins = {} /\ j' = NoRun
  BY <1>1, <1>2, <1>3, <1>4, Copies, StageIs, NoRunIs DEF Entered, StageKept, RowsKept,
    HoldersKept, CommitKept, FollowKept
<1> QED
  BY <1>1, <1>2, <1>3, <1>5, <1>6, <1>7, Copies DEF Types, RunTypes, Labels, Finish,
    Exit, world, files, Quiet, Still

\* --continue reads the journal of a run that is not being aborted, and
\* reconciles what it finds of the holders.
LEMMA ContinueIs ==
  ASSUME Types, CopyOK, Continue
  PROVE  /\ RunTypes' /\ CopyOK'
         /\ UNCHANGED <<ref, stack, wt, dirty, seen, rec, pins, sw, tried,
           was>>
         /\ pc = "idle" /\ pc' = "clear" /\ j.on /\ j.stage \notin Aborting
         /\ RowsKept /\ CommitKept /\ FollowKept /\ Reattaches
         /\ j'.stage = IF j.stage = "initializing" THEN "preflight" ELSE j.stage
         /\ j.resume # "initializing" => j'.resume = j.resume
<1> DEFINE x == IF NeedsHolders(j) THEN Reconciled(j) ELSE j
           y == recoverCompatArtifacts(x)
           st == IF y.stage = "initializing" THEN "preflight" ELSE y.stage
           re == IF y.resume = "initializing" THEN "preflight" ELSE y.resume
           z == [y EXCEPT !.stage = st, !.resume = re]
<1>1. /\ x \in State /\ x.on = j.on /\ x.stage = j.stage /\ x.resume = j.resume
      /\ x.row = j.row /\ x.commit = j.commit /\ x.proof = j.proof
      /\ x.before = j.before /\ x.clear = j.clear /\ x.restore = j.restore
      /\ IF NeedsHolders(j) THEN \A r \in Held : x.h[r] = Put(j, r) ELSE x.h = j.h
  BY ReconciledIs DEF Types, RunTypes
<1> HIDE DEF x
<1>2. y \in State /\ SameAs(y, x)
  BY <1>1 DEF State, SameAs, recoverCompatArtifacts
<1>3. j' = z /\ m' = z
  BY <1>1, <1>2 DEF Continue, Save, Opened, x, State
<1> HIDE DEF y
<1>4. st \in StageSet /\ re \in StageSet
  BY <1>2 DEF State, StageSet
<1> HIDE DEF st, re
<1>5. /\ z \in State /\ z.on = y.on /\ z.row = y.row /\ z.h = y.h
      /\ z.commit = y.commit /\ z.proof = y.proof /\ z.before = y.before
      /\ z.clear = y.clear /\ z.restore = y.restore /\ z.stage = st /\ z.resume = re
  BY <1>2, <1>4 DEF State
<1> HIDE DEF z
<1>6. RunTypes' /\ CopyOK'
  BY <1>3, <1>5 DEF Continue, Types, RunTypes, Labels, Go, Still, Quiet, CopyOK, Alike
<1>7. RowsKept /\ CommitKept /\ FollowKept /\ Reattaches
  BY <1>1, <1>2, <1>3, <1>5 DEF SameAs, RowsKept, CommitKept, FollowKept, Reattaches,
    HoldersKept
<1>8. /\ j'.stage = IF j.stage = "initializing" THEN "preflight" ELSE j.stage
      /\ j.resume # "initializing" => j'.resume = j.resume
  BY <1>1, <1>2, <1>3, <1>5 DEF SameAs, st, re
<1>9. j.on /\ j.stage \notin Aborting
  BY DEF Continue, Admits, LoadReparentState, Aborting
<1> QED
  BY <1>6, <1>7, <1>8, <1>9 DEF Continue, Go, Still, world, files, Quiet

\* --abort completes a pending write of the record, reconciles the holders,
\* and rolls back only what is not committed.
LEMMA AbortIs ==
  ASSUME Types, CopyOK, Abort
  PROVE  /\ RunTypes' /\ CopyOK'
         /\ UNCHANGED <<ref, stack, wt, dirty, seen, pins, sw, tried, was>>
         /\ pc = "idle" /\ j.on /\ j'.stage = "aborting" /\ RowsKept /\ Reattaches
         /\ j'.commit <=> Committed(j)
         /\ pc' = AbortEntry(Committed(j))
         /\ j'.before = j.before /\ ~j'.restore /\ (j'.clear = {} \/ (j.restore /\ j'.clear = j.clear))
         /\ rec' = RecordCompleted
<1> DEFINE x == IF NeedsHolders(j) THEN Reconciled(j) ELSE j
           z == Proven(x)
           u == [z EXCEPT !.restore = FALSE, !.proof = FALSE, !.follow = {}]
           fo == IF z.proof /\ z.clear # {} THEN Ours \ z.clear ELSE z.follow
           v == [z EXCEPT !.clear = {}, !.follow = fo]
           w == IF z.restore THEN u ELSE v
<1>1. /\ x \in State /\ x.on = j.on /\ x.row = j.row /\ x.commit = j.commit
      /\ x.before = j.before /\ x.clear = j.clear /\ x.restore = j.restore
      /\ x.post = j.post
      /\ IF NeedsHolders(j) THEN \A r \in Held : x.h[r] = Put(j, r) ELSE x.h = j.h
  BY ReconciledIs DEF Types, RunTypes
<1>2. Opened("abort") = x
  <2>1. Opened("abort") = [x EXCEPT !.stage = x.stage, !.resume = x.resume]
    BY DEF Opened, x
  <2> HIDE DEF x
  <2> QED BY <1>1, <2>1 DEF State
<1> HIDE DEF x
<1>3. /\ z \in State /\ (z.commit <=> Committed(j)) /\ z.on = j.on /\ z.row = j.row
      /\ z.h = x.h /\ z.before = j.before /\ z.clear = j.clear /\ z.restore = j.restore
  BY <1>1, ProvenIs DEF Committed
<1>4. AbortOpened = w
  BY <1>2 DEF AbortOpened
<1> HIDE DEF z
<1>5. /\ u \in State /\ u.commit = z.commit /\ u.on = z.on /\ u.row = z.row /\ u.h = z.h
      /\ u.before = z.before /\ u.clear = z.clear /\ ~u.restore
  BY <1>3 DEF State
<1>6. fo \in SUBSET Rows
  BY <1>3 DEF State, Ours
<1> HIDE DEF fo, u
<1>7. /\ v \in State /\ v.commit = z.commit /\ v.on = z.on /\ v.row = z.row /\ v.h = z.h
      /\ v.before = z.before /\ v.clear = {} /\ v.restore = z.restore
  BY <1>3, <1>6 DEF State
<1> HIDE DEF v
<1>8. /\ w \in State /\ (w.commit <=> Committed(j)) /\ w.on = j.on /\ w.row = j.row
      /\ w.h = x.h /\ w.before = j.before /\ ~w.restore
      /\ (w.clear = {} \/ (j.restore /\ w.clear = j.clear))
  BY <1>3, <1>5, <1>7 DEF State
<1> HIDE DEF w
<1>9. "aborting" \in StageSet
  BY DEF StageSet
<1>10. /\ j' \in State /\ j'.stage = "aborting" /\ (j'.commit <=> Committed(j))
       /\ j'.on = j.on /\ j'.row = j.row /\ j'.h = x.h /\ j'.before = j.before
       /\ ~j'.restore /\ (j'.clear = {} \/ (j.restore /\ j'.clear = j.clear))
  BY <1>4, <1>8, <1>9, StageIs DEF Abort
<1>11. m' \in State /\ Alike(m', j')
  <2> DEFINE t == [j' EXCEPT !.defer = {}]
  <2>1. t \in State /\ Alike(t, j') /\ Alike(j', j')
    BY <1>10 DEF State, Alike
  <2>2. m' = t \/ m' = j'
    BY DEF Abort
  <2> QED BY <1>10, <2>1, <2>2
<1>12. pc' = AbortEntry(Committed(j)) /\ pc' \in Labels
  BY DEF Abort, Go, AbortEntry, Labels
<1>13. RunTypes' /\ CopyOK'
  BY <1>10, <1>11, <1>12 DEF Abort, Types, RunTypes, Quiet, CopyOK
<1>14. RowsKept /\ Reattaches
  BY <1>1, <1>10 DEF RowsKept, Reattaches, HoldersKept
<1>15. pc = "idle" /\ j.on /\ rec' = RecordCompleted
  BY DEF Abort, Admits, LoadReparentState
<1> QED
  BY <1>10, <1>12, <1>13, <1>14, <1>15 DEF Abort, world, Quiet

\* A stopped rebase is ended under an intent.
LEMMA AbortRebaseIs ==
  ASSUME Types, CopyOK, AbortRebase
  PROVE  /\ RunTypes' /\ CopyOK'
         /\ UNCHANGED <<ref, stack, wt, dirty, seen, rec, pins, sw, tried,
           was>>
         /\ pc = "rollback" /\ UNCHANGED pc /\ JournalKept
<1> DEFINE y == [m EXCEPT !.undo = TRUE]
           z == [m EXCEPT !.undo = FALSE]
<1>1. j \in State /\ m \in State
  BY DEF Types, RunTypes
<1>2. pc # "idle"
  BY DEF AbortRebase
<1>3. /\ y \in State
      /\ SameAs(y, m)
  BY <1>1 DEF State, SameAs
<1>4. /\ z \in State
      /\ SameAs(z, m)
  BY <1>1, <1>3 DEF State, SameAs
<1>5. \/ j' = y /\ m' = y
      \/ j' = z /\ m' = z
  BY DEF AbortRebase, Save
<1> HIDE DEF y, z
<1>6. j' \in State /\ m' \in State
  BY <1>1, <1>3, <1>4, <1>5
<1>7. CopyOK'
  BY <1>2, <1>5 DEF CopyOK, Alike
<1>8. /\ JournalKept
  BY <1>1, <1>2, <1>3, <1>4, <1>5, Copies DEF SameAs, JournalKept, StageKept, RowsKept,
    HoldersKept, CommitKept, FollowKept
<1> QED
  BY <1>1, <1>2, <1>5, <1>6, <1>7, <1>8, Copies DEF Types, RunTypes, Labels,
    AbortRebase, world, Quiet

\* The rollback goes on only if every ref is at one of its two tips.
LEMMA AbortClassifyIs ==
  ASSUME Types, CopyOK, AbortClassify
  PROVE  /\ RunTypes' /\ CopyOK'
         /\ UNCHANGED <<ref, stack, wt, dirty, seen, rec, pins, sw, tried>>
         /\ pc = "rollback" /\ StageKept /\ RowsKept /\ CommitKept /\ FollowKept
         /\ \/ pc' = "idle" /\ HoldersKept /\ UNCHANGED was
            \/ /\ pc' = "redetach" /\ was' = ref /\ \A r \in Rows : ref[r] \in {"pre", "new"}
               /\ \A r \in Held : j'.h[r] = Found(j, r)
<1>1. m \in State /\ j \in State /\ pc # "idle"
  BY DEF Types, RunTypes, AbortClassify
<1>2. \/ pc' = "idle" /\ UNCHANGED <<j, m, was>>
      \/ /\ pc' = "redetach" /\ was' = ref /\ j' = Completed(m) /\ m' = Completed(m)
         /\ \A r \in Rows : ref[r] \in {"pre", "new"}
  BY DEF AbortClassify, Exit, Go, Save, Foreign
<1>3. m' \in State /\ j' \in State /\ CopyOK'
  BY <1>1, <1>2, CompletedIs DEF CopyOK, Alike
<1>4. \A r \in Held : Completed(m).h[r] = Found(j, r)
  BY <1>1, FoundIs
<1>5. StageKept /\ RowsKept /\ CommitKept /\ FollowKept
  <2>1. CASE UNCHANGED j
    BY <2>1 DEF StageKept, RowsKept, CommitKept, FollowKept
  <2>2. CASE j' = Completed(m)
    BY <1>1, <2>2, Copies, CompletedIs DEF StageKept, RowsKept, CommitKept, FollowKept
  <2> QED BY <1>2, <2>1, <2>2
<1>6. \/ pc' = "idle" /\ HoldersKept /\ UNCHANGED was
      \/ /\ pc' = "redetach" /\ was' = ref /\ \A r \in Rows : ref[r] \in {"pre", "new"}
         /\ \A r \in Held : j'.h[r] = Found(j, r)
  BY <1>1, <1>2, <1>4 DEF HoldersKept
<1> QED
  BY <1>1, <1>2, <1>3, <1>5, <1>6 DEF Types, RunTypes, Labels, AbortClassify, world,
    files

\* The transaction that undoes is entered with every restored holder detached
\* again.
LEMMA RedetachedIs ==
  ASSUME Types, CopyOK, Redetached
  PROVE  /\ RunTypes' /\ CopyOK'
         /\ UNCHANGED <<ref, stack, wt, dirty, seen, rec, pins, sw, tried,
           was>>
         /\ pc = "redetach" /\ sw = 0 /\ JournalKept /\ pc' \in {"cas-back", "idle"}
         /\ \A r \in Held : j.h[r] \notin Back
<1>1. pc # "idle" /\ UNCHANGED <<j, m, sw, tried>>
  BY DEF Redetached, Quiet, Still
<1>2. pc' \in Labels
  BY <1>1 DEF Redetached, Go, Types, RunTypes, Labels
<1>3. RunTypes' /\ CopyOK' /\ JournalKept
  BY <1>1, <1>2, Untouched
<1> QED
  BY <1>1, <1>3, Copies DEF Redetached, ToDetach, Go, world, files, Quiet, Still

\* The transaction that undoes moves every row back or none.
LEMMA AbortCasIs ==
  ASSUME Types, CopyOK, AbortCas
  PROVE  /\ RunTypes' /\ CopyOK'
         /\ UNCHANGED <<stack, wt, dirty, seen, rec, pins, sw, tried, was>>
         /\ pc = "cas-back" /\ JournalKept
         /\ \/ pc' = "idle" /\ UNCHANGED ref
            \/ /\ pc' = "stack-back" /\ ref = was
               /\ ref' = [r \in Rows |-> IF ref[r] = "new" THEN "pre" ELSE ref[r]]
<1>1. pc # "idle" /\ UNCHANGED <<j, m, sw, tried>>
  BY DEF AbortCas, Quiet
<1>2. pc' \in Labels
  BY <1>1 DEF AbortCas, Go, Exit, Types, RunTypes, Labels
<1>3. RunTypes' /\ CopyOK' /\ JournalKept
  BY <1>1, <1>2, Untouched
<1> QED
  BY <1>1, <1>3, Copies DEF AbortCas, Go, Exit, files, Quiet

\* stack.yaml is put back after the refs.
LEMMA RestoreStackIs ==
  ASSUME Types, CopyOK, RestoreStack
  PROVE  /\ RunTypes' /\ CopyOK'
         /\ UNCHANGED <<ref, wt, dirty, seen, rec, pins, sw, tried, was>>
         /\ pc = "stack-back" /\ pc' \in {"stack-saved", "attach"} /\ JournalKept /\ stack' = "before"
<1>1. pc # "idle" /\ UNCHANGED <<j, m, sw, tried>>
  BY DEF RestoreStack, Quiet
<1>2. pc' \in Labels
  BY <1>1 DEF RestoreStack, Go, Types, RunTypes, Labels
<1>3. RunTypes' /\ CopyOK' /\ JournalKept
  BY <1>1, <1>2, Untouched
<1> QED
  BY <1>1, <1>3, Copies DEF RestoreStack, Go, files, Quiet

\* The journal records that stack.yaml is back.
LEMMA StackRestoredIs ==
  ASSUME Types, CopyOK, StackRestored
  PROVE  /\ RunTypes' /\ CopyOK'
         /\ UNCHANGED <<ref, stack, wt, dirty, seen, rec, pins, sw, tried,
           was>>
         /\ pc = "stack-saved" /\ pc' = "attach" /\ JournalKept
<1> DEFINE y == [m EXCEPT !.after = FALSE]
<1>1. j \in State /\ m \in State
  BY DEF Types, RunTypes
<1>2. pc # "idle"
  BY DEF StackRestored
<1>3. /\ y \in State
      /\ SameAs(y, m)
  BY <1>1 DEF State, SameAs
<1>4. j' = y /\ m' = y
  BY DEF StackRestored, Save
<1> HIDE DEF y
<1>5. j' \in State /\ m' \in State
  BY <1>1, <1>3, <1>4
<1>6. CopyOK'
  BY <1>2, <1>4 DEF CopyOK, Alike
<1>7. /\ JournalKept
  BY <1>1, <1>2, <1>3, <1>4, Copies DEF SameAs, JournalKept, StageKept, RowsKept,
    HoldersKept, CommitKept, FollowKept
<1> QED
  BY <1>1, <1>2, <1>4, <1>5, <1>6, <1>7, Copies DEF Types, RunTypes, Labels,
    StackRestored, Go, world, files, Quiet, Still

\* The holders are to be put back with none deferred yet.
LEMMA AttachForAbortIs ==
  ASSUME Types, CopyOK, AttachForAbort
  PROVE  /\ RunTypes' /\ CopyOK'
         /\ UNCHANGED <<ref, stack, wt, dirty, seen, rec, pins, sw, tried,
           was>>
         /\ pc = "attach" /\ pc' \in {"restore", "idle"} /\ JournalKept
<1> DEFINE y == [m EXCEPT !.defer = {}]
<1>1. j \in State /\ m \in State /\ pc # "idle"
  BY DEF Types, RunTypes, AttachForAbort, Doing
<1>2. y \in State /\ SameAs([y EXCEPT !.defer = m.defer], m)
  BY <1>1 DEF State, SameAs
<1>3. j' = j /\ (m' = m \/ m' = y)
  BY DEF AttachForAbort
<1>4. Alike(m, j)
  BY <1>1 DEF CopyOK
<1>5. Alike(y, j)
  BY <1>1, <1>4 DEF Alike
<1> HIDE DEF y
<1>6. m' \in State /\ j' \in State /\ CopyOK' /\ JournalKept
  BY <1>1, <1>2, <1>3, <1>4, <1>5 DEF CopyOK, Alike, JournalKept, StageKept, RowsKept,
    HoldersKept, CommitKept, FollowKept
<1> QED
  BY <1>1, <1>6, Copies DEF Types, RunTypes, Labels, AttachForAbort, Go, Exit, Doing,
    world, files, Quiet, Still

\* The restoration of the record is journaled before it is made, or refused.
LEMMA RecordBackIntentIs ==
  ASSUME Types, CopyOK, RecordBackIntent
  PROVE  /\ RunTypes' /\ CopyOK'
         /\ UNCHANGED <<ref, stack, wt, dirty, seen, rec, pins, sw, tried,
           was>>
         /\ pc = "record-back"
         /\ \/ /\ UNCHANGED pc /\ StageKept /\ RowsKept /\ HoldersKept /\ CommitKept
               /\ j'.proof = j.proof /\ j'.before = j.before /\ j'.clear = j.clear /\ j'.restore
            \/ pc' = "idle" /\ JournalKept
<1> DEFINE y == [m EXCEPT !.restore = TRUE]
<1>1. j \in State /\ m \in State
  BY DEF Types, RunTypes
<1>2. pc # "idle"
  BY DEF RecordBackIntent
<1>3. /\ y \in State
      /\ y.on = m.on /\ y.stage = m.stage /\ y.resume = m.resume
      /\ y.row = m.row /\ y.h = m.h /\ y.commit = m.commit /\ y.proof = m.proof
      /\ y.before = m.before /\ y.clear = m.clear /\ y.defer = m.defer
      /\ y.restore
  BY <1>1 DEF State
<1>4. \/ UNCHANGED pc /\ j' = y /\ m' = y
      \/ pc' = "idle" /\ UNCHANGED <<j, m>>
  BY DEF RecordBackIntent, Save, Exit
<1> HIDE DEF y
<1>5. j' \in State /\ m' \in State
  BY <1>1, <1>3, <1>4
<1>6. CopyOK'
  BY <1>2, <1>4 DEF CopyOK, Alike
<1>7. /\ \/ /\ UNCHANGED pc /\ StageKept /\ RowsKept /\ HoldersKept /\ CommitKept
            /\ j'.proof = j.proof /\ j'.before = j.before /\ j'.clear = j.clear /\ j'.restore
         \/ pc' = "idle" /\ JournalKept
  BY <1>1, <1>2, <1>3, <1>4, Copies DEF JournalKept, StageKept, RowsKept, HoldersKept,
    CommitKept, FollowKept
<1> QED
  BY <1>1, <1>2, <1>4, <1>5, <1>6, <1>7, Copies DEF Types, RunTypes, Labels,
    RecordBackIntent, Exit, world, files, Quiet, Still

\* The record gets back its content from before the run.
LEMMA RecordBackIs ==
  ASSUME Types, CopyOK, RecordBack
  PROVE  /\ RunTypes' /\ CopyOK'
         /\ UNCHANGED <<ref, stack, wt, dirty, seen, pins, sw, tried, was>>
         /\ pc = "record-back" /\ UNCHANGED pc /\ JournalKept /\ rec' = j.before
<1>1. pc # "idle" /\ UNCHANGED <<j, m, sw, tried>>
  BY DEF RecordBack, Quiet
<1>2. pc' \in Labels
  BY <1>1 DEF RecordBack, Types, RunTypes, Labels
<1>3. RunTypes' /\ CopyOK' /\ JournalKept
  BY <1>1, <1>2, Untouched
<1> QED
  BY <1>1, <1>3, Copies DEF RecordBack, world, Quiet, abortRemoteRecordPreimage

\* The claim on the record is dropped once that is done.
LEMMA RecordBackDoneIs ==
  ASSUME Types, CopyOK, RecordBackDone
  PROVE  /\ RunTypes' /\ CopyOK'
         /\ UNCHANGED <<ref, stack, wt, dirty, seen, rec, pins, sw, tried,
           was>>
         /\ pc = "record-back" /\ pc' = "clean" /\ rec = j.before
         /\ StageKept /\ RowsKept /\ HoldersKept /\ CommitKept
         /\ j'.before = j.before /\ j'.clear = j.clear /\ ~j'.proof /\ ~j'.restore
<1> DEFINE y == [m EXCEPT !.restore = FALSE, !.proof = FALSE, !.follow = {}]
<1>1. j \in State /\ m \in State
  BY DEF Types, RunTypes
<1>2. pc # "idle"
  BY DEF RecordBackDone
<1>3. /\ y \in State
      /\ y.on = m.on /\ y.stage = m.stage /\ y.resume = m.resume
      /\ y.row = m.row /\ y.h = m.h /\ y.commit = m.commit
      /\ y.before = m.before /\ y.clear = m.clear /\ y.defer = m.defer
      /\ ~y.restore
      /\ ~y.proof
  BY <1>1 DEF State
<1>4. j' = y /\ m' = y
  BY DEF RecordBackDone, Save
<1> HIDE DEF y
<1>5. j' \in State /\ m' \in State
  BY <1>1, <1>3, <1>4
<1>6. CopyOK'
  BY <1>2, <1>4 DEF CopyOK, Alike
<1>7. /\ StageKept /\ RowsKept /\ HoldersKept /\ CommitKept
      /\ j'.before = j.before /\ j'.clear = j.clear /\ ~j'.proof /\ ~j'.restore
  BY <1>1, <1>2, <1>3, <1>4, Copies DEF StageKept, RowsKept, HoldersKept, CommitKept,
    FollowKept
<1> QED
  BY <1>1, <1>2, <1>4, <1>5, <1>6, <1>7, Copies DEF Types, RunTypes, Labels,
    RecordBackDone, Go, world, files, Quiet, Still

\* A killed command leaves the journal as it was last saved, and forgets its
\* own copy.
LEMMA KillIs ==
  ASSUME Types, CopyOK, Kill
  PROVE  /\ RunTypes' /\ CopyOK'
         /\ UNCHANGED <<ref, stack, wt, dirty, seen, rec, pins, was>>
         /\ pc # "idle" /\ pc' = "idle" /\ sw' = 0 /\ tried' = {} /\ JournalKept
<1>1. j \in State /\ pc # "idle" /\ sw' = 0 /\ tried' = {}
  BY DEF Types, RunTypes, Kill
<1>2. m' = j /\ j' = j /\ pc' = "idle"
  BY DEF Kill, Exit
<1>3. RunTypes' /\ CopyOK' /\ JournalKept
  BY <1>1, <1>2 DEF RunTypes, Labels, CopyOK, Alike, JournalKept, StageKept, RowsKept,
    HoldersKept, CommitKept, FollowKept
<1> QED
  BY <1>1, <1>2, <1>3 DEF Kill, files, world

\* A user moves a branch to a commit of his own or from its new tip back to
\* its old one, pushes, or edits; all within the bound on interferences.
LEMMA MeddleIs ==
  ASSUME Types, CopyOK, Meddle
  PROVE  /\ RunTypes' /\ CopyOK'
         /\ UNCHANGED <<stack, wt, rec, pins, sw, tried, was>>
         /\ UNCHANGED <<j, m, pc>>
         /\ dirty' \in SUBSET Held
         /\ \A r \in Published : seen'[r] = seen[r] \/ (seen'[r] \in {"new", "pre"} /\ seen[r] # "new")
         /\ seen' \in [Rows -> {"none", "stale", "pre", "new"}]
         /\ ref' \in [Rows -> Values]
         /\ \A r \in Rows : Landed(r)' # Landed(r) => ref[r] = "new" /\ ref'[r] = "pre" /\ j.on /\ ~j.commit
         /\ \A r \in Published : seen'[r] # seen[r] => UNCHANGED ref /\ (seen'[r] = "new" <=> Landed(r))
         /\ user' # user
<1>1. UNCHANGED <<j, m, pc, sw, tried>>
  BY DEF Meddle
<1>2. RunTypes' /\ CopyOK'
  BY <1>1 DEF Types, RunTypes, CopyOK, Alike
<1>3. user' # user /\ UNCHANGED <<stack, wt, rec, pins, was>>
  BY DEF Meddle, files
<1>4. CASE /\ \E r \in Rows : /\ ref[r] \in {"pre", "new"}
             /\ ref' = [ref EXCEPT ![r] = IF @ = "pre" THEN "user" ELSE "ahead"]
           /\ UNCHANGED <<dirty, seen>>
  BY <1>1, <1>2, <1>3, <1>4 DEF Types, WorldTypes, Landed, Values
<1>5. CASE /\ \E r \in Rows : ref[r] = "new" /\ j.on /\ ~j.commit /\ ref' = [ref EXCEPT ![r] = "pre"]
           /\ UNCHANGED <<dirty, seen>>
  BY <1>1, <1>2, <1>3, <1>5 DEF Types, WorldTypes, Landed, Values
<1>6. CASE /\ \E r \in Published : /\ seen[r] # "new"
             /\ seen' = [seen EXCEPT ![r] = IF Landed(r) THEN "new" ELSE "pre"]
           /\ UNCHANGED <<ref, dirty>>
  BY <1>1, <1>2, <1>3, <1>6, ReparentAssumption DEF Types, WorldTypes, Landed, Values
<1>7. CASE dirty' \in SUBSET Held /\ UNCHANGED <<ref, seen>>
  BY <1>1, <1>2, <1>3, <1>7 DEF Types, WorldTypes, Landed
<1>8. ASSUME NEW r \in Held, dirty' = dirty \cup {r}, UNCHANGED <<ref, seen>>
      PROVE  dirty' \in SUBSET Held
  BY <1>8 DEF Types, WorldTypes
<1> QED
  BY <1>4, <1>5, <1>6, <1>7, <1>8 DEF Meddle

\* A user takes back his own commit or edit, or attaches a deferred worktree.
LEMMA MendIs ==
  ASSUME Types, CopyOK, Mend
  PROVE  /\ RunTypes' /\ CopyOK'
         /\ UNCHANGED <<stack, seen, rec, pins, sw, tried, was>>
         /\ UNCHANGED <<j, m, pc>>
         /\ dirty' \in SUBSET Held /\ ref' \in [Rows -> Values] /\ wt' \in [Held -> {"on", "off"}]
         /\ \A r \in Rows : ref'[r] # ref[r] => ref[r] \in {"user", "ahead"} /\ (Landed(r)' <=> Landed(r))
         /\ \A r \in Held : wt'[r] # wt[r] => wt'[r] = "on" /\ r \in j.defer /\ pc = "idle"
<1>1. UNCHANGED <<j, m, pc, sw, tried>>
  BY DEF Mend, Quiet
<1>2. RunTypes' /\ CopyOK'
  BY <1>1 DEF Types, RunTypes, CopyOK, Alike
<1>3. UNCHANGED <<stack, seen, rec, pins, was>>
  BY DEF Mend, files, Quiet
<1>4. CASE /\ \E r \in Rows : /\ ref[r] \in {"user", "ahead"}
             /\ ref' = [ref EXCEPT ![r] = IF @ = "user" THEN "pre" ELSE "new"]
           /\ UNCHANGED <<dirty, wt>>
  BY <1>1, <1>2, <1>3, <1>4 DEF Types, WorldTypes, Landed, Values
<1>5. CASE /\ \E r \in dirty : dirty' = dirty \ {r}
           /\ UNCHANGED <<ref, wt>>
  BY <1>1, <1>2, <1>3, <1>5 DEF Types, WorldTypes
<1>6. CASE /\ \E r \in Held : /\ r \in j.defer /\ pc = "idle"
             /\ wt' = [wt EXCEPT ![r] = "on"]
           /\ UNCHANGED <<ref, dirty>>
  BY <1>1, <1>2, <1>3, <1>6 DEF Types, WorldTypes
<1> QED
  BY <1>4, <1>5, <1>6 DEF Mend

\* A user ends the stopped rebase in the scratch worktree.
LEMMA EndRebaseIs ==
  ASSUME Types, CopyOK, EndRebase
  PROVE  /\ RunTypes' /\ CopyOK'
         /\ UNCHANGED <<ref, stack, wt, dirty, seen, rec, pins, sw, tried,
           was>>
         /\ UNCHANGED <<j, m, pc>>
<1>1. UNCHANGED <<j, m, pc, sw, tried>>
  BY DEF EndRebase, Quiet
<1> QED
  BY <1>1 DEF EndRebase, Types, RunTypes, CopyOK, Alike, Quiet, world
-----------------------------------------------------------------------------
(* Every step keeps each conjunct of the invariant.                         *)

\* The pins a stage relies on are there before it, and stay.
LEMMA PinsStep ==
  ASSUME ReparentInv, Next PROVE PinsOK'
<1> USE DEF JournalKept, StageKept, RowsKept, HoldersKept, CommitKept, FollowKept
<1>0. /\ Types /\ CopyOK /\ LabelsOK /\ PinsOK /\ HoldersOK /\ TransactionOK
      /\ UndoneOK /\ RecordOK /\ AtomicOutcome /\ CommitFinal /\ FollowupRecorded /\ PinsKept
  BY DEF ReparentInv
<1>1. ASSUME Begin PROVE PinsOK'
  BY <1>0, <1>1, BeginIs, TypesMean DEF PinsOK, Reached, Early, Late, Ended, Aborting,
    NoneLanded, Landed, Entered, RowTo, LabelsOK
<1>2. ASSUME Compat PROVE PinsOK'
  BY <1>0, <1>2, CompatIs, TypesMean DEF PinsOK, Reached, Early, Late, Ended, Aborting,
    NoneLanded, Landed, Entered, RowTo, LabelsOK
<1>3. ASSUME StartPreflight PROVE PinsOK'
  BY <1>0, <1>3, StartPreflightIs, TypesMean DEF PinsOK, Reached, Early, Late, Ended,
    Aborting, NoneLanded, Landed, Entered, RowTo, LabelsOK
<1>4. ASSUME ClearIntent PROVE PinsOK'
  BY <1>0, <1>4, ClearIntentIs, TypesMean DEF PinsOK, Reached, Early, Late, Ended,
    Aborting, NoneLanded, Landed, Entered, RowTo, LabelsOK
<1>5. ASSUME ClearApply PROVE PinsOK'
  BY <1>0, <1>5, ClearApplyIs, TypesMean DEF PinsOK, Reached, Early, Late, Ended,
    Aborting, NoneLanded, Landed, Entered, RowTo, LabelsOK
<1>6. ASSUME ClearDone PROVE PinsOK'
  BY <1>0, <1>6, ClearDoneIs, TypesMean DEF PinsOK, Reached, Early, Late, Ended,
    Aborting, NoneLanded, Landed, Entered, RowTo, LabelsOK
<1>7. ASSUME Cleared PROVE PinsOK'
  BY <1>0, <1>7, ClearedIs, TypesMean DEF PinsOK, Reached, Early, Late, Ended, Aborting,
    NoneLanded, Landed, Entered, RowTo, LabelsOK
<1>8. ASSUME Resume PROVE PinsOK'
  BY <1>0, <1>8, ResumeIs, TypesMean, Copies, CommittedIs DEF PinsOK, Reached, Early,
    Late, Ended, Aborting, NoneLanded, Landed, Entered, RowTo, LabelsOK
<1>9. ASSUME Preflight PROVE PinsOK'
  BY <1>0, <1>9, PreflightIs, TypesMean DEF PinsOK, Reached, Early, Late, Ended,
    Aborting, NoneLanded, Landed, Entered, RowTo, LabelsOK
<1>10. ASSUME PinPreimages PROVE PinsOK'
  BY <1>0, <1>10, PinPreimagesIs, TypesMean DEF PinsOK, Reached, Early, Late, Ended,
    Aborting, NoneLanded, Landed, Entered, RowTo, LabelsOK
<1>11. ASSUME Replay PROVE PinsOK'
  BY <1>0, <1>11, ReplayIs, TypesMean DEF PinsOK, Reached, Early, Late, Ended, Aborting,
    NoneLanded, Landed, Entered, RowTo, LabelsOK
<1>12. ASSUME RecordTip PROVE PinsOK'
  BY <1>0, <1>12, RecordTipIs, TypesMean DEF PinsOK, Reached, Early, Late, Ended,
    Aborting, NoneLanded, Landed, Entered, RowTo, LabelsOK
<1>13. ASSUME MarkConflict PROVE PinsOK'
  BY <1>0, <1>13, MarkConflictIs, TypesMean DEF PinsOK, Reached, Early, Late, Ended,
    Aborting, NoneLanded, Landed, Entered, RowTo, LabelsOK
<1>14. ASSUME PauseConflict PROVE PinsOK'
  BY <1>0, <1>14, PauseConflictIs, TypesMean DEF PinsOK, Reached, Early, Late, Ended,
    Aborting, NoneLanded, Landed, Entered, RowTo, LabelsOK
<1>15. ASSUME ResumeConflict PROVE PinsOK'
  BY <1>0, <1>15, ResumeConflictIs, TypesMean DEF PinsOK, Reached, Early, Late, Ended,
    Aborting, NoneLanded, Landed, Entered, RowTo, LabelsOK
<1>16. ASSUME PinTip PROVE PinsOK'
  BY <1>0, <1>16, PinTipIs, TypesMean DEF PinsOK, Reached, Early, Late, Ended, Aborting,
    NoneLanded, Landed, Entered, RowTo, LabelsOK
<1>17. ASSUME Validate PROVE PinsOK'
  BY <1>0, <1>17, ValidateIs, TypesMean DEF PinsOK, Reached, Early, Late, Ended,
    Aborting, NoneLanded, Landed, Entered, RowTo, LabelsOK
<1>18. ASSUME BuildPostImage PROVE PinsOK'
  BY <1>0, <1>18, BuildPostImageIs, TypesMean DEF PinsOK, Reached, Early, Late, Ended,
    Aborting, NoneLanded, Landed, Entered, RowTo, LabelsOK
<1>19. ASSUME PinComputed PROVE PinsOK'
  BY <1>0, <1>19, PinComputedIs, TypesMean DEF PinsOK, Reached, Early, Late, Ended,
    Aborting, NoneLanded, Landed, Entered, RowTo, LabelsOK
<1>20. ASSUME WriteRecord PROVE PinsOK'
  BY <1>0, <1>20, WriteRecordIs, TypesMean DEF PinsOK, Reached, Early, Late, Ended,
    Aborting, NoneLanded, Landed, Entered, RowTo, LabelsOK
<1>21. ASSUME SaveRecord PROVE PinsOK'
  BY <1>0, <1>21, SaveRecordIs, TypesMean DEF PinsOK, Reached, Early, Late, Ended,
    Aborting, NoneLanded, Landed, Entered, RowTo, LabelsOK
<1>22. ASSUME Detaching PROVE PinsOK'
  BY <1>0, <1>22, DetachingIs, TypesMean DEF PinsOK, Reached, Early, Late, Ended,
    Aborting, NoneLanded, Landed, Entered, RowTo, LabelsOK
<1>23. ASSUME Classify PROVE PinsOK'
  BY <1>0, <1>23, ClassifyIs, TypesMean DEF PinsOK, Reached, Early, Late, Ended,
    Aborting, NoneLanded, Landed, Entered, RowTo, LabelsOK
<1>24. ASSUME DetachIntent PROVE PinsOK'
  BY <1>0, <1>24, DetachIntentIs, TypesMean DEF PinsOK, Reached, Early, Late, Ended,
    Aborting, NoneLanded, Landed, Entered, RowTo, LabelsOK
<1>25. ASSUME SwitchOff PROVE PinsOK'
  BY <1>0, <1>25, SwitchOffIs, TypesMean DEF PinsOK, Reached, Early, Late, Ended,
    Aborting, NoneLanded, Landed, Entered, RowTo, LabelsOK
<1>26. ASSUME DetachDone PROVE PinsOK'
  BY <1>0, <1>26, DetachDoneIs, TypesMean DEF PinsOK, Reached, Early, Late, Ended,
    Aborting, NoneLanded, Landed, Entered, RowTo, LabelsOK
<1>27. ASSUME HoldersDetached PROVE PinsOK'
  BY <1>0, <1>27, HoldersDetachedIs, TypesMean DEF PinsOK, Reached, Early, Late, Ended,
    Aborting, NoneLanded, Landed, Entered, RowTo, LabelsOK
<1>28. ASSUME Cas PROVE PinsOK'
  BY <1>0, <1>28, CasIs, TypesMean DEF PinsOK, Reached, Early, Late, Ended, Aborting,
    NoneLanded, Landed, Entered, RowTo, LabelsOK
<1>29. ASSUME KilledCas PROVE PinsOK'
  BY <1>0, <1>29, KilledCasIs, TypesMean DEF PinsOK, Reached, Early, Late, Ended,
    Aborting, NoneLanded, Landed, Entered, RowTo, LabelsOK
<1>30. ASSUME SaveCas PROVE PinsOK'
  BY <1>0, <1>30, SaveCasIs, TypesMean DEF PinsOK, Reached, Early, Late, Ended,
    Aborting, NoneLanded, Landed, Entered, RowTo, LabelsOK
<1>31. ASSUME RefsCommitted PROVE PinsOK'
  BY <1>0, <1>31, RefsCommittedIs, TypesMean DEF PinsOK, Reached, Early, Late, Ended,
    Aborting, NoneLanded, Landed, Entered, RowTo, LabelsOK
<1>32. ASSUME WriteMetadata PROVE PinsOK'
  BY <1>0, <1>32, WriteMetadataIs, TypesMean DEF PinsOK, Reached, Early, Late, Ended,
    Aborting, NoneLanded, Landed, Entered, RowTo, LabelsOK
<1>33. ASSUME MetadataWritten PROVE PinsOK'
  BY <1>0, <1>33, MetadataWrittenIs, TypesMean DEF PinsOK, Reached, Early, Late, Ended,
    Aborting, NoneLanded, Landed, Entered, RowTo, LabelsOK
<1>34. ASSUME CommitPoint PROVE PinsOK'
  BY <1>0, <1>34, CommitPointIs, TypesMean, Copies, CommittedIs DEF PinsOK, Reached,
    Early, Late, Ended, Aborting, NoneLanded, Landed, Entered, RowTo, LabelsOK
<1>35. ASSUME StartRestoring PROVE PinsOK'
  BY <1>0, <1>35, StartRestoringIs, TypesMean DEF PinsOK, Reached, Early, Late, Ended,
    Aborting, NoneLanded, Landed, Entered, RowTo, LabelsOK
<1>36. ASSUME RestoreIntent PROVE PinsOK'
  BY <1>0, <1>36, RestoreIntentIs, TypesMean DEF PinsOK, Reached, Early, Late, Ended,
    Aborting, NoneLanded, Landed, Entered, RowTo, LabelsOK
<1>37. ASSUME SwitchOn PROVE PinsOK'
  BY <1>0, <1>37, SwitchOnIs, TypesMean DEF PinsOK, Reached, Early, Late, Ended,
    Aborting, NoneLanded, Landed, Entered, RowTo, LabelsOK
<1>38. ASSUME RestoreDone PROVE PinsOK'
  BY <1>0, <1>38, RestoreDoneIs, TypesMean DEF PinsOK, Reached, Early, Late, Ended,
    Aborting, NoneLanded, Landed, Entered, RowTo, LabelsOK
<1>39. ASSUME RestoreFails PROVE PinsOK'
  BY <1>0, <1>39, RestoreFailsIs, TypesMean DEF PinsOK, Reached, Early, Late, Ended,
    Aborting, NoneLanded, Landed, Entered, RowTo, LabelsOK
<1>40. ASSUME HoldersRestored PROVE PinsOK'
  BY <1>0, <1>40, HoldersRestoredIs, TypesMean DEF PinsOK, Reached, Early, Late, Ended,
    Aborting, NoneLanded, Landed, Entered, RowTo, LabelsOK
<1>41. ASSUME StartCleanup PROVE PinsOK'
  BY <1>0, <1>41, StartCleanupIs, TypesMean DEF PinsOK, Reached, Early, Late, Ended,
    Aborting, NoneLanded, Landed, Entered, RowTo, LabelsOK
<1>42. ASSUME RemoveScratch PROVE PinsOK'
  BY <1>0, <1>42, RemoveScratchIs, TypesMean DEF PinsOK, Reached, Early, Late, Ended,
    Aborting, NoneLanded, Landed, Entered, RowTo, LabelsOK
<1>43. ASSUME DropPins PROVE PinsOK'
  BY <1>0, <1>43, DropPinsIs, TypesMean DEF PinsOK, Reached, Early, Late, Ended,
    Aborting, NoneLanded, Landed, Entered, RowTo, LabelsOK
<1>44. ASSUME Finish PROVE PinsOK'
  BY <1>0, <1>44, FinishIs, TypesMean, NoRunHas DEF PinsOK, Reached, Early, Late, Ended,
    Aborting, NoneLanded, Landed, Entered, RowTo, LabelsOK
<1>45. ASSUME Continue PROVE PinsOK'
  BY <1>0, <1>45, ContinueIs, TypesMean DEF PinsOK, Reached, Early, Late, Ended,
    Aborting, NoneLanded, Landed, Entered, RowTo, LabelsOK
<1>46. ASSUME Abort PROVE PinsOK'
  BY <1>0, <1>46, AbortIs, TypesMean, Copies, CommittedIs DEF PinsOK, Reached, Early,
    Late, Ended, Aborting, NoneLanded, Landed, Entered, RowTo, LabelsOK, AbortEntry
<1>47. ASSUME AbortRebase PROVE PinsOK'
  BY <1>0, <1>47, AbortRebaseIs, TypesMean DEF PinsOK, Reached, Early, Late, Ended,
    Aborting, NoneLanded, Landed, Entered, RowTo, LabelsOK
<1>48. ASSUME AbortClassify PROVE PinsOK'
  BY <1>0, <1>48, AbortClassifyIs, TypesMean DEF PinsOK, Reached, Early, Late, Ended,
    Aborting, NoneLanded, Landed, Entered, RowTo, LabelsOK
<1>49. ASSUME Redetached PROVE PinsOK'
  BY <1>0, <1>49, RedetachedIs, TypesMean DEF PinsOK, Reached, Early, Late, Ended,
    Aborting, NoneLanded, Landed, Entered, RowTo, LabelsOK
<1>50. ASSUME AbortCas PROVE PinsOK'
  BY <1>0, <1>50, AbortCasIs, TypesMean DEF PinsOK, Reached, Early, Late, Ended,
    Aborting, NoneLanded, Landed, Entered, RowTo, LabelsOK
<1>51. ASSUME RestoreStack PROVE PinsOK'
  BY <1>0, <1>51, RestoreStackIs, TypesMean DEF PinsOK, Reached, Early, Late, Ended,
    Aborting, NoneLanded, Landed, Entered, RowTo, LabelsOK
<1>52. ASSUME StackRestored PROVE PinsOK'
  BY <1>0, <1>52, StackRestoredIs, TypesMean DEF PinsOK, Reached, Early, Late, Ended,
    Aborting, NoneLanded, Landed, Entered, RowTo, LabelsOK
<1>53. ASSUME AttachForAbort PROVE PinsOK'
  BY <1>0, <1>53, AttachForAbortIs, TypesMean DEF PinsOK, Reached, Early, Late, Ended,
    Aborting, NoneLanded, Landed, Entered, RowTo, LabelsOK
<1>54. ASSUME RecordBackIntent PROVE PinsOK'
  BY <1>0, <1>54, RecordBackIntentIs, TypesMean DEF PinsOK, Reached, Early, Late, Ended,
    Aborting, NoneLanded, Landed, Entered, RowTo, LabelsOK
<1>55. ASSUME RecordBack PROVE PinsOK'
  BY <1>0, <1>55, RecordBackIs, TypesMean DEF PinsOK, Reached, Early, Late, Ended,
    Aborting, NoneLanded, Landed, Entered, RowTo, LabelsOK
<1>56. ASSUME RecordBackDone PROVE PinsOK'
  BY <1>0, <1>56, RecordBackDoneIs, TypesMean DEF PinsOK, Reached, Early, Late, Ended,
    Aborting, NoneLanded, Landed, Entered, RowTo, LabelsOK
<1>57. ASSUME Kill PROVE PinsOK'
  BY <1>0, <1>57, KillIs, TypesMean DEF PinsOK, Reached, Early, Late, Ended, Aborting,
    NoneLanded, Landed, Entered, RowTo, LabelsOK
<1>58. ASSUME Meddle PROVE PinsOK'
  BY <1>0, <1>58, MeddleIs, TypesMean DEF PinsOK, Reached, Early, Late, Ended, Aborting,
    NoneLanded, Landed, Entered, RowTo, LabelsOK
<1>59. ASSUME Mend PROVE PinsOK'
  BY <1>0, <1>59, MendIs, TypesMean DEF PinsOK, Reached, Early, Late, Ended, Aborting,
    NoneLanded, Landed, Entered, RowTo, LabelsOK
<1>60. ASSUME EndRebase PROVE PinsOK'
  BY <1>0, <1>60, EndRebaseIs, TypesMean DEF PinsOK, Reached, Early, Late, Ended,
    Aborting, NoneLanded, Landed, Entered, RowTo, LabelsOK
<1> QED
  BY <1>1, <1>2, <1>3, <1>4, <1>5, <1>6, <1>7, <1>8, <1>9, <1>10, <1>11, <1>12, <1>13,
    <1>14, <1>15, <1>16, <1>17, <1>18, <1>19, <1>20, <1>21, <1>22, <1>23, <1>24, <1>25,
    <1>26, <1>27, <1>28, <1>29, <1>30, <1>31, <1>32, <1>33, <1>34, <1>35, <1>36, <1>37,
    <1>38, <1>39, <1>40, <1>41, <1>42, <1>43, <1>44, <1>45, <1>46, <1>47, <1>48, <1>49,
    <1>50, <1>51, <1>52, <1>53, <1>54, <1>55, <1>56, <1>57, <1>58, <1>59, <1>60 DEF
    Next, Forward, Recovery

\* The stage in the journal and the place of the command in its run agree.
LEMMA LabelsStep ==
  ASSUME ReparentInv, Next PROVE LabelsOK'
<1> USE DEF JournalKept, StageKept, RowsKept, HoldersKept, CommitKept, FollowKept
<1>0. /\ Types /\ CopyOK /\ LabelsOK /\ PinsOK /\ HoldersOK /\ TransactionOK
      /\ UndoneOK /\ RecordOK /\ AtomicOutcome /\ CommitFinal /\ FollowupRecorded /\ PinsKept
  BY DEF ReparentInv
<1>1. ASSUME Begin PROVE LabelsOK'
  BY <1>0, <1>1, BeginIs, TypesMean DEF LabelsOK, Ended, Aborting, Undoing, Off,
    Restoring, Entered, RowTo
<1>2. ASSUME Compat PROVE LabelsOK'
  BY <1>0, <1>2, CompatIs, TypesMean DEF LabelsOK, Ended, Aborting, Undoing, Off,
    Restoring, Entered, RowTo
<1>3. ASSUME StartPreflight PROVE LabelsOK'
  BY <1>0, <1>3, StartPreflightIs, TypesMean DEF LabelsOK, Ended, Aborting, Undoing,
    Off, Restoring, Entered, RowTo
<1>4. ASSUME ClearIntent PROVE LabelsOK'
  BY <1>0, <1>4, ClearIntentIs, TypesMean DEF LabelsOK, Ended, Aborting, Undoing, Off,
    Restoring, Entered, RowTo
<1>5. ASSUME ClearApply PROVE LabelsOK'
  BY <1>0, <1>5, ClearApplyIs, TypesMean DEF LabelsOK, Ended, Aborting, Undoing, Off,
    Restoring, Entered, RowTo
<1>6. ASSUME ClearDone PROVE LabelsOK'
  BY <1>0, <1>6, ClearDoneIs, TypesMean DEF LabelsOK, Ended, Aborting, Undoing, Off,
    Restoring, Entered, RowTo
<1>7. ASSUME Cleared PROVE LabelsOK'
  BY <1>0, <1>7, ClearedIs, TypesMean DEF LabelsOK, Ended, Aborting, Undoing, Off,
    Restoring, Entered, RowTo
<1>8. ASSUME Resume PROVE LabelsOK'
  BY <1>0, <1>8, ResumeIs, TypesMean, Copies, CommittedIs DEF LabelsOK, Ended, Aborting,
    Undoing, Off, Restoring, Entered, RowTo, Reached
<1>9. ASSUME Preflight PROVE LabelsOK'
  BY <1>0, <1>9, PreflightIs, TypesMean DEF LabelsOK, Ended, Aborting, Undoing, Off,
    Restoring, Entered, RowTo
<1>10. ASSUME PinPreimages PROVE LabelsOK'
  BY <1>0, <1>10, PinPreimagesIs, TypesMean DEF LabelsOK, Ended, Aborting, Undoing, Off,
    Restoring, Entered, RowTo
<1>11. ASSUME Replay PROVE LabelsOK'
  BY <1>0, <1>11, ReplayIs, TypesMean DEF LabelsOK, Ended, Aborting, Undoing, Off,
    Restoring, Entered, RowTo
<1>12. ASSUME RecordTip PROVE LabelsOK'
  BY <1>0, <1>12, RecordTipIs, TypesMean DEF LabelsOK, Ended, Aborting, Undoing, Off,
    Restoring, Entered, RowTo
<1>13. ASSUME MarkConflict PROVE LabelsOK'
  BY <1>0, <1>13, MarkConflictIs, TypesMean DEF LabelsOK, Ended, Aborting, Undoing, Off,
    Restoring, Entered, RowTo
<1>14. ASSUME PauseConflict PROVE LabelsOK'
  BY <1>0, <1>14, PauseConflictIs, TypesMean DEF LabelsOK, Ended, Aborting, Undoing,
    Off, Restoring, Entered, RowTo
<1>15. ASSUME ResumeConflict PROVE LabelsOK'
  BY <1>0, <1>15, ResumeConflictIs, TypesMean DEF LabelsOK, Ended, Aborting, Undoing,
    Off, Restoring, Entered, RowTo
<1>16. ASSUME PinTip PROVE LabelsOK'
  BY <1>0, <1>16, PinTipIs, TypesMean DEF LabelsOK, Ended, Aborting, Undoing, Off,
    Restoring, Entered, RowTo
<1>17. ASSUME Validate PROVE LabelsOK'
  BY <1>0, <1>17, ValidateIs, TypesMean DEF LabelsOK, Ended, Aborting, Undoing, Off,
    Restoring, Entered, RowTo
<1>18. ASSUME BuildPostImage PROVE LabelsOK'
  BY <1>0, <1>18, BuildPostImageIs, TypesMean DEF LabelsOK, Ended, Aborting, Undoing,
    Off, Restoring, Entered, RowTo
<1>19. ASSUME PinComputed PROVE LabelsOK'
  BY <1>0, <1>19, PinComputedIs, TypesMean DEF LabelsOK, Ended, Aborting, Undoing, Off,
    Restoring, Entered, RowTo
<1>20. ASSUME WriteRecord PROVE LabelsOK'
  BY <1>0, <1>20, WriteRecordIs, TypesMean DEF LabelsOK, Ended, Aborting, Undoing, Off,
    Restoring, Entered, RowTo
<1>21. ASSUME SaveRecord PROVE LabelsOK'
  BY <1>0, <1>21, SaveRecordIs, TypesMean DEF LabelsOK, Ended, Aborting, Undoing, Off,
    Restoring, Entered, RowTo
<1>22. ASSUME Detaching PROVE LabelsOK'
  BY <1>0, <1>22, DetachingIs, TypesMean DEF LabelsOK, Ended, Aborting, Undoing, Off,
    Restoring, Entered, RowTo
<1>23. ASSUME Classify PROVE LabelsOK'
  BY <1>0, <1>23, ClassifyIs, TypesMean DEF LabelsOK, Ended, Aborting, Undoing, Off,
    Restoring, Entered, RowTo
<1>24. ASSUME DetachIntent PROVE LabelsOK'
  BY <1>0, <1>24, DetachIntentIs, TypesMean DEF LabelsOK, Ended, Aborting, Undoing, Off,
    Restoring, Entered, RowTo
<1>25. ASSUME SwitchOff PROVE LabelsOK'
  BY <1>0, <1>25, SwitchOffIs, TypesMean DEF LabelsOK, Ended, Aborting, Undoing, Off,
    Restoring, Entered, RowTo
<1>26. ASSUME DetachDone PROVE LabelsOK'
  BY <1>0, <1>26, DetachDoneIs, TypesMean DEF LabelsOK, Ended, Aborting, Undoing, Off,
    Restoring, Entered, RowTo
<1>27. ASSUME HoldersDetached PROVE LabelsOK'
  BY <1>0, <1>27, HoldersDetachedIs, TypesMean DEF LabelsOK, Ended, Aborting, Undoing,
    Off, Restoring, Entered, RowTo
<1>28. ASSUME Cas PROVE LabelsOK'
  BY <1>0, <1>28, CasIs, TypesMean DEF LabelsOK, Ended, Aborting, Undoing, Off,
    Restoring, Entered, RowTo
<1>29. ASSUME KilledCas PROVE LabelsOK'
  BY <1>0, <1>29, KilledCasIs, TypesMean DEF LabelsOK, Ended, Aborting, Undoing, Off,
    Restoring, Entered, RowTo
<1>30. ASSUME SaveCas PROVE LabelsOK'
  BY <1>0, <1>30, SaveCasIs, TypesMean DEF LabelsOK, Ended, Aborting, Undoing, Off,
    Restoring, Entered, RowTo
<1>31. ASSUME RefsCommitted PROVE LabelsOK'
  BY <1>0, <1>31, RefsCommittedIs, TypesMean DEF LabelsOK, Ended, Aborting, Undoing,
    Off, Restoring, Entered, RowTo
<1>32. ASSUME WriteMetadata PROVE LabelsOK'
  BY <1>0, <1>32, WriteMetadataIs, TypesMean DEF LabelsOK, Ended, Aborting, Undoing,
    Off, Restoring, Entered, RowTo
<1>33. ASSUME MetadataWritten PROVE LabelsOK'
  BY <1>0, <1>33, MetadataWrittenIs, TypesMean DEF LabelsOK, Ended, Aborting, Undoing,
    Off, Restoring, Entered, RowTo
<1>34. ASSUME CommitPoint PROVE LabelsOK'
  BY <1>0, <1>34, CommitPointIs, TypesMean, Copies, CommittedIs DEF LabelsOK, Ended,
    Aborting, Undoing, Off, Restoring, Entered, RowTo
<1>35. ASSUME StartRestoring PROVE LabelsOK'
  BY <1>0, <1>35, StartRestoringIs, TypesMean DEF LabelsOK, Ended, Aborting, Undoing,
    Off, Restoring, Entered, RowTo
<1>36. ASSUME RestoreIntent PROVE LabelsOK'
  BY <1>0, <1>36, RestoreIntentIs, TypesMean DEF LabelsOK, Ended, Aborting, Undoing,
    Off, Restoring, Entered, RowTo
<1>37. ASSUME SwitchOn PROVE LabelsOK'
  BY <1>0, <1>37, SwitchOnIs, TypesMean DEF LabelsOK, Ended, Aborting, Undoing, Off,
    Restoring, Entered, RowTo
<1>38. ASSUME RestoreDone PROVE LabelsOK'
  BY <1>0, <1>38, RestoreDoneIs, TypesMean DEF LabelsOK, Ended, Aborting, Undoing, Off,
    Restoring, Entered, RowTo
<1>39. ASSUME RestoreFails PROVE LabelsOK'
  BY <1>0, <1>39, RestoreFailsIs, TypesMean DEF LabelsOK, Ended, Aborting, Undoing, Off,
    Restoring, Entered, RowTo
<1>40. ASSUME HoldersRestored PROVE LabelsOK'
  BY <1>0, <1>40, HoldersRestoredIs, TypesMean DEF LabelsOK, Ended, Aborting, Undoing,
    Off, Restoring, Entered, RowTo
<1>41. ASSUME StartCleanup PROVE LabelsOK'
  BY <1>0, <1>41, StartCleanupIs, TypesMean DEF LabelsOK, Ended, Aborting, Undoing, Off,
    Restoring, Entered, RowTo
<1>42. ASSUME RemoveScratch PROVE LabelsOK'
  BY <1>0, <1>42, RemoveScratchIs, TypesMean DEF LabelsOK, Ended, Aborting, Undoing,
    Off, Restoring, Entered, RowTo
<1>43. ASSUME DropPins PROVE LabelsOK'
  BY <1>0, <1>43, DropPinsIs, TypesMean DEF LabelsOK, Ended, Aborting, Undoing, Off,
    Restoring, Entered, RowTo
<1>44. ASSUME Finish PROVE LabelsOK'
  BY <1>0, <1>44, FinishIs, TypesMean, NoRunHas DEF LabelsOK, Ended, Aborting, Undoing,
    Off, Restoring, Entered, RowTo
<1>45. ASSUME Continue PROVE LabelsOK'
  BY <1>0, <1>45, ContinueIs, TypesMean DEF LabelsOK, Ended, Aborting, Undoing, Off,
    Restoring, Entered, RowTo
<1>46. ASSUME Abort PROVE LabelsOK'
  BY <1>0, <1>46, AbortIs, TypesMean, Copies, CommittedIs DEF LabelsOK, Ended, Aborting,
    Undoing, Off, Restoring, Entered, RowTo, AbortEntry
<1>47. ASSUME AbortRebase PROVE LabelsOK'
  BY <1>0, <1>47, AbortRebaseIs, TypesMean DEF LabelsOK, Ended, Aborting, Undoing, Off,
    Restoring, Entered, RowTo
<1>48. ASSUME AbortClassify PROVE LabelsOK'
  BY <1>0, <1>48, AbortClassifyIs, TypesMean DEF LabelsOK, Ended, Aborting, Undoing,
    Off, Restoring, Entered, RowTo
<1>49. ASSUME Redetached PROVE LabelsOK'
  BY <1>0, <1>49, RedetachedIs, TypesMean DEF LabelsOK, Ended, Aborting, Undoing, Off,
    Restoring, Entered, RowTo
<1>50. ASSUME AbortCas PROVE LabelsOK'
  BY <1>0, <1>50, AbortCasIs, TypesMean DEF LabelsOK, Ended, Aborting, Undoing, Off,
    Restoring, Entered, RowTo
<1>51. ASSUME RestoreStack PROVE LabelsOK'
  BY <1>0, <1>51, RestoreStackIs, TypesMean DEF LabelsOK, Ended, Aborting, Undoing, Off,
    Restoring, Entered, RowTo
<1>52. ASSUME StackRestored PROVE LabelsOK'
  BY <1>0, <1>52, StackRestoredIs, TypesMean DEF LabelsOK, Ended, Aborting, Undoing,
    Off, Restoring, Entered, RowTo
<1>53. ASSUME AttachForAbort PROVE LabelsOK'
  BY <1>0, <1>53, AttachForAbortIs, TypesMean DEF LabelsOK, Ended, Aborting, Undoing,
    Off, Restoring, Entered, RowTo
<1>54. ASSUME RecordBackIntent PROVE LabelsOK'
  BY <1>0, <1>54, RecordBackIntentIs, TypesMean DEF LabelsOK, Ended, Aborting, Undoing,
    Off, Restoring, Entered, RowTo
<1>55. ASSUME RecordBack PROVE LabelsOK'
  BY <1>0, <1>55, RecordBackIs, TypesMean DEF LabelsOK, Ended, Aborting, Undoing, Off,
    Restoring, Entered, RowTo
<1>56. ASSUME RecordBackDone PROVE LabelsOK'
  BY <1>0, <1>56, RecordBackDoneIs, TypesMean DEF LabelsOK, Ended, Aborting, Undoing,
    Off, Restoring, Entered, RowTo
<1>57. ASSUME Kill PROVE LabelsOK'
  BY <1>0, <1>57, KillIs, TypesMean DEF LabelsOK, Ended, Aborting, Undoing, Off,
    Restoring, Entered, RowTo
<1>58. ASSUME Meddle PROVE LabelsOK'
  BY <1>0, <1>58, MeddleIs, TypesMean DEF LabelsOK, Ended, Aborting, Undoing, Off,
    Restoring, Entered, RowTo
<1>59. ASSUME Mend PROVE LabelsOK'
  BY <1>0, <1>59, MendIs, TypesMean DEF LabelsOK, Ended, Aborting, Undoing, Off,
    Restoring, Entered, RowTo
<1>60. ASSUME EndRebase PROVE LabelsOK'
  BY <1>0, <1>60, EndRebaseIs, TypesMean DEF LabelsOK, Ended, Aborting, Undoing, Off,
    Restoring, Entered, RowTo
<1> QED
  BY <1>1, <1>2, <1>3, <1>4, <1>5, <1>6, <1>7, <1>8, <1>9, <1>10, <1>11, <1>12, <1>13,
    <1>14, <1>15, <1>16, <1>17, <1>18, <1>19, <1>20, <1>21, <1>22, <1>23, <1>24, <1>25,
    <1>26, <1>27, <1>28, <1>29, <1>30, <1>31, <1>32, <1>33, <1>34, <1>35, <1>36, <1>37,
    <1>38, <1>39, <1>40, <1>41, <1>42, <1>43, <1>44, <1>45, <1>46, <1>47, <1>48, <1>49,
    <1>50, <1>51, <1>52, <1>53, <1>54, <1>55, <1>56, <1>57, <1>58, <1>59, <1>60 DEF
    Next, Forward, Recovery

\* A worktree is where the journal says, or on its way under an intent.
LEMMA HoldersStep ==
  ASSUME ReparentInv, Next PROVE HoldersOK'
<1> USE DEF JournalKept, StageKept, RowsKept, HoldersKept, CommitKept, FollowKept
<1>0. /\ Types /\ CopyOK /\ LabelsOK /\ PinsOK /\ HoldersOK /\ TransactionOK
      /\ UndoneOK /\ RecordOK /\ AtomicOutcome /\ CommitFinal /\ FollowupRecorded /\ PinsKept
  BY DEF ReparentInv
<1>1. ASSUME Begin PROVE HoldersOK'
  BY <1>0, <1>1, BeginIs, TypesMean DEF HoldersOK, Off, Back, Landed, Entered, LabelsOK,
    Restoring, RowTo, NoneLanded
<1>2. ASSUME Compat PROVE HoldersOK'
  BY <1>0, <1>2, CompatIs, TypesMean DEF HoldersOK, Off, Back, Landed, Entered,
    LabelsOK, Restoring, RowTo
<1>3. ASSUME StartPreflight PROVE HoldersOK'
  BY <1>0, <1>3, StartPreflightIs, TypesMean DEF HoldersOK, Off, Back, Landed, Entered,
    LabelsOK, Restoring, RowTo
<1>4. ASSUME ClearIntent PROVE HoldersOK'
  BY <1>0, <1>4, ClearIntentIs, TypesMean DEF HoldersOK, Off, Back, Landed, Entered,
    LabelsOK, Restoring, RowTo
<1>5. ASSUME ClearApply PROVE HoldersOK'
  BY <1>0, <1>5, ClearApplyIs, TypesMean DEF HoldersOK, Off, Back, Landed, Entered,
    LabelsOK, Restoring, RowTo
<1>6. ASSUME ClearDone PROVE HoldersOK'
  BY <1>0, <1>6, ClearDoneIs, TypesMean DEF HoldersOK, Off, Back, Landed, Entered,
    LabelsOK, Restoring, RowTo
<1>7. ASSUME Cleared PROVE HoldersOK'
  BY <1>0, <1>7, ClearedIs, TypesMean DEF HoldersOK, Off, Back, Landed, Entered,
    LabelsOK, Restoring, RowTo
<1>8. ASSUME Resume PROVE HoldersOK'
  BY <1>0, <1>8, ResumeIs, TypesMean, Copies, CommittedIs DEF HoldersOK, Off, Back,
    Landed, Entered, LabelsOK, Restoring, RowTo, Reached
<1>9. ASSUME Preflight PROVE HoldersOK'
  BY <1>0, <1>9, PreflightIs, TypesMean DEF HoldersOK, Off, Back, Landed, Entered,
    LabelsOK, Restoring, RowTo
<1>10. ASSUME PinPreimages PROVE HoldersOK'
  BY <1>0, <1>10, PinPreimagesIs, TypesMean DEF HoldersOK, Off, Back, Landed, Entered,
    LabelsOK, Restoring, RowTo
<1>11. ASSUME Replay PROVE HoldersOK'
  BY <1>0, <1>11, ReplayIs, TypesMean DEF HoldersOK, Off, Back, Landed, Entered,
    LabelsOK, Restoring, RowTo
<1>12. ASSUME RecordTip PROVE HoldersOK'
  BY <1>0, <1>12, RecordTipIs, TypesMean DEF HoldersOK, Off, Back, Landed, Entered,
    LabelsOK, Restoring, RowTo
<1>13. ASSUME MarkConflict PROVE HoldersOK'
  BY <1>0, <1>13, MarkConflictIs, TypesMean DEF HoldersOK, Off, Back, Landed, Entered,
    LabelsOK, Restoring, RowTo
<1>14. ASSUME PauseConflict PROVE HoldersOK'
  BY <1>0, <1>14, PauseConflictIs, TypesMean DEF HoldersOK, Off, Back, Landed, Entered,
    LabelsOK, Restoring, RowTo
<1>15. ASSUME ResumeConflict PROVE HoldersOK'
  BY <1>0, <1>15, ResumeConflictIs, TypesMean DEF HoldersOK, Off, Back, Landed, Entered,
    LabelsOK, Restoring, RowTo
<1>16. ASSUME PinTip PROVE HoldersOK'
  BY <1>0, <1>16, PinTipIs, TypesMean DEF HoldersOK, Off, Back, Landed, Entered,
    LabelsOK, Restoring, RowTo
<1>17. ASSUME Validate PROVE HoldersOK'
  BY <1>0, <1>17, ValidateIs, TypesMean DEF HoldersOK, Off, Back, Landed, Entered,
    LabelsOK, Restoring, RowTo
<1>18. ASSUME BuildPostImage PROVE HoldersOK'
  BY <1>0, <1>18, BuildPostImageIs, TypesMean DEF HoldersOK, Off, Back, Landed, Entered,
    LabelsOK, Restoring, RowTo
<1>19. ASSUME PinComputed PROVE HoldersOK'
  BY <1>0, <1>19, PinComputedIs, TypesMean DEF HoldersOK, Off, Back, Landed, Entered,
    LabelsOK, Restoring, RowTo
<1>20. ASSUME WriteRecord PROVE HoldersOK'
  BY <1>0, <1>20, WriteRecordIs, TypesMean DEF HoldersOK, Off, Back, Landed, Entered,
    LabelsOK, Restoring, RowTo
<1>21. ASSUME SaveRecord PROVE HoldersOK'
  BY <1>0, <1>21, SaveRecordIs, TypesMean DEF HoldersOK, Off, Back, Landed, Entered,
    LabelsOK, Restoring, RowTo
<1>22. ASSUME Detaching PROVE HoldersOK'
  BY <1>0, <1>22, DetachingIs, TypesMean DEF HoldersOK, Off, Back, Landed, Entered,
    LabelsOK, Restoring, RowTo
<1>23. ASSUME Classify PROVE HoldersOK'
  BY <1>0, <1>23, ClassifyIs, TypesMean DEF HoldersOK, Off, Back, Landed, Entered,
    LabelsOK, Restoring, RowTo
<1>24. ASSUME DetachIntent PROVE HoldersOK'
  <2>1. /\ pc \in {"detach", "redetach"} /\ UNCHANGED <<ref, wt>> /\ j'.on = j.on
        /\ j'.stage = j.stage /\ j.stage \in {"detaching-holders", "committing-refs", "aborting"}
    BY <1>0, <1>24, DetachIntentIs DEF LabelsOK, Undoing
  <2>2. \A r \in Held : Landed(r)' = Landed(r)
    BY <2>1 DEF Landed
  <2>3. ASSUME NEW r \in Held, j'.h[r] = Found(j, r)
        PROVE  /\ j'.h[r] \in {"none", "restored"} => wt'[r] = "on"
               /\ j'.on /\ j'.h[r] \in {"none", "detaching"} => ~Landed(r)'
               /\ ~(j'.h[r] \in Off /\ wt'[r] = "off")
               /\ ~(j'.h[r] = "detached" /\ wt'[r] = "on")
               /\ ~(j'.h[r] = "restoring" /\ wt'[r] = "on")
    <3>1. j'.h[r] \in {"none", "detaching"} => j'.h[r] = j.h[r]
      BY <1>0, <2>1, <2>3, FoundOK
    <3>2. j'.on /\ j'.h[r] \in {"none", "detaching"} => ~Landed(r)'
      BY <1>0, <2>1, <2>2, <3>1 DEF HoldersOK
    <3> QED BY <1>0, <2>1, <2>3, <3>2, FoundOK
  <2>4. CASE pc' = "idle"
    <3>1. \A r \in Held : j'.h[r] = Found(j, r)
      BY <1>0, <1>24, <2>1, <2>4, DetachIntentIs
    <3> QED BY <2>3, <3>1 DEF HoldersOK
  <2>5. CASE pc' # "idle"
    <3>1. PICK s \in Held :
            /\ UNCHANGED pc /\ sw' = s /\ wt[s] = "on"
            /\ \A r \in Held \ {s} : j'.h[r] = Found(j, r)
            /\ j'.h[s] = IF Found(j, s) \in Back THEN "redetaching" ELSE "detaching"
      BY <1>0, <1>24, <2>1, <2>5, DetachIntentIs
    <3>2. Found(j, s) \notin Back => Found(j, s) \in {"none", "detaching"}
      <4>1. j.h[s] \in Positions
        BY <1>0, TypesMean
      <4> QED BY <1>0, <2>1, <3>1, <4>1 DEF Found, HoldersOK, Back, Off, Positions
    <3>3. j.on /\ Found(j, s) \notin Back => ~Landed(s)
      BY <1>0, <2>1, <3>2, FoundOK DEF HoldersOK
    <3>4. j'.on /\ j'.h[s] \in {"none", "detaching"} => ~Landed(s)'
      BY <2>1, <2>2, <3>1, <3>3
    <3>5. wt'[s] = "on" /\ j'.h[s] \in {"redetaching", "detaching"}
      BY <2>1, <3>1
    <3>6. ASSUME NEW r \in Held PROVE r # s => j'.h[r] = Found(j, r)
      BY <3>1
    <3> QED BY <2>1, <2>3, <3>1, <3>4, <3>5, <3>6 DEF HoldersOK
  <2> QED BY <2>4, <2>5
<1>25. ASSUME SwitchOff PROVE HoldersOK'
  BY <1>0, <1>25, SwitchOffIs, TypesMean DEF HoldersOK, Off, Back, Landed, Entered,
    LabelsOK, Restoring, RowTo
<1>26. ASSUME DetachDone PROVE HoldersOK'
  BY <1>0, <1>26, DetachDoneIs, TypesMean DEF HoldersOK, Off, Back, Landed, Entered,
    LabelsOK, Restoring, RowTo
<1>27. ASSUME HoldersDetached PROVE HoldersOK'
  BY <1>0, <1>27, HoldersDetachedIs, TypesMean DEF HoldersOK, Off, Back, Landed,
    Entered, LabelsOK, Restoring, RowTo
<1>28. ASSUME Cas PROVE HoldersOK'
  BY <1>0, <1>28, CasIs, TypesMean DEF HoldersOK, Off, Back, Landed, Entered, LabelsOK,
    Restoring, RowTo, TransactionOK, Undoing, Positions
<1>29. ASSUME KilledCas PROVE HoldersOK'
  BY <1>0, <1>29, KilledCasIs, TypesMean DEF HoldersOK, Off, Back, Landed, Entered,
    LabelsOK, Restoring, RowTo, TransactionOK, Undoing, Positions
<1>30. ASSUME SaveCas PROVE HoldersOK'
  BY <1>0, <1>30, SaveCasIs, TypesMean DEF HoldersOK, Off, Back, Landed, Entered,
    LabelsOK, Restoring, RowTo
<1>31. ASSUME RefsCommitted PROVE HoldersOK'
  BY <1>0, <1>31, RefsCommittedIs, TypesMean DEF HoldersOK, Off, Back, Landed, Entered,
    LabelsOK, Restoring, RowTo
<1>32. ASSUME WriteMetadata PROVE HoldersOK'
  BY <1>0, <1>32, WriteMetadataIs, TypesMean DEF HoldersOK, Off, Back, Landed, Entered,
    LabelsOK, Restoring, RowTo
<1>33. ASSUME MetadataWritten PROVE HoldersOK'
  BY <1>0, <1>33, MetadataWrittenIs, TypesMean DEF HoldersOK, Off, Back, Landed,
    Entered, LabelsOK, Restoring, RowTo
<1>34. ASSUME CommitPoint PROVE HoldersOK'
  BY <1>0, <1>34, CommitPointIs, TypesMean, Copies, CommittedIs DEF HoldersOK, Off,
    Back, Landed, Entered, LabelsOK, Restoring, RowTo
<1>35. ASSUME StartRestoring PROVE HoldersOK'
  BY <1>0, <1>35, StartRestoringIs, TypesMean DEF HoldersOK, Off, Back, Landed, Entered,
    LabelsOK, Restoring, RowTo
<1>36. ASSUME RestoreIntent PROVE HoldersOK'
  <2>1. \A r \in Held : wt[r] \in {"on", "off"} /\ j.h[r] \in Positions
    BY <1>0, TypesMean
  <2>2. pc # "idle"
    BY <1>36 DEF RestoreIntent, Restoring
  <2>3. SUFFICES ASSUME NEW r \in Held
        PROVE  /\ j'.h[r] \in {"none", "restored"} => wt'[r] = "on"
               /\ j'.on /\ j'.h[r] \in {"none", "detaching"} => ~Landed(r)'
               /\ j'.h[r] \in Off /\ wt'[r] = "off" =>
                    \/ sw' = r /\ pc' \in {"detach", "redetach"}
                    \/ /\ pc' = "idle"
                       /\ j'.stage \in {"detaching-holders", "committing-refs", "aborting"}
               /\ j'.h[r] = "detached" /\ wt'[r] = "on" => pc' = "idle" /\ r \in j'.defer
               /\ j'.h[r] = "restoring" /\ wt'[r] = "on" => pc' = "idle" \/ Restoring'
    BY DEF HoldersOK
  <2>4. Landed(r)' = Landed(r) /\ UNCHANGED wt /\ j'.on = j.on
    BY <1>0, <1>36, RestoreIntentIs DEF Landed
  <2>5. HoldersOK
    BY <1>0
  <2> QED
    BY <1>0, <1>36, <2>1, <2>2, <2>4, <2>5, RestoreIntentIs, FoundOK DEF HoldersOK, Off,
      Back, Positions, Restoring
<1>37. ASSUME SwitchOn PROVE HoldersOK'
  BY <1>0, <1>37, SwitchOnIs, TypesMean DEF HoldersOK, Off, Back, Landed, Entered,
    LabelsOK, Restoring, RowTo
<1>38. ASSUME RestoreDone PROVE HoldersOK'
  BY <1>0, <1>38, RestoreDoneIs, TypesMean DEF HoldersOK, Off, Back, Landed, Entered,
    LabelsOK, Restoring, RowTo
<1>39. ASSUME RestoreFails PROVE HoldersOK'
  BY <1>0, <1>39, RestoreFailsIs, TypesMean DEF HoldersOK, Off, Back, Landed, Entered,
    LabelsOK, Restoring, RowTo
<1>40. ASSUME HoldersRestored PROVE HoldersOK'
  <2>1. CASE pc' = "idle"
    BY <1>0, <1>40, <2>1, HoldersRestoredIs DEF HoldersOK, Landed, Off, Back, Restoring,
      Entered
  <2>2. CASE pc' # "idle"
    <3>1. /\ pc = "restore" /\ m.defer = {} /\ ToRestore = {} /\ j'.h = j.h /\ j'.on = j.on
          /\ UNCHANGED <<ref, wt>>
      BY <1>0, <1>40, <2>2, HoldersRestoredIs DEF Entered
    <3>2. AllBack
      BY <1>0, <3>1, AllRestored
    <3> QED
      BY <1>0, <3>1, <3>2 DEF AllBack, HoldersOK, Landed, Off, Back
  <2> QED BY <2>1, <2>2
<1>41. ASSUME StartCleanup PROVE HoldersOK'
  BY <1>0, <1>41, StartCleanupIs, TypesMean DEF HoldersOK, Off, Back, Landed, Entered,
    LabelsOK, Restoring, RowTo
<1>42. ASSUME RemoveScratch PROVE HoldersOK'
  BY <1>0, <1>42, RemoveScratchIs, TypesMean DEF HoldersOK, Off, Back, Landed, Entered,
    LabelsOK, Restoring, RowTo
<1>43. ASSUME DropPins PROVE HoldersOK'
  BY <1>0, <1>43, DropPinsIs, TypesMean DEF HoldersOK, Off, Back, Landed, Entered,
    LabelsOK, Restoring, RowTo
<1>44. ASSUME Finish PROVE HoldersOK'
  <2>1. AllBack
    BY <1>0, <1>44, FinishIs DEF UndoneOK
  <2>2. UNCHANGED <<ref, wt>> /\ ((j'.h = j.h /\ j'.on = j.on) \/ j' = NoRun)
    BY <1>0, <1>44, FinishIs DEF Entered
  <2>3. CASE j'.h = j.h /\ j'.on = j.on
    BY <1>0, <2>1, <2>2, <2>3 DEF HoldersOK, AllBack, Landed, Back
  <2>4. CASE j' = NoRun
    BY <2>1, <2>2, <2>4, NoRunHas DEF HoldersOK, AllBack, Off
  <2> QED BY <2>2, <2>3, <2>4
<1>45. ASSUME Continue PROVE HoldersOK'
  <2>1. /\ pc = "idle" /\ Reattaches /\ UNCHANGED <<ref, wt>> /\ j'.on = j.on
    BY <1>0, <1>45, ContinueIs
  <2>2. \A r \in Held : Landed(r)' = Landed(r)
    BY <2>1 DEF Landed
  <2>3. ASSUME NEW r \in Held, j'.on, j'.h[r] \in {"none", "detaching"} PROVE ~Landed(r)
    <3>1. j.h[r] \in {"none", "detaching"} /\ j.on
      BY <1>0, <2>1, <2>3, PutOK
    <3> QED BY <1>0, <3>1 DEF HoldersOK
  <2> QED
    BY <1>0, <2>1, <2>2, <2>3, PutOK DEF HoldersOK
<1>46. ASSUME Abort PROVE HoldersOK'
  <2>1. /\ pc = "idle" /\ Reattaches /\ UNCHANGED <<ref, wt>> /\ j'.on = j.on
    BY <1>0, <1>46, AbortIs
  <2>2. \A r \in Held : Landed(r)' = Landed(r)
    BY <2>1 DEF Landed
  <2>3. ASSUME NEW r \in Held, j'.on, j'.h[r] \in {"none", "detaching"} PROVE ~Landed(r)
    <3>1. j.h[r] \in {"none", "detaching"} /\ j.on
      BY <1>0, <2>1, <2>3, PutOK
    <3> QED BY <1>0, <3>1 DEF HoldersOK
  <2> QED
    BY <1>0, <2>1, <2>2, <2>3, PutOK DEF HoldersOK
<1>47. ASSUME AbortRebase PROVE HoldersOK'
  BY <1>0, <1>47, AbortRebaseIs, TypesMean DEF HoldersOK, Off, Back, Landed, Entered,
    LabelsOK, Restoring, RowTo
<1>48. ASSUME AbortClassify PROVE HoldersOK'
  <2>1. \A r \in Held : wt[r] \in {"on", "off"} /\ j.h[r] \in Positions
    BY <1>0, TypesMean
  <2>2. pc # "idle"
    BY <1>48 DEF AbortClassify, Restoring
  <2>3. SUFFICES ASSUME NEW r \in Held
        PROVE  /\ j'.h[r] \in {"none", "restored"} => wt'[r] = "on"
               /\ j'.on /\ j'.h[r] \in {"none", "detaching"} => ~Landed(r)'
               /\ j'.h[r] \in Off /\ wt'[r] = "off" =>
                    \/ sw' = r /\ pc' \in {"detach", "redetach"}
                    \/ /\ pc' = "idle"
                       /\ j'.stage \in {"detaching-holders", "committing-refs", "aborting"}
               /\ j'.h[r] = "detached" /\ wt'[r] = "on" => pc' = "idle" /\ r \in j'.defer
               /\ j'.h[r] = "restoring" /\ wt'[r] = "on" => pc' = "idle" \/ Restoring'
    BY DEF HoldersOK
  <2>4. Landed(r)' = Landed(r) /\ UNCHANGED wt /\ j'.on = j.on
    BY <1>0, <1>48, AbortClassifyIs DEF Landed
  <2>5. HoldersOK
    BY <1>0
  <2> QED
    BY <1>0, <1>48, <2>1, <2>2, <2>4, <2>5, AbortClassifyIs, FoundOK DEF HoldersOK, Off,
      Back, Positions, Restoring
<1>49. ASSUME Redetached PROVE HoldersOK'
  BY <1>0, <1>49, RedetachedIs, TypesMean DEF HoldersOK, Off, Back, Landed, Entered,
    LabelsOK, Restoring, RowTo
<1>50. ASSUME AbortCas PROVE HoldersOK'
  BY <1>0, <1>50, AbortCasIs, TypesMean DEF HoldersOK, Off, Back, Landed, Entered,
    LabelsOK, Restoring, RowTo
<1>51. ASSUME RestoreStack PROVE HoldersOK'
  BY <1>0, <1>51, RestoreStackIs, TypesMean DEF HoldersOK, Off, Back, Landed, Entered,
    LabelsOK, Restoring, RowTo
<1>52. ASSUME StackRestored PROVE HoldersOK'
  BY <1>0, <1>52, StackRestoredIs, TypesMean DEF HoldersOK, Off, Back, Landed, Entered,
    LabelsOK, Restoring, RowTo
<1>53. ASSUME AttachForAbort PROVE HoldersOK'
  BY <1>0, <1>53, AttachForAbortIs, TypesMean DEF HoldersOK, Off, Back, Landed, Entered,
    LabelsOK, Restoring, RowTo
<1>54. ASSUME RecordBackIntent PROVE HoldersOK'
  BY <1>0, <1>54, RecordBackIntentIs, TypesMean DEF HoldersOK, Off, Back, Landed,
    Entered, LabelsOK, Restoring, RowTo
<1>55. ASSUME RecordBack PROVE HoldersOK'
  BY <1>0, <1>55, RecordBackIs, TypesMean DEF HoldersOK, Off, Back, Landed, Entered,
    LabelsOK, Restoring, RowTo
<1>56. ASSUME RecordBackDone PROVE HoldersOK'
  BY <1>0, <1>56, RecordBackDoneIs, TypesMean DEF HoldersOK, Off, Back, Landed, Entered,
    LabelsOK, Restoring, RowTo
<1>57. ASSUME Kill PROVE HoldersOK'
  BY <1>0, <1>57, KillIs, TypesMean DEF HoldersOK, Off, Back, Landed, Entered, LabelsOK,
    Restoring, RowTo, Undoing
<1>58. ASSUME Meddle PROVE HoldersOK'
  BY <1>0, <1>58, MeddleIs, TypesMean DEF HoldersOK, Off, Back, Landed, Entered,
    LabelsOK, Restoring, RowTo
<1>59. ASSUME Mend PROVE HoldersOK'
  BY <1>0, <1>59, MendIs, TypesMean DEF HoldersOK, Off, Back, Landed, Entered, LabelsOK,
    Restoring, RowTo
<1>60. ASSUME EndRebase PROVE HoldersOK'
  BY <1>0, <1>60, EndRebaseIs, TypesMean DEF HoldersOK, Off, Back, Landed, Entered,
    LabelsOK, Restoring, RowTo
<1> QED
  BY <1>1, <1>2, <1>3, <1>4, <1>5, <1>6, <1>7, <1>8, <1>9, <1>10, <1>11, <1>12, <1>13,
    <1>14, <1>15, <1>16, <1>17, <1>18, <1>19, <1>20, <1>21, <1>22, <1>23, <1>24, <1>25,
    <1>26, <1>27, <1>28, <1>29, <1>30, <1>31, <1>32, <1>33, <1>34, <1>35, <1>36, <1>37,
    <1>38, <1>39, <1>40, <1>41, <1>42, <1>43, <1>44, <1>45, <1>46, <1>47, <1>48, <1>49,
    <1>50, <1>51, <1>52, <1>53, <1>54, <1>55, <1>56, <1>57, <1>58, <1>59, <1>60 DEF
    Next, Forward, Recovery

\* The ref transactions find every worktree they need detached.
LEMMA TransactionStep ==
  ASSUME ReparentInv, Next PROVE TransactionOK'
<1> USE DEF JournalKept, StageKept, RowsKept, HoldersKept, CommitKept, FollowKept
<1>0. /\ Types /\ CopyOK /\ LabelsOK /\ PinsOK /\ HoldersOK /\ TransactionOK
      /\ UndoneOK /\ RecordOK /\ AtomicOutcome /\ CommitFinal /\ FollowupRecorded /\ PinsKept
  BY DEF ReparentInv
<1>1. ASSUME Begin PROVE TransactionOK'
  BY <1>0, <1>1, BeginIs, TypesMean DEF TransactionOK, Landed, RowTo
<1>2. ASSUME Compat PROVE TransactionOK'
  BY <1>0, <1>2, CompatIs, TypesMean DEF TransactionOK, Landed, RowTo
<1>3. ASSUME StartPreflight PROVE TransactionOK'
  BY <1>0, <1>3, StartPreflightIs, TypesMean DEF TransactionOK, Landed, RowTo
<1>4. ASSUME ClearIntent PROVE TransactionOK'
  BY <1>0, <1>4, ClearIntentIs, TypesMean DEF TransactionOK, Landed, RowTo
<1>5. ASSUME ClearApply PROVE TransactionOK'
  BY <1>0, <1>5, ClearApplyIs, TypesMean DEF TransactionOK, Landed, RowTo
<1>6. ASSUME ClearDone PROVE TransactionOK'
  BY <1>0, <1>6, ClearDoneIs, TypesMean DEF TransactionOK, Landed, RowTo
<1>7. ASSUME Cleared PROVE TransactionOK'
  BY <1>0, <1>7, ClearedIs, TypesMean DEF TransactionOK, Landed, RowTo
<1>8. ASSUME Resume PROVE TransactionOK'
  BY <1>0, <1>8, ResumeIs, TypesMean, Copies, CommittedIs DEF TransactionOK, Landed,
    RowTo, Reached
<1>9. ASSUME Preflight PROVE TransactionOK'
  BY <1>0, <1>9, PreflightIs, TypesMean DEF TransactionOK, Landed, RowTo
<1>10. ASSUME PinPreimages PROVE TransactionOK'
  BY <1>0, <1>10, PinPreimagesIs, TypesMean DEF TransactionOK, Landed, RowTo
<1>11. ASSUME Replay PROVE TransactionOK'
  BY <1>0, <1>11, ReplayIs, TypesMean DEF TransactionOK, Landed, RowTo
<1>12. ASSUME RecordTip PROVE TransactionOK'
  BY <1>0, <1>12, RecordTipIs, TypesMean DEF TransactionOK, Landed, RowTo
<1>13. ASSUME MarkConflict PROVE TransactionOK'
  BY <1>0, <1>13, MarkConflictIs, TypesMean DEF TransactionOK, Landed, RowTo
<1>14. ASSUME PauseConflict PROVE TransactionOK'
  BY <1>0, <1>14, PauseConflictIs, TypesMean DEF TransactionOK, Landed, RowTo
<1>15. ASSUME ResumeConflict PROVE TransactionOK'
  BY <1>0, <1>15, ResumeConflictIs, TypesMean DEF TransactionOK, Landed, RowTo
<1>16. ASSUME PinTip PROVE TransactionOK'
  BY <1>0, <1>16, PinTipIs, TypesMean DEF TransactionOK, Landed, RowTo
<1>17. ASSUME Validate PROVE TransactionOK'
  BY <1>0, <1>17, ValidateIs, TypesMean DEF TransactionOK, Landed, RowTo
<1>18. ASSUME BuildPostImage PROVE TransactionOK'
  BY <1>0, <1>18, BuildPostImageIs, TypesMean DEF TransactionOK, Landed, RowTo
<1>19. ASSUME PinComputed PROVE TransactionOK'
  BY <1>0, <1>19, PinComputedIs, TypesMean DEF TransactionOK, Landed, RowTo
<1>20. ASSUME WriteRecord PROVE TransactionOK'
  BY <1>0, <1>20, WriteRecordIs, TypesMean DEF TransactionOK, Landed, RowTo
<1>21. ASSUME SaveRecord PROVE TransactionOK'
  BY <1>0, <1>21, SaveRecordIs, TypesMean DEF TransactionOK, Landed, RowTo
<1>22. ASSUME Detaching PROVE TransactionOK'
  BY <1>0, <1>22, DetachingIs, TypesMean DEF TransactionOK, Landed, RowTo
<1>23. ASSUME Classify PROVE TransactionOK'
  BY <1>0, <1>23, ClassifyIs, TypesMean DEF TransactionOK, Landed, RowTo
<1>24. ASSUME DetachIntent PROVE TransactionOK'
  BY <1>0, <1>24, DetachIntentIs, TypesMean DEF TransactionOK, Landed, RowTo
<1>25. ASSUME SwitchOff PROVE TransactionOK'
  BY <1>0, <1>25, SwitchOffIs, TypesMean DEF TransactionOK, Landed, RowTo
<1>26. ASSUME DetachDone PROVE TransactionOK'
  BY <1>0, <1>26, DetachDoneIs, TypesMean DEF TransactionOK, Landed, RowTo
<1>27. ASSUME HoldersDetached PROVE TransactionOK'
  BY <1>0, <1>27, HoldersDetachedIs, TypesMean DEF TransactionOK, Landed, RowTo
<1>28. ASSUME Cas PROVE TransactionOK'
  BY <1>0, <1>28, CasIs, TypesMean DEF TransactionOK, Landed, RowTo
<1>29. ASSUME KilledCas PROVE TransactionOK'
  BY <1>0, <1>29, KilledCasIs, TypesMean DEF TransactionOK, Landed, RowTo
<1>30. ASSUME SaveCas PROVE TransactionOK'
  BY <1>0, <1>30, SaveCasIs, TypesMean DEF TransactionOK, Landed, RowTo
<1>31. ASSUME RefsCommitted PROVE TransactionOK'
  BY <1>0, <1>31, RefsCommittedIs, TypesMean DEF TransactionOK, Landed, RowTo
<1>32. ASSUME WriteMetadata PROVE TransactionOK'
  BY <1>0, <1>32, WriteMetadataIs, TypesMean DEF TransactionOK, Landed, RowTo
<1>33. ASSUME MetadataWritten PROVE TransactionOK'
  BY <1>0, <1>33, MetadataWrittenIs, TypesMean DEF TransactionOK, Landed, RowTo
<1>34. ASSUME CommitPoint PROVE TransactionOK'
  BY <1>0, <1>34, CommitPointIs, TypesMean, Copies, CommittedIs DEF TransactionOK,
    Landed, RowTo
<1>35. ASSUME StartRestoring PROVE TransactionOK'
  BY <1>0, <1>35, StartRestoringIs, TypesMean DEF TransactionOK, Landed, RowTo
<1>36. ASSUME RestoreIntent PROVE TransactionOK'
  BY <1>0, <1>36, RestoreIntentIs, TypesMean DEF TransactionOK, Landed, RowTo
<1>37. ASSUME SwitchOn PROVE TransactionOK'
  BY <1>0, <1>37, SwitchOnIs, TypesMean DEF TransactionOK, Landed, RowTo, Restoring
<1>38. ASSUME RestoreDone PROVE TransactionOK'
  BY <1>0, <1>38, RestoreDoneIs, TypesMean DEF TransactionOK, Landed, RowTo
<1>39. ASSUME RestoreFails PROVE TransactionOK'
  BY <1>0, <1>39, RestoreFailsIs, TypesMean DEF TransactionOK, Landed, RowTo
<1>40. ASSUME HoldersRestored PROVE TransactionOK'
  BY <1>0, <1>40, HoldersRestoredIs, TypesMean DEF TransactionOK, Landed, RowTo
<1>41. ASSUME StartCleanup PROVE TransactionOK'
  BY <1>0, <1>41, StartCleanupIs, TypesMean DEF TransactionOK, Landed, RowTo
<1>42. ASSUME RemoveScratch PROVE TransactionOK'
  BY <1>0, <1>42, RemoveScratchIs, TypesMean DEF TransactionOK, Landed, RowTo
<1>43. ASSUME DropPins PROVE TransactionOK'
  BY <1>0, <1>43, DropPinsIs, TypesMean DEF TransactionOK, Landed, RowTo
<1>44. ASSUME Finish PROVE TransactionOK'
  BY <1>0, <1>44, FinishIs, TypesMean, NoRunHas DEF TransactionOK, Landed, RowTo
<1>45. ASSUME Continue PROVE TransactionOK'
  BY <1>0, <1>45, ContinueIs, TypesMean DEF TransactionOK, Landed, RowTo
<1>46. ASSUME Abort PROVE TransactionOK'
  BY <1>0, <1>46, AbortIs, TypesMean, Copies, CommittedIs DEF TransactionOK, Landed,
    RowTo, AbortEntry
<1>47. ASSUME AbortRebase PROVE TransactionOK'
  BY <1>0, <1>47, AbortRebaseIs, TypesMean DEF TransactionOK, Landed, RowTo
<1>48. ASSUME AbortClassify PROVE TransactionOK'
  BY <1>0, <1>48, AbortClassifyIs, TypesMean DEF TransactionOK, Landed, RowTo
<1>49. ASSUME Redetached PROVE TransactionOK'
  <2>1. /\ pc = "redetach" /\ pc' \in {"cas-back", "idle"} /\ UNCHANGED <<ref, wt, was, j>>
        /\ \A r \in Held : j.h[r] \notin Back
    BY <1>0, <1>49, RedetachedIs DEF Redetached
  <2>2. ASSUME NEW r \in Held PROVE wt[r] = "off" \/ ~Landed(r)
    <3>1. wt[r] \in {"on", "off"} /\ j.h[r] \in Positions /\ j.on
      BY <1>0, <2>1, TypesMean DEF LabelsOK
    <3> QED
      BY <1>0, <2>1, <3>1 DEF HoldersOK, Back, Positions, Restoring
  <2> QED
    BY <1>0, <2>1, <2>2 DEF TransactionOK, Landed
<1>50. ASSUME AbortCas PROVE TransactionOK'
  BY <1>0, <1>50, AbortCasIs, TypesMean DEF TransactionOK, Landed, RowTo
<1>51. ASSUME RestoreStack PROVE TransactionOK'
  BY <1>0, <1>51, RestoreStackIs, TypesMean DEF TransactionOK, Landed, RowTo
<1>52. ASSUME StackRestored PROVE TransactionOK'
  BY <1>0, <1>52, StackRestoredIs, TypesMean DEF TransactionOK, Landed, RowTo
<1>53. ASSUME AttachForAbort PROVE TransactionOK'
  BY <1>0, <1>53, AttachForAbortIs, TypesMean DEF TransactionOK, Landed, RowTo
<1>54. ASSUME RecordBackIntent PROVE TransactionOK'
  BY <1>0, <1>54, RecordBackIntentIs, TypesMean DEF TransactionOK, Landed, RowTo
<1>55. ASSUME RecordBack PROVE TransactionOK'
  BY <1>0, <1>55, RecordBackIs, TypesMean DEF TransactionOK, Landed, RowTo
<1>56. ASSUME RecordBackDone PROVE TransactionOK'
  BY <1>0, <1>56, RecordBackDoneIs, TypesMean DEF TransactionOK, Landed, RowTo
<1>57. ASSUME Kill PROVE TransactionOK'
  BY <1>0, <1>57, KillIs, TypesMean DEF TransactionOK, Landed, RowTo
<1>58. ASSUME Meddle PROVE TransactionOK'
  BY <1>0, <1>58, MeddleIs, TypesMean DEF TransactionOK, Landed, RowTo
<1>59. ASSUME Mend PROVE TransactionOK'
  BY <1>0, <1>59, MendIs, TypesMean DEF TransactionOK, Landed, RowTo
<1>60. ASSUME EndRebase PROVE TransactionOK'
  BY <1>0, <1>60, EndRebaseIs, TypesMean DEF TransactionOK, Landed, RowTo
<1> QED
  BY <1>1, <1>2, <1>3, <1>4, <1>5, <1>6, <1>7, <1>8, <1>9, <1>10, <1>11, <1>12, <1>13,
    <1>14, <1>15, <1>16, <1>17, <1>18, <1>19, <1>20, <1>21, <1>22, <1>23, <1>24, <1>25,
    <1>26, <1>27, <1>28, <1>29, <1>30, <1>31, <1>32, <1>33, <1>34, <1>35, <1>36, <1>37,
    <1>38, <1>39, <1>40, <1>41, <1>42, <1>43, <1>44, <1>45, <1>46, <1>47, <1>48, <1>49,
    <1>50, <1>51, <1>52, <1>53, <1>54, <1>55, <1>56, <1>57, <1>58, <1>59, <1>60 DEF
    Next, Forward, Recovery

\* What rollback has undone stays undone, and cleanup finds every worktree
\* back.
LEMMA UndoneStep ==
  ASSUME ReparentInv, Next PROVE UndoneOK'
<1> USE DEF JournalKept, StageKept, RowsKept, HoldersKept, CommitKept, FollowKept
<1>0. /\ Types /\ CopyOK /\ LabelsOK /\ PinsOK /\ HoldersOK /\ TransactionOK
      /\ UndoneOK /\ RecordOK /\ AtomicOutcome /\ CommitFinal /\ FollowupRecorded /\ PinsKept
  BY DEF ReparentInv
<1>1. ASSUME Begin PROVE UndoneOK'
  BY <1>0, <1>1, BeginIs, TypesMean DEF UndoneOK, Undone, AllBack, NoneLanded, Landed,
    Back, Ended, Aborting, Entered, LabelsOK, RowTo
<1>2. ASSUME Compat PROVE UndoneOK'
  BY <1>0, <1>2, CompatIs, TypesMean DEF UndoneOK, Undone, AllBack, NoneLanded, Landed,
    Back, Ended, Aborting, Entered, LabelsOK, RowTo
<1>3. ASSUME StartPreflight PROVE UndoneOK'
  BY <1>0, <1>3, StartPreflightIs, TypesMean DEF UndoneOK, Undone, AllBack, NoneLanded,
    Landed, Back, Ended, Aborting, Entered, LabelsOK, RowTo
<1>4. ASSUME ClearIntent PROVE UndoneOK'
  BY <1>0, <1>4, ClearIntentIs, TypesMean DEF UndoneOK, Undone, AllBack, NoneLanded,
    Landed, Back, Ended, Aborting, Entered, LabelsOK, RowTo
<1>5. ASSUME ClearApply PROVE UndoneOK'
  BY <1>0, <1>5, ClearApplyIs, TypesMean DEF UndoneOK, Undone, AllBack, NoneLanded,
    Landed, Back, Ended, Aborting, Entered, LabelsOK, RowTo
<1>6. ASSUME ClearDone PROVE UndoneOK'
  BY <1>0, <1>6, ClearDoneIs, TypesMean DEF UndoneOK, Undone, AllBack, NoneLanded,
    Landed, Back, Ended, Aborting, Entered, LabelsOK, RowTo
<1>7. ASSUME Cleared PROVE UndoneOK'
  BY <1>0, <1>7, ClearedIs, TypesMean DEF UndoneOK, Undone, AllBack, NoneLanded, Landed,
    Back, Ended, Aborting, Entered, LabelsOK, RowTo
<1>8. ASSUME Resume PROVE UndoneOK'
  BY <1>0, <1>8, ResumeIs, TypesMean, Copies, CommittedIs DEF UndoneOK, Undone, AllBack,
    NoneLanded, Landed, Back, Ended, Aborting, Entered, LabelsOK, RowTo, Reached
<1>9. ASSUME Preflight PROVE UndoneOK'
  BY <1>0, <1>9, PreflightIs, TypesMean DEF UndoneOK, Undone, AllBack, NoneLanded,
    Landed, Back, Ended, Aborting, Entered, LabelsOK, RowTo
<1>10. ASSUME PinPreimages PROVE UndoneOK'
  BY <1>0, <1>10, PinPreimagesIs, TypesMean DEF UndoneOK, Undone, AllBack, NoneLanded,
    Landed, Back, Ended, Aborting, Entered, LabelsOK, RowTo
<1>11. ASSUME Replay PROVE UndoneOK'
  BY <1>0, <1>11, ReplayIs, TypesMean DEF UndoneOK, Undone, AllBack, NoneLanded, Landed,
    Back, Ended, Aborting, Entered, LabelsOK, RowTo
<1>12. ASSUME RecordTip PROVE UndoneOK'
  BY <1>0, <1>12, RecordTipIs, TypesMean DEF UndoneOK, Undone, AllBack, NoneLanded,
    Landed, Back, Ended, Aborting, Entered, LabelsOK, RowTo
<1>13. ASSUME MarkConflict PROVE UndoneOK'
  BY <1>0, <1>13, MarkConflictIs, TypesMean DEF UndoneOK, Undone, AllBack, NoneLanded,
    Landed, Back, Ended, Aborting, Entered, LabelsOK, RowTo
<1>14. ASSUME PauseConflict PROVE UndoneOK'
  BY <1>0, <1>14, PauseConflictIs, TypesMean DEF UndoneOK, Undone, AllBack, NoneLanded,
    Landed, Back, Ended, Aborting, Entered, LabelsOK, RowTo
<1>15. ASSUME ResumeConflict PROVE UndoneOK'
  BY <1>0, <1>15, ResumeConflictIs, TypesMean DEF UndoneOK, Undone, AllBack, NoneLanded,
    Landed, Back, Ended, Aborting, Entered, LabelsOK, RowTo
<1>16. ASSUME PinTip PROVE UndoneOK'
  BY <1>0, <1>16, PinTipIs, TypesMean DEF UndoneOK, Undone, AllBack, NoneLanded, Landed,
    Back, Ended, Aborting, Entered, LabelsOK, RowTo
<1>17. ASSUME Validate PROVE UndoneOK'
  BY <1>0, <1>17, ValidateIs, TypesMean DEF UndoneOK, Undone, AllBack, NoneLanded,
    Landed, Back, Ended, Aborting, Entered, LabelsOK, RowTo
<1>18. ASSUME BuildPostImage PROVE UndoneOK'
  BY <1>0, <1>18, BuildPostImageIs, TypesMean DEF UndoneOK, Undone, AllBack, NoneLanded,
    Landed, Back, Ended, Aborting, Entered, LabelsOK, RowTo
<1>19. ASSUME PinComputed PROVE UndoneOK'
  BY <1>0, <1>19, PinComputedIs, TypesMean DEF UndoneOK, Undone, AllBack, NoneLanded,
    Landed, Back, Ended, Aborting, Entered, LabelsOK, RowTo
<1>20. ASSUME WriteRecord PROVE UndoneOK'
  BY <1>0, <1>20, WriteRecordIs, TypesMean DEF UndoneOK, Undone, AllBack, NoneLanded,
    Landed, Back, Ended, Aborting, Entered, LabelsOK, RowTo
<1>21. ASSUME SaveRecord PROVE UndoneOK'
  BY <1>0, <1>21, SaveRecordIs, TypesMean DEF UndoneOK, Undone, AllBack, NoneLanded,
    Landed, Back, Ended, Aborting, Entered, LabelsOK, RowTo
<1>22. ASSUME Detaching PROVE UndoneOK'
  BY <1>0, <1>22, DetachingIs, TypesMean DEF UndoneOK, Undone, AllBack, NoneLanded,
    Landed, Back, Ended, Aborting, Entered, LabelsOK, RowTo
<1>23. ASSUME Classify PROVE UndoneOK'
  BY <1>0, <1>23, ClassifyIs, TypesMean DEF UndoneOK, Undone, AllBack, NoneLanded,
    Landed, Back, Ended, Aborting, Entered, LabelsOK, RowTo
<1>24. ASSUME DetachIntent PROVE UndoneOK'
  BY <1>0, <1>24, DetachIntentIs, TypesMean DEF UndoneOK, Undone, AllBack, NoneLanded,
    Landed, Back, Ended, Aborting, Entered, LabelsOK, RowTo, Undoing, Off, Restoring
<1>25. ASSUME SwitchOff PROVE UndoneOK'
  BY <1>0, <1>25, SwitchOffIs, TypesMean DEF UndoneOK, Undone, AllBack, NoneLanded,
    Landed, Back, Ended, Aborting, Entered, LabelsOK, RowTo, Undoing, Off, Restoring
<1>26. ASSUME DetachDone PROVE UndoneOK'
  BY <1>0, <1>26, DetachDoneIs, TypesMean DEF UndoneOK, Undone, AllBack, NoneLanded,
    Landed, Back, Ended, Aborting, Entered, LabelsOK, RowTo
<1>27. ASSUME HoldersDetached PROVE UndoneOK'
  BY <1>0, <1>27, HoldersDetachedIs, TypesMean DEF UndoneOK, Undone, AllBack,
    NoneLanded, Landed, Back, Ended, Aborting, Entered, LabelsOK, RowTo
<1>28. ASSUME Cas PROVE UndoneOK'
  BY <1>0, <1>28, CasIs, TypesMean DEF UndoneOK, Undone, AllBack, NoneLanded, Landed,
    Back, Ended, Aborting, Entered, LabelsOK, RowTo
<1>29. ASSUME KilledCas PROVE UndoneOK'
  BY <1>0, <1>29, KilledCasIs, TypesMean DEF UndoneOK, Undone, AllBack, NoneLanded,
    Landed, Back, Ended, Aborting, Entered, LabelsOK, RowTo
<1>30. ASSUME SaveCas PROVE UndoneOK'
  BY <1>0, <1>30, SaveCasIs, TypesMean DEF UndoneOK, Undone, AllBack, NoneLanded,
    Landed, Back, Ended, Aborting, Entered, LabelsOK, RowTo
<1>31. ASSUME RefsCommitted PROVE UndoneOK'
  BY <1>0, <1>31, RefsCommittedIs, TypesMean DEF UndoneOK, Undone, AllBack, NoneLanded,
    Landed, Back, Ended, Aborting, Entered, LabelsOK, RowTo
<1>32. ASSUME WriteMetadata PROVE UndoneOK'
  BY <1>0, <1>32, WriteMetadataIs, TypesMean DEF UndoneOK, Undone, AllBack, NoneLanded,
    Landed, Back, Ended, Aborting, Entered, LabelsOK, RowTo
<1>33. ASSUME MetadataWritten PROVE UndoneOK'
  BY <1>0, <1>33, MetadataWrittenIs, TypesMean DEF UndoneOK, Undone, AllBack,
    NoneLanded, Landed, Back, Ended, Aborting, Entered, LabelsOK, RowTo
<1>34. ASSUME CommitPoint PROVE UndoneOK'
  BY <1>0, <1>34, CommitPointIs, TypesMean, Copies, CommittedIs DEF UndoneOK, Undone,
    AllBack, NoneLanded, Landed, Back, Ended, Aborting, Entered, LabelsOK, RowTo
<1>35. ASSUME StartRestoring PROVE UndoneOK'
  BY <1>0, <1>35, StartRestoringIs, TypesMean DEF UndoneOK, Undone, AllBack, NoneLanded,
    Landed, Back, Ended, Aborting, Entered, LabelsOK, RowTo
<1>36. ASSUME RestoreIntent PROVE UndoneOK'
  BY <1>0, <1>36, RestoreIntentIs, TypesMean DEF UndoneOK, Undone, AllBack, NoneLanded,
    Landed, Back, Ended, Aborting, Entered, LabelsOK, RowTo, Undoing, Off, Restoring
<1>37. ASSUME SwitchOn PROVE UndoneOK'
  BY <1>0, <1>37, SwitchOnIs, TypesMean DEF UndoneOK, Undone, AllBack, NoneLanded,
    Landed, Back, Ended, Aborting, Entered, LabelsOK, RowTo
<1>38. ASSUME RestoreDone PROVE UndoneOK'
  BY <1>0, <1>38, RestoreDoneIs, TypesMean DEF UndoneOK, Undone, AllBack, NoneLanded,
    Landed, Back, Ended, Aborting, Entered, LabelsOK, RowTo
<1>39. ASSUME RestoreFails PROVE UndoneOK'
  BY <1>0, <1>39, RestoreFailsIs, TypesMean DEF UndoneOK, Undone, AllBack, NoneLanded,
    Landed, Back, Ended, Aborting, Entered, LabelsOK, RowTo
<1>40. ASSUME HoldersRestored PROVE UndoneOK'
  <2>1. CASE pc' = "idle"
    BY <1>0, <1>40, <2>1, HoldersRestoredIs DEF UndoneOK, Undone, AllBack, NoneLanded,
      Landed, Ended, LabelsOK, Restoring, Entered
  <2>2. CASE pc' # "idle"
    <3>1. /\ pc = "restore" /\ m.defer = {} /\ ToRestore = {} /\ j'.h = j.h
          /\ pc' \in {"run", "clean", "record-back"} /\ (pc' # "run" => (pc' = "clean" <=> j.commit))
          /\ j'.commit = j.commit /\ UNCHANGED <<ref, stack, wt>>
      BY <1>0, <1>40, <2>2, HoldersRestoredIs DEF Entered
    <3>2. AllBack
      BY <1>0, <3>1, AllRestored
    <3>3. AllBack' /\ (Undone => Undone')
      BY <3>1, <3>2 DEF AllBack, Undone, NoneLanded, Landed
    <3> QED
      BY <1>0, <3>1, <3>3 DEF UndoneOK
  <2> QED BY <2>1, <2>2
<1>41. ASSUME StartCleanup PROVE UndoneOK'
  BY <1>0, <1>41, StartCleanupIs, TypesMean DEF UndoneOK, Undone, AllBack, NoneLanded,
    Landed, Back, Ended, Aborting, Entered, LabelsOK, RowTo
<1>42. ASSUME RemoveScratch PROVE UndoneOK'
  BY <1>0, <1>42, RemoveScratchIs, TypesMean DEF UndoneOK, Undone, AllBack, NoneLanded,
    Landed, Back, Ended, Aborting, Entered, LabelsOK, RowTo
<1>43. ASSUME DropPins PROVE UndoneOK'
  BY <1>0, <1>43, DropPinsIs, TypesMean DEF UndoneOK, Undone, AllBack, NoneLanded,
    Landed, Back, Ended, Aborting, Entered, LabelsOK, RowTo
<1>44. ASSUME Finish PROVE UndoneOK'
  BY <1>0, <1>44, FinishIs, TypesMean, NoRunHas DEF UndoneOK, Undone, AllBack,
    NoneLanded, Landed, Back, Ended, Aborting, Entered, LabelsOK, RowTo
<1>45. ASSUME Continue PROVE UndoneOK'
  <2>1. /\ pc' = "clear" /\ j'.stage = (IF j.stage = "initializing" THEN "preflight" ELSE j.stage)
        /\ UNCHANGED wt /\ Reattaches
    BY <1>0, <1>45, ContinueIs
  <2>2. ASSUME j'.stage \in Ended \cup {"aborted"} PROVE AllBack'
    <3>1. j.stage \in {"cleanup", "completed", "aborted"}
      BY <2>1, <2>2 DEF Ended
    <3>2. AllBack /\ j'.h = j.h
      BY <1>0, <2>1, <3>1 DEF UndoneOK, Ended, Reattaches, NeedsHolders
    <3> QED BY <2>1, <3>2 DEF AllBack
  <2> QED BY <2>1, <2>2 DEF UndoneOK
<1>46. ASSUME Abort PROVE UndoneOK'
  <2>1. /\ j'.stage = "aborting" /\ UNCHANGED wt /\ Reattaches /\ (j'.commit <=> Committed(j))
        /\ pc' = AbortEntry(Committed(j))
    BY <1>0, <1>46, AbortIs
  <2>2. ASSUME pc' = "clean" PROVE AllBack'
    <3>1. j.stage \in {"cleanup", "completed", "aborted"}
      BY <2>1, <2>2 DEF AbortEntry
    <3>2. AllBack /\ j'.h = j.h
      BY <1>0, <2>1, <3>1 DEF UndoneOK, Ended, Reattaches, NeedsHolders
    <3> QED BY <2>1, <3>2 DEF AllBack
  <2>3. pc' \in {"restore", "clean"} => j'.commit
    BY <2>1 DEF AbortEntry
  <2>4. pc' \in {"restore", "clean", "rollback"}
    BY <2>1 DEF AbortEntry
  <2> QED BY <2>1, <2>2, <2>3, <2>4 DEF UndoneOK, Ended
<1>47. ASSUME AbortRebase PROVE UndoneOK'
  BY <1>0, <1>47, AbortRebaseIs, TypesMean DEF UndoneOK, Undone, AllBack, NoneLanded,
    Landed, Back, Ended, Aborting, Entered, LabelsOK, RowTo
<1>48. ASSUME AbortClassify PROVE UndoneOK'
  BY <1>0, <1>48, AbortClassifyIs, TypesMean DEF UndoneOK, Undone, AllBack, NoneLanded,
    Landed, Back, Ended, Aborting, Entered, LabelsOK, RowTo, Undoing, Off, Restoring
<1>49. ASSUME Redetached PROVE UndoneOK'
  BY <1>0, <1>49, RedetachedIs, TypesMean DEF UndoneOK, Undone, AllBack, NoneLanded,
    Landed, Back, Ended, Aborting, Entered, LabelsOK, RowTo
<1>50. ASSUME AbortCas PROVE UndoneOK'
  BY <1>0, <1>50, AbortCasIs, TypesMean DEF UndoneOK, Undone, AllBack, NoneLanded,
    Landed, Back, Ended, Aborting, Entered, LabelsOK, RowTo, Undoing, Off, Restoring,
    TransactionOK
<1>51. ASSUME RestoreStack PROVE UndoneOK'
  BY <1>0, <1>51, RestoreStackIs, TypesMean DEF UndoneOK, Undone, AllBack, NoneLanded,
    Landed, Back, Ended, Aborting, Entered, LabelsOK, RowTo
<1>52. ASSUME StackRestored PROVE UndoneOK'
  BY <1>0, <1>52, StackRestoredIs, TypesMean DEF UndoneOK, Undone, AllBack, NoneLanded,
    Landed, Back, Ended, Aborting, Entered, LabelsOK, RowTo
<1>53. ASSUME AttachForAbort PROVE UndoneOK'
  BY <1>0, <1>53, AttachForAbortIs, TypesMean DEF UndoneOK, Undone, AllBack, NoneLanded,
    Landed, Back, Ended, Aborting, Entered, LabelsOK, RowTo
<1>54. ASSUME RecordBackIntent PROVE UndoneOK'
  BY <1>0, <1>54, RecordBackIntentIs, TypesMean DEF UndoneOK, Undone, AllBack,
    NoneLanded, Landed, Back, Ended, Aborting, Entered, LabelsOK, RowTo
<1>55. ASSUME RecordBack PROVE UndoneOK'
  BY <1>0, <1>55, RecordBackIs, TypesMean DEF UndoneOK, Undone, AllBack, NoneLanded,
    Landed, Back, Ended, Aborting, Entered, LabelsOK, RowTo
<1>56. ASSUME RecordBackDone PROVE UndoneOK'
  BY <1>0, <1>56, RecordBackDoneIs, TypesMean DEF UndoneOK, Undone, AllBack, NoneLanded,
    Landed, Back, Ended, Aborting, Entered, LabelsOK, RowTo, Undoing, Off, Restoring,
    RecordOK
<1>57. ASSUME Kill PROVE UndoneOK'
  BY <1>0, <1>57, KillIs, TypesMean DEF UndoneOK, Undone, AllBack, NoneLanded, Landed,
    Back, Ended, Aborting, Entered, LabelsOK, RowTo
<1>58. ASSUME Meddle PROVE UndoneOK'
  BY <1>0, <1>58, MeddleIs, TypesMean DEF UndoneOK, Undone, AllBack, NoneLanded, Landed,
    Back, Ended, Aborting, Entered, LabelsOK, RowTo
<1>59. ASSUME Mend PROVE UndoneOK'
  BY <1>0, <1>59, MendIs, TypesMean DEF UndoneOK, Undone, AllBack, NoneLanded, Landed,
    Back, Ended, Aborting, Entered, LabelsOK, RowTo
<1>60. ASSUME EndRebase PROVE UndoneOK'
  BY <1>0, <1>60, EndRebaseIs, TypesMean DEF UndoneOK, Undone, AllBack, NoneLanded,
    Landed, Back, Ended, Aborting, Entered, LabelsOK, RowTo
<1> QED
  BY <1>1, <1>2, <1>3, <1>4, <1>5, <1>6, <1>7, <1>8, <1>9, <1>10, <1>11, <1>12, <1>13,
    <1>14, <1>15, <1>16, <1>17, <1>18, <1>19, <1>20, <1>21, <1>22, <1>23, <1>24, <1>25,
    <1>26, <1>27, <1>28, <1>29, <1>30, <1>31, <1>32, <1>33, <1>34, <1>35, <1>36, <1>37,
    <1>38, <1>39, <1>40, <1>41, <1>42, <1>43, <1>44, <1>45, <1>46, <1>47, <1>48, <1>49,
    <1>50, <1>51, <1>52, <1>53, <1>54, <1>55, <1>56, <1>57, <1>58, <1>59, <1>60 DEF
    Next, Forward, Recovery

\* What the journal knows of the follow-up record is so.
LEMMA RecordStep ==
  ASSUME ReparentInv, Next PROVE RecordOK'
<1> USE DEF JournalKept, StageKept, RowsKept, HoldersKept, CommitKept, FollowKept
<1>0. /\ Types /\ CopyOK /\ LabelsOK /\ PinsOK /\ HoldersOK /\ TransactionOK
      /\ UndoneOK /\ RecordOK /\ AtomicOutcome /\ CommitFinal /\ FollowupRecorded /\ PinsKept
  BY DEF ReparentInv
<1>1. ASSUME Begin PROVE RecordOK'
  BY <1>0, <1>1, BeginIs, TypesMean DEF RecordOK, Aborting, NoneLanded, Landed, Entered,
    LabelsOK, RowTo, FollowupRecorded
<1>2. ASSUME Compat PROVE RecordOK'
  BY <1>0, <1>2, CompatIs, TypesMean DEF RecordOK, Aborting, NoneLanded, Landed,
    Entered, LabelsOK, RowTo
<1>3. ASSUME StartPreflight PROVE RecordOK'
  BY <1>0, <1>3, StartPreflightIs, TypesMean DEF RecordOK, Aborting, NoneLanded, Landed,
    Entered, LabelsOK, RowTo
<1>4. ASSUME ClearIntent PROVE RecordOK'
  BY <1>0, <1>4, ClearIntentIs, TypesMean DEF RecordOK, Aborting, NoneLanded, Landed,
    Entered, LabelsOK, RowTo, Observed
<1>5. ASSUME ClearApply PROVE RecordOK'
  <2>1. /\ pc = "clear" /\ UNCHANGED <<pc, ref, seen>> /\ j.stage # "aborting"
        /\ \A r \in Published : rec'[r] = IF r \in j.clear THEN "none" ELSE rec[r]
    BY <1>0, <1>5, ClearApplyIs, TypesMean DEF LabelsOK, Aborting
  <2>2. /\ j'.clear = j.clear /\ j'.proof = j.proof /\ j'.before = j.before /\ j'.on = j.on
        /\ j'.restore = j.restore /\ j'.stage = j.stage
    BY <1>0, <1>5, ClearApplyIs
  <2>3. \A r \in Published : r \in j.clear => seen[r] \in {"new", "pre"} /\ rec'[r] = "none"
    BY <1>0, <2>1 DEF RecordOK
  <2>4. ASSUME j.proof, j.stage \notin Aborting, NEW r \in Published
        PROVE  rec'[r] = "ours" \/ seen[r] = "new"
    BY <1>0, <2>1, <2>4 DEF RecordOK
  <2>5. ~j.restore
    BY <1>0, <2>1 DEF RecordOK
  <2>6. j.on => \A r \in Published :
          j.before[r] # "ours" /\ (seen[r] = "stale" => j.before[r] # "none")
    BY <1>0 DEF RecordOK
  <2> QED
    BY <2>1, <2>2, <2>3, <2>4, <2>5, <2>6 DEF RecordOK
<1>6. ASSUME ClearDone PROVE RecordOK'
  BY <1>0, <1>6, ClearDoneIs, TypesMean DEF RecordOK, Aborting, NoneLanded, Landed,
    Entered, LabelsOK, RowTo
<1>7. ASSUME Cleared PROVE RecordOK'
  BY <1>0, <1>7, ClearedIs, TypesMean DEF RecordOK, Aborting, NoneLanded, Landed,
    Entered, LabelsOK, RowTo
<1>8. ASSUME Resume PROVE RecordOK'
  BY <1>0, <1>8, ResumeIs, TypesMean, Copies, CommittedIs DEF RecordOK, Aborting,
    NoneLanded, Landed, Entered, LabelsOK, RowTo, Reached
<1>9. ASSUME Preflight PROVE RecordOK'
  BY <1>0, <1>9, PreflightIs, TypesMean DEF RecordOK, Aborting, NoneLanded, Landed,
    Entered, LabelsOK, RowTo
<1>10. ASSUME PinPreimages PROVE RecordOK'
  BY <1>0, <1>10, PinPreimagesIs, TypesMean DEF RecordOK, Aborting, NoneLanded, Landed,
    Entered, LabelsOK, RowTo
<1>11. ASSUME Replay PROVE RecordOK'
  BY <1>0, <1>11, ReplayIs, TypesMean DEF RecordOK, Aborting, NoneLanded, Landed,
    Entered, LabelsOK, RowTo
<1>12. ASSUME RecordTip PROVE RecordOK'
  BY <1>0, <1>12, RecordTipIs, TypesMean DEF RecordOK, Aborting, NoneLanded, Landed,
    Entered, LabelsOK, RowTo
<1>13. ASSUME MarkConflict PROVE RecordOK'
  BY <1>0, <1>13, MarkConflictIs, TypesMean DEF RecordOK, Aborting, NoneLanded, Landed,
    Entered, LabelsOK, RowTo
<1>14. ASSUME PauseConflict PROVE RecordOK'
  BY <1>0, <1>14, PauseConflictIs, TypesMean DEF RecordOK, Aborting, NoneLanded, Landed,
    Entered, LabelsOK, RowTo
<1>15. ASSUME ResumeConflict PROVE RecordOK'
  BY <1>0, <1>15, ResumeConflictIs, TypesMean DEF RecordOK, Aborting, NoneLanded,
    Landed, Entered, LabelsOK, RowTo
<1>16. ASSUME PinTip PROVE RecordOK'
  BY <1>0, <1>16, PinTipIs, TypesMean DEF RecordOK, Aborting, NoneLanded, Landed,
    Entered, LabelsOK, RowTo
<1>17. ASSUME Validate PROVE RecordOK'
  BY <1>0, <1>17, ValidateIs, TypesMean DEF RecordOK, Aborting, NoneLanded, Landed,
    Entered, LabelsOK, RowTo
<1>18. ASSUME BuildPostImage PROVE RecordOK'
  BY <1>0, <1>18, BuildPostImageIs, TypesMean DEF RecordOK, Aborting, NoneLanded,
    Landed, Entered, LabelsOK, RowTo
<1>19. ASSUME PinComputed PROVE RecordOK'
  BY <1>0, <1>19, PinComputedIs, TypesMean DEF RecordOK, Aborting, NoneLanded, Landed,
    Entered, LabelsOK, RowTo
<1>20. ASSUME WriteRecord PROVE RecordOK'
  BY <1>0, <1>20, WriteRecordIs, TypesMean DEF RecordOK, Aborting, NoneLanded, Landed,
    Entered, LabelsOK, RowTo, Followups
<1>21. ASSUME SaveRecord PROVE RecordOK'
  BY <1>0, <1>21, SaveRecordIs, TypesMean DEF RecordOK, Aborting, NoneLanded, Landed,
    Entered, LabelsOK, RowTo, Followups
<1>22. ASSUME Detaching PROVE RecordOK'
  BY <1>0, <1>22, DetachingIs, TypesMean DEF RecordOK, Aborting, NoneLanded, Landed,
    Entered, LabelsOK, RowTo
<1>23. ASSUME Classify PROVE RecordOK'
  BY <1>0, <1>23, ClassifyIs, TypesMean DEF RecordOK, Aborting, NoneLanded, Landed,
    Entered, LabelsOK, RowTo
<1>24. ASSUME DetachIntent PROVE RecordOK'
  BY <1>0, <1>24, DetachIntentIs, TypesMean DEF RecordOK, Aborting, NoneLanded, Landed,
    Entered, LabelsOK, RowTo
<1>25. ASSUME SwitchOff PROVE RecordOK'
  BY <1>0, <1>25, SwitchOffIs, TypesMean DEF RecordOK, Aborting, NoneLanded, Landed,
    Entered, LabelsOK, RowTo
<1>26. ASSUME DetachDone PROVE RecordOK'
  BY <1>0, <1>26, DetachDoneIs, TypesMean DEF RecordOK, Aborting, NoneLanded, Landed,
    Entered, LabelsOK, RowTo
<1>27. ASSUME HoldersDetached PROVE RecordOK'
  BY <1>0, <1>27, HoldersDetachedIs, TypesMean DEF RecordOK, Aborting, NoneLanded,
    Landed, Entered, LabelsOK, RowTo
<1>28. ASSUME Cas PROVE RecordOK'
  BY <1>0, <1>28, CasIs, TypesMean DEF RecordOK, Aborting, NoneLanded, Landed, Entered,
    LabelsOK, RowTo
<1>29. ASSUME KilledCas PROVE RecordOK'
  BY <1>0, <1>29, KilledCasIs, TypesMean DEF RecordOK, Aborting, NoneLanded, Landed,
    Entered, LabelsOK, RowTo
<1>30. ASSUME SaveCas PROVE RecordOK'
  BY <1>0, <1>30, SaveCasIs, TypesMean DEF RecordOK, Aborting, NoneLanded, Landed,
    Entered, LabelsOK, RowTo
<1>31. ASSUME RefsCommitted PROVE RecordOK'
  BY <1>0, <1>31, RefsCommittedIs, TypesMean DEF RecordOK, Aborting, NoneLanded, Landed,
    Entered, LabelsOK, RowTo
<1>32. ASSUME WriteMetadata PROVE RecordOK'
  BY <1>0, <1>32, WriteMetadataIs, TypesMean DEF RecordOK, Aborting, NoneLanded, Landed,
    Entered, LabelsOK, RowTo
<1>33. ASSUME MetadataWritten PROVE RecordOK'
  BY <1>0, <1>33, MetadataWrittenIs, TypesMean DEF RecordOK, Aborting, NoneLanded,
    Landed, Entered, LabelsOK, RowTo
<1>34. ASSUME CommitPoint PROVE RecordOK'
  BY <1>0, <1>34, CommitPointIs, TypesMean, Copies, CommittedIs DEF RecordOK, Aborting,
    NoneLanded, Landed, Entered, LabelsOK, RowTo
<1>35. ASSUME StartRestoring PROVE RecordOK'
  BY <1>0, <1>35, StartRestoringIs, TypesMean DEF RecordOK, Aborting, NoneLanded,
    Landed, Entered, LabelsOK, RowTo
<1>36. ASSUME RestoreIntent PROVE RecordOK'
  BY <1>0, <1>36, RestoreIntentIs, TypesMean DEF RecordOK, Aborting, NoneLanded, Landed,
    Entered, LabelsOK, RowTo
<1>37. ASSUME SwitchOn PROVE RecordOK'
  BY <1>0, <1>37, SwitchOnIs, TypesMean DEF RecordOK, Aborting, NoneLanded, Landed,
    Entered, LabelsOK, RowTo
<1>38. ASSUME RestoreDone PROVE RecordOK'
  BY <1>0, <1>38, RestoreDoneIs, TypesMean DEF RecordOK, Aborting, NoneLanded, Landed,
    Entered, LabelsOK, RowTo
<1>39. ASSUME RestoreFails PROVE RecordOK'
  BY <1>0, <1>39, RestoreFailsIs, TypesMean DEF RecordOK, Aborting, NoneLanded, Landed,
    Entered, LabelsOK, RowTo
<1>40. ASSUME HoldersRestored PROVE RecordOK'
  BY <1>0, <1>40, HoldersRestoredIs, TypesMean DEF RecordOK, Aborting, NoneLanded,
    Landed, Entered, LabelsOK, RowTo
<1>41. ASSUME StartCleanup PROVE RecordOK'
  BY <1>0, <1>41, StartCleanupIs, TypesMean DEF RecordOK, Aborting, NoneLanded, Landed,
    Entered, LabelsOK, RowTo
<1>42. ASSUME RemoveScratch PROVE RecordOK'
  BY <1>0, <1>42, RemoveScratchIs, TypesMean DEF RecordOK, Aborting, NoneLanded, Landed,
    Entered, LabelsOK, RowTo
<1>43. ASSUME DropPins PROVE RecordOK'
  BY <1>0, <1>43, DropPinsIs, TypesMean DEF RecordOK, Aborting, NoneLanded, Landed,
    Entered, LabelsOK, RowTo
<1>44. ASSUME Finish PROVE RecordOK'
  <2>1. CASE j' = NoRun
    BY <2>1, NoRunHas DEF RecordOK
  <2>2. CASE j' # NoRun
    <3>1. /\ UNCHANGED <<pc, seen, rec>> /\ j'.clear = j.clear /\ j'.proof = j.proof
          /\ j'.before = j.before /\ j'.on = j.on /\ j'.restore = j.restore
          /\ j'.stage \notin Aborting => j.stage \notin Aborting
      BY <1>0, <1>44, <2>2, FinishIs DEF Entered, Aborting
    <3>2. ~j.restore
      BY <1>0, <1>44, FinishIs DEF RecordOK
    <3> QED BY <1>0, <3>1, <3>2 DEF RecordOK
  <2> QED BY <2>1, <2>2
<1>45. ASSUME Continue PROVE RecordOK'
  BY <1>0, <1>45, ContinueIs, TypesMean DEF RecordOK, Aborting, NoneLanded, Landed,
    Entered, LabelsOK, RowTo
<1>46. ASSUME Abort PROVE RecordOK'
  BY <1>0, <1>46, AbortIs, TypesMean, Copies, CommittedIs DEF RecordOK, Aborting,
    NoneLanded, Landed, Entered, LabelsOK, RowTo, AbortEntry
<1>47. ASSUME AbortRebase PROVE RecordOK'
  BY <1>0, <1>47, AbortRebaseIs, TypesMean DEF RecordOK, Aborting, NoneLanded, Landed,
    Entered, LabelsOK, RowTo
<1>48. ASSUME AbortClassify PROVE RecordOK'
  BY <1>0, <1>48, AbortClassifyIs, TypesMean DEF RecordOK, Aborting, NoneLanded, Landed,
    Entered, LabelsOK, RowTo
<1>49. ASSUME Redetached PROVE RecordOK'
  BY <1>0, <1>49, RedetachedIs, TypesMean DEF RecordOK, Aborting, NoneLanded, Landed,
    Entered, LabelsOK, RowTo
<1>50. ASSUME AbortCas PROVE RecordOK'
  BY <1>0, <1>50, AbortCasIs, TypesMean DEF RecordOK, Aborting, NoneLanded, Landed,
    Entered, LabelsOK, RowTo
<1>51. ASSUME RestoreStack PROVE RecordOK'
  BY <1>0, <1>51, RestoreStackIs, TypesMean DEF RecordOK, Aborting, NoneLanded, Landed,
    Entered, LabelsOK, RowTo
<1>52. ASSUME StackRestored PROVE RecordOK'
  BY <1>0, <1>52, StackRestoredIs, TypesMean DEF RecordOK, Aborting, NoneLanded, Landed,
    Entered, LabelsOK, RowTo
<1>53. ASSUME AttachForAbort PROVE RecordOK'
  BY <1>0, <1>53, AttachForAbortIs, TypesMean DEF RecordOK, Aborting, NoneLanded,
    Landed, Entered, LabelsOK, RowTo
<1>54. ASSUME RecordBackIntent PROVE RecordOK'
  BY <1>0, <1>54, RecordBackIntentIs, TypesMean DEF RecordOK, Aborting, NoneLanded,
    Landed, Entered, LabelsOK, RowTo, UndoneOK, Undone, Undoing
<1>55. ASSUME RecordBack PROVE RecordOK'
  BY <1>0, <1>55, RecordBackIs, TypesMean DEF RecordOK, Aborting, NoneLanded, Landed,
    Entered, LabelsOK, RowTo, UndoneOK, Undone, Undoing
<1>56. ASSUME RecordBackDone PROVE RecordOK'
  BY <1>0, <1>56, RecordBackDoneIs, TypesMean DEF RecordOK, Aborting, NoneLanded,
    Landed, Entered, LabelsOK, RowTo
<1>57. ASSUME Kill PROVE RecordOK'
  BY <1>0, <1>57, KillIs, TypesMean DEF RecordOK, Aborting, NoneLanded, Landed, Entered,
    LabelsOK, RowTo
<1>58. ASSUME Meddle PROVE RecordOK'
  <2>1. UNCHANGED <<j, pc, rec>>
    BY <1>0, <1>58, MeddleIs
  <2>2. ASSUME NEW r \in Published
        PROVE  /\ seen[r] = "new" => seen'[r] = "new"
               /\ seen'[r] = "stale" => seen[r] = "stale"
               /\ seen[r] \in {"new", "pre"} => seen'[r] \in {"new", "pre"}
    BY <1>0, <1>58, MeddleIs
  <2>3. NoneLanded => NoneLanded'
    <3>1. \A r \in Rows : Landed(r)' => Landed(r)
      BY <1>0, <1>58, MeddleIs DEF Landed
    <3> QED BY <3>1 DEF NoneLanded
  <2>4. \A r \in Published : r \in j.clear =>
          seen'[r] \in {"new", "pre"} /\ (rec[r] = "ours" => seen'[r] = "new")
    BY <1>0, <2>2 DEF RecordOK
  <2>5. j.proof /\ j.stage \notin Aborting =>
          \A r \in Published : rec[r] = "ours" \/ seen'[r] = "new"
    BY <1>0, <2>2 DEF RecordOK
  <2>6. j.on => \A r \in Published :
          j.before[r] # "ours" /\ (seen'[r] = "stale" => j.before[r] # "none")
    BY <1>0, <2>2 DEF RecordOK
  <2>7. /\ pc \notin {"idle", "clear"} => j.clear = {}
        /\ j.restore => /\ j.stage = "aborting" /\ ~j.commit /\ NoneLanded /\ j.clear = {}
                        /\ pc \in {"idle", "record-back"}
    BY <1>0 DEF RecordOK
  <2> QED
    BY <2>1, <2>3, <2>4, <2>5, <2>6, <2>7 DEF RecordOK
<1>59. ASSUME Mend PROVE RecordOK'
  BY <1>0, <1>59, MendIs, TypesMean DEF RecordOK, Aborting, NoneLanded, Landed, Entered,
    LabelsOK, RowTo
<1>60. ASSUME EndRebase PROVE RecordOK'
  BY <1>0, <1>60, EndRebaseIs, TypesMean DEF RecordOK, Aborting, NoneLanded, Landed,
    Entered, LabelsOK, RowTo
<1> QED
  BY <1>1, <1>2, <1>3, <1>4, <1>5, <1>6, <1>7, <1>8, <1>9, <1>10, <1>11, <1>12, <1>13,
    <1>14, <1>15, <1>16, <1>17, <1>18, <1>19, <1>20, <1>21, <1>22, <1>23, <1>24, <1>25,
    <1>26, <1>27, <1>28, <1>29, <1>30, <1>31, <1>32, <1>33, <1>34, <1>35, <1>36, <1>37,
    <1>38, <1>39, <1>40, <1>41, <1>42, <1>43, <1>44, <1>45, <1>46, <1>47, <1>48, <1>49,
    <1>50, <1>51, <1>52, <1>53, <1>54, <1>55, <1>56, <1>57, <1>58, <1>59, <1>60 DEF
    Next, Forward, Recovery

\* A run that ends leaves all of the closure moved, or none of it.
LEMMA OutcomeStep ==
  ASSUME ReparentInv, Next PROVE AtomicOutcome'
<1> USE DEF JournalKept, StageKept, RowsKept, HoldersKept, CommitKept, FollowKept
<1>0. /\ Types /\ CopyOK /\ LabelsOK /\ PinsOK /\ HoldersOK /\ TransactionOK
      /\ UndoneOK /\ RecordOK /\ AtomicOutcome /\ CommitFinal /\ FollowupRecorded /\ PinsKept
  BY DEF ReparentInv
<1>1. ASSUME Begin PROVE AtomicOutcome'
  BY <1>0, <1>1, BeginIs, TypesMean DEF AtomicOutcome, Landed, Entered, LabelsOK, RowTo
<1>2. ASSUME Compat PROVE AtomicOutcome'
  BY <1>0, <1>2, CompatIs, TypesMean DEF AtomicOutcome, Landed, Entered, LabelsOK, RowTo
<1>3. ASSUME StartPreflight PROVE AtomicOutcome'
  BY <1>0, <1>3, StartPreflightIs, TypesMean DEF AtomicOutcome, Landed, Entered,
    LabelsOK, RowTo
<1>4. ASSUME ClearIntent PROVE AtomicOutcome'
  BY <1>0, <1>4, ClearIntentIs, TypesMean DEF AtomicOutcome, Landed, Entered, LabelsOK,
    RowTo
<1>5. ASSUME ClearApply PROVE AtomicOutcome'
  BY <1>0, <1>5, ClearApplyIs, TypesMean DEF AtomicOutcome, Landed, Entered, LabelsOK,
    RowTo
<1>6. ASSUME ClearDone PROVE AtomicOutcome'
  BY <1>0, <1>6, ClearDoneIs, TypesMean DEF AtomicOutcome, Landed, Entered, LabelsOK,
    RowTo
<1>7. ASSUME Cleared PROVE AtomicOutcome'
  BY <1>0, <1>7, ClearedIs, TypesMean DEF AtomicOutcome, Landed, Entered, LabelsOK,
    RowTo
<1>8. ASSUME Resume PROVE AtomicOutcome'
  BY <1>0, <1>8, ResumeIs, TypesMean, Copies, CommittedIs DEF AtomicOutcome, Landed,
    Entered, LabelsOK, RowTo, Reached
<1>9. ASSUME Preflight PROVE AtomicOutcome'
  BY <1>0, <1>9, PreflightIs, TypesMean DEF AtomicOutcome, Landed, Entered, LabelsOK,
    RowTo
<1>10. ASSUME PinPreimages PROVE AtomicOutcome'
  BY <1>0, <1>10, PinPreimagesIs, TypesMean DEF AtomicOutcome, Landed, Entered,
    LabelsOK, RowTo
<1>11. ASSUME Replay PROVE AtomicOutcome'
  BY <1>0, <1>11, ReplayIs, TypesMean DEF AtomicOutcome, Landed, Entered, LabelsOK,
    RowTo
<1>12. ASSUME RecordTip PROVE AtomicOutcome'
  BY <1>0, <1>12, RecordTipIs, TypesMean DEF AtomicOutcome, Landed, Entered, LabelsOK,
    RowTo
<1>13. ASSUME MarkConflict PROVE AtomicOutcome'
  BY <1>0, <1>13, MarkConflictIs, TypesMean DEF AtomicOutcome, Landed, Entered,
    LabelsOK, RowTo
<1>14. ASSUME PauseConflict PROVE AtomicOutcome'
  BY <1>0, <1>14, PauseConflictIs, TypesMean DEF AtomicOutcome, Landed, Entered,
    LabelsOK, RowTo
<1>15. ASSUME ResumeConflict PROVE AtomicOutcome'
  BY <1>0, <1>15, ResumeConflictIs, TypesMean DEF AtomicOutcome, Landed, Entered,
    LabelsOK, RowTo
<1>16. ASSUME PinTip PROVE AtomicOutcome'
  BY <1>0, <1>16, PinTipIs, TypesMean DEF AtomicOutcome, Landed, Entered, LabelsOK,
    RowTo
<1>17. ASSUME Validate PROVE AtomicOutcome'
  BY <1>0, <1>17, ValidateIs, TypesMean DEF AtomicOutcome, Landed, Entered, LabelsOK,
    RowTo
<1>18. ASSUME BuildPostImage PROVE AtomicOutcome'
  BY <1>0, <1>18, BuildPostImageIs, TypesMean DEF AtomicOutcome, Landed, Entered,
    LabelsOK, RowTo
<1>19. ASSUME PinComputed PROVE AtomicOutcome'
  BY <1>0, <1>19, PinComputedIs, TypesMean DEF AtomicOutcome, Landed, Entered, LabelsOK,
    RowTo
<1>20. ASSUME WriteRecord PROVE AtomicOutcome'
  BY <1>0, <1>20, WriteRecordIs, TypesMean DEF AtomicOutcome, Landed, Entered, LabelsOK,
    RowTo
<1>21. ASSUME SaveRecord PROVE AtomicOutcome'
  BY <1>0, <1>21, SaveRecordIs, TypesMean DEF AtomicOutcome, Landed, Entered, LabelsOK,
    RowTo
<1>22. ASSUME Detaching PROVE AtomicOutcome'
  BY <1>0, <1>22, DetachingIs, TypesMean DEF AtomicOutcome, Landed, Entered, LabelsOK,
    RowTo
<1>23. ASSUME Classify PROVE AtomicOutcome'
  BY <1>0, <1>23, ClassifyIs, TypesMean DEF AtomicOutcome, Landed, Entered, LabelsOK,
    RowTo
<1>24. ASSUME DetachIntent PROVE AtomicOutcome'
  BY <1>0, <1>24, DetachIntentIs, TypesMean DEF AtomicOutcome, Landed, Entered,
    LabelsOK, RowTo
<1>25. ASSUME SwitchOff PROVE AtomicOutcome'
  BY <1>0, <1>25, SwitchOffIs, TypesMean DEF AtomicOutcome, Landed, Entered, LabelsOK,
    RowTo
<1>26. ASSUME DetachDone PROVE AtomicOutcome'
  BY <1>0, <1>26, DetachDoneIs, TypesMean DEF AtomicOutcome, Landed, Entered, LabelsOK,
    RowTo
<1>27. ASSUME HoldersDetached PROVE AtomicOutcome'
  BY <1>0, <1>27, HoldersDetachedIs, TypesMean DEF AtomicOutcome, Landed, Entered,
    LabelsOK, RowTo
<1>28. ASSUME Cas PROVE AtomicOutcome'
  BY <1>0, <1>28, CasIs, TypesMean DEF AtomicOutcome, Landed, Entered, LabelsOK, RowTo
<1>29. ASSUME KilledCas PROVE AtomicOutcome'
  BY <1>0, <1>29, KilledCasIs, TypesMean DEF AtomicOutcome, Landed, Entered, LabelsOK,
    RowTo
<1>30. ASSUME SaveCas PROVE AtomicOutcome'
  BY <1>0, <1>30, SaveCasIs, TypesMean DEF AtomicOutcome, Landed, Entered, LabelsOK,
    RowTo
<1>31. ASSUME RefsCommitted PROVE AtomicOutcome'
  BY <1>0, <1>31, RefsCommittedIs, TypesMean DEF AtomicOutcome, Landed, Entered,
    LabelsOK, RowTo
<1>32. ASSUME WriteMetadata PROVE AtomicOutcome'
  BY <1>0, <1>32, WriteMetadataIs, TypesMean DEF AtomicOutcome, Landed, Entered,
    LabelsOK, RowTo
<1>33. ASSUME MetadataWritten PROVE AtomicOutcome'
  BY <1>0, <1>33, MetadataWrittenIs, TypesMean DEF AtomicOutcome, Landed, Entered,
    LabelsOK, RowTo
<1>34. ASSUME CommitPoint PROVE AtomicOutcome'
  BY <1>0, <1>34, CommitPointIs, TypesMean, Copies, CommittedIs DEF AtomicOutcome,
    Landed, Entered, LabelsOK, RowTo
<1>35. ASSUME StartRestoring PROVE AtomicOutcome'
  BY <1>0, <1>35, StartRestoringIs, TypesMean DEF AtomicOutcome, Landed, Entered,
    LabelsOK, RowTo
<1>36. ASSUME RestoreIntent PROVE AtomicOutcome'
  BY <1>0, <1>36, RestoreIntentIs, TypesMean DEF AtomicOutcome, Landed, Entered,
    LabelsOK, RowTo
<1>37. ASSUME SwitchOn PROVE AtomicOutcome'
  BY <1>0, <1>37, SwitchOnIs, TypesMean DEF AtomicOutcome, Landed, Entered, LabelsOK,
    RowTo
<1>38. ASSUME RestoreDone PROVE AtomicOutcome'
  BY <1>0, <1>38, RestoreDoneIs, TypesMean DEF AtomicOutcome, Landed, Entered, LabelsOK,
    RowTo
<1>39. ASSUME RestoreFails PROVE AtomicOutcome'
  BY <1>0, <1>39, RestoreFailsIs, TypesMean DEF AtomicOutcome, Landed, Entered,
    LabelsOK, RowTo
<1>40. ASSUME HoldersRestored PROVE AtomicOutcome'
  BY <1>0, <1>40, HoldersRestoredIs, TypesMean DEF AtomicOutcome, Landed, Entered,
    LabelsOK, RowTo
<1>41. ASSUME StartCleanup PROVE AtomicOutcome'
  BY <1>0, <1>41, StartCleanupIs, TypesMean DEF AtomicOutcome, Landed, Entered,
    LabelsOK, RowTo
<1>42. ASSUME RemoveScratch PROVE AtomicOutcome'
  BY <1>0, <1>42, RemoveScratchIs, TypesMean DEF AtomicOutcome, Landed, Entered,
    LabelsOK, RowTo
<1>43. ASSUME DropPins PROVE AtomicOutcome'
  BY <1>0, <1>43, DropPinsIs, TypesMean DEF AtomicOutcome, Landed, Entered, LabelsOK,
    RowTo
<1>44. ASSUME Finish PROVE AtomicOutcome'
  <2>1. /\ pc = "clean" /\ UNCHANGED <<ref, stack, wt>> /\ (pc' = "idle" \/ pc' = "clean")
    BY <1>0, <1>44, FinishIs
  <2>2. /\ \/ stack = "after" /\ \A r \in Rows : Landed(r)
           \/ stack = "before" /\ \A r \in Rows : ~Landed(r)
        /\ \A r \in Held : wt[r] = "on"
    BY <1>0, <2>1 DEF CommitFinal, UndoneOK, Undone, NoneLanded, AllBack
  <2> QED BY <2>1, <2>2 DEF AtomicOutcome, Landed
<1>45. ASSUME Continue PROVE AtomicOutcome'
  BY <1>0, <1>45, ContinueIs, TypesMean DEF AtomicOutcome, Landed, Entered, LabelsOK,
    RowTo
<1>46. ASSUME Abort PROVE AtomicOutcome'
  BY <1>0, <1>46, AbortIs, TypesMean, Copies, CommittedIs DEF AtomicOutcome, Landed,
    Entered, LabelsOK, RowTo, AbortEntry
<1>47. ASSUME AbortRebase PROVE AtomicOutcome'
  BY <1>0, <1>47, AbortRebaseIs, TypesMean DEF AtomicOutcome, Landed, Entered, LabelsOK,
    RowTo
<1>48. ASSUME AbortClassify PROVE AtomicOutcome'
  BY <1>0, <1>48, AbortClassifyIs, TypesMean DEF AtomicOutcome, Landed, Entered,
    LabelsOK, RowTo
<1>49. ASSUME Redetached PROVE AtomicOutcome'
  BY <1>0, <1>49, RedetachedIs, TypesMean DEF AtomicOutcome, Landed, Entered, LabelsOK,
    RowTo
<1>50. ASSUME AbortCas PROVE AtomicOutcome'
  BY <1>0, <1>50, AbortCasIs, TypesMean DEF AtomicOutcome, Landed, Entered, LabelsOK,
    RowTo
<1>51. ASSUME RestoreStack PROVE AtomicOutcome'
  BY <1>0, <1>51, RestoreStackIs, TypesMean DEF AtomicOutcome, Landed, Entered,
    LabelsOK, RowTo
<1>52. ASSUME StackRestored PROVE AtomicOutcome'
  BY <1>0, <1>52, StackRestoredIs, TypesMean DEF AtomicOutcome, Landed, Entered,
    LabelsOK, RowTo
<1>53. ASSUME AttachForAbort PROVE AtomicOutcome'
  BY <1>0, <1>53, AttachForAbortIs, TypesMean DEF AtomicOutcome, Landed, Entered,
    LabelsOK, RowTo
<1>54. ASSUME RecordBackIntent PROVE AtomicOutcome'
  BY <1>0, <1>54, RecordBackIntentIs, TypesMean DEF AtomicOutcome, Landed, Entered,
    LabelsOK, RowTo
<1>55. ASSUME RecordBack PROVE AtomicOutcome'
  BY <1>0, <1>55, RecordBackIs, TypesMean DEF AtomicOutcome, Landed, Entered, LabelsOK,
    RowTo
<1>56. ASSUME RecordBackDone PROVE AtomicOutcome'
  BY <1>0, <1>56, RecordBackDoneIs, TypesMean DEF AtomicOutcome, Landed, Entered,
    LabelsOK, RowTo
<1>57. ASSUME Kill PROVE AtomicOutcome'
  BY <1>0, <1>57, KillIs, TypesMean DEF AtomicOutcome, Landed, Entered, LabelsOK, RowTo
<1>58. ASSUME Meddle PROVE AtomicOutcome'
  BY <1>0, <1>58, MeddleIs, TypesMean DEF AtomicOutcome, Landed, Entered, LabelsOK,
    RowTo
<1>59. ASSUME Mend PROVE AtomicOutcome'
  BY <1>0, <1>59, MendIs, TypesMean DEF AtomicOutcome, Landed, Entered, LabelsOK, RowTo
<1>60. ASSUME EndRebase PROVE AtomicOutcome'
  BY <1>0, <1>60, EndRebaseIs, TypesMean DEF AtomicOutcome, Landed, Entered, LabelsOK,
    RowTo
<1> QED
  BY <1>1, <1>2, <1>3, <1>4, <1>5, <1>6, <1>7, <1>8, <1>9, <1>10, <1>11, <1>12, <1>13,
    <1>14, <1>15, <1>16, <1>17, <1>18, <1>19, <1>20, <1>21, <1>22, <1>23, <1>24, <1>25,
    <1>26, <1>27, <1>28, <1>29, <1>30, <1>31, <1>32, <1>33, <1>34, <1>35, <1>36, <1>37,
    <1>38, <1>39, <1>40, <1>41, <1>42, <1>43, <1>44, <1>45, <1>46, <1>47, <1>48, <1>49,
    <1>50, <1>51, <1>52, <1>53, <1>54, <1>55, <1>56, <1>57, <1>58, <1>59, <1>60 DEF
    Next, Forward, Recovery

\* The commit point in the journal stays a fact about the repository.
LEMMA CommitStep ==
  ASSUME ReparentInv, Next PROVE CommitFinal'
<1> USE DEF JournalKept, StageKept, RowsKept, HoldersKept, CommitKept, FollowKept
<1>0. /\ Types /\ CopyOK /\ LabelsOK /\ PinsOK /\ HoldersOK /\ TransactionOK
      /\ UndoneOK /\ RecordOK /\ AtomicOutcome /\ CommitFinal /\ FollowupRecorded /\ PinsKept
  BY DEF ReparentInv
<1>1. ASSUME Begin PROVE CommitFinal'
  BY <1>0, <1>1, BeginIs, TypesMean DEF CommitFinal, Landed, Entered, RowTo
<1>2. ASSUME Compat PROVE CommitFinal'
  BY <1>0, <1>2, CompatIs, TypesMean DEF CommitFinal, Landed, Entered, RowTo
<1>3. ASSUME StartPreflight PROVE CommitFinal'
  BY <1>0, <1>3, StartPreflightIs, TypesMean DEF CommitFinal, Landed, Entered, RowTo
<1>4. ASSUME ClearIntent PROVE CommitFinal'
  BY <1>0, <1>4, ClearIntentIs, TypesMean DEF CommitFinal, Landed, Entered, RowTo
<1>5. ASSUME ClearApply PROVE CommitFinal'
  BY <1>0, <1>5, ClearApplyIs, TypesMean DEF CommitFinal, Landed, Entered, RowTo
<1>6. ASSUME ClearDone PROVE CommitFinal'
  BY <1>0, <1>6, ClearDoneIs, TypesMean DEF CommitFinal, Landed, Entered, RowTo
<1>7. ASSUME Cleared PROVE CommitFinal'
  BY <1>0, <1>7, ClearedIs, TypesMean DEF CommitFinal, Landed, Entered, RowTo
<1>8. ASSUME Resume PROVE CommitFinal'
  BY <1>0, <1>8, ResumeIs, TypesMean, Copies, CommittedIs DEF CommitFinal, Landed,
    Entered, RowTo, Reached
<1>9. ASSUME Preflight PROVE CommitFinal'
  BY <1>0, <1>9, PreflightIs, TypesMean DEF CommitFinal, Landed, Entered, RowTo
<1>10. ASSUME PinPreimages PROVE CommitFinal'
  BY <1>0, <1>10, PinPreimagesIs, TypesMean DEF CommitFinal, Landed, Entered, RowTo
<1>11. ASSUME Replay PROVE CommitFinal'
  BY <1>0, <1>11, ReplayIs, TypesMean DEF CommitFinal, Landed, Entered, RowTo
<1>12. ASSUME RecordTip PROVE CommitFinal'
  BY <1>0, <1>12, RecordTipIs, TypesMean DEF CommitFinal, Landed, Entered, RowTo
<1>13. ASSUME MarkConflict PROVE CommitFinal'
  BY <1>0, <1>13, MarkConflictIs, TypesMean DEF CommitFinal, Landed, Entered, RowTo
<1>14. ASSUME PauseConflict PROVE CommitFinal'
  BY <1>0, <1>14, PauseConflictIs, TypesMean DEF CommitFinal, Landed, Entered, RowTo
<1>15. ASSUME ResumeConflict PROVE CommitFinal'
  BY <1>0, <1>15, ResumeConflictIs, TypesMean DEF CommitFinal, Landed, Entered, RowTo
<1>16. ASSUME PinTip PROVE CommitFinal'
  BY <1>0, <1>16, PinTipIs, TypesMean DEF CommitFinal, Landed, Entered, RowTo
<1>17. ASSUME Validate PROVE CommitFinal'
  BY <1>0, <1>17, ValidateIs, TypesMean DEF CommitFinal, Landed, Entered, RowTo
<1>18. ASSUME BuildPostImage PROVE CommitFinal'
  BY <1>0, <1>18, BuildPostImageIs, TypesMean DEF CommitFinal, Landed, Entered, RowTo
<1>19. ASSUME PinComputed PROVE CommitFinal'
  BY <1>0, <1>19, PinComputedIs, TypesMean DEF CommitFinal, Landed, Entered, RowTo
<1>20. ASSUME WriteRecord PROVE CommitFinal'
  BY <1>0, <1>20, WriteRecordIs, TypesMean DEF CommitFinal, Landed, Entered, RowTo
<1>21. ASSUME SaveRecord PROVE CommitFinal'
  BY <1>0, <1>21, SaveRecordIs, TypesMean DEF CommitFinal, Landed, Entered, RowTo
<1>22. ASSUME Detaching PROVE CommitFinal'
  BY <1>0, <1>22, DetachingIs, TypesMean DEF CommitFinal, Landed, Entered, RowTo
<1>23. ASSUME Classify PROVE CommitFinal'
  BY <1>0, <1>23, ClassifyIs, TypesMean DEF CommitFinal, Landed, Entered, RowTo
<1>24. ASSUME DetachIntent PROVE CommitFinal'
  BY <1>0, <1>24, DetachIntentIs, TypesMean DEF CommitFinal, Landed, Entered, RowTo
<1>25. ASSUME SwitchOff PROVE CommitFinal'
  BY <1>0, <1>25, SwitchOffIs, TypesMean DEF CommitFinal, Landed, Entered, RowTo
<1>26. ASSUME DetachDone PROVE CommitFinal'
  BY <1>0, <1>26, DetachDoneIs, TypesMean DEF CommitFinal, Landed, Entered, RowTo
<1>27. ASSUME HoldersDetached PROVE CommitFinal'
  BY <1>0, <1>27, HoldersDetachedIs, TypesMean DEF CommitFinal, Landed, Entered, RowTo
<1>28. ASSUME Cas PROVE CommitFinal'
  BY <1>0, <1>28, CasIs, TypesMean DEF CommitFinal, Landed, Entered, RowTo
<1>29. ASSUME KilledCas PROVE CommitFinal'
  BY <1>0, <1>29, KilledCasIs, TypesMean, ZenonT(60)
     DEF CommitFinal, Landed, Entered, RowTo,
    LabelsOK, Undoing
<1>30. ASSUME SaveCas PROVE CommitFinal'
  BY <1>0, <1>30, SaveCasIs, TypesMean DEF CommitFinal, Landed, Entered, RowTo
<1>31. ASSUME RefsCommitted PROVE CommitFinal'
  BY <1>0, <1>31, RefsCommittedIs, TypesMean DEF CommitFinal, Landed, Entered, RowTo
<1>32. ASSUME WriteMetadata PROVE CommitFinal'
  BY <1>0, <1>32, WriteMetadataIs, TypesMean DEF CommitFinal, Landed, Entered, RowTo
<1>33. ASSUME MetadataWritten PROVE CommitFinal'
  BY <1>0, <1>33, MetadataWrittenIs, TypesMean DEF CommitFinal, Landed, Entered, RowTo
<1>34. ASSUME CommitPoint PROVE CommitFinal'
  BY <1>0, <1>34, CommitPointIs, TypesMean, Copies, CommittedIs DEF CommitFinal, Landed,
    Entered, RowTo
<1>35. ASSUME StartRestoring PROVE CommitFinal'
  BY <1>0, <1>35, StartRestoringIs, TypesMean DEF CommitFinal, Landed, Entered, RowTo
<1>36. ASSUME RestoreIntent PROVE CommitFinal'
  BY <1>0, <1>36, RestoreIntentIs, TypesMean DEF CommitFinal, Landed, Entered, RowTo
<1>37. ASSUME SwitchOn PROVE CommitFinal'
  BY <1>0, <1>37, SwitchOnIs, TypesMean DEF CommitFinal, Landed, Entered, RowTo
<1>38. ASSUME RestoreDone PROVE CommitFinal'
  BY <1>0, <1>38, RestoreDoneIs, TypesMean DEF CommitFinal, Landed, Entered, RowTo
<1>39. ASSUME RestoreFails PROVE CommitFinal'
  BY <1>0, <1>39, RestoreFailsIs, TypesMean DEF CommitFinal, Landed, Entered, RowTo
<1>40. ASSUME HoldersRestored PROVE CommitFinal'
  BY <1>0, <1>40, HoldersRestoredIs, TypesMean DEF CommitFinal, Landed, Entered, RowTo
<1>41. ASSUME StartCleanup PROVE CommitFinal'
  BY <1>0, <1>41, StartCleanupIs, TypesMean DEF CommitFinal, Landed, Entered, RowTo
<1>42. ASSUME RemoveScratch PROVE CommitFinal'
  BY <1>0, <1>42, RemoveScratchIs, TypesMean DEF CommitFinal, Landed, Entered, RowTo
<1>43. ASSUME DropPins PROVE CommitFinal'
  BY <1>0, <1>43, DropPinsIs, TypesMean DEF CommitFinal, Landed, Entered, RowTo
<1>44. ASSUME Finish PROVE CommitFinal'
  BY <1>0, <1>44, FinishIs, TypesMean, NoRunHas DEF CommitFinal, Landed, Entered, RowTo
<1>45. ASSUME Continue PROVE CommitFinal'
  BY <1>0, <1>45, ContinueIs, TypesMean DEF CommitFinal, Landed, Entered, RowTo
<1>46. ASSUME Abort PROVE CommitFinal'
  BY <1>0, <1>46, AbortIs, TypesMean, Copies, CommittedIs DEF CommitFinal, Landed,
    Entered, RowTo, AbortEntry
<1>47. ASSUME AbortRebase PROVE CommitFinal'
  BY <1>0, <1>47, AbortRebaseIs, TypesMean DEF CommitFinal, Landed, Entered, RowTo
<1>48. ASSUME AbortClassify PROVE CommitFinal'
  BY <1>0, <1>48, AbortClassifyIs, TypesMean DEF CommitFinal, Landed, Entered, RowTo
<1>49. ASSUME Redetached PROVE CommitFinal'
  BY <1>0, <1>49, RedetachedIs, TypesMean DEF CommitFinal, Landed, Entered, RowTo
<1>50. ASSUME AbortCas PROVE CommitFinal'
  BY <1>0, <1>50, AbortCasIs, TypesMean DEF CommitFinal, Landed, Entered, RowTo,
    LabelsOK, Undoing
<1>51. ASSUME RestoreStack PROVE CommitFinal'
  BY <1>0, <1>51, RestoreStackIs, TypesMean DEF CommitFinal, Landed, Entered, RowTo,
    LabelsOK, Undoing
<1>52. ASSUME StackRestored PROVE CommitFinal'
  BY <1>0, <1>52, StackRestoredIs, TypesMean DEF CommitFinal, Landed, Entered, RowTo
<1>53. ASSUME AttachForAbort PROVE CommitFinal'
  BY <1>0, <1>53, AttachForAbortIs, TypesMean DEF CommitFinal, Landed, Entered, RowTo
<1>54. ASSUME RecordBackIntent PROVE CommitFinal'
  BY <1>0, <1>54, RecordBackIntentIs, TypesMean DEF CommitFinal, Landed, Entered, RowTo
<1>55. ASSUME RecordBack PROVE CommitFinal'
  BY <1>0, <1>55, RecordBackIs, TypesMean DEF CommitFinal, Landed, Entered, RowTo
<1>56. ASSUME RecordBackDone PROVE CommitFinal'
  BY <1>0, <1>56, RecordBackDoneIs, TypesMean DEF CommitFinal, Landed, Entered, RowTo
<1>57. ASSUME Kill PROVE CommitFinal'
  BY <1>0, <1>57, KillIs, TypesMean DEF CommitFinal, Landed, Entered, RowTo
<1>58. ASSUME Meddle PROVE CommitFinal'
  BY <1>0, <1>58, MeddleIs, TypesMean DEF CommitFinal, Landed, Entered, RowTo
<1>59. ASSUME Mend PROVE CommitFinal'
  BY <1>0, <1>59, MendIs, TypesMean DEF CommitFinal, Landed, Entered, RowTo
<1>60. ASSUME EndRebase PROVE CommitFinal'
  BY <1>0, <1>60, EndRebaseIs, TypesMean DEF CommitFinal, Landed, Entered, RowTo
<1> QED
  BY <1>1, <1>2, <1>3, <1>4, <1>5, <1>6, <1>7, <1>8, <1>9, <1>10, <1>11, <1>12, <1>13,
    <1>14, <1>15, <1>16, <1>17, <1>18, <1>19, <1>20, <1>21, <1>22, <1>23, <1>24, <1>25,
    <1>26, <1>27, <1>28, <1>29, <1>30, <1>31, <1>32, <1>33, <1>34, <1>35, <1>36, <1>37,
    <1>38, <1>39, <1>40, <1>41, <1>42, <1>43, <1>44, <1>45, <1>46, <1>47, <1>48, <1>49,
    <1>50, <1>51, <1>52, <1>53, <1>54, <1>55, <1>56, <1>57, <1>58, <1>59, <1>60 DEF
    Next, Forward, Recovery

\* A moved branch that nobody has seen published stays recorded.
LEMMA FollowupStep ==
  ASSUME ReparentInv, Next PROVE FollowupRecorded'
<1> USE DEF JournalKept, StageKept, RowsKept, HoldersKept, CommitKept, FollowKept
<1>0. /\ Types /\ CopyOK /\ LabelsOK /\ PinsOK /\ HoldersOK /\ TransactionOK
      /\ UndoneOK /\ RecordOK /\ AtomicOutcome /\ CommitFinal /\ FollowupRecorded /\ PinsKept
  BY DEF ReparentInv
<1>1. ASSUME Begin PROVE FollowupRecorded'
  BY <1>0, <1>1, BeginIs, TypesMean DEF FollowupRecorded, Landed, Entered, LabelsOK,
    RowTo
<1>2. ASSUME Compat PROVE FollowupRecorded'
  BY <1>0, <1>2, CompatIs, TypesMean DEF FollowupRecorded, Landed, Entered, LabelsOK,
    RowTo
<1>3. ASSUME StartPreflight PROVE FollowupRecorded'
  BY <1>0, <1>3, StartPreflightIs, TypesMean DEF FollowupRecorded, Landed, Entered,
    LabelsOK, RowTo
<1>4. ASSUME ClearIntent PROVE FollowupRecorded'
  BY <1>0, <1>4, ClearIntentIs, TypesMean DEF FollowupRecorded, Landed, Entered,
    LabelsOK, RowTo
<1>5. ASSUME ClearApply PROVE FollowupRecorded'
  <2>1. /\ UNCHANGED <<ref, seen>> /\ j'.on = j.on /\ j.on
        /\ \A r \in Published : rec'[r] = IF r \in j.clear THEN "none" ELSE rec[r]
    BY <1>0, <1>5, ClearApplyIs, TypesMean DEF LabelsOK
  <2>2. ASSUME NEW r \in Published
        PROVE  /\ Landed(r) /\ seen[r] # "new" => rec'[r] = "ours"
               /\ seen[r] = "stale" => rec'[r] # "none"
    BY <1>0, <2>1 DEF RecordOK, FollowupRecorded
  <2>3. \A r \in Published : Landed(r)' = Landed(r)
    BY <2>1 DEF Landed
  <2> QED
    BY <2>1, <2>2, <2>3 DEF FollowupRecorded
<1>6. ASSUME ClearDone PROVE FollowupRecorded'
  BY <1>0, <1>6, ClearDoneIs, TypesMean DEF FollowupRecorded, Landed, Entered, LabelsOK,
    RowTo
<1>7. ASSUME Cleared PROVE FollowupRecorded'
  BY <1>0, <1>7, ClearedIs, TypesMean DEF FollowupRecorded, Landed, Entered, LabelsOK,
    RowTo
<1>8. ASSUME Resume PROVE FollowupRecorded'
  BY <1>0, <1>8, ResumeIs, TypesMean, Copies, CommittedIs DEF FollowupRecorded, Landed,
    Entered, LabelsOK, RowTo, Reached
<1>9. ASSUME Preflight PROVE FollowupRecorded'
  BY <1>0, <1>9, PreflightIs, TypesMean DEF FollowupRecorded, Landed, Entered, LabelsOK,
    RowTo
<1>10. ASSUME PinPreimages PROVE FollowupRecorded'
  BY <1>0, <1>10, PinPreimagesIs, TypesMean DEF FollowupRecorded, Landed, Entered,
    LabelsOK, RowTo
<1>11. ASSUME Replay PROVE FollowupRecorded'
  BY <1>0, <1>11, ReplayIs, TypesMean DEF FollowupRecorded, Landed, Entered, LabelsOK,
    RowTo
<1>12. ASSUME RecordTip PROVE FollowupRecorded'
  BY <1>0, <1>12, RecordTipIs, TypesMean DEF FollowupRecorded, Landed, Entered,
    LabelsOK, RowTo
<1>13. ASSUME MarkConflict PROVE FollowupRecorded'
  BY <1>0, <1>13, MarkConflictIs, TypesMean DEF FollowupRecorded, Landed, Entered,
    LabelsOK, RowTo
<1>14. ASSUME PauseConflict PROVE FollowupRecorded'
  BY <1>0, <1>14, PauseConflictIs, TypesMean DEF FollowupRecorded, Landed, Entered,
    LabelsOK, RowTo
<1>15. ASSUME ResumeConflict PROVE FollowupRecorded'
  BY <1>0, <1>15, ResumeConflictIs, TypesMean DEF FollowupRecorded, Landed, Entered,
    LabelsOK, RowTo
<1>16. ASSUME PinTip PROVE FollowupRecorded'
  BY <1>0, <1>16, PinTipIs, TypesMean DEF FollowupRecorded, Landed, Entered, LabelsOK,
    RowTo
<1>17. ASSUME Validate PROVE FollowupRecorded'
  BY <1>0, <1>17, ValidateIs, TypesMean DEF FollowupRecorded, Landed, Entered, LabelsOK,
    RowTo
<1>18. ASSUME BuildPostImage PROVE FollowupRecorded'
  BY <1>0, <1>18, BuildPostImageIs, TypesMean DEF FollowupRecorded, Landed, Entered,
    LabelsOK, RowTo
<1>19. ASSUME PinComputed PROVE FollowupRecorded'
  BY <1>0, <1>19, PinComputedIs, TypesMean DEF FollowupRecorded, Landed, Entered,
    LabelsOK, RowTo
<1>20. ASSUME WriteRecord PROVE FollowupRecorded'
  BY <1>0, <1>20, WriteRecordIs, TypesMean DEF FollowupRecorded, Landed, Entered,
    LabelsOK, RowTo, Followups
<1>21. ASSUME SaveRecord PROVE FollowupRecorded'
  BY <1>0, <1>21, SaveRecordIs, TypesMean DEF FollowupRecorded, Landed, Entered,
    LabelsOK, RowTo
<1>22. ASSUME Detaching PROVE FollowupRecorded'
  BY <1>0, <1>22, DetachingIs, TypesMean DEF FollowupRecorded, Landed, Entered,
    LabelsOK, RowTo
<1>23. ASSUME Classify PROVE FollowupRecorded'
  BY <1>0, <1>23, ClassifyIs, TypesMean DEF FollowupRecorded, Landed, Entered, LabelsOK,
    RowTo
<1>24. ASSUME DetachIntent PROVE FollowupRecorded'
  BY <1>0, <1>24, DetachIntentIs, TypesMean DEF FollowupRecorded, Landed, Entered,
    LabelsOK, RowTo
<1>25. ASSUME SwitchOff PROVE FollowupRecorded'
  BY <1>0, <1>25, SwitchOffIs, TypesMean DEF FollowupRecorded, Landed, Entered,
    LabelsOK, RowTo
<1>26. ASSUME DetachDone PROVE FollowupRecorded'
  BY <1>0, <1>26, DetachDoneIs, TypesMean DEF FollowupRecorded, Landed, Entered,
    LabelsOK, RowTo
<1>27. ASSUME HoldersDetached PROVE FollowupRecorded'
  BY <1>0, <1>27, HoldersDetachedIs, TypesMean DEF FollowupRecorded, Landed, Entered,
    LabelsOK, RowTo
<1>28. ASSUME Cas PROVE FollowupRecorded'
  BY <1>0, <1>28, CasIs, TypesMean DEF FollowupRecorded, Landed, Entered, LabelsOK,
    RowTo, RecordOK, TransactionOK, Aborting
<1>29. ASSUME KilledCas PROVE FollowupRecorded'
  BY <1>0, <1>29, KilledCasIs, TypesMean DEF FollowupRecorded, Landed, Entered,
    LabelsOK, RowTo, RecordOK, TransactionOK, Aborting
<1>30. ASSUME SaveCas PROVE FollowupRecorded'
  BY <1>0, <1>30, SaveCasIs, TypesMean DEF FollowupRecorded, Landed, Entered, LabelsOK,
    RowTo
<1>31. ASSUME RefsCommitted PROVE FollowupRecorded'
  BY <1>0, <1>31, RefsCommittedIs, TypesMean DEF FollowupRecorded, Landed, Entered,
    LabelsOK, RowTo
<1>32. ASSUME WriteMetadata PROVE FollowupRecorded'
  BY <1>0, <1>32, WriteMetadataIs, TypesMean DEF FollowupRecorded, Landed, Entered,
    LabelsOK, RowTo
<1>33. ASSUME MetadataWritten PROVE FollowupRecorded'
  BY <1>0, <1>33, MetadataWrittenIs, TypesMean DEF FollowupRecorded, Landed, Entered,
    LabelsOK, RowTo
<1>34. ASSUME CommitPoint PROVE FollowupRecorded'
  BY <1>0, <1>34, CommitPointIs, TypesMean, Copies, CommittedIs DEF FollowupRecorded,
    Landed, Entered, LabelsOK, RowTo
<1>35. ASSUME StartRestoring PROVE FollowupRecorded'
  BY <1>0, <1>35, StartRestoringIs, TypesMean DEF FollowupRecorded, Landed, Entered,
    LabelsOK, RowTo
<1>36. ASSUME RestoreIntent PROVE FollowupRecorded'
  BY <1>0, <1>36, RestoreIntentIs, TypesMean DEF FollowupRecorded, Landed, Entered,
    LabelsOK, RowTo
<1>37. ASSUME SwitchOn PROVE FollowupRecorded'
  BY <1>0, <1>37, SwitchOnIs, TypesMean DEF FollowupRecorded, Landed, Entered, LabelsOK,
    RowTo
<1>38. ASSUME RestoreDone PROVE FollowupRecorded'
  BY <1>0, <1>38, RestoreDoneIs, TypesMean DEF FollowupRecorded, Landed, Entered,
    LabelsOK, RowTo
<1>39. ASSUME RestoreFails PROVE FollowupRecorded'
  BY <1>0, <1>39, RestoreFailsIs, TypesMean DEF FollowupRecorded, Landed, Entered,
    LabelsOK, RowTo
<1>40. ASSUME HoldersRestored PROVE FollowupRecorded'
  BY <1>0, <1>40, HoldersRestoredIs, TypesMean DEF FollowupRecorded, Landed, Entered,
    LabelsOK, RowTo
<1>41. ASSUME StartCleanup PROVE FollowupRecorded'
  BY <1>0, <1>41, StartCleanupIs, TypesMean DEF FollowupRecorded, Landed, Entered,
    LabelsOK, RowTo
<1>42. ASSUME RemoveScratch PROVE FollowupRecorded'
  BY <1>0, <1>42, RemoveScratchIs, TypesMean DEF FollowupRecorded, Landed, Entered,
    LabelsOK, RowTo
<1>43. ASSUME DropPins PROVE FollowupRecorded'
  BY <1>0, <1>43, DropPinsIs, TypesMean DEF FollowupRecorded, Landed, Entered, LabelsOK,
    RowTo
<1>44. ASSUME Finish PROVE FollowupRecorded'
  BY <1>0, <1>44, FinishIs, TypesMean, NoRunHas DEF FollowupRecorded, Landed, Entered,
    LabelsOK, RowTo, UndoneOK, CommitFinal, Undone, NoneLanded
<1>45. ASSUME Continue PROVE FollowupRecorded'
  BY <1>0, <1>45, ContinueIs, TypesMean DEF FollowupRecorded, Landed, Entered, LabelsOK,
    RowTo
<1>46. ASSUME Abort PROVE FollowupRecorded'
  <2>1. /\ UNCHANGED <<ref, seen>> /\ j'.on = j.on /\ j.on
        /\ \/ j.restore /\ rec' = j.before
           \/ \A r \in Published : rec'[r] = IF r \in j.clear THEN "none" ELSE rec[r]
    BY <1>0, <1>46, AbortIs, TypesMean DEF LabelsOK, RecordCompleted
  <2>2. ASSUME NEW r \in Published
        PROVE  /\ Landed(r) /\ seen[r] # "new" => rec'[r] = "ours"
               /\ seen[r] = "stale" => rec'[r] # "none"
    <3>1. CASE j.restore /\ rec' = j.before
      <4>1. ~Landed(r)
        BY <1>0, <3>1, TypesMean DEF RecordOK, NoneLanded
      <4> QED BY <1>0, <2>1, <3>1, <4>1 DEF RecordOK
    <3>2. CASE rec'[r] = IF r \in j.clear THEN "none" ELSE rec[r]
      BY <1>0, <3>2 DEF RecordOK, FollowupRecorded
    <3> QED BY <2>1, <3>1, <3>2
  <2>3. \A r \in Published : Landed(r)' = Landed(r)
    BY <2>1 DEF Landed
  <2> QED
    BY <2>1, <2>2, <2>3 DEF FollowupRecorded
<1>47. ASSUME AbortRebase PROVE FollowupRecorded'
  BY <1>0, <1>47, AbortRebaseIs, TypesMean DEF FollowupRecorded, Landed, Entered,
    LabelsOK, RowTo
<1>48. ASSUME AbortClassify PROVE FollowupRecorded'
  BY <1>0, <1>48, AbortClassifyIs, TypesMean DEF FollowupRecorded, Landed, Entered,
    LabelsOK, RowTo
<1>49. ASSUME Redetached PROVE FollowupRecorded'
  BY <1>0, <1>49, RedetachedIs, TypesMean DEF FollowupRecorded, Landed, Entered,
    LabelsOK, RowTo
<1>50. ASSUME AbortCas PROVE FollowupRecorded'
  BY <1>0, <1>50, AbortCasIs, TypesMean DEF FollowupRecorded, Landed, Entered, LabelsOK,
    RowTo
<1>51. ASSUME RestoreStack PROVE FollowupRecorded'
  BY <1>0, <1>51, RestoreStackIs, TypesMean DEF FollowupRecorded, Landed, Entered,
    LabelsOK, RowTo
<1>52. ASSUME StackRestored PROVE FollowupRecorded'
  BY <1>0, <1>52, StackRestoredIs, TypesMean DEF FollowupRecorded, Landed, Entered,
    LabelsOK, RowTo
<1>53. ASSUME AttachForAbort PROVE FollowupRecorded'
  BY <1>0, <1>53, AttachForAbortIs, TypesMean DEF FollowupRecorded, Landed, Entered,
    LabelsOK, RowTo
<1>54. ASSUME RecordBackIntent PROVE FollowupRecorded'
  BY <1>0, <1>54, RecordBackIntentIs, TypesMean DEF FollowupRecorded, Landed, Entered,
    LabelsOK, RowTo
<1>55. ASSUME RecordBack PROVE FollowupRecorded'
  BY <1>0, <1>55, RecordBackIs, TypesMean DEF FollowupRecorded, Landed, Entered,
    LabelsOK, RowTo, RecordOK, UndoneOK, Undone, NoneLanded
<1>56. ASSUME RecordBackDone PROVE FollowupRecorded'
  BY <1>0, <1>56, RecordBackDoneIs, TypesMean DEF FollowupRecorded, Landed, Entered,
    LabelsOK, RowTo
<1>57. ASSUME Kill PROVE FollowupRecorded'
  BY <1>0, <1>57, KillIs, TypesMean DEF FollowupRecorded, Landed, Entered, LabelsOK,
    RowTo
<1>58. ASSUME Meddle PROVE FollowupRecorded'
  BY <1>0, <1>58, MeddleIs, TypesMean DEF FollowupRecorded, Landed, Entered, LabelsOK,
    RowTo
<1>59. ASSUME Mend PROVE FollowupRecorded'
  BY <1>0, <1>59, MendIs, TypesMean DEF FollowupRecorded, Landed, Entered, LabelsOK,
    RowTo
<1>60. ASSUME EndRebase PROVE FollowupRecorded'
  BY <1>0, <1>60, EndRebaseIs, TypesMean DEF FollowupRecorded, Landed, Entered,
    LabelsOK, RowTo
<1> QED
  BY <1>1, <1>2, <1>3, <1>4, <1>5, <1>6, <1>7, <1>8, <1>9, <1>10, <1>11, <1>12, <1>13,
    <1>14, <1>15, <1>16, <1>17, <1>18, <1>19, <1>20, <1>21, <1>22, <1>23, <1>24, <1>25,
    <1>26, <1>27, <1>28, <1>29, <1>30, <1>31, <1>32, <1>33, <1>34, <1>35, <1>36, <1>37,
    <1>38, <1>39, <1>40, <1>41, <1>42, <1>43, <1>44, <1>45, <1>46, <1>47, <1>48, <1>49,
    <1>50, <1>51, <1>52, <1>53, <1>54, <1>55, <1>56, <1>57, <1>58, <1>59, <1>60 DEF
    Next, Forward, Recovery

\* Pins outlast the need for them, and not the journal.
LEMMA KeptStep ==
  ASSUME ReparentInv, Next PROVE PinsKept'
<1> USE DEF JournalKept, StageKept, RowsKept, HoldersKept, CommitKept, FollowKept
<1>0. /\ Types /\ CopyOK /\ LabelsOK /\ PinsOK /\ HoldersOK /\ TransactionOK
      /\ UndoneOK /\ RecordOK /\ AtomicOutcome /\ CommitFinal /\ FollowupRecorded /\ PinsKept
  BY DEF ReparentInv
<1>1. ASSUME Begin PROVE PinsKept'
  BY <1>0, <1>1, BeginIs, TypesMean DEF PinsKept, Landed, Entered, RowTo, LabelsOK,
    NoneLanded
<1>2. ASSUME Compat PROVE PinsKept'
  BY <1>0, <1>2, CompatIs, TypesMean DEF PinsKept, Landed, Entered, RowTo, LabelsOK
<1>3. ASSUME StartPreflight PROVE PinsKept'
  BY <1>0, <1>3, StartPreflightIs, TypesMean DEF PinsKept, Landed, Entered, RowTo,
    LabelsOK
<1>4. ASSUME ClearIntent PROVE PinsKept'
  BY <1>0, <1>4, ClearIntentIs, TypesMean DEF PinsKept, Landed, Entered, RowTo, LabelsOK
<1>5. ASSUME ClearApply PROVE PinsKept'
  BY <1>0, <1>5, ClearApplyIs, TypesMean DEF PinsKept, Landed, Entered, RowTo, LabelsOK
<1>6. ASSUME ClearDone PROVE PinsKept'
  BY <1>0, <1>6, ClearDoneIs, TypesMean DEF PinsKept, Landed, Entered, RowTo, LabelsOK
<1>7. ASSUME Cleared PROVE PinsKept'
  BY <1>0, <1>7, ClearedIs, TypesMean DEF PinsKept, Landed, Entered, RowTo, LabelsOK
<1>8. ASSUME Resume PROVE PinsKept'
  BY <1>0, <1>8, ResumeIs, TypesMean, Copies, CommittedIs DEF PinsKept, Landed, Entered,
    RowTo, LabelsOK, Reached
<1>9. ASSUME Preflight PROVE PinsKept'
  BY <1>0, <1>9, PreflightIs, TypesMean DEF PinsKept, Landed, Entered, RowTo, LabelsOK
<1>10. ASSUME PinPreimages PROVE PinsKept'
  BY <1>0, <1>10, PinPreimagesIs, TypesMean DEF PinsKept, Landed, Entered, RowTo,
    LabelsOK
<1>11. ASSUME Replay PROVE PinsKept'
  BY <1>0, <1>11, ReplayIs, TypesMean DEF PinsKept, Landed, Entered, RowTo, LabelsOK
<1>12. ASSUME RecordTip PROVE PinsKept'
  BY <1>0, <1>12, RecordTipIs, TypesMean DEF PinsKept, Landed, Entered, RowTo, LabelsOK
<1>13. ASSUME MarkConflict PROVE PinsKept'
  BY <1>0, <1>13, MarkConflictIs, TypesMean DEF PinsKept, Landed, Entered, RowTo,
    LabelsOK
<1>14. ASSUME PauseConflict PROVE PinsKept'
  BY <1>0, <1>14, PauseConflictIs, TypesMean DEF PinsKept, Landed, Entered, RowTo,
    LabelsOK
<1>15. ASSUME ResumeConflict PROVE PinsKept'
  BY <1>0, <1>15, ResumeConflictIs, TypesMean DEF PinsKept, Landed, Entered, RowTo,
    LabelsOK
<1>16. ASSUME PinTip PROVE PinsKept'
  BY <1>0, <1>16, PinTipIs, TypesMean DEF PinsKept, Landed, Entered, RowTo, LabelsOK
<1>17. ASSUME Validate PROVE PinsKept'
  BY <1>0, <1>17, ValidateIs, TypesMean DEF PinsKept, Landed, Entered, RowTo, LabelsOK
<1>18. ASSUME BuildPostImage PROVE PinsKept'
  BY <1>0, <1>18, BuildPostImageIs, TypesMean DEF PinsKept, Landed, Entered, RowTo,
    LabelsOK
<1>19. ASSUME PinComputed PROVE PinsKept'
  BY <1>0, <1>19, PinComputedIs, TypesMean DEF PinsKept, Landed, Entered, RowTo,
    LabelsOK
<1>20. ASSUME WriteRecord PROVE PinsKept'
  BY <1>0, <1>20, WriteRecordIs, TypesMean DEF PinsKept, Landed, Entered, RowTo,
    LabelsOK
<1>21. ASSUME SaveRecord PROVE PinsKept'
  BY <1>0, <1>21, SaveRecordIs, TypesMean DEF PinsKept, Landed, Entered, RowTo, LabelsOK
<1>22. ASSUME Detaching PROVE PinsKept'
  BY <1>0, <1>22, DetachingIs, TypesMean DEF PinsKept, Landed, Entered, RowTo, LabelsOK
<1>23. ASSUME Classify PROVE PinsKept'
  BY <1>0, <1>23, ClassifyIs, TypesMean DEF PinsKept, Landed, Entered, RowTo, LabelsOK
<1>24. ASSUME DetachIntent PROVE PinsKept'
  BY <1>0, <1>24, DetachIntentIs, TypesMean DEF PinsKept, Landed, Entered, RowTo,
    LabelsOK
<1>25. ASSUME SwitchOff PROVE PinsKept'
  BY <1>0, <1>25, SwitchOffIs, TypesMean DEF PinsKept, Landed, Entered, RowTo, LabelsOK
<1>26. ASSUME DetachDone PROVE PinsKept'
  BY <1>0, <1>26, DetachDoneIs, TypesMean DEF PinsKept, Landed, Entered, RowTo, LabelsOK
<1>27. ASSUME HoldersDetached PROVE PinsKept'
  BY <1>0, <1>27, HoldersDetachedIs, TypesMean DEF PinsKept, Landed, Entered, RowTo,
    LabelsOK
<1>28. ASSUME Cas PROVE PinsKept'
  BY <1>0, <1>28, CasIs, TypesMean DEF PinsKept, Landed, Entered, RowTo, LabelsOK,
    PinsOK, Reached, Late, Early, Ended, Aborting, Undoing
<1>29. ASSUME KilledCas PROVE PinsKept'
  BY <1>0, <1>29, KilledCasIs, TypesMean DEF PinsKept, Landed, Entered, RowTo, LabelsOK,
    PinsOK, Reached, Late, Early, Ended, Aborting, Undoing
<1>30. ASSUME SaveCas PROVE PinsKept'
  BY <1>0, <1>30, SaveCasIs, TypesMean DEF PinsKept, Landed, Entered, RowTo, LabelsOK,
    PinsOK, Reached, Late, Early, Ended, Aborting, Undoing
<1>31. ASSUME RefsCommitted PROVE PinsKept'
  BY <1>0, <1>31, RefsCommittedIs, TypesMean DEF PinsKept, Landed, Entered, RowTo,
    LabelsOK
<1>32. ASSUME WriteMetadata PROVE PinsKept'
  BY <1>0, <1>32, WriteMetadataIs, TypesMean DEF PinsKept, Landed, Entered, RowTo,
    LabelsOK
<1>33. ASSUME MetadataWritten PROVE PinsKept'
  BY <1>0, <1>33, MetadataWrittenIs, TypesMean DEF PinsKept, Landed, Entered, RowTo,
    LabelsOK
<1>34. ASSUME CommitPoint PROVE PinsKept'
  BY <1>0, <1>34, CommitPointIs, TypesMean, Copies, CommittedIs DEF PinsKept, Landed,
    Entered, RowTo, LabelsOK
<1>35. ASSUME StartRestoring PROVE PinsKept'
  BY <1>0, <1>35, StartRestoringIs, TypesMean DEF PinsKept, Landed, Entered, RowTo,
    LabelsOK
<1>36. ASSUME RestoreIntent PROVE PinsKept'
  BY <1>0, <1>36, RestoreIntentIs, TypesMean DEF PinsKept, Landed, Entered, RowTo,
    LabelsOK
<1>37. ASSUME SwitchOn PROVE PinsKept'
  BY <1>0, <1>37, SwitchOnIs, TypesMean DEF PinsKept, Landed, Entered, RowTo, LabelsOK
<1>38. ASSUME RestoreDone PROVE PinsKept'
  BY <1>0, <1>38, RestoreDoneIs, TypesMean DEF PinsKept, Landed, Entered, RowTo,
    LabelsOK
<1>39. ASSUME RestoreFails PROVE PinsKept'
  BY <1>0, <1>39, RestoreFailsIs, TypesMean DEF PinsKept, Landed, Entered, RowTo,
    LabelsOK
<1>40. ASSUME HoldersRestored PROVE PinsKept'
  BY <1>0, <1>40, HoldersRestoredIs, TypesMean DEF PinsKept, Landed, Entered, RowTo,
    LabelsOK
<1>41. ASSUME StartCleanup PROVE PinsKept'
  BY <1>0, <1>41, StartCleanupIs, TypesMean DEF PinsKept, Landed, Entered, RowTo,
    LabelsOK
<1>42. ASSUME RemoveScratch PROVE PinsKept'
  BY <1>0, <1>42, RemoveScratchIs, TypesMean DEF PinsKept, Landed, Entered, RowTo,
    LabelsOK
<1>43. ASSUME DropPins PROVE PinsKept'
  BY <1>0, <1>43, DropPinsIs, TypesMean DEF PinsKept, Landed, Entered, RowTo, LabelsOK,
    UndoneOK, CommitFinal, Undone, NoneLanded, Ended, Aborting
<1>44. ASSUME Finish PROVE PinsKept'
  BY <1>0, <1>44, FinishIs, TypesMean, NoRunHas DEF PinsKept, Landed, Entered, RowTo,
    LabelsOK, UndoneOK, CommitFinal, Undone, NoneLanded, Ended, Aborting
<1>45. ASSUME Continue PROVE PinsKept'
  BY <1>0, <1>45, ContinueIs, TypesMean DEF PinsKept, Landed, Entered, RowTo, LabelsOK
<1>46. ASSUME Abort PROVE PinsKept'
  BY <1>0, <1>46, AbortIs, TypesMean, Copies, CommittedIs DEF PinsKept, Landed, Entered,
    RowTo, LabelsOK, Committed, AbortEntry
<1>47. ASSUME AbortRebase PROVE PinsKept'
  BY <1>0, <1>47, AbortRebaseIs, TypesMean DEF PinsKept, Landed, Entered, RowTo,
    LabelsOK
<1>48. ASSUME AbortClassify PROVE PinsKept'
  BY <1>0, <1>48, AbortClassifyIs, TypesMean DEF PinsKept, Landed, Entered, RowTo,
    LabelsOK
<1>49. ASSUME Redetached PROVE PinsKept'
  BY <1>0, <1>49, RedetachedIs, TypesMean DEF PinsKept, Landed, Entered, RowTo, LabelsOK
<1>50. ASSUME AbortCas PROVE PinsKept'
  BY <1>0, <1>50, AbortCasIs, TypesMean DEF PinsKept, Landed, Entered, RowTo, LabelsOK,
    Undoing
<1>51. ASSUME RestoreStack PROVE PinsKept'
  BY <1>0, <1>51, RestoreStackIs, TypesMean DEF PinsKept, Landed, Entered, RowTo,
    LabelsOK
<1>52. ASSUME StackRestored PROVE PinsKept'
  BY <1>0, <1>52, StackRestoredIs, TypesMean DEF PinsKept, Landed, Entered, RowTo,
    LabelsOK
<1>53. ASSUME AttachForAbort PROVE PinsKept'
  BY <1>0, <1>53, AttachForAbortIs, TypesMean DEF PinsKept, Landed, Entered, RowTo,
    LabelsOK
<1>54. ASSUME RecordBackIntent PROVE PinsKept'
  BY <1>0, <1>54, RecordBackIntentIs, TypesMean DEF PinsKept, Landed, Entered, RowTo,
    LabelsOK
<1>55. ASSUME RecordBack PROVE PinsKept'
  BY <1>0, <1>55, RecordBackIs, TypesMean DEF PinsKept, Landed, Entered, RowTo, LabelsOK
<1>56. ASSUME RecordBackDone PROVE PinsKept'
  BY <1>0, <1>56, RecordBackDoneIs, TypesMean DEF PinsKept, Landed, Entered, RowTo,
    LabelsOK
<1>57. ASSUME Kill PROVE PinsKept'
  BY <1>0, <1>57, KillIs, TypesMean DEF PinsKept, Landed, Entered, RowTo, LabelsOK
<1>58. ASSUME Meddle PROVE PinsKept'
  BY <1>0, <1>58, MeddleIs, TypesMean DEF PinsKept, Landed, Entered, RowTo, LabelsOK,
    PinsOK, Ended, Aborting
<1>59. ASSUME Mend PROVE PinsKept'
  BY <1>0, <1>59, MendIs, TypesMean DEF PinsKept, Landed, Entered, RowTo, LabelsOK
<1>60. ASSUME EndRebase PROVE PinsKept'
  BY <1>0, <1>60, EndRebaseIs, TypesMean DEF PinsKept, Landed, Entered, RowTo, LabelsOK
<1> QED
  BY <1>1, <1>2, <1>3, <1>4, <1>5, <1>6, <1>7, <1>8, <1>9, <1>10, <1>11, <1>12, <1>13,
    <1>14, <1>15, <1>16, <1>17, <1>18, <1>19, <1>20, <1>21, <1>22, <1>23, <1>24, <1>25,
    <1>26, <1>27, <1>28, <1>29, <1>30, <1>31, <1>32, <1>33, <1>34, <1>35, <1>36, <1>37,
    <1>38, <1>39, <1>40, <1>41, <1>42, <1>43, <1>44, <1>45, <1>46, <1>47, <1>48, <1>49,
    <1>50, <1>51, <1>52, <1>53, <1>54, <1>55, <1>56, <1>57, <1>58, <1>59, <1>60 DEF
    Next, Forward, Recovery

\* Every step keeps the types of the repository and of the record.
LEMMA WorldStep ==
  ASSUME ReparentInv, Next PROVE WorldTypes'
<1> USE DEF JournalKept, StageKept, RowsKept, HoldersKept, CommitKept, FollowKept
<1>0. /\ Types /\ CopyOK /\ LabelsOK /\ PinsOK /\ HoldersOK /\ TransactionOK
      /\ UndoneOK /\ RecordOK /\ AtomicOutcome /\ CommitFinal /\ FollowupRecorded /\ PinsKept
  BY DEF ReparentInv
<1>1. ASSUME Begin PROVE WorldTypes'
  BY <1>0, <1>1, BeginIs, TypesMean DEF Types, WorldTypes, Followup, Values, Followups,
    RecordCompleted
<1>2. ASSUME Compat PROVE WorldTypes'
  BY <1>0, <1>2, CompatIs, TypesMean DEF Types, WorldTypes, Followup, Values, Followups,
    RecordCompleted
<1>3. ASSUME StartPreflight PROVE WorldTypes'
  BY <1>0, <1>3, StartPreflightIs, TypesMean DEF Types, WorldTypes, Followup, Values,
    Followups, RecordCompleted
<1>4. ASSUME ClearIntent PROVE WorldTypes'
  BY <1>0, <1>4, ClearIntentIs, TypesMean DEF Types, WorldTypes, Followup, Values,
    Followups, RecordCompleted
<1>5. ASSUME ClearApply PROVE WorldTypes'
  BY <1>0, <1>5, ClearApplyIs, TypesMean DEF Types, WorldTypes, Followup, Values,
    Followups, RecordCompleted
<1>6. ASSUME ClearDone PROVE WorldTypes'
  BY <1>0, <1>6, ClearDoneIs, TypesMean DEF Types, WorldTypes, Followup, Values,
    Followups, RecordCompleted
<1>7. ASSUME Cleared PROVE WorldTypes'
  BY <1>0, <1>7, ClearedIs, TypesMean DEF Types, WorldTypes, Followup, Values,
    Followups, RecordCompleted
<1>8. ASSUME Resume PROVE WorldTypes'
  BY <1>0, <1>8, ResumeIs, TypesMean, Copies, CommittedIs DEF Types, WorldTypes,
    Followup, Values, Followups, RecordCompleted, Reached
<1>9. ASSUME Preflight PROVE WorldTypes'
  BY <1>0, <1>9, PreflightIs, TypesMean DEF Types, WorldTypes, Followup, Values,
    Followups, RecordCompleted
<1>10. ASSUME PinPreimages PROVE WorldTypes'
  BY <1>0, <1>10, PinPreimagesIs, TypesMean DEF Types, WorldTypes, Followup, Values,
    Followups, RecordCompleted
<1>11. ASSUME Replay PROVE WorldTypes'
  BY <1>0, <1>11, ReplayIs, TypesMean DEF Types, WorldTypes, Followup, Values,
    Followups, RecordCompleted
<1>12. ASSUME RecordTip PROVE WorldTypes'
  BY <1>0, <1>12, RecordTipIs, TypesMean DEF Types, WorldTypes, Followup, Values,
    Followups, RecordCompleted
<1>13. ASSUME MarkConflict PROVE WorldTypes'
  BY <1>0, <1>13, MarkConflictIs, TypesMean DEF Types, WorldTypes, Followup, Values,
    Followups, RecordCompleted
<1>14. ASSUME PauseConflict PROVE WorldTypes'
  BY <1>0, <1>14, PauseConflictIs, TypesMean DEF Types, WorldTypes, Followup, Values,
    Followups, RecordCompleted
<1>15. ASSUME ResumeConflict PROVE WorldTypes'
  BY <1>0, <1>15, ResumeConflictIs, TypesMean DEF Types, WorldTypes, Followup, Values,
    Followups, RecordCompleted
<1>16. ASSUME PinTip PROVE WorldTypes'
  <2>1. Current \in Rows
    BY <1>16, CurrentIn DEF PinTip, Advancing
  <2>2. pins' \in SUBSET (Rows \X {"old", "new"})
    BY <1>0, <1>16, <2>1, PinTipIs, TypesMean
  <2> QED
    BY <1>0, <1>16, <2>2, PinTipIs DEF Types, WorldTypes
<1>17. ASSUME Validate PROVE WorldTypes'
  BY <1>0, <1>17, ValidateIs, TypesMean DEF Types, WorldTypes, Followup, Values,
    Followups, RecordCompleted
<1>18. ASSUME BuildPostImage PROVE WorldTypes'
  BY <1>0, <1>18, BuildPostImageIs, TypesMean DEF Types, WorldTypes, Followup, Values,
    Followups, RecordCompleted
<1>19. ASSUME PinComputed PROVE WorldTypes'
  BY <1>0, <1>19, PinComputedIs, TypesMean DEF Types, WorldTypes, Followup, Values,
    Followups, RecordCompleted
<1>20. ASSUME WriteRecord PROVE WorldTypes'
  BY <1>0, <1>20, WriteRecordIs, TypesMean DEF Types, WorldTypes, Followup, Values,
    Followups, RecordCompleted
<1>21. ASSUME SaveRecord PROVE WorldTypes'
  BY <1>0, <1>21, SaveRecordIs, TypesMean DEF Types, WorldTypes, Followup, Values,
    Followups, RecordCompleted
<1>22. ASSUME Detaching PROVE WorldTypes'
  BY <1>0, <1>22, DetachingIs, TypesMean DEF Types, WorldTypes, Followup, Values,
    Followups, RecordCompleted
<1>23. ASSUME Classify PROVE WorldTypes'
  BY <1>0, <1>23, ClassifyIs, TypesMean DEF Types, WorldTypes, Followup, Values,
    Followups, RecordCompleted
<1>24. ASSUME DetachIntent PROVE WorldTypes'
  BY <1>0, <1>24, DetachIntentIs, TypesMean DEF Types, WorldTypes, Followup, Values,
    Followups, RecordCompleted
<1>25. ASSUME SwitchOff PROVE WorldTypes'
  BY <1>0, <1>25, SwitchOffIs, TypesMean DEF Types, WorldTypes, Followup, Values,
    Followups, RecordCompleted
<1>26. ASSUME DetachDone PROVE WorldTypes'
  BY <1>0, <1>26, DetachDoneIs, TypesMean DEF Types, WorldTypes, Followup, Values,
    Followups, RecordCompleted
<1>27. ASSUME HoldersDetached PROVE WorldTypes'
  BY <1>0, <1>27, HoldersDetachedIs, TypesMean DEF Types, WorldTypes, Followup, Values,
    Followups, RecordCompleted
<1>28. ASSUME Cas PROVE WorldTypes'
  BY <1>0, <1>28, CasIs, TypesMean DEF Types, WorldTypes, Followup, Values, Followups,
    RecordCompleted
<1>29. ASSUME KilledCas PROVE WorldTypes'
  BY <1>0, <1>29, KilledCasIs, TypesMean DEF Types, WorldTypes, Followup, Values,
    Followups, RecordCompleted
<1>30. ASSUME SaveCas PROVE WorldTypes'
  BY <1>0, <1>30, SaveCasIs, TypesMean DEF Types, WorldTypes, Followup, Values,
    Followups, RecordCompleted
<1>31. ASSUME RefsCommitted PROVE WorldTypes'
  BY <1>0, <1>31, RefsCommittedIs, TypesMean DEF Types, WorldTypes, Followup, Values,
    Followups, RecordCompleted
<1>32. ASSUME WriteMetadata PROVE WorldTypes'
  BY <1>0, <1>32, WriteMetadataIs, TypesMean DEF Types, WorldTypes, Followup, Values,
    Followups, RecordCompleted
<1>33. ASSUME MetadataWritten PROVE WorldTypes'
  BY <1>0, <1>33, MetadataWrittenIs, TypesMean DEF Types, WorldTypes, Followup, Values,
    Followups, RecordCompleted
<1>34. ASSUME CommitPoint PROVE WorldTypes'
  BY <1>0, <1>34, CommitPointIs, TypesMean, Copies, CommittedIs DEF Types, WorldTypes,
    Followup, Values, Followups, RecordCompleted
<1>35. ASSUME StartRestoring PROVE WorldTypes'
  BY <1>0, <1>35, StartRestoringIs, TypesMean DEF Types, WorldTypes, Followup, Values,
    Followups, RecordCompleted
<1>36. ASSUME RestoreIntent PROVE WorldTypes'
  BY <1>0, <1>36, RestoreIntentIs, TypesMean DEF Types, WorldTypes, Followup, Values,
    Followups, RecordCompleted
<1>37. ASSUME SwitchOn PROVE WorldTypes'
  BY <1>0, <1>37, SwitchOnIs, TypesMean DEF Types, WorldTypes, Followup, Values,
    Followups, RecordCompleted
<1>38. ASSUME RestoreDone PROVE WorldTypes'
  BY <1>0, <1>38, RestoreDoneIs, TypesMean DEF Types, WorldTypes, Followup, Values,
    Followups, RecordCompleted
<1>39. ASSUME RestoreFails PROVE WorldTypes'
  BY <1>0, <1>39, RestoreFailsIs, TypesMean DEF Types, WorldTypes, Followup, Values,
    Followups, RecordCompleted
<1>40. ASSUME HoldersRestored PROVE WorldTypes'
  BY <1>0, <1>40, HoldersRestoredIs, TypesMean DEF Types, WorldTypes, Followup, Values,
    Followups, RecordCompleted
<1>41. ASSUME StartCleanup PROVE WorldTypes'
  BY <1>0, <1>41, StartCleanupIs, TypesMean DEF Types, WorldTypes, Followup, Values,
    Followups, RecordCompleted
<1>42. ASSUME RemoveScratch PROVE WorldTypes'
  BY <1>0, <1>42, RemoveScratchIs, TypesMean DEF Types, WorldTypes, Followup, Values,
    Followups, RecordCompleted
<1>43. ASSUME DropPins PROVE WorldTypes'
  BY <1>0, <1>43, DropPinsIs, TypesMean DEF Types, WorldTypes, Followup, Values,
    Followups, RecordCompleted
<1>44. ASSUME Finish PROVE WorldTypes'
  BY <1>0, <1>44, FinishIs, TypesMean, NoRunHas DEF Types, WorldTypes, Followup, Values,
    Followups, RecordCompleted
<1>45. ASSUME Continue PROVE WorldTypes'
  BY <1>0, <1>45, ContinueIs, TypesMean DEF Types, WorldTypes, Followup, Values,
    Followups, RecordCompleted
<1>46. ASSUME Abort PROVE WorldTypes'
  BY <1>0, <1>46, AbortIs, TypesMean, Copies, CommittedIs DEF Types, WorldTypes,
    Followup, Values, Followups, RecordCompleted, AbortEntry
<1>47. ASSUME AbortRebase PROVE WorldTypes'
  BY <1>0, <1>47, AbortRebaseIs, TypesMean DEF Types, WorldTypes, Followup, Values,
    Followups, RecordCompleted
<1>48. ASSUME AbortClassify PROVE WorldTypes'
  BY <1>0, <1>48, AbortClassifyIs, TypesMean DEF Types, WorldTypes, Followup, Values,
    Followups, RecordCompleted
<1>49. ASSUME Redetached PROVE WorldTypes'
  BY <1>0, <1>49, RedetachedIs, TypesMean DEF Types, WorldTypes, Followup, Values,
    Followups, RecordCompleted
<1>50. ASSUME AbortCas PROVE WorldTypes'
  BY <1>0, <1>50, AbortCasIs, TypesMean DEF Types, WorldTypes, Followup, Values,
    Followups, RecordCompleted
<1>51. ASSUME RestoreStack PROVE WorldTypes'
  BY <1>0, <1>51, RestoreStackIs, TypesMean DEF Types, WorldTypes, Followup, Values,
    Followups, RecordCompleted
<1>52. ASSUME StackRestored PROVE WorldTypes'
  BY <1>0, <1>52, StackRestoredIs, TypesMean DEF Types, WorldTypes, Followup, Values,
    Followups, RecordCompleted
<1>53. ASSUME AttachForAbort PROVE WorldTypes'
  BY <1>0, <1>53, AttachForAbortIs, TypesMean DEF Types, WorldTypes, Followup, Values,
    Followups, RecordCompleted
<1>54. ASSUME RecordBackIntent PROVE WorldTypes'
  BY <1>0, <1>54, RecordBackIntentIs, TypesMean DEF Types, WorldTypes, Followup, Values,
    Followups, RecordCompleted
<1>55. ASSUME RecordBack PROVE WorldTypes'
  BY <1>0, <1>55, RecordBackIs, TypesMean DEF Types, WorldTypes, Followup, Values,
    Followups, RecordCompleted
<1>56. ASSUME RecordBackDone PROVE WorldTypes'
  BY <1>0, <1>56, RecordBackDoneIs, TypesMean DEF Types, WorldTypes, Followup, Values,
    Followups, RecordCompleted
<1>57. ASSUME Kill PROVE WorldTypes'
  BY <1>0, <1>57, KillIs, TypesMean DEF Types, WorldTypes, Followup, Values, Followups,
    RecordCompleted
<1>58. ASSUME Meddle PROVE WorldTypes'
  BY <1>0, <1>58, MeddleIs, TypesMean DEF Types, WorldTypes, Followup, Values,
    Followups, RecordCompleted
<1>59. ASSUME Mend PROVE WorldTypes'
  BY <1>0, <1>59, MendIs, TypesMean DEF Types, WorldTypes, Followup, Values, Followups,
    RecordCompleted
<1>60. ASSUME EndRebase PROVE WorldTypes'
  BY <1>0, <1>60, EndRebaseIs, TypesMean DEF Types, WorldTypes, Followup, Values,
    Followups, RecordCompleted
<1> QED
  BY <1>1, <1>2, <1>3, <1>4, <1>5, <1>6, <1>7, <1>8, <1>9, <1>10, <1>11, <1>12, <1>13,
    <1>14, <1>15, <1>16, <1>17, <1>18, <1>19, <1>20, <1>21, <1>22, <1>23, <1>24, <1>25,
    <1>26, <1>27, <1>28, <1>29, <1>30, <1>31, <1>32, <1>33, <1>34, <1>35, <1>36, <1>37,
    <1>38, <1>39, <1>40, <1>41, <1>42, <1>43, <1>44, <1>45, <1>46, <1>47, <1>48, <1>49,
    <1>50, <1>51, <1>52, <1>53, <1>54, <1>55, <1>56, <1>57, <1>58, <1>59, <1>60 DEF
    Next, Forward, Recovery

-----------------------------------------------------------------------------
(* The invariant holds at first, and always.                                *)

\* Before the first reparent nothing has moved and nothing is recorded of a run.
LEMMA Starts == ASSUME Init PROVE ReparentInv
<1>1. WorldTypes
  BY ReparentAssumption DEF Init, WorldTypes, Values, Followup
<1>2. RunTypes
  BY NoRunIs DEF Init, RunTypes, Labels
<1>3. \A r \in Rows : ref[r] = "pre" /\ ~Landed(r)
  BY DEF Init, Landed
<1>4. \A r \in Held : wt[r] = "on" /\ j.h[r] = "none"
  BY NoRunHas DEF Init
<1>5. \A r \in Published : /\ rec[r] = IF r \in Prior THEN "prior" ELSE "none"
                           /\ seen[r] = "stale" => r \in Prior
  BY ReparentAssumption DEF Init
<1>6. /\ ~j.on /\ j = NoRun /\ pc = "idle" /\ sw = 0 /\ tried = {} /\ pins = {}
      /\ stack = "before" /\ j.stage = "initializing" /\ ~j.commit /\ ~j.proof
      /\ ~j.restore /\ j.clear = {} /\ \A r \in Rows : j.row[r] = "pending"
  BY NoRunHas DEF Init
<1>7. CopyOK /\ LabelsOK /\ TransactionOK
  BY <1>6 DEF CopyOK, LabelsOK, TransactionOK, Undoing, Ended, Aborting, Restoring
<1>8. PinsOK /\ PinsKept
  BY <1>3, <1>6 DEF PinsOK, PinsKept, NoneLanded
<1>9. HoldersOK /\ UndoneOK /\ AtomicOutcome
  BY <1>3, <1>4, <1>6, ReparentAssumption DEF HoldersOK, UndoneOK, AtomicOutcome, Off,
    Back, AllBack, Ended
<1>10. RecordOK /\ CommitFinal /\ FollowupRecorded
  <2>1. \A r \in Published : ~Landed(r)
    BY <1>3, ReparentAssumption
  <2>2. \A r \in Published : rec[r] # "ours" /\ (seen[r] = "stale" => rec[r] # "none")
    BY <1>5
  <2>3. RecordOK
    BY <1>6 DEF RecordOK
  <2>4. CommitFinal
    BY <1>6 DEF CommitFinal
  <2>5. FollowupRecorded
    BY <1>6, <2>1, <2>2 DEF FollowupRecorded
  <2> QED BY <2>3, <2>4, <2>5
<1> QED
  BY <1>1, <1>2, <1>7, <1>8, <1>9, <1>10 DEF ReparentInv, Types

\* Each step keeps the copies and the types of a run, as its own lemma says.
LEMMA RunStep == ASSUME ReparentInv, Next PROVE RunTypes' /\ CopyOK'
<1>1. Types /\ CopyOK
  BY DEF ReparentInv
<1> QED
  BY <1>1, BeginIs, CompatIs, StartPreflightIs, ClearIntentIs, ClearApplyIs,
    ClearDoneIs, ClearedIs, ResumeIs, PreflightIs, PinPreimagesIs, ReplayIs,
    RecordTipIs, MarkConflictIs, PauseConflictIs, ResumeConflictIs, PinTipIs,
    ValidateIs, BuildPostImageIs, PinComputedIs, WriteRecordIs, SaveRecordIs,
    DetachingIs, ClassifyIs, DetachIntentIs, SwitchOffIs, DetachDoneIs,
    HoldersDetachedIs, CasIs, KilledCasIs, SaveCasIs, RefsCommittedIs, WriteMetadataIs,
    MetadataWrittenIs, CommitPointIs, StartRestoringIs, RestoreIntentIs, SwitchOnIs,
    RestoreDoneIs, RestoreFailsIs, HoldersRestoredIs, StartCleanupIs, RemoveScratchIs,
    DropPinsIs, FinishIs, ContinueIs, AbortIs, AbortRebaseIs, AbortClassifyIs,
    RedetachedIs, AbortCasIs, RestoreStackIs, StackRestoredIs, AttachForAbortIs,
    RecordBackIntentIs, RecordBackIs, RecordBackDoneIs, KillIs, MeddleIs, MendIs,
    EndRebaseIs DEF Next, Forward, Recovery

\* A step of the command, of a kill or of the user keeps the invariant.
LEMMA Keeps == ASSUME ReparentInv, [Next]_vars PROVE ReparentInv'
<1>1. CASE Next
  BY <1>1, RunStep, WorldStep, LabelsStep, PinsStep, HoldersStep, TransactionStep,
    UndoneStep, RecordStep, OutcomeStep, CommitStep, FollowupStep, KeptStep DEF
    ReparentInv, Types
<1>2. CASE UNCHANGED vars
  <2>1. Types' /\ CopyOK' /\ LabelsOK'
    BY <1>2 DEF vars, world, files, ReparentInv, Types, WorldTypes, RunTypes, CopyOK,
      Alike, LabelsOK, Restoring
  <2>2. PinsOK' /\ HoldersOK' /\ TransactionOK' /\ UndoneOK'
    BY <1>2 DEF vars, world, files, ReparentInv, PinsOK, HoldersOK, TransactionOK,
      UndoneOK, NoneLanded, Landed, AllBack, Undone, Restoring, Reached
  <2>3. /\ RecordOK' /\ AtomicOutcome' /\ CommitFinal' /\ FollowupRecorded' /\ PinsKept'
    BY <1>2 DEF vars, world, files, ReparentInv, RecordOK, AtomicOutcome, CommitFinal,
      FollowupRecorded, PinsKept, NoneLanded, Landed
  <2> QED BY <2>1, <2>2, <2>3 DEF ReparentInv
<1> QED BY <1>1, <1>2

\* The inductive invariant of a reparent, for any rows, holders, conflicts and
\* published branches, and any number of kills and interferences.
THEOREM ReparentInvariant == Spec => []ReparentInv
<1>1. Init => ReparentInv
  BY Starts
<1>2. ReparentInv /\ [Next]_vars => ReparentInv'
  BY Keeps
<1> QED BY <1>1, <1>2, PTL DEF Spec

\* Once no journal is left, the whole closure moved or none of it did, and
\* every worktree is back on its branch.
THEOREM OutcomeIsAtomic == Spec => []AtomicOutcome
<1>1. ReparentInv => AtomicOutcome
  BY DEF ReparentInv
<1> QED BY <1>1, ReparentInvariant, PTL

\* The commit point in the journal is a fact about the repository, and stays one.
THEOREM CommitIsFinal == Spec => []CommitFinal
<1>1. ReparentInv => CommitFinal
  BY DEF ReparentInv
<1> QED BY <1>1, ReparentInvariant, PTL

\* What a reparent moved and nobody has seen published is in the follow-up
\* record, what an earlier one left there stays, and an aborted run adds nothing.
THEOREM FollowupIsRecorded == Spec => []FollowupRecorded
<1>1. ReparentInv => FollowupRecorded
  BY DEF ReparentInv
<1> QED BY <1>1, ReparentInvariant, PTL

\* What --abort or --continue may need is pinned, and no pin outlives the journal.
THEOREM PinsAreKept == Spec => []PinsKept
<1>1. ReparentInv => PinsKept
  BY DEF ReparentInv
<1> QED BY <1>1, ReparentInvariant, PTL

\* A step that moves a branch between its old and its new tip finds no worktree
\* on it, or is the user's own.
LEMMA StepMovesDetached == ASSUME ReparentInv, [Next]_vars PROVE MovedDetached
<1> SUFFICES ASSUME NEW r \in Held, ref'[r] # ref[r], {ref[r], ref'[r]} = {"pre", "new"},
                    user' = user
             PROVE  wt[r] = "off"
  BY DEF MovedDetached
<1>1. /\ Types /\ CopyOK /\ TransactionOK /\ r \in Rows /\ wt[r] \in {"on", "off"}
      /\ ref[r] \in {"pre", "new"} /\ ref'[r] \in {"pre", "new"}
  BY TypesMean DEF ReparentInv
<1>2. CASE Cas
  BY <1>1, <1>2, CasIs DEF TransactionOK
<1>3. CASE KilledCas
  BY <1>1, <1>3, KilledCasIs DEF TransactionOK, Landed
<1>4. CASE AbortCas
  BY <1>1, <1>4, AbortCasIs DEF TransactionOK, Landed
<1>5. CASE Meddle
  BY <1>1, <1>5, MeddleIs
<1>6. CASE Mend
  BY <1>1, <1>6, MendIs
<1>7. ASSUME Next, ~Cas, ~KilledCas, ~AbortCas, ~Meddle, ~Mend PROVE ref' = ref
  BY <1>1, <1>7, BeginIs, CompatIs, StartPreflightIs, ClearIntentIs, ClearApplyIs,
    ClearDoneIs, ClearedIs, ResumeIs, PreflightIs, PinPreimagesIs, ReplayIs,
    RecordTipIs, MarkConflictIs, PauseConflictIs, ResumeConflictIs, PinTipIs,
    ValidateIs, BuildPostImageIs, PinComputedIs, WriteRecordIs, SaveRecordIs,
    DetachingIs, ClassifyIs, DetachIntentIs, SwitchOffIs, DetachDoneIs,
    HoldersDetachedIs, SaveCasIs, RefsCommittedIs, WriteMetadataIs, MetadataWrittenIs,
    CommitPointIs, StartRestoringIs, RestoreIntentIs, SwitchOnIs, RestoreDoneIs,
    RestoreFailsIs, HoldersRestoredIs, StartCleanupIs, RemoveScratchIs, DropPinsIs,
    FinishIs, ContinueIs, AbortIs, AbortRebaseIs, AbortClassifyIs, RedetachedIs,
    RestoreStackIs, StackRestoredIs, AttachForAbortIs, RecordBackIntentIs, RecordBackIs,
    RecordBackDoneIs, KillIs, EndRebaseIs DEF Next, Forward, Recovery
<1> QED
  BY <1>1, <1>2, <1>3, <1>4, <1>5, <1>6, <1>7 DEF vars, world

\* The run never moves a branch that a worktree has checked out.
THEOREM NothingMovesUnderHolder == Spec => NoMoveUnderHolder
<1>1. ReparentInv /\ [Next]_vars => MovedDetached
  BY StepMovesDetached
<1> QED BY <1>1, ReparentInvariant, PTL DEF Spec, NoMoveUnderHolder
=============================================================================
