------------------------------- MODULE PlanGuard -------------------------------
(* Guarded stack sync (rebase_plan_build.go, rebase_plan_guard.go,           *)
(* rebase_planner.go, cli/sync_plan_guard.go): a person previews the plan of *)
(* a run and gets a fingerprint; a guarded run rebuilds the plan, refuses it *)
(* when it does not match or exceeds its replay limits, and measures every   *)
(* row again just before the row is rebased. Other processes move branches   *)
(* all the time. How an interrupted rebase is recovered is SyncTransaction.  *)
EXTENDS Integers, FiniteSets, FiniteSetsExt

CONSTANTS
  N,        \* rows 1..N, each based on the one before; 0 is the remote base
  Carry,    \* rows rebased with --update-refs, which moves unowned branches too
  PerEntry, Total,  \* replay limits a person may give, for a row and in all
  Flaky,    \* probes of Git that may fail: "count", "refs"
  MaxRun,   \* bound: runs started
  MaxOwn,   \* bound: commits of one row
  MaxMove   \* bound: kills, and moves of other people and processes

NoLimit == -1
Rows == 1..N
Tips == 0..N

ASSUME PlanGuardAssumption ==
  /\ N \in Nat \ {0} /\ Carry \subseteq Rows /\ PerEntry \cup Total \subseteq Nat
  /\ Flaky \subseteq {"count", "refs"}
  /\ MaxRun \in Nat \ {0} /\ MaxOwn \in Nat \ {0} /\ MaxMove \in Nat

VARIABLES
  head,     \* row -> version of its branch; the version of the base at 0
  own,      \* row -> commits between its cutoff and its tip
  side,     \* the row in whose range an unowned branch lies, 0 if in none
  busy,     \* rows in whose worktree somebody has a rebase in progress
  owner,    \* another live process owns the feature
  remote,   \* version of the base at the remote
  shown,    \* the last plan somebody was shown, with its fingerprint
  tx,       \* the run on disk: completed rows, whether guarded, its limits
  pc,       \* the running command: "idle", "row", or "rebase"
  guard,    \* what it holds of the admitted plan
  token,    \* the plan whose fingerprint admitted it, NoPlan if none did
  basis,    \* the row about to be rebased, as it was when last measured
  runs, moves
world == <<head, own, side, busy, owner, remote>>
command == <<pc, guard, token, basis>>
bounds == <<runs, moves>>
vars == <<world, shown, tx, command, bounds>>

NoPlan == [rows |-> <<>>, of |-> {}, per |-> NoLimit, total |-> NoLimit]
\* total: the commits of the measured rows of this invocation, up to this row.
NoRow == [head |-> 0, dest |-> 0, count |-> 0, total |-> 0, known |-> FALSE, refs |-> {}]
NoGuard == [on |-> FALSE, plan |-> NoPlan, spent |-> 0]
NoRun == [on |-> FALSE, done |-> {}, guarded |-> FALSE, per |-> NoLimit, total |-> NoLimit]

Init ==
  /\ head = [r \in Tips |-> 0] /\ own = [r \in Rows |-> 1]
  /\ side \in Tips /\ busy = {} /\ owner = FALSE /\ remote = 0
  /\ shown = NoPlan /\ tx = NoRun
  /\ pc = "idle" /\ guard = NoGuard /\ token = NoPlan /\ basis = NoRow
  /\ runs = 0 /\ moves = 0
-----------------------------------------------------------------------------
(* Measuring one row. A row whose parent is rebased in the same run has a    *)
(* destination that does not exist yet: it is deferred, and resolved only    *)
(* when the row itself is about to run (the seam).                           *)

DestinationDeferred(r, rows, seam) == r - 1 \in rows /\ r # seam

firstReplayHazard(deferred, failed) ==
  CASE deferred -> "upstream-deferred"
    [] ~deferred /\ failed -> "probe-failed"
    [] OTHER -> "none"

\* The branches --update-refs would move along; they can be listed only when
\* the upstream of the row is known. {-1} stands for "not measured".
Unmeasured == {-1}
computeCollateral(r, deferred, failed) ==
  CASE r \notin Carry -> {}
    [] r \in Carry /\ (deferred \/ failed) -> Unmeasured
    [] OTHER -> {side} \cap {r}

\* bad: the probes of this measurement that fail.
finishEntry(r, h, rows, seam, bad) ==
  LET deferred == DestinationDeferred(r, rows, seam)
      why == firstReplayHazard(deferred, <<r, "count">> \in bad) IN
  [head |-> h[r], dest |-> IF deferred THEN -1 ELSE h[r - 1], deferred |-> deferred,
   why |-> why, count |-> IF why = "none" THEN own[r] ELSE 0,
   refs |-> computeCollateral(r, deferred, <<r, "refs">> \in bad), busy |-> r \in busy]

buildEntries(h, rows, bad) == [r \in rows |-> finishEntry(r, h, rows, 0, bad)]
Failures == {{}} \cup {{p} : p \in Rows \X Flaky}

RemainingRebaseEntries == Rows \ tx.done
-----------------------------------------------------------------------------
(* Judging a plan.                                                           *)

Plan(h, rows, per, total, bad) ==
  [rows |-> buildEntries(h, rows, bad), of |-> rows, per |-> per, total |-> total]
HasLimits(p) == p.per # NoLimit \/ p.total # NoLimit
\* Only a plan with work and limits has a fingerprint.
Usable(p) == p.of # {} /\ HasLimits(p)
Accepted(p, approve) == Usable(p) /\ approve = p

buildSummaryTotal(p) == MapThenSumSet(LAMBDA r : p.rows[r].count, p.of)
\* A waiver turns "exceeded" rows into "waived" ones.
exceeded(p) ==
  {r \in p.of : p.per # NoLimit /\ p.rows[r].count > p.per}
    \cup (IF p.total # NoLimit /\ buildSummaryTotal(p) > p.total THEN {0} ELSE {})
limitExceededBlockers(p, approve) ==
  IF Accepted(p, approve) \/ exceeded(p) = {} THEN {} ELSE {"limit"}
indeterminateEntryBlockers(p) ==
  {"indeterminate-entry" : r \in {s \in p.of :
     HasLimits(p) /\ p.rows[s].why \notin {"none", "upstream-deferred"}}}
approvalMismatchBlocker(p, approve) ==
  IF approve # NoPlan /\ approve # p THEN {"approval-mismatch"} ELSE {}
entryBlockers(p) == {"external-rebase-in-progress" : r \in {s \in p.of : p.rows[s].busy}}
gateVerdicts(fresh) == IF owner /\ fresh THEN {"state-refused"} ELSE {}

Blockers(p, approve, fresh) ==
  gateVerdicts(fresh) \cup entryBlockers(p) \cup approvalMismatchBlocker(p, approve)
    \cup indeterminateEntryBlockers(p) \cup limitExceededBlockers(p, approve)
EvaluatePlanGuard(p, approve, fresh) == Blockers(p, approve, fresh) = {}

\* A fetch brings the base; it is left out while another process owns the
\* feature.
Fetched(fetch) == IF fetch /\ ~owner THEN [head EXCEPT ![0] = remote] ELSE head
GivenPer == PerEntry \cup {NoLimit}
GivenTotal == Total \cup {NoLimit}
-----------------------------------------------------------------------------
(* Commands.                                                                 *)

\* The limits of a recovery are those it was started with; what is supplied
\* may only fill one that was not set.
resolveCheckoutLimit(persisted, supplied) ==
  IF tx.guarded /\ persisted # NoLimit THEN persisted ELSE supplied
limitConflict(persisted, supplied) ==
  tx.guarded /\ supplied # NoLimit /\ persisted # NoLimit /\ supplied # persisted
Effective(per, total) == <<resolveCheckoutLimit(tx.per, per), resolveCheckoutLimit(tx.total, total)>>

\* tws sync --plan: a preview of a run, or of what is left of one.
Preview(per, total, fetch, bad) ==
  /\ pc = "idle"
  /\ LET h == IF tx.on THEN head ELSE Fetched(fetch)
         e == IF tx.on THEN Effective(per, total) ELSE <<per, total>>
         p == Plan(h, RemainingRebaseEntries, e[1], e[2], bad) IN
     /\ Usable(p) /\ shown' = p /\ head' = h
  /\ UNCHANGED <<own, side, busy, owner, remote, tx, command, bounds>>

Armed(per, total, approve) == per # NoLimit \/ total # NoLimit \/ approve # NoPlan
newPlanGuardRun(p) == [on |-> TRUE, plan |-> p, spent |-> 0]
Run(g, admitted) ==
  /\ pc' = "row" /\ guard' = g /\ token' = admitted /\ basis' = NoRow
Exit == pc' = "idle" /\ guard' = NoGuard /\ token' = NoPlan /\ basis' = NoRow

\* Mutant: a run is guarded only when this invocation asks for it.
GuardedByFlags(per, total, approve) == Armed(per, total, approve)
\* A resumed run stays guarded without any flag.
Guarded(per, total, approve) == Armed(per, total, approve) \/ tx.guarded

Start(per, total, approve, fetch, bad) ==
  /\ pc = "idle" /\ ~tx.on /\ runs < MaxRun /\ runs' = runs + 1
  /\ approve # NoPlan => Armed(per, total, NoPlan)
  /\ LET h == Fetched(fetch)
         p == Plan(h, Rows, per, total, bad) IN
     /\ head' = h
     /\ tx' = [on |-> TRUE, done |-> {}, guarded |-> Guarded(per, total, approve),
               per |-> per, total |-> total]
     /\ IF Guarded(per, total, approve)
        THEN EvaluatePlanGuard(p, approve, TRUE) /\ Run(newPlanGuardRun(p), approve)
        ELSE ~owner /\ Run(NoGuard, NoPlan)
  /\ UNCHANGED <<own, side, busy, owner, remote, shown, moves>>

\* A guarded resume of an unguarded run makes it a guarded one on disk.
upgradeGuarded(per, total) ==
  IF tx.guarded THEN tx ELSE [tx EXCEPT !.guarded = TRUE, !.per = per, !.total = total]

Continue(per, total, approve, bad) ==
  /\ pc = "idle" /\ tx.on
  /\ approve # NoPlan => HasLimits([per |-> Effective(per, total)[1], total |-> Effective(per, total)[2]])
  /\ IF Guarded(per, total, approve)
     THEN LET e == Effective(per, total)
              p == Plan(head, RemainingRebaseEntries, e[1], e[2], bad) IN
          /\ ~limitConflict(tx.per, per) /\ ~limitConflict(tx.total, total)
          /\ EvaluatePlanGuard(p, approve, FALSE)
          /\ tx' = upgradeGuarded(per, total) /\ Run(newPlanGuardRun(p), approve)
     ELSE UNCHANGED tx /\ Run(NoGuard, NoPlan)
  /\ UNCHANGED <<world, shown, bounds>>
-----------------------------------------------------------------------------
(* The rows, one after the other.                                            *)

Current == CHOOSE r \in RemainingRebaseEntries : \A s \in RemainingRebaseEntries : r =< s

\* Mutant: the destination is left out for every row.
DigestWithoutDestination(row, deferredRow) ==
  [row EXCEPT !.dest = -1, !.deferred = FALSE, !.why = "none", !.count = 0, !.refs = {}]

\* What a measurement is compared by: for a row that was deferred, nothing
\* that depends on the destination.
RevalidationDigest(row, deferredRow) ==
  IF deferredRow THEN [row EXCEPT !.dest = -1, !.deferred = FALSE, !.why = "none",
                                  !.count = 0, !.refs = {}]
  ELSE [row EXCEPT !.refs = {}]

Drifted(approved, fresh) ==
  RevalidationDigest(approved, approved.deferred) # RevalidationDigest(fresh, approved.deferred)
\* An approved list that could not be measured counts as empty.
Listed(refs) == refs \ Unmeasured
collateralDrifted(approved, fresh) == Listed(approved.refs) # Listed(fresh.refs)
\* Mutant: the approved count is judged again, which is zero for deferred rows.
ApprovedCount(approved, fresh) == approved.count
\* The count that was measured just now.
CandidateCount(approved, fresh) == fresh.count
newlyExceededLimit(count) ==
  \/ guard.plan.per # NoLimit /\ count > guard.plan.per
  \/ guard.plan.total # NoLimit /\ guard.spent + count > guard.plan.total

\* What the row really is just before it is rebased; known unless its commits
\* could not be counted.
Truth(r, known) ==
  [head |-> head[r], dest |-> head[r - 1], count |-> own[r], known |-> known,
   total |-> basis.total + (IF known THEN own[r] ELSE 0),
   refs |-> {side} \cap {r} \cap Carry]

RevalidatePlanGuardEntry(bad) ==
  LET r == Current
      approved == guard.plan.rows[r]
      fresh == finishEntry(r, head, RemainingRebaseEntries, r, bad) IN
  IF \/ Drifted(approved, fresh)
     \/ fresh.refs = Unmeasured
     \/ collateralDrifted(approved, fresh)
     \/ newlyExceededLimit(CandidateCount(approved, fresh))
  THEN Exit
  ELSE /\ guard' = [guard EXCEPT !.spent = @ + CandidateCount(approved, fresh)]
       /\ basis' = Truth(r, fresh.why = "none") /\ pc' = "rebase" /\ UNCHANGED token

Revalidate(bad) ==
  /\ pc = "row" /\ RemainingRebaseEntries # {}
  /\ IF guard.on THEN RevalidatePlanGuardEntry(bad)
     ELSE pc' = "rebase" /\ basis' = Truth(Current, TRUE) /\ UNCHANGED <<guard, token>>
  /\ UNCHANGED <<world, shown, tx, bounds>>

Rebase ==
  /\ pc = "rebase" /\ Current \notin busy
  /\ head' = [head EXCEPT ![Current] = @ + 1]
  /\ tx' = [tx EXCEPT !.done = @ \cup {Current}]
  /\ pc' = "row" /\ basis' = [NoRow EXCEPT !.total = basis.total]
  /\ UNCHANGED <<own, side, busy, owner, remote, shown, guard, token, bounds>>
\* Git refuses to start in a worktree where a rebase is in progress.
Refused ==
  /\ pc = "rebase" /\ Current \in busy
  /\ Exit /\ UNCHANGED <<world, shown, tx, bounds>>

Finish ==
  /\ pc = "row" /\ RemainingRebaseEntries = {}
  /\ tx' = NoRun /\ Exit /\ UNCHANGED <<world, shown, bounds>>

\* A killed command leaves its run on disk.
Kill ==
  /\ pc # "idle" /\ moves < MaxMove /\ moves' = moves + 1
  /\ Exit /\ UNCHANGED <<world, shown, tx, runs>>

\* Everybody else: commits, resets, pushes of others, branches that appear in
\* or leave a range, rebases by hand, another tws on the feature.
Meddle ==
  /\ moves < MaxMove /\ moves' = moves + 1
  /\ \/ \E r \in Rows : /\ head' = [head EXCEPT ![r] = @ + 1]
                        /\ own' = [own EXCEPT ![r] = IF @ < MaxOwn THEN @ + 1 ELSE @]
                        /\ UNCHANGED <<side, busy, owner, remote>>
     \/ remote' = remote + 1 /\ UNCHANGED <<head, own, side, busy, owner>>
     \/ \E s \in Tips \ {side} : side' = s /\ UNCHANGED <<head, own, busy, owner, remote>>
     \/ \E r \in Rows \ busy : busy' = busy \cup {r} /\ UNCHANGED <<head, own, side, owner, remote>>
     \/ ~owner /\ ~tx.on /\ owner' = TRUE /\ UNCHANGED <<head, own, side, busy, remote>>
  /\ UNCHANGED <<shown, tx, command, runs>>

Settle ==
  /\ \/ \E r \in busy : busy' = busy \ {r} /\ UNCHANGED owner
     \/ owner /\ owner' = FALSE /\ UNCHANGED busy
  /\ UNCHANGED <<head, own, side, remote, shown, tx, command, bounds>>

Approvals == {NoPlan, shown}
Next ==
  \/ \E per \in GivenPer, total \in GivenTotal, fetch \in BOOLEAN, bad \in Failures :
       Preview(per, total, fetch, bad)
  \/ \E per \in GivenPer, total \in GivenTotal, approve \in Approvals, fetch \in BOOLEAN, bad \in Failures :
       Start(per, total, approve, fetch, bad)
  \/ \E per \in GivenPer, total \in GivenTotal, approve \in Approvals, bad \in Failures :
       Continue(per, total, approve, bad)
  \/ \E bad \in Failures : Revalidate(bad)
  \/ Rebase \/ Refused \/ Finish \/ Kill \/ Meddle \/ Settle

Spec == Init /\ [][Next]_vars
-----------------------------------------------------------------------------
(* What a guarded sync promises.                                             *)

\* ApprovedWork: what a run rebases under an approval is what the person was
\* shown with the fingerprint: the same tip, the same commits and destination;
\* of a row below a rebased parent the tip only, since its destination did not
\* exist. No branch it was not shown is moved along.
ApprovedWork ==
  pc = "rebase" /\ token # NoPlan =>
    LET seen == token.rows[Current] IN
    /\ Current \in token.of /\ basis.head = seen.head
    /\ ~seen.deferred => basis.dest = seen.dest /\ basis.count = seen.count
    /\ basis.refs \subseteq seen.refs

\* WithinLimits: no invocation replays more commits, for one row or in all,
\* than the limits of its run and its own, whatever is approved, however the
\* ranges grow after the approval, and also when a later --continue gives no
\* limits, as far as the commits could be counted.
WithinLimits ==
  pc = "rebase" /\ tx.guarded /\ basis.known =>
    /\ \A limit \in {tx.per, guard.plan.per} \ {NoLimit} : basis.count =< limit
    /\ \A limit \in {tx.total, guard.plan.total} \ {NoLimit} : basis.total =< limit
=============================================================================
