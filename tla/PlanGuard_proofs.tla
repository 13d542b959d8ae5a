--------------------------- MODULE PlanGuard_proofs ---------------------------
(* What a guarded sync rebases is what was approved, and no more commits     *)
(* than its limits allow, for any number of rows, any limits and any number  *)
(* of moves by other people.                                                 *)
EXTENDS PlanGuard, TLAPS, WellFoundedInduction

Limits == Nat \cup {NoLimit}
Hazards == {"none", "probe-failed", "upstream-deferred"}
Measures ==
  [head : Nat, dest : Nat \cup {-1}, deferred : BOOLEAN, why : Hazards,
   count : Nat, refs : SUBSET (Tips \cup {-1}), busy : BOOLEAN]
\* A plan that guards a run; a run without a guard holds NoPlan.
WellFormed(p) ==
  /\ p \in [rows : {p.rows}, of : SUBSET Rows, per : Limits, total : Limits]
  /\ p.rows \in [p.of -> Measures]

PlanTypes ==
  /\ head \in [Tips -> Nat] /\ own \in [Rows -> Nat] /\ side \in Tips /\ remote \in Nat
  /\ tx \in [on : BOOLEAN, done : SUBSET Rows, guarded : BOOLEAN, per : Limits, total : Limits]
  /\ pc \in {"idle", "row", "rebase"}
  /\ guard \in [on : BOOLEAN, plan : {guard.plan}, spent : Nat]
  /\ basis \in [head : Nat, dest : Nat, count : Nat, total : Nat, known : BOOLEAN,
                refs : SUBSET Tips]

\* An admitted plan covers what is left of the run, could be measured, and has
\* the limits of the run; an approval is for exactly this plan.
AdmittedPlan(p) ==
  /\ WellFormed(p) /\ RemainingRebaseEntries \subseteq p.of
  /\ tx.per # NoLimit => p.per = tx.per
  /\ tx.total # NoLimit => p.total = tx.total
  /\ HasLimits(p) => \A r \in p.of : p.rows[r].why \in {"none", "upstream-deferred"}
Admitted ==
  pc # "idle" =>
    /\ tx.guarded => guard.on
    /\ guard.on => AdmittedPlan(guard.plan) /\ basis.total = guard.spent
    /\ token # NoPlan => guard.on /\ guard.plan = token /\ HasLimits(token)

\* The seam: a row that is about to be rebased agrees with its plan.
AsMeasured(p, row) ==
  /\ basis.head = row.head /\ basis.refs \subseteq row.refs
  /\ ~row.deferred => basis.dest = row.dest
  /\ ~row.deferred /\ HasLimits(p) => basis.count = row.count
  /\ basis.known /\ p.per # NoLimit => basis.count =< p.per
  /\ p.total # NoLimit => basis.total =< p.total
Seam ==
  pc = "rebase" =>
    /\ RemainingRebaseEntries # {}
    /\ guard.on => AsMeasured(guard.plan, guard.plan.rows[Current])

PlanInv == PlanTypes /\ Admitted /\ Seam
-----------------------------------------------------------------------------
\* The rows are taken from the first that is left: there is one.
LEMMA NextRow ==
  ASSUME PlanTypes, RemainingRebaseEntries # {}
  PROVE  Current \in RemainingRebaseEntries /\ Current \in Rows /\ Current - 1 \in Tips
<1> DEFINE Less == OpToRel(<, Nat)
<1>1. RemainingRebaseEntries \subseteq Rows /\ Rows \subseteq Nat
  BY DEF RemainingRebaseEntries, Rows
<1>2. IsWellFoundedOn(Less, Nat)
  BY NatLessThanWellFounded
<1>3. \A s, r \in Nat : s < r => <<s, r>> \in Less
  BY DEF OpToRel
<1> HIDE DEF Less
<1>4. PICK r \in RemainingRebaseEntries : \A s \in RemainingRebaseEntries : <<s, r>> \notin Less
  BY <1>1, <1>2, WFMin
<1>5. ASSUME NEW s \in RemainingRebaseEntries PROVE r =< s
  <2>1. s \in Nat /\ r \in Nat
    BY <1>1
  <2>2. ~(s < r)
    BY <1>3, <1>4, <2>1
  <2> QED BY <2>1, <2>2
<1>6. Current \in RemainingRebaseEntries
  BY <1>5 DEF Current
<1> QED BY <1>1, <1>6, PlanGuardAssumption DEF Rows, Tips

\* A measured row has the head that was looked at and, when nothing stands in
\* the way, the number of commits that a replay would pick.
LEMMA MeasuredRow ==
  ASSUME PlanTypes, NEW r \in Rows, NEW h \in [Tips -> Nat], NEW rows, NEW seam, NEW bad
  PROVE  /\ finishEntry(r, h, rows, seam, bad) \in Measures
         /\ finishEntry(r, h, rows, seam, bad).head = h[r]
         /\ finishEntry(r, h, rows, r, bad).dest = h[r - 1]
         /\ finishEntry(r, h, rows, r, bad).why \in {"none", "probe-failed"}
         /\ finishEntry(r, h, rows, seam, bad).count =
              IF finishEntry(r, h, rows, seam, bad).why = "none" THEN own[r] ELSE 0
<1>1. r \in Tips /\ r - 1 \in Tips
  BY PlanGuardAssumption DEF Rows, Tips
<1>2. \A d \in BOOLEAN, f \in BOOLEAN : computeCollateral(r, d, f) \in SUBSET (Tips \cup {-1})
  BY DEF computeCollateral, Unmeasured, PlanTypes
<1>3. \A d \in BOOLEAN, f \in BOOLEAN : firstReplayHazard(d, f) \in Hazards
  BY DEF firstReplayHazard, Hazards
<1>4. \A f \in BOOLEAN : firstReplayHazard(FALSE, f) \in {"none", "probe-failed"}
  BY DEF firstReplayHazard
<1> DEFINE d(s) == DestinationDeferred(r, rows, s)
           f == <<r, "count">> \in bad
           g == <<r, "refs">> \in bad
<1>5. ASSUME NEW s
      PROVE  /\ finishEntry(r, h, rows, s, bad) \in Measures
             /\ finishEntry(r, h, rows, s, bad).head = h[r]
             /\ finishEntry(r, h, rows, s, bad).dest = IF d(s) THEN -1 ELSE h[r - 1]
             /\ finishEntry(r, h, rows, s, bad).why = firstReplayHazard(d(s), f)
             /\ finishEntry(r, h, rows, s, bad).count =
                  IF firstReplayHazard(d(s), f) = "none" THEN own[r] ELSE 0
  <2>1. finishEntry(r, h, rows, s, bad) =
          [head |-> h[r], dest |-> IF d(s) THEN -1 ELSE h[r - 1], deferred |-> d(s),
           why |-> firstReplayHazard(d(s), f),
           count |-> IF firstReplayHazard(d(s), f) = "none" THEN own[r] ELSE 0,
           refs |-> computeCollateral(r, d(s), g), busy |-> r \in busy]
    BY DEF finishEntry
  <2>2. d(s) \in BOOLEAN /\ f \in BOOLEAN /\ g \in BOOLEAN
    BY DEF DestinationDeferred
  <2>3. own[r] \in Nat
    BY DEF PlanTypes
  <2> HIDE DEF d, f, g
  <2>4. firstReplayHazard(d(s), f) \in Hazards
    BY <1>3, <2>2
  <2> QED BY <1>1, <1>2, <2>1, <2>2, <2>3, <2>4 DEF Measures
<1>6. d(r) = FALSE /\ f \in BOOLEAN
  BY DEF DestinationDeferred
<1> HIDE DEF d, f, g
<1>7. /\ finishEntry(r, h, rows, r, bad).dest = h[r - 1]
      /\ finishEntry(r, h, rows, r, bad).why \in {"none", "probe-failed"}
  BY <1>4, <1>5, <1>6
<1> QED BY <1>5, <1>7

\* A plan that is built describes every entry it is of.
LEMMA BuiltPlan ==
  ASSUME PlanTypes, NEW h \in [Tips -> Nat], NEW rows \in SUBSET Rows, NEW per \in Limits,
         NEW total \in Limits, NEW bad
  PROVE  WellFormed(Plan(h, rows, per, total, bad))
<1>1. buildEntries(h, rows, bad) \in [rows -> Measures]
  BY MeasuredRow DEF buildEntries
<1> QED BY <1>1 DEF Plan, WellFormed

\* What the evaluation of a plan lets pass.
LEMMA EvaluatedPlan ==
  ASSUME NEW p, WellFormed(p), NEW approve, NEW fresh, EvaluatePlanGuard(p, approve, fresh)
  PROVE  /\ approve # NoPlan => approve = p
         /\ HasLimits(p) => \A r \in p.of : p.rows[r].why \in {"none", "upstream-deferred"}
<1>1. approvalMismatchBlocker(p, approve) = {} /\ indeterminateEntryBlockers(p) = {}
  BY DEF EvaluatePlanGuard, Blockers
<1>2. approve # NoPlan => approve = p
  BY <1>1 DEF approvalMismatchBlocker
<1>3. ASSUME HasLimits(p), NEW r \in p.of, p.rows[r].why \notin {"none", "upstream-deferred"}
      PROVE  FALSE
  <2>1. r \in {s \in p.of : HasLimits(p) /\ p.rows[s].why \notin {"none", "upstream-deferred"}}
    BY <1>3
  <2>2. "indeterminate-entry" \in indeterminateEntryBlockers(p)
    BY <2>1 DEF indeterminateEntryBlockers
  <2> QED BY <1>1, <2>2
<1> QED BY <1>2, <1>3

\* What a fetch leaves are tips.
LEMMA FetchedTip ==
  ASSUME PlanTypes, NEW fetch \in BOOLEAN
  PROVE  Fetched(fetch) \in [Tips -> Nat]
  BY PlanGuardAssumption DEF Fetched, PlanTypes, Tips

\* At first nothing runs and nothing is approved.
LEMMA InitPlan == Init => PlanInv
  BY PlanGuardAssumption DEF Init, PlanInv, PlanTypes, Admitted, Seam, NoRun, NoGuard,
     NoRow, Limits, NoLimit, Rows, Tips
-----------------------------------------------------------------------------
(* The steps.                                                                *)

TransactionTypes(t) ==
  t \in [on : BOOLEAN, done : SUBSET Rows, guarded : BOOLEAN, per : Limits, total : Limits]

\* The start of a guarded run or resume.
LEMMA AdmittedRun ==
  ASSUME PlanTypes, NEW h \in [Tips -> Nat], NEW rows \in SUBSET Rows, NEW per \in Limits,
         NEW total \in Limits, NEW bad, NEW approve, NEW fresh,
         LET p == Plan(h, rows, per, total, bad) IN
           EvaluatePlanGuard(p, approve, fresh) /\ Run(newPlanGuardRun(p), approve),
         approve # NoPlan => per # NoLimit \/ total # NoLimit,
         RemainingRebaseEntries' \subseteq rows,
         head' \in [Tips -> Nat], UNCHANGED <<own, side, remote>>, TransactionTypes(tx)',
         tx'.per # NoLimit => tx'.per = per, tx'.total # NoLimit => tx'.total = total
  PROVE  PlanInv'
<1> USE DEF TransactionTypes
<1> DEFINE p == Plan(h, rows, per, total, bad)
<1>2. WellFormed(p)
  BY BuiltPlan
<1>3. p.of = rows /\ p.per = per /\ p.total = total
  BY DEF Plan
<1> HIDE DEF p
<1>4. PICK q : q = p
  OBVIOUS
<1>5. /\ approve # NoPlan => approve = q
      /\ HasLimits(q) => \A r \in q.of : q.rows[r].why \in {"none", "upstream-deferred"}
      /\ pc' = "row" /\ guard' = [on |-> TRUE, plan |-> q, spent |-> 0]
      /\ token' = approve /\ basis' = NoRow
  BY <1>2, <1>4, EvaluatedPlan DEF p, Run, newPlanGuardRun
<1>6. PlanTypes' /\ Seam'
  BY <1>5 DEF PlanTypes, Seam, NoRow
<1>7. AdmittedPlan(q)'
  BY <1>2, <1>3, <1>4, <1>5 DEF AdmittedPlan, WellFormed, HasLimits
<1>8. approve # NoPlan => HasLimits(q)
  BY <1>3, <1>4 DEF HasLimits
<1> QED BY <1>5, <1>6, <1>7, <1>8 DEF PlanInv, Admitted, NoRow, HasLimits

\* The start of a run or resume without limits.
LEMMA UnguardedRun ==
  ASSUME PlanTypes, Run(NoGuard, NoPlan), head' \in [Tips -> Nat],
         UNCHANGED <<own, side, remote>>, TransactionTypes(tx)', ~tx'.guarded
  PROVE  PlanInv'
<1>1. pc' = "row" /\ guard' = NoGuard /\ token' = NoPlan /\ basis' = NoRow
  BY DEF Run
<1>2. PlanTypes'
  BY <1>1 DEF PlanTypes, TransactionTypes, NoGuard, NoRow
<1> QED BY <1>1, <1>2 DEF PlanInv, Admitted, Seam, NoGuard

\* A preview, and a run that starts with an approval.
LEMMA StartSteps ==
  ASSUME PlanInv, NEW per \in GivenPer, NEW total \in GivenTotal, NEW approve,
         NEW fetch \in BOOLEAN, NEW bad, Start(per, total, approve, fetch, bad)
  PROVE  PlanInv'
<1> USE DEF PlanInv
<1>1. per \in Limits /\ total \in Limits
  BY PlanGuardAssumption DEF GivenPer, GivenTotal, Limits
<1>2. head' = Fetched(fetch) /\ head' \in [Tips -> Nat]
  BY FetchedTip DEF Start
<1>3. tx' = [on |-> TRUE, done |-> {}, guarded |-> Guarded(per, total, approve),
             per |-> per, total |-> total]
  BY DEF Start
<1>4. Guarded(per, total, approve) \in BOOLEAN
  BY DEF Guarded, Armed, PlanTypes
<1>5. TransactionTypes(tx)'
  BY <1>1, <1>3, <1>4 DEF TransactionTypes
<1>6. CASE ~Guarded(per, total, approve)
  <2>1. Run(NoGuard, NoPlan) /\ UNCHANGED <<own, side, remote>> /\ ~tx'.guarded
    BY <1>3, <1>6 DEF Start
  <2> QED BY <1>2, <1>5, <2>1, UnguardedRun
<1>7. CASE Guarded(per, total, approve)
  <2>1. LET p == Plan(Fetched(fetch), Rows, per, total, bad) IN
          EvaluatePlanGuard(p, approve, TRUE) /\ Run(newPlanGuardRun(p), approve)
    BY <1>7 DEF Start
  <2>2. /\ approve # NoPlan => per # NoLimit \/ total # NoLimit
        /\ RemainingRebaseEntries' \subseteq Rows /\ UNCHANGED <<own, side, remote>>
    BY DEF Start, Armed, RemainingRebaseEntries
  <2> QED BY <1>1, <1>2, <1>3, <1>5, <2>1, <2>2, AdmittedRun
<1> QED BY <1>6, <1>7

\* A run that is continued.
LEMMA ContinueSteps ==
  ASSUME PlanInv, NEW per \in GivenPer, NEW total \in GivenTotal, NEW approve,
         NEW bad, Continue(per, total, approve, bad)
  PROVE  PlanInv'
<1> DEFINE e == Effective(per, total)
<1>1. per \in Limits /\ total \in Limits /\ tx.per \in Limits /\ tx.total \in Limits
  BY PlanGuardAssumption DEF GivenPer, GivenTotal, Limits, PlanInv, PlanTypes
<1>2. /\ e[1] = resolveCheckoutLimit(tx.per, per) /\ e[1] \in Limits
      /\ e[2] = resolveCheckoutLimit(tx.total, total) /\ e[2] \in Limits
  BY <1>1 DEF Effective, resolveCheckoutLimit
<1> HIDE DEF e
<1>3. CASE ~Guarded(per, total, approve)
  BY <1>3, UnguardedRun DEF Continue, Guarded, world, PlanInv, PlanTypes, TransactionTypes
<1>4. CASE Guarded(per, total, approve)
  <2>1. tx' = upgradeGuarded(per, total)
    BY <1>4 DEF Continue
  <2>2. /\ TransactionTypes(tx)'
        /\ tx'.done = tx.done
        /\ tx'.per # NoLimit => tx'.per = e[1]
        /\ tx'.total # NoLimit => tx'.total = e[2]
    BY <1>1, <1>2, <2>1 DEF upgradeGuarded, resolveCheckoutLimit, PlanInv, PlanTypes,
       TransactionTypes
  <2>3. approve # NoPlan => e[1] # NoLimit \/ e[2] # NoLimit
    BY DEF Continue, HasLimits, e
  <2>4. LET p == Plan(head, RemainingRebaseEntries, e[1], e[2], bad) IN
          EvaluatePlanGuard(p, approve, FALSE) /\ Run(newPlanGuardRun(p), approve)
    BY <1>4 DEF Continue, e
  <2>5. PlanTypes /\ head \in [Tips -> Nat] /\ UNCHANGED <<head, own, side, remote>>
    BY DEF Continue, world, PlanInv, PlanTypes
  <2>6. RemainingRebaseEntries' = RemainingRebaseEntries /\ RemainingRebaseEntries \in SUBSET Rows
    BY <2>2 DEF RemainingRebaseEntries
  <2> QED BY <1>2, <2>2, <2>3, <2>4, <2>5, <2>6, AdmittedRun
<1> QED BY <1>3, <1>4

\* The comparison at the seam, for a row measured before: it still has its tip,
\* and its destination and commits unless it was deferred.
LEMMA NotDrifted ==
  ASSUME NEW a \in Measures, NEW b \in Measures, ~Drifted(a, b), b.refs # Unmeasured,
         ~collateralDrifted(a, b)
  PROVE  /\ a.head = b.head
         /\ ~a.deferred => a.dest = b.dest /\ a.count = b.count /\ a.why = b.why
         /\ b.refs \ Unmeasured \subseteq a.refs
<1>1. RevalidationDigest(a, a.deferred) = RevalidationDigest(b, a.deferred)
  BY DEF Drifted
<1>2. CASE a.deferred
  <2>1. /\ RevalidationDigest(a, a.deferred).head = a.head
        /\ RevalidationDigest(b, a.deferred).head = b.head
    BY <1>2 DEF RevalidationDigest, Measures
  <2> QED BY <1>1, <1>2, <2>1 DEF collateralDrifted, Listed
<1>3. CASE ~a.deferred
  <2>1. \A c \in {a, b} :
          /\ RevalidationDigest(c, a.deferred).head = c.head
          /\ RevalidationDigest(c, a.deferred).dest = c.dest
          /\ RevalidationDigest(c, a.deferred).count = c.count
          /\ RevalidationDigest(c, a.deferred).why = c.why
    BY <1>3 DEF RevalidationDigest, Measures
  <2> QED BY <1>1, <2>1 DEF collateralDrifted, Listed
<1> QED BY <1>2, <1>3

\* The look that is taken again before each rebase.
LEMMA RevalidateSteps ==
  ASSUME PlanInv, NEW bad, Revalidate(bad)
  PROVE  PlanInv'
<1> DEFINE r == Current
           b == finishEntry(r, head, RemainingRebaseEntries, r, bad)
           a == guard.plan.rows[r]
<1> USE DEF PlanInv
<1>1. /\ pc = "row" /\ RemainingRebaseEntries # {} /\ UNCHANGED <<world, shown, tx, bounds>>
      /\ RemainingRebaseEntries' = RemainingRebaseEntries /\ Current' = Current
  BY DEF Revalidate, RemainingRebaseEntries, Current
<1>2. r \in RemainingRebaseEntries /\ r \in Rows /\ r - 1 \in Tips /\ r \in Tips
  BY <1>1, NextRow DEF Rows, Tips
<1>3. /\ b \in Measures /\ b.head = head[r] /\ b.dest = head[r - 1]
      /\ b.why \in {"none", "probe-failed"}
      /\ b.count = IF b.why = "none" THEN own[r] ELSE 0
  BY <1>2, MeasuredRow DEF PlanTypes
<1>4. b.refs # Unmeasured => Truth(r, TRUE).refs \subseteq b.refs \ Unmeasured
  <2>1. b.refs = computeCollateral(r, FALSE, <<r, "refs">> \in bad)
    BY DEF finishEntry, DestinationDeferred
  <2>2. Tips \cap Unmeasured = {}
    BY DEF Tips, Unmeasured
  <2> QED BY <2>1, <2>2 DEF computeCollateral, Truth, PlanTypes
<1>5. \A known \in BOOLEAN :
        /\ Truth(r, known) \in [head : Nat, dest : Nat, count : Nat, total : Nat,
                                known : BOOLEAN, refs : SUBSET Tips]
        /\ Truth(r, known).refs = Truth(r, TRUE).refs
        /\ Truth(r, known).head = head[r] /\ Truth(r, known).dest = head[r - 1]
        /\ Truth(r, known).count = own[r] /\ Truth(r, known).known = known
        /\ Truth(r, known).total = basis.total + (IF known THEN own[r] ELSE 0)
  BY <1>2 DEF Truth, PlanTypes
<1> HIDE DEF b
<1>6. CASE ~guard.on
  <2>1. pc' = "rebase" /\ basis' = Truth(r, TRUE) /\ UNCHANGED <<guard, token>>
    BY <1>6 DEF Revalidate
  <2>2. PlanTypes'
    BY <1>1, <1>5, <2>1 DEF PlanTypes, world
  <2> QED BY <1>1, <1>6, <2>1, <2>2 DEF Admitted, Seam
<1>7. CASE guard.on /\ Exit
  <2>1. PlanTypes'
    BY <1>1, <1>7 DEF PlanTypes, world, Exit, NoGuard, NoRow
  <2> QED BY <1>7, <2>1 DEF Admitted, Seam, Exit
<1>8. CASE guard.on /\ ~Exit
  <2>1. /\ ~Drifted(a, b) /\ b.refs # Unmeasured /\ ~collateralDrifted(a, b)
        /\ ~newlyExceededLimit(b.count)
        /\ guard' = [guard EXCEPT !.spent = @ + b.count]
        /\ basis' = Truth(r, b.why = "none") /\ pc' = "rebase" /\ UNCHANGED token
    BY <1>1, <1>8 DEF Revalidate, RevalidatePlanGuardEntry, CandidateCount, b
  <2>2. AdmittedPlan(guard.plan) /\ r \in guard.plan.of /\ a \in Measures
    BY <1>1, <1>2, <1>8 DEF Admitted, AdmittedPlan, WellFormed
  <2> HIDE DEF a, r
  <2>3. /\ a.head = b.head
        /\ ~a.deferred => a.dest = b.dest /\ a.count = b.count /\ a.why = b.why
        /\ b.refs \ Unmeasured \subseteq a.refs
    BY <1>3, <2>1, <2>2, NotDrifted
  <2>4. /\ basis'.head = a.head /\ basis'.refs \subseteq a.refs
        /\ ~a.deferred => basis'.dest = a.dest
        /\ basis'.count = own[r] /\ basis'.known = (b.why = "none")
        /\ basis'.total = basis.total + b.count
        /\ basis' \in [head : Nat, dest : Nat, count : Nat, total : Nat,
                       known : BOOLEAN, refs : SUBSET Tips]
    BY <1>3, <1>4, <1>5, <2>1, <2>3
  <2>5. /\ guard'.on /\ guard'.plan = guard.plan /\ guard'.spent = guard.spent + b.count
        /\ guard' \in [on : BOOLEAN, plan : {guard'.plan}, spent : Nat]
        /\ guard.spent \in Nat /\ b.count \in Nat
    BY <1>3, <1>8, <2>1 DEF PlanTypes, Measures
  <2>6. basis'.total = guard'.spent
    BY <1>1, <1>8, <2>4, <2>5 DEF Admitted
  <2>7. PlanTypes'
    BY <1>1, <2>1, <2>4, <2>5 DEF PlanTypes, world
  <2>8. HasLimits(guard.plan) /\ ~a.deferred => basis'.count = a.count
    BY <1>3, <2>2, <2>3, <2>4 DEF AdmittedPlan, a
  <2>9. /\ basis'.known /\ guard.plan.per # NoLimit => basis'.count =< guard.plan.per
        /\ guard.plan.total # NoLimit => basis'.total =< guard.plan.total
    <3>1. guard.plan.per \in Limits /\ guard.plan.total \in Limits
      BY <2>2 DEF AdmittedPlan, WellFormed
    <3>2. basis'.known => basis'.count = b.count
      BY <1>3, <2>4
    <3> QED BY <2>1, <2>4, <2>5, <2>6, <3>1, <3>2 DEF newlyExceededLimit, Limits, NoLimit, PlanTypes
  <2>10. guard'.plan.rows[Current'] = a
    BY <1>1, <2>5 DEF a, r
  <2>11. AsMeasured(guard.plan, guard.plan.rows[Current])'
    BY <2>4, <2>5, <2>8, <2>9, <2>10 DEF AsMeasured, HasLimits
  <2>12. AdmittedPlan(guard.plan)'
    BY <1>1, <2>2, <2>5 DEF AdmittedPlan, WellFormed
  <2>13. Admitted'
    BY <1>1, <1>8, <2>1, <2>5, <2>6, <2>12 DEF Admitted, HasLimits
  <2> QED BY <1>1, <2>5, <2>7, <2>11, <2>13 DEF Seam
<1> QED BY <1>6, <1>7, <1>8

\* The rebases and what follows each.
LEMMA RebaseSteps ==
  ASSUME PlanInv, Rebase
  PROVE  PlanInv'
<1> USE DEF PlanInv
<1>1. pc = "rebase" /\ Current \in Rows /\ Current \in Tips
  BY NextRow DEF Rebase, Seam, Rows, Tips
<1>2. /\ tx' = [tx EXCEPT !.done = @ \cup {Current}] /\ pc' = "row"
      /\ basis' = [NoRow EXCEPT !.total = basis.total] /\ UNCHANGED <<guard, token, own, side, remote>>
      /\ head' = [head EXCEPT ![Current] = @ + 1]
  BY DEF Rebase
<1>3. PlanTypes'
  <2>1. basis' = [head |-> 0, dest |-> 0, count |-> 0, total |-> basis.total, known |-> FALSE,
                  refs |-> {}]
    BY <1>2 DEF NoRow
  <2>2. head' \in [Tips -> Nat]
    BY <1>1, <1>2 DEF PlanTypes
  <2>3. TransactionTypes(tx)'
    BY <1>1, <1>2 DEF PlanTypes, TransactionTypes
  <2>4. basis' \in [head : Nat, dest : Nat, count : Nat, total : Nat, known : BOOLEAN,
                   refs : SUBSET Tips]
    <3>1. basis.total \in Nat
      BY DEF PlanTypes
    <3> QED BY <2>1, <3>1
  <2>5. guard' = guard /\ UNCHANGED <<own, side, remote>>
    BY <1>2
  <2> QED BY <1>2, <2>2, <2>3, <2>4, <2>5 DEF PlanTypes, TransactionTypes
<1>4. RemainingRebaseEntries' \subseteq RemainingRebaseEntries
  BY <1>2 DEF RemainingRebaseEntries, PlanTypes
<1>5. guard.on => AdmittedPlan(guard.plan)'
  BY <1>1, <1>2, <1>4 DEF Admitted, AdmittedPlan, WellFormed, PlanTypes
<1>6. basis'.total = basis.total /\ tx'.guarded = tx.guarded
  BY <1>2 DEF NoRow, PlanTypes
<1> QED BY <1>1, <1>2, <1>3, <1>5, <1>6 DEF Admitted, Seam, HasLimits

\* A command that ends, as it should or killed, leaves nothing to promise.
LEMMA EndSteps ==
  ASSUME PlanTypes, Exit, UNCHANGED world, tx' \in {tx, NoRun}
  PROVE  PlanInv'
<1>1. TransactionTypes(tx)'
  <2>1. TransactionTypes(NoRun)
    BY DEF TransactionTypes, NoRun, Limits
  <2> QED BY <2>1 DEF PlanTypes, TransactionTypes
<1>2. PlanTypes'
  BY <1>1 DEF PlanTypes, TransactionTypes, Exit, NoGuard, NoRow, world
<1> QED BY <1>2 DEF PlanInv, Admitted, Seam, Exit

\* The rest of the world moves beside the command and its run.
LEMMA OtherSteps ==
  ASSUME PlanInv, UNCHANGED <<tx, command>>, head' \in [Tips -> Nat], own' \in [Rows -> Nat],
         side' \in Tips, remote' \in Nat
  PROVE  PlanInv'
<1>1. PlanTypes'
  BY DEF PlanInv, PlanTypes, command
<1>2. Admitted'
  BY DEF PlanInv, Admitted, AdmittedPlan, WellFormed, RemainingRebaseEntries, HasLimits, command
<1>3. Seam'
  BY DEF PlanInv, Seam, AsMeasured, RemainingRebaseEntries, Current, HasLimits, command
<1> QED BY <1>1, <1>2, <1>3 DEF PlanInv

\* People who move branches meanwhile.
LEMMA MeddleSteps ==
  ASSUME PlanInv, Meddle \/ Settle
  PROVE  PlanInv'
<1>1. Rows \subseteq Tips
  BY DEF Rows, Tips
<1>2. /\ UNCHANGED <<tx, command>> /\ head' \in [Tips -> Nat] /\ own' \in [Rows -> Nat]
      /\ side' \in Tips /\ remote' \in Nat
  BY <1>1, PlanGuardAssumption DEF Meddle, Settle, PlanInv, PlanTypes
<1> QED BY <1>2, OtherSteps

\* Every step keeps the promise.
LEMMA NextPlan == PlanInv /\ [Next]_vars => PlanInv'
<1> SUFFICES ASSUME PlanInv, [Next]_vars PROVE PlanInv'
  OBVIOUS
<1>1. ASSUME NEW per \in GivenPer, NEW total \in GivenTotal, NEW fetch \in BOOLEAN,
             NEW bad \in Failures, Preview(per, total, fetch, bad)
      PROVE  PlanInv'
  <2>1. head' \in [Tips -> Nat]
    BY <1>1, FetchedTip DEF Preview, PlanInv, PlanTypes
  <2> QED BY <1>1, <2>1, OtherSteps DEF Preview, PlanInv, PlanTypes
<1>2. CASE Refused \/ Finish \/ Kill
  BY <1>2, EndSteps DEF Refused, Finish, Kill, PlanInv
<1>3. CASE UNCHANGED vars
  BY <1>3, OtherSteps DEF vars, world, PlanInv, PlanTypes
<1> QED BY <1>1, <1>2, <1>3, StartSteps, ContinueSteps, RevalidateSteps, RebaseSteps,
           MeddleSteps DEF Next
-----------------------------------------------------------------------------
\* What an approval says bounds the run made under it, in every instance.
THEOREM PlanInvariant == Spec => []PlanInv
  BY InitPlan, NextPlan, PTL DEF Spec

\* ApprovedWork in every instance.
THEOREM OnlyApprovedWork == Spec => []ApprovedWork
<1>1. PlanInv => ApprovedWork
  <2> SUFFICES ASSUME PlanInv, pc = "rebase", token # NoPlan
               PROVE  LET seen == token.rows[Current] IN
                        /\ Current \in token.of /\ basis.head = seen.head
                        /\ ~seen.deferred => basis.dest = seen.dest /\ basis.count = seen.count
                        /\ basis.refs \subseteq seen.refs
    BY DEF ApprovedWork
  <2>1. guard.on /\ guard.plan = token /\ HasLimits(token) /\ AdmittedPlan(token)
    BY DEF PlanInv, Admitted
  <2>2. Current \in token.of
    BY <2>1, NextRow DEF PlanInv, Seam, AdmittedPlan
  <2> QED BY <2>1, <2>2 DEF PlanInv, Seam, AsMeasured
<1> QED BY <1>1, PlanInvariant, PTL

\* WithinLimits in every instance.
THEOREM AlwaysWithinLimits == Spec => []WithinLimits
<1>1. PlanInv => WithinLimits
  <2> SUFFICES ASSUME PlanInv, pc = "rebase", tx.guarded, basis.known
               PROVE  /\ \A limit \in {tx.per, guard.plan.per} \ {NoLimit} : basis.count =< limit
                      /\ \A limit \in {tx.total, guard.plan.total} \ {NoLimit} : basis.total =< limit
    BY DEF WithinLimits
  <2>1. guard.on /\ AdmittedPlan(guard.plan) /\ AsMeasured(guard.plan, guard.plan.rows[Current])
    BY DEF PlanInv, Admitted, Seam
  <2> QED BY <2>1 DEF AdmittedPlan, AsMeasured
<1> QED BY <1>1, PlanInvariant, PTL
=============================================================================
