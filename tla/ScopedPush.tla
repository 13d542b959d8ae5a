----------------------------- MODULE ScopedPush -----------------------------
(* tws push: the publication of selected entries with a journal, protected  *)
(* objects and a recorded lease (scoped_push*.go), beside the plain push of *)
(* all entries (cli/push.go) and the follow-up record that a reparent left  *)
(* for branches whose remote still shows the history from before it.        *)
EXTENDS Integers

CONSTANTS
  N,          \* the stack's entries are 1..N in dependency order
  Archived,   \* entries without a worktree: selected, but skipped
  Rewritten,  \* entries with a pending row in the reparent record
  Commit,     \* commits a branch may point to (each branch has its own)
  Old, New,   \* what the remote shows at first, and the reparented tip
  Theirs,     \* commits that other people may push
  Within,     \* <<a, b>>: a is b or an ancestor of b
  None,
  Procs,      \* terminals in which tws push commands are run
  MaxPlans, MaxUser, MaxCrash  \* bounds: new commands, interferences, kills

Entries == 1..N
Selected == Entries \ Archived
Kinds == 1..4 \* an entry's pins: source, lease, witness, follow-up

ASSUME PushAssumption ==
  /\ N \in Nat /\ Archived \subseteq Entries /\ Rewritten \subseteq Selected
  /\ {Old, New} \subseteq Commit \ Theirs /\ Theirs \subseteq Commit
  /\ None \notin Commit /\ Within \subseteq Commit \X Commit
  /\ {"free", "dead"} \cap Procs = {}
  /\ MaxPlans \in Nat /\ MaxUser \in Nat /\ MaxCrash \in Nat

VARIABLES
  local, track,  \* entry -> its branch, its remote-tracking ref
  recent,        \* entry -> branch reflog tips since the tracking ref moved
  remote,        \* entry -> the branch on the remote
  rec,           \* entry -> its row of the reparent record
  meta,          \* entry -> what became of its stack.yaml row since the plan
  ref,           \* private refs that exist, as <<entry, kind>>
  j,             \* the journal as last saved
  other,         \* a sync has left its recovery evidence
  guard, gtok,   \* the feature guard's owner and the token in it
  pc, verb,      \* terminal -> its running command
  mine,          \* terminal -> the plan it built and the receipt it saw
  cur,           \* terminal -> the entry it is pushing
  shown, landed, \* ghost: what each remote branch ever was; what was pushed
  plans, crashes, user

git == <<local, track, recent, remote, shown>>
bounds == <<plans, crashes, user>>
vars == <<git, rec, meta, ref, j, other, guard, gtok, pc, verb, mine, cur,
          landed, bounds>>

NoPlan == [e \in Entries |->
  [source |-> None, expected |-> None, witness |-> None, followup |-> FALSE]]
Blank == [plan |-> NoPlan, prior |-> 0, token |-> 0]
Nothing == [e \in Entries |-> [k \in Kinds |-> "none"]]

Init ==
  /\ local = [e \in Entries |-> IF e \in Rewritten THEN New ELSE Old]
  /\ track = [e \in Entries |-> Old]
  /\ recent = [e \in Entries |-> {Old, local[e]}]
  /\ remote = [e \in Entries |-> Old]
  /\ shown = [e \in Entries |-> {Old}]
  /\ rec = [e \in Entries |-> IF e \in Rewritten THEN "pending" ELSE "none"]
  /\ meta = [e \in Entries |-> "same"]
  /\ ref = {}
  /\ j = [token |-> 0, phase |-> "none", plan |-> NoPlan,
          rows |-> [e \in Entries |-> "skipped"], pins |-> Nothing,
          decision |-> [e \in Entries |-> ""]]
  /\ other = FALSE
  /\ guard = "free" /\ gtok = 0
  /\ pc = [p \in Procs |-> "idle"] /\ verb = [p \in Procs |-> "push"]
  /\ mine = [p \in Procs |-> Blank]
  /\ cur = [p \in Procs |-> 0]
  /\ landed = {}
  /\ plans = 0 /\ crashes = 0 /\ user = 0
-----------------------------------------------------------------------------
Terminal == j.phase \in {"none", "completed", "canceled"}
Pending == ~Terminal

\* The objects a plan must keep: the OIDs of its pins.
Object(plan, x) ==
  LET e == plan[x[1]] IN
  CASE x[2] = 1 -> e.source
    [] x[2] = 2 -> e.expected
    [] x[2] = 3 -> e.witness
    [] x[2] = 4 -> IF e.followup THEN New ELSE None
Pins(plan) == {x \in Selected \X Kinds : Object(plan, x) # None}
Pin(x) == j.pins[x[1]][x[2]]
FirstPin(S) == CHOOSE x \in S : \A y \in S : 4 * x[1] + x[2] =< 4 * y[1] + y[2]
Saved(x, state) == [j EXCEPT !.pins[x[1]][x[2]] = state]

\* A tip of the qualifying reflog range that contains what the remote had.
Containing(e) == {c \in recent[e] : <<track[e], c>> \in Within}
Witness(e) ==
  IF rec[e] = "pending" /\ Containing(e) # {}
  THEN CHOOSE c \in Containing(e) : TRUE ELSE None

\* Mutant: the lease is trusted without the proof.
IncludesUnproved(e) == TRUE

Includes(e) == Containing(e) # {}

Sources == \A e \in Selected : j.rows[e] = "succeeded" \/ local[e] = j.plan[e].source
Metadata == \A e \in Entries : meta[e] = "same"
Held == \A x \in Pins(j.plan) : Pin(x) = "held" /\ x \in ref
Go(p, label) == pc' = [pc EXCEPT ![p] = label]
Exit(p) == Go(p, "release")
\* A command that is over leaves nothing behind but files and refs.
Gone(p) ==
  /\ Go(p, "idle") /\ verb' = [verb EXCEPT ![p] = "push"]
  /\ mine' = [mine EXCEPT ![p] = Blank] /\ cur' = [cur EXCEPT ![p] = 0]
Holds(p, label) == pc[p] = label /\ guard = p
-----------------------------------------------------------------------------
(* A new scoped push plans before it takes the guard.                       *)

BuildPlan(p) ==
  /\ pc[p] = "idle" /\ Terminal /\ ~other /\ plans < MaxPlans
  /\ \A e \in Selected : rec[e] = "pending" => Includes(e)
  /\ plans' = plans + 1
  /\ mine' = [mine EXCEPT ![p] =
       [plan |-> [e \in Entries |->
          IF e \in Archived THEN NoPlan[e]
          ELSE [source |-> local[e], expected |-> track[e],
                witness |-> Witness(e), followup |-> rec[e] = "pending"]],
        prior |-> j.token, token |-> plans + 1]]
  /\ verb' = [verb EXCEPT ![p] = "push"] /\ Go(p, "planned")
  /\ UNCHANGED <<git, rec, meta, ref, j, other, guard, gtok, cur, landed,
                 crashes, user>>

\* Plain pushes and syncs claim the same guard without a plan of their own.
Start(p, v) ==
  /\ pc[p] = "idle" /\ v \in {"plain", "sync"} /\ Terminal
  /\ v = "sync" => ~other
  /\ plans < MaxPlans /\ plans' = plans + 1
  /\ verb' = [verb EXCEPT ![p] = v] /\ Go(p, "planned")
  /\ UNCHANGED <<git, rec, meta, ref, j, other, guard, gtok, mine, cur, landed,
                 crashes, user>>

\* A fresh claim first refuses a pending publication, and then creates the
\* guard or takes a dead owner's, unless a sync has left its payload.
ClaimCheck(p) ==
  /\ pc[p] = "planned"
  /\ IF Terminal THEN Go(p, "claim") /\ UNCHANGED <<verb, mine, cur>> ELSE Gone(p)
  /\ UNCHANGED <<git, rec, meta, ref, j, other, guard, gtok, landed, bounds>>

Claim(p) ==
  /\ pc[p] = "claim"
  /\ IF guard = "free" \/ (guard = "dead" /\ ~other)
     THEN /\ guard' = p /\ gtok' = mine[p].token /\ Go(p, "guarded")
          /\ UNCHANGED <<verb, mine, cur>>
     ELSE Gone(p) /\ UNCHANGED <<guard, gtok>>
  /\ UNCHANGED <<git, rec, meta, ref, j, other, landed, bounds>>

\* What a plan recorded before the guard is compared with the refs under it.
PlanStillTrue(p) ==
  /\ ~other /\ j.token = mine[p].prior /\ Terminal
  /\ \A e \in Selected : local[e] = mine[p].plan[e].source

FirstSave(p) ==
  /\ Holds(p, "guarded") /\ verb[p] = "push"
  /\ IF PlanStillTrue(p)
     THEN /\ j' = [token |-> mine[p].token, phase |-> "preparing",
                   plan |-> mine[p].plan,
                   rows |-> [e \in Entries |->
                     IF e \in Archived THEN "skipped" ELSE "pending"],
                   pins |-> [e \in Entries |-> [k \in Kinds |->
                     IF <<e, k>> \in Pins(mine[p].plan) THEN "pending" ELSE "none"]],
                   decision |-> [e \in Entries |-> ""]]
          /\ meta' = [e \in Entries |-> "same"] /\ landed' = {}
          /\ Go(p, "protect")
     ELSE Exit(p) /\ UNCHANGED <<j, meta, landed>>
  /\ mine' = [mine EXCEPT ![p] = Blank]
  /\ UNCHANGED <<git, rec, ref, other, guard, gtok, verb, cur, bounds>>
-----------------------------------------------------------------------------
(* Recovery takes a guard that is absent, or a dead one with its own token. *)
(* It reads the journal before it has the guard and refuses one that has    *)
(* changed in between, so reading and taking are one step here.             *)

Recover(p, v) ==
  /\ pc[p] = "idle" /\ Pending /\ v \in {"continue", "cancel"}
  /\ v = "continue" => j.phase # "canceling"
  /\ guard = "free" \/ (guard = "dead" /\ gtok = j.token)
  /\ guard' = p /\ gtok' = j.token
  /\ verb' = [verb EXCEPT ![p] = v] /\ Go(p, "guarded")
  /\ UNCHANGED <<git, rec, meta, ref, j, other, mine, cur, landed, bounds>>

Resume(p) ==
  /\ Holds(p, "guarded") /\ verb[p] \in {"continue", "cancel"}
  /\ IF other \/ Terminal \/ (j.phase = "publishing" /\ ~Held)
     THEN Exit(p) /\ UNCHANGED j
     ELSE IF verb[p] = "cancel"
     THEN j' = [j EXCEPT !.phase = "canceling"] /\ Go(p, "decide")
     ELSE /\ UNCHANGED j
          /\ IF ~(Metadata /\ Sources) THEN Exit(p)
             ELSE Go(p, IF j.phase = "preparing" THEN "protect"
                        ELSE IF j.phase = "publishing" THEN "publish" ELSE "decide")
  /\ UNCHANGED <<git, rec, meta, ref, other, guard, gtok, verb, mine, cur, landed,
                 bounds>>
-----------------------------------------------------------------------------
(* protectObjects: each pin is announced, created and recorded.             *)

Unheld == {x \in Pins(j.plan) : Pin(x) # "held"}

PinIntent(p) ==
  /\ Holds(p, "protect") /\ Unheld # {}
  /\ LET x == FirstPin(Unheld) IN
     /\ j' = IF Pin(x) = "pending" THEN Saved(x, "creating") ELSE j
     /\ Go(p, IF Pin(x) = "pending" /\ x \in ref THEN "release" ELSE "create")
  /\ UNCHANGED <<git, rec, meta, ref, other, guard, gtok, verb, mine, cur, landed,
                 bounds>>

PinCreate(p) ==
  /\ Holds(p, "create")
  /\ ref' = ref \cup {FirstPin(Unheld)}
  /\ Go(p, "hold")
  /\ UNCHANGED <<git, rec, meta, j, other, guard, gtok, verb, mine, cur, landed,
                 bounds>>

PinHold(p) ==
  /\ Holds(p, "hold")
  /\ j' = Saved(FirstPin(Unheld), "held")
  /\ Go(p, "protect")
  /\ UNCHANGED <<git, rec, meta, ref, other, guard, gtok, verb, mine, cur, landed,
                 bounds>>

Protected(p) ==
  /\ Holds(p, "protect") /\ Unheld = {}
  /\ j' = [j EXCEPT !.phase = "publishing"]
  /\ Go(p, "publish")
  /\ UNCHANGED <<git, rec, meta, ref, other, guard, gtok, verb, mine, cur, landed,
                 bounds>>
-----------------------------------------------------------------------------
(* publish: entries in order, each behind an intent; a recorded intent of   *)
(* an earlier attempt is reconciled with what the remote shows.             *)

\* Mutant: an entry that was tried is not tried again.
UnfinishedUntried == {e \in Selected : j.rows[e] = "pending"}

Unfinished == {e \in Selected : j.rows[e] # "succeeded"}
NextEntry == CHOOSE e \in Unfinished : \A d \in Unfinished : e =< d
Row(e, outcome) == [j EXCEPT !.rows[e] = outcome]

\* What a retry does about an uncertain earlier attempt.
Reconciled(e) ==
  IF remote[e] = j.plan[e].source THEN "confirm"
  ELSE IF remote[e] = j.plan[e].expected THEN "push" ELSE "refuse"

EntryIntent(p) ==
  /\ Holds(p, "publish") /\ Unfinished # {}
  /\ LET e == NextEntry IN
     /\ cur' = [cur EXCEPT ![p] = e]
     /\ IF ~(Held /\ Metadata /\ Sources) THEN Exit(p) /\ UNCHANGED j
        ELSE IF j.rows[e] = "pending"
        THEN j' = Row(e, "intent") /\ Go(p, "push")
        ELSE \/ /\ Reconciled(e) = "confirm"
                /\ j' = Row(e, "succeeded") /\ Go(p, "publish")
             \/ Reconciled(e) = "push" /\ Go(p, "push") /\ UNCHANGED j
             \/ Exit(p) /\ UNCHANGED j \* refused, or the remote is away
  /\ UNCHANGED <<git, rec, meta, ref, other, guard, gtok, verb, mine, landed,
                 bounds>>

\* git push with an explicit lease; a branch that already shows the source is
\* up to date whatever the lease says.  The answer may be lost.
Leased(e, expected, source) == remote[e] \in {expected, source}
Show(e, c) ==
  /\ remote' = [remote EXCEPT ![e] = c]
  /\ shown' = [shown EXCEPT ![e] = @ \cup {c}]

Push(p) ==
  /\ Holds(p, "push")
  /\ LET e == cur[p] IN
     \/ /\ Held /\ Metadata /\ Sources
        /\ Leased(e, j.plan[e].expected, j.plan[e].source)
        /\ Show(e, j.plan[e].source) /\ landed' = landed \cup {e}
        /\ Go(p, "pushed") \/ Exit(p)
     \/ Exit(p) /\ UNCHANGED <<remote, shown, landed>>
  /\ UNCHANGED <<local, track, recent, rec, meta, ref, j, other, guard, gtok,
                 verb, mine, cur, bounds>>

Recorded(p) ==
  /\ Holds(p, "pushed")
  /\ j' = Row(cur[p], "succeeded") /\ Go(p, "publish")
  /\ UNCHANGED <<git, rec, meta, ref, other, guard, gtok, verb, mine, cur, landed,
                 bounds>>

Published(p) ==
  /\ Holds(p, "publish") /\ Unfinished = {}
  /\ j' = [j EXCEPT !.phase = "cleaning"] /\ Go(p, "decide")
  /\ UNCHANGED <<git, rec, meta, ref, other, guard, gtok, verb, mine, cur, landed,
                 bounds>>
-----------------------------------------------------------------------------
(* The reparent record: a row is cleared only for a confirmed source that   *)
(* contains the rewritten tip, and the decision is recorded before the pins *)
(* that prove it are removed.                                               *)

Undecided == {e \in Selected : j.plan[e].followup /\ j.decision[e] = ""}

\* Mutant: whatever was attempted counts.
DecisionAttempted(e) ==
  IF j.rows[e] # "pending" /\ <<New, j.plan[e].source>> \in Within
  THEN "clear" ELSE "keep"

Decision(e) ==
  IF j.rows[e] = "succeeded" /\ <<New, j.plan[e].source>> \in Within
  THEN "clear" ELSE "keep"
Proved(e) == \A x \in Pins(j.plan) :
  (x[1] = e /\ x[2] \in {1, 4}) => Pin(x) = "held" /\ x \in ref

DecideFollowups(p) ==
  /\ Holds(p, "decide")
  /\ IF \A e \in Undecided : j.rows[e] = "succeeded" => Proved(e)
     THEN /\ j' = [j EXCEPT !.decision = [e \in Entries |->
                   IF e \in Undecided THEN Decision(e) ELSE @[e]]]
          /\ Go(p, "clear")
     ELSE Exit(p) /\ UNCHANGED j
  /\ UNCHANGED <<git, rec, meta, ref, other, guard, gtok, verb, mine, cur, landed,
                 bounds>>

Clearable == {e \in Selected :
  j.rows[e] = "succeeded" /\ j.plan[e].followup /\ j.decision[e] = "clear"}

ClearPublished(p) ==
  /\ Holds(p, "clear")
  /\ IF \E e \in Clearable : meta[e] = "remapped"
     THEN Exit(p) /\ UNCHANGED rec
     ELSE /\ rec' = [e \in Entries |->
                  IF e \in Clearable /\ rec[e] = "pending" THEN "cleared" ELSE rec[e]]
          /\ Go(p, "clean")
  /\ UNCHANGED <<git, meta, ref, j, other, guard, gtok, verb, mine, cur, landed,
                 bounds>>
-----------------------------------------------------------------------------
(* cleanObjects: each deletion is announced, done and recorded.             *)

\* Mutant: only what is known to exist is removed.
LeftHeld == {x \in Pins(j.plan) : Pin(x) \in {"held", "deleting"}}

Left == {x \in Pins(j.plan) : Pin(x) # "removed"}

CleanIntent(p) ==
  /\ Holds(p, "clean") /\ Left # {}
  /\ LET x == FirstPin(Left) IN
     IF (Pin(x) = "pending" /\ x \in ref) \/ (Pin(x) = "held" /\ x \notin ref)
     THEN Exit(p) /\ UNCHANGED j
     ELSE j' = Saved(x, "deleting") /\ Go(p, "delete")
  /\ UNCHANGED <<git, rec, meta, ref, other, guard, gtok, verb, mine, cur, landed,
                 bounds>>

CleanDelete(p) ==
  /\ Holds(p, "delete")
  /\ ref' = ref \ {FirstPin(Left)} /\ Go(p, "removed")
  /\ UNCHANGED <<git, rec, meta, j, other, guard, gtok, verb, mine, cur, landed,
                 bounds>>

CleanSave(p) ==
  /\ Holds(p, "removed")
  /\ j' = Saved(FirstPin(Left), "removed") /\ Go(p, "clean")
  /\ UNCHANGED <<git, rec, meta, ref, other, guard, gtok, verb, mine, cur, landed,
                 bounds>>

Finish(p) ==
  /\ Holds(p, "clean") /\ Left = {}
  /\ j' = [j EXCEPT !.phase =
            IF verb[p] = "cancel" THEN "canceled" ELSE "completed"]
  /\ Exit(p)
  /\ UNCHANGED <<git, rec, meta, ref, other, guard, gtok, verb, mine, cur, landed,
                 bounds>>

Release(p) ==
  /\ Holds(p, "release")
  /\ guard' = "free" /\ gtok' = 0 /\ Gone(p)
  /\ UNCHANGED <<git, rec, meta, ref, j, other, landed, bounds>>
-----------------------------------------------------------------------------
(* Plain push: every entry with a worktree, a bare lease, no journal; rows  *)
(* of the reparent record are cleared by what the tracking refs show.       *)

\* Mutant: the branch itself is taken for the evidence.
ObservedLocally(e) == rec[e] = "pending" /\ <<New, local[e]>> \in Within

Observed(e) == rec[e] = "pending" /\ <<New, track[e]>> \in Within
ClearObserved ==
  rec' = [e \in Entries |-> IF Observed(e) THEN "cleared" ELSE rec[e]]

PlainPrepare(p) ==
  /\ Holds(p, "guarded") /\ verb[p] = "plain"
  /\ ClearObserved /\ cur' = [cur EXCEPT ![p] = 1] /\ Go(p, "plain")
  /\ UNCHANGED <<git, meta, ref, j, other, guard, gtok, verb, mine, landed, bounds>>

\* A pending row adds --force-if-includes to the lease.  A failed push is
\* reported and the loop goes on; its effect may have happened all the same.
PlainPush(p) ==
  /\ Holds(p, "plain") /\ cur[p] \in Entries
  /\ LET e == cur[p] IN
     \/ /\ e \in Selected /\ Leased(e, track[e], local[e])
        /\ rec[e] = "pending" => Includes(e)
        /\ Show(e, local[e])
        /\ \/ /\ track' = [track EXCEPT ![e] = local[e]]
              /\ recent' = [recent EXCEPT ![e] = {local[e]}]
           \/ UNCHANGED <<track, recent>>
     \/ UNCHANGED <<remote, shown, track, recent>>
  /\ cur' = [cur EXCEPT ![p] = @ + 1]
  /\ UNCHANGED <<local, rec, meta, ref, j, other, guard, gtok, pc, verb, mine,
                 landed, bounds>>

\* The clearing pass is left out when nothing was pushed.
PlainClear(p) ==
  /\ Holds(p, "plain") /\ cur[p] \notin Entries
  /\ ClearObserved \/ UNCHANGED rec
  /\ Exit(p)
  /\ UNCHANGED <<git, meta, ref, j, other, guard, gtok, verb, mine, cur, landed,
                 bounds>>
-----------------------------------------------------------------------------
(* A sync looks for a pending publication once more under the guard.  One   *)
(* that stops keeps its evidence and leaves the guard to its dead process;  *)
(* its recovery refuses while a publication is pending.                     *)

\* Mutant: the answer from before the guard is enough.
SyncStopsUnchecked(p) ==
  /\ Holds(p, "guarded") /\ verb[p] = "sync"
  /\ other' = TRUE /\ guard' = "dead" /\ Gone(p)
  /\ UNCHANGED <<git, rec, meta, ref, j, gtok, landed, bounds>>

SyncStops(p) ==
  /\ Holds(p, "guarded") /\ verb[p] = "sync" /\ Terminal /\ ~other
  /\ other' = TRUE /\ guard' = "dead" /\ Gone(p)
  /\ UNCHANGED <<git, rec, meta, ref, j, gtok, landed, bounds>>

SyncRefused(p) ==
  /\ Holds(p, "guarded") /\ verb[p] = "sync" /\ (Pending \/ other)
  /\ Exit(p)
  /\ UNCHANGED <<git, rec, meta, ref, j, other, guard, gtok, verb, mine, cur, landed,
                 bounds>>

SyncRecovered(p) ==
  /\ pc[p] = "idle" /\ other /\ Terminal /\ guard \in {"free", "dead"}
  /\ other' = FALSE /\ guard' = "free"
  /\ UNCHANGED <<git, rec, meta, ref, j, gtok, pc, verb, mine, cur, landed, bounds>>
-----------------------------------------------------------------------------
(* Kills, and people who go on working.                                     *)

Crash(p) ==
  /\ pc[p] # "idle" /\ crashes < MaxCrash
  /\ crashes' = crashes + 1
  /\ guard' = IF guard = p THEN "dead" ELSE guard
  /\ Gone(p)
  /\ UNCHANGED <<git, rec, meta, ref, j, other, gtok, landed, plans, user>>

Interferes == user < MaxUser /\ user' = user + 1

UserMoves(e, c) ==
  /\ Interferes /\ c # local[e]
  /\ local' = [local EXCEPT ![e] = c]
  /\ recent' = [recent EXCEPT ![e] = @ \cup {c}]
  /\ UNCHANGED <<track, remote, shown, rec, meta, ref, j, other, guard, gtok, pc,
                 verb, mine, cur, landed, plans, crashes>>

Fetch(e) ==
  /\ track[e] # remote[e]
  /\ track' = [track EXCEPT ![e] = remote[e]]
  /\ recent' = [recent EXCEPT ![e] = {local[e]}]
  /\ UNCHANGED <<local, remote, shown, rec, meta, ref, j, other, guard, gtok, pc,
                 verb, mine, cur, landed, bounds>>

OthersPush(e, c) ==
  /\ Interferes /\ c # remote[e] /\ Show(e, c)
  /\ UNCHANGED <<local, track, recent, rec, meta, ref, j, other, guard, gtok, pc,
                 verb, mine, cur, landed, plans, crashes>>

\* Only an edit after the plan matters; one that is undone does not.
MetaEdit(e, m) ==
  /\ Interferes /\ Pending /\ meta[e] # m
  /\ meta' = [meta EXCEPT ![e] = m]
  /\ UNCHANGED <<git, rec, ref, j, other, guard, gtok, pc, verb, mine, cur, landed,
                 plans, crashes>>
-----------------------------------------------------------------------------
Step(p) ==
  \/ ClaimCheck(p) \/ Claim(p) \/ FirstSave(p) \/ Resume(p)
  \/ PinIntent(p) \/ PinCreate(p) \/ PinHold(p) \/ Protected(p)
  \/ EntryIntent(p) \/ Push(p) \/ Recorded(p) \/ Published(p)
  \/ DecideFollowups(p) \/ ClearPublished(p)
  \/ CleanIntent(p) \/ CleanDelete(p) \/ CleanSave(p) \/ Finish(p)
  \/ PlainPrepare(p) \/ PlainPush(p) \/ PlainClear(p) \/ SyncStops(p)
  \/ SyncRefused(p)
  \/ Release(p)

People ==
  \E e \in Selected :
    \/ \E c \in Commit \ Theirs : UserMoves(e, c)
    \/ Fetch(e)
    \/ \E c \in Theirs : OthersPush(e, c)
    \/ \E m \in {"same", "rebased", "remapped"} : MetaEdit(e, m)

Next ==
  \/ \E p \in Procs :
       \/ BuildPlan(p) \/ Step(p) \/ Crash(p) \/ SyncRecovered(p)
       \/ \E v \in {"plain", "sync"} : Start(p, v)
       \/ \E v \in {"continue", "cancel"} : Recover(p, v)
  \/ People

Spec == Init /\ [][Next]_vars
-----------------------------------------------------------------------------
\* Every journal that is saved passes validate(), which save and every later
\* reader apply: an unreadable one would leave the publication without a way out.
ArchivedAgrees(e) == e \in Archived =>
  j.rows[e] = "skipped" /\ j.plan[e] = NoPlan[e]
\* A follow-up row needs the frozen proof that the lease's commit was included.
AuthorityAgrees(e) == e \in Selected =>
  /\ j.plan[e].source # None
  /\ j.plan[e].followup <=> j.plan[e].witness # None
  /\ j.plan[e].followup => j.plan[e].expected # None
RowsAgree ==
  /\ \A d, e \in Selected :
       (d < e /\ j.rows[e] # "pending") => j.rows[d] = "succeeded"
  /\ j.phase = "preparing" => \A e \in Selected : j.rows[e] = "pending"
  /\ j.phase \in {"cleaning", "completed"} => Unfinished = {}
PinAgrees(x) ==
  /\ Pin(x) \in {"pending", "creating"} => j.phase \in {"preparing", "canceling"}
  /\ Pin(x) \in {"deleting", "removed"} =>
       j.phase \in {"cleaning", "canceling", "completed", "canceled"}
  /\ j.phase \in {"completed", "canceled"} => Pin(x) = "removed"
CleanupStarted ==
  j.phase \in {"completed", "canceled"}
    \/ \E x \in Pins(j.plan) : Pin(x) \in {"deleting", "removed"}
DecisionsAgree ==
  /\ CleanupStarted => Undecided = {}
  /\ \A e \in Selected : j.decision[e] # "" =>
       j.plan[e].followup /\ j.phase \notin {"preparing", "publishing"}
  /\ \A e \in Selected : j.decision[e] = "clear" => j.rows[e] = "succeeded"
SavesAreValid == j.phase # "none" =>
  /\ \A e \in Entries : ArchivedAgrees(e) /\ AuthorityAgrees(e)
  /\ RowsAgree
  /\ \A x \in Pins(j.plan) : PinAgrees(x)
  /\ DecisionsAgree

\* The follow-up warning of a rewritten branch is withdrawn, by either kind of
\* push, only when the remote has shown a commit that contains the rewrite.
ClearedIsPublished == \A e \in Rewritten :
  rec[e] = "cleared" => \E c \in shown[e] : <<New, c>> \in Within

\* While an outcome is uncertain every object that a retry may send or compare
\* is kept from garbage collection, and a settled publication keeps none.
Uncertain == \E e \in Selected : j.rows[e] = "intent" /\ j.phase = "publishing"
ObjectsProtected ==
  /\ Uncertain => \A x \in Pins(j.plan) : x \in ref
  /\ Terminal => ref = {}

\* A child entry is never on the remote by this publication before its parents
\* have been there, however often the run was killed and continued.
ParentsFirst == \A d, e \in Selected :
  (e \in landed /\ d < e) => j.plan[d].source \in shown[d]

\* Neither kind of push replaces on a rewritten branch's remote somebody else's
\* commit that no tip of the branch can ever have contained, whatever was
\* fetched in the meantime.
NothingUnseen == \A e \in Rewritten :
  (rec[e] = "pending" /\ remote[e] \in Theirs /\ remote'[e] \notin Theirs)
    => \E own \in Commit \ Theirs : <<remote[e], own>> \in Within
NoUnseenWorkLost == [][NothingUnseen]_vars

\* A sync and a scoped push of one feature are never pending together: each
\* refuses the other's recovery, so neither could be finished.
NeverBothPending == ~(other /\ Pending)
=============================================================================
