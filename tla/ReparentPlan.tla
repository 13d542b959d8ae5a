----------------------------- MODULE ReparentPlan -----------------------------
(* How tws stack reparent is planned, approved and admitted, before its first *)
(* write (reparent_plan_build.go, reparent_destination.go,                    *)
(* reparent_plan_fingerprint.go, reparent_exec.go up to BeginReparentRun).    *)
(* --plan measures the repository and prints a document with a fingerprint;   *)
(* the execution that names the fingerprint measures again, before its lock   *)
(* and under it.  People commit, tag, edit stack.yaml and switch worktrees at *)
(* any time.  The run that is admitted is the one Reparent carries out.       *)
EXTENDS Integers, Sequences, FiniteSets, SequencesExt

CONSTANTS
  Declared,   \* the entries of stack.yaml in the order of the file
  Target,     \* the entry that gets a new parent
  Main,       \* the default branch
  OriginMain, \* the short name of its remote-tracking ref
  Stack0,     \* stack.yaml: entry -> [base, last, branch, archived]
  Heads0,     \* branch -> its commit
  Requests,   \* what may be asked: [onto, kind, cutoff]
  MaxMove     \* bound: changes made by people

Entries == Range(Declared)
Names == Entries \cup {Main, OriginMain}
Spaces == {"tags", "heads", "remotes"}
RefIds == Spaces \X Names

\* A commit is the set of the changes its history holds; {} is no commit.
Missing == {}

\* Tokens: a short name, a full ref, an object id, or nothing.
Name(n) == <<"name", n>>
Full(x) == <<"ref", x>>
Oid(c) == <<"oid", c>>
NoToken == <<"none">>

ASSUME ReparentPlanAssumption ==
  /\ Target \in Entries /\ Entries \cap {Main, OriginMain} = {}
  /\ MaxMove \in Nat
  /\ DOMAIN Stack0 = Entries

VARIABLES
  stack,    \* stack.yaml
  ref,      \* full ref -> commit
  merges,   \* changes that are merge commits
  lost,     \* commits whose objects were collected
  hold,     \* entry -> the worktree that has its branch checked out
  head,     \* HEAD of the repository's own checkout
  live,     \* a session is open on an affected entry
  syncing,  \* a sync of the feature is pending
  pc, route, \* the command's step, and what it measures for
  req,      \* what was asked
  doc,      \* the document the command is building
  plan,     \* an execution's document from before its lock
  approved, \* the document whose fingerprint the person passes on
  run,      \* the journal of the admitted run
  moves     \* changes made by people so far

world == <<stack, ref, merges, lost, hold, head, live, syncing>>
vars == <<world, pc, route, req, doc, plan, approved, run, moves>>

NoDoc == [usable |-> FALSE]
NoRun == [on |-> FALSE]
NoRequest == [kind |-> "auto", onto |-> NoToken, cutoff |-> NoToken]

Init ==
  /\ stack = Stack0
  /\ ref = [x \in RefIds |->
      CASE x[1] = "heads" /\ x[2] \in DOMAIN Heads0 -> Heads0[x[2]]
        [] x = <<"remotes", OriginMain>> -> Heads0[Main]
        [] OTHER -> Missing]
  /\ merges = {} /\ lost = {}
  /\ hold = [e \in Entries |-> IF e = Target THEN "clean" ELSE "none"]
  /\ head = 0 /\ live = FALSE /\ syncing = FALSE
  /\ pc = "idle" /\ route = "none" /\ req = NoRequest
  /\ doc = NoDoc /\ plan = NoDoc /\ approved = NoDoc /\ run = NoRun
  /\ moves = 0
-----------------------------------------------------------------------------
(* Names and commits.                                                       *)

Tip(S, e) == ref[<<"heads", S[e].branch>>]
IsAncestor(a, c) == a \subseteq c
Peel(c) == IF c \in lost THEN Missing ELSE c

\* The full refs a short name could mean, and the one Git takes it to mean.
Surviving(n) == {x \in Spaces \X {n} : ref[x] # Missing}
GitPicks(n) ==
  CASE ref[<<"tags", n>>] # Missing -> ref[<<"tags", n>>]
    [] ref[<<"tags", n>>] = Missing /\ ref[<<"heads", n>>] # Missing
         -> ref[<<"heads", n>>]
    [] OTHER -> ref[<<"remotes", n>>]

Resolved(sha, token) == [ok |-> TRUE, sha |-> sha, token |-> token, why |-> ""]
Refused(why) == [ok |-> FALSE, sha |-> Missing, token |-> NoToken, why |-> why]

\* A literal token: a full ref must exist, a short name must mean one ref.
ResolveLiteral(token, unresolvable, ambiguous) ==
  CASE token[1] = "oid" /\ Peel(token[2]) # Missing -> Resolved(token[2], token)
    [] token[1] = "ref" /\ ref[token[2]] # Missing -> Resolved(ref[token[2]], token)
    [] token[1] = "name" /\ Cardinality(Surviving(token[2])) = 1 ->
         LET x == CHOOSE x \in Surviving(token[2]) : TRUE IN
         Resolved(ref[x], Full(x))
    [] token[1] = "name" /\ Cardinality(Surviving(token[2])) > 1 ->
         Refused(ambiguous)
    [] OTHER -> Refused(unresolvable)

IsEntry(S, token) == token[1] = "name" /\ token[2] \in DOMAIN S

\* A parent entry stands for its branch, spelled as a full ref.
ResolveEntry(S, token) ==
  LET p == token[2] IN
  CASE S[p].archived -> Refused("affected-archived")
    [] ~S[p].archived /\ Tip(S, p) = Missing -> Refused("destination-unresolvable")
    [] OTHER -> Resolved(Tip(S, p), token)

ResolveDestination(S, token, kind) ==
  CASE kind = "entry" /\ ~IsEntry(S, token) -> Refused("destination-kind-mismatch")
    [] kind # "ref" /\ IsEntry(S, token) -> ResolveEntry(S, token)
    [] OTHER -> ResolveLiteral(token, "destination-unresolvable",
                               "destination-ambiguous")

\* The commit of an entry's configured parent, if its token still means one.
OldParentTip(S, e) ==
  CASE S[e].base = NoToken -> Missing
    [] S[e].base # NoToken /\ IsEntry(S, S[e].base) -> Tip(S, S[e].base[2])
    [] OTHER -> ResolveLiteral(S[e].base, "", "").sha

\* What sync, status and checkout sync take a configured base for: sync says
\* origin/main for the default branch, sync and checkout use short names.
Literal(token) ==
  CASE token[1] = "ref" -> ref[token[2]]
    [] token[1] = "oid" -> Peel(token[2])
    [] token[1] = "name" -> GitPicks(token[2])
    [] OTHER -> Missing
SyncBase(S, e) ==
  CASE IsEntry(S, S[e].base) -> GitPicks(S[S[e].base[2]].branch)
    [] S[e].base = Name(Main) -> GitPicks(OriginMain)
    [] OTHER -> Literal(S[e].base)
StackBase(S, e) ==
  IF IsEntry(S, S[e].base) THEN Tip(S, S[e].base[2]) ELSE Literal(S[e].base)
CheckoutBase(S, e) ==
  IF IsEntry(S, S[e].base) THEN GitPicks(S[S[e].base[2]].branch)
  ELSE Literal(S[e].base)

PostImage(S, token) == [S EXCEPT ![Target].base = token]

\* Mutant: status alone is asked what the new base means.
AgreeOnStatus(S, dest) == StackBase(PostImage(S, dest.token), Target) = dest.sha

Agree(S, dest) ==
  LET post == PostImage(S, dest.token) IN
  {SyncBase(post, Target), StackBase(post, Target), CheckoutBase(post, Target)}
    = {dest.sha}
-----------------------------------------------------------------------------
(* The closure of the target, parents first, in the order of the file.      *)

Child(S, c, p) == S[c].base = Name(p)
Closure(S) ==
  LET grown[k \in 0..Len(Declared)] ==
        IF k = 0 THEN {Target}
        ELSE LET before == grown[k - 1] IN
             before \cup {c \in DOMAIN S : \E p \in before : Child(S, c, p)}
  IN grown[Len(Declared)]

\* Repeatedly takes the first entry all of whose parents are taken.
Sorted(S, members) ==
  LET Ready(done) == {e \in members \ done :
        \A p \in members : Child(S, e, p) => p \in done}
      taken[k \in 0..Len(Declared)] ==
        IF k = 0 THEN <<>>
        ELSE LET before == taken[k - 1]
                 ready == Ready(Range(before)) IN
             IF ready = {} THEN before
             ELSE Append(before, SelectSeq(Declared, LAMBDA e : e \in ready)[1])
  IN taken[Len(Declared)]
ClosureOrder(S) == Sorted(S, Closure(S))
ClosureSorts(S) == Len(ClosureOrder(S)) = Cardinality(Closure(S))
TopoSorts(S) == Len(Sorted(S, DOMAIN S)) = Cardinality(DOMAIN S)

IdentityBlockers(S) ==
  IF \E p, q \in DOMAIN S : /\ p # q /\ S[p].branch = S[q].branch
                            /\ ~S[p].archived /\ ~S[q].archived
  THEN {"duplicate-git-branch"} ELSE {}

GraphBlockers(S, dest) ==
  LET parent == IF IsEntry(S, dest.token) THEN {dest.token[2]} ELSE {} IN
  {"destination-self" : x \in parent \cap {Target}}
  \cup {"destination-descendant" : x \in parent \cap (Closure(S) \ {Target})}
  \cup (IF ClosureSorts(PostImage(S, dest.token)) THEN {}
        ELSE {"destination-cycle"})
-----------------------------------------------------------------------------
(* Replay boundaries and the rows of the document.                          *)

Boundary(sha, from) == [sha |-> sha, from |-> from, why |-> ""]
NoBoundary(why) == [sha |-> Missing, from |-> "none", why |-> why]

\* A recorded boundary is authoritative; a supplied one may only repeat it.
SuppliedCutoff(S, token) ==
  LET given == ResolveLiteral(token, "cutoff-unresolvable", "cutoff-unresolvable")
      recorded == Peel(S[Target].last) IN
  CASE ~given.ok -> NoBoundary(given.why)
    [] given.ok /\ recorded = Missing -> Boundary(given.sha, "operator-supplied")
    [] OTHER -> IF given.sha = recorded THEN Boundary(recorded, "recorded-by-sync")
                ELSE NoBoundary("cutoff-conflict")
OldParentCutoff(S, e, why) ==
  LET tip == OldParentTip(S, e) IN
  IF tip # Missing /\ IsAncestor(tip, Tip(S, e)) THEN Boundary(tip, "old-parent-tip")
  ELSE NoBoundary(why)
TargetCutoff(S, token) ==
  CASE S[Target].last # Missing /\ Peel(S[Target].last) = Missing ->
         NoBoundary("cutoff-unresolvable")
    [] token # NoToken /\ (S[Target].last # Missing => Peel(S[Target].last) # Missing) ->
         SuppliedCutoff(S, token)
    [] token = NoToken /\ Peel(S[Target].last) # Missing ->
         Boundary(S[Target].last, "recorded-by-sync")
    [] OTHER -> OldParentCutoff(S, Target, "cutoff-absent")
DescendantCutoff(S, e) ==
  CASE S[e].last # Missing /\ Peel(S[e].last) = Missing ->
         NoBoundary("cutoff-unresolvable")
    [] Peel(S[e].last) # Missing -> Boundary(S[e].last, "recorded-by-sync")
    [] OTHER -> OldParentCutoff(S, e, "descendant-cutoff-absent")

Cutoff(S, e) ==
  IF e = Target THEN TargetCutoff(S, req.cutoff) ELSE DescendantCutoff(S, e)

\* The edge of an entry as tws stack status would call it.
Ancestry(S, e) ==
  LET parent == StackBase(S, e) IN
  CASE Tip(S, e) = Missing \/ parent = Missing -> "missing"
    [] Tip(S, e) # Missing /\ parent # Missing /\ IsAncestor(parent, Tip(S, e))
         -> "current"
    [] OTHER -> IF /\ Peel(S[e].last) # Missing
                   /\ ~IsAncestor(S[e].last, parent)
                THEN "divergent" ELSE "stale"

Range1(tip, cutoff) == tip \ cutoff.sha
Commits(tip, cutoff) == Range1(tip, cutoff) \ merges
MergesInRange(tip, cutoff) == Range1(tip, cutoff) \cap merges

BuildRow(S, e, cutoff) ==
  [head |-> Tip(S, e), cutoff |-> cutoff,
   commits |-> IF cutoff.sha = Missing THEN {} ELSE Commits(Tip(S, e), cutoff)]

RowBlockers(S, e, cutoff) ==
  {w \in {cutoff.why} : w # ""}
  \cup (IF S[e].archived THEN {"affected-archived"} ELSE {})
  \cup (IF Tip(S, e) = Missing THEN {"branch-ref-missing"} ELSE {})
  \cup (IF cutoff.sha # Missing /\ Tip(S, e) # Missing
        THEN (IF IsAncestor(cutoff.sha, Tip(S, e)) THEN {} ELSE {"cutoff-not-ancestor"})
             \cup {"merge-commit-in-replay-set" : x \in MergesInRange(Tip(S, e), cutoff)}
        ELSE {})

MeasureRows(S, order) == [e \in Range(order) |-> BuildRow(S, e, Cutoff(S, e))]
RowsBlockers(S, order) ==
  UNION {RowBlockers(S, e, Cutoff(S, e)) : e \in Range(order)}

\* Worktrees that hold a branch of the closure are to be detached.
MeasureHolders(members) == {<<e, hold[e], ref[<<"heads", e>>]>> :
                              e \in {x \in members : hold[x] # "none"}}
\* A holder is detached and put back, unless that is not safe.
Safe(h) == h[2] \notin {"prunable", "twice"}
HolderBlockers(holders) ==
  UNION {CASE h[2] = "dirty" -> {"context-dirty"}
           [] h[2] = "busy" -> {"git-operation-in-progress"}
           [] ~Safe(h) -> {"holder-unsafe"}
           [] OTHER -> {} : h \in holders}

MeasureOriginal == head

\* The same parent as before: nothing to do, or a task for tws sync.
SameParent(S, old, dest) ==
  dest.ok /\ S[Target].base = dest.token /\ old # Missing /\ old = dest.sha
NoWork(S, old, dest) == SameParent(S, old, dest) /\ Ancestry(S, Target) = "current"
SameParentBlockers(S, old, dest) ==
  IF SameParent(S, old, dest) /\ ~NoWork(S, old, dest)
  THEN {"destination-same-parent-stale"} ELSE {}
NoWorkOnly == {"cutoff-absent", "cutoff-unresolvable", "cutoff-conflict",
  "cutoff-not-ancestor", "descendant-cutoff-absent", "merge-commit-in-replay-set"}

\* The stack.yaml the run will write; a descendant's boundary comes later.
MetadataDelta(S, d) ==
  [e \in DOMAIN S |-> IF e = Target
    THEN [base |-> d.dest.token, last |-> d.dest.sha]
    ELSE [base |-> S[e].base, last |-> S[e].last]]

\* Whose worktrees the run detaches, and what it leaves checked out itself.
ExecutionIdentity(d) == [holders |-> d.holders, head |-> d.head]

\* Mutant: the tips of the rows are not part of the fingerprint.
FingerprintWithoutHeads(d) ==
  [old |-> d.old, dest |-> d.dest, order |-> d.order,
   cutoffs |-> [e \in DOMAIN d.rows |-> d.rows[e].cutoff],
   stack |-> d.stack, identity |-> ExecutionIdentity(d), usable |-> d.usable]

Fingerprint(d) ==
  [old |-> d.old, dest |-> d.dest, order |-> d.order,
   heads |-> [e \in DOMAIN d.rows |-> d.rows[e].head],
   cutoffs |-> [e \in DOMAIN d.rows |-> d.rows[e].cutoff],
   candidates |-> [e \in DOMAIN d.rows |-> d.rows[e].commits],
   metadata |-> MetadataDelta(d.stack, d), stack |-> d.stack,
   identity |-> ExecutionIdentity(d), usable |-> d.usable]
SameFingerprint(a, b) == Fingerprint(a) = Fingerprint(b)
-----------------------------------------------------------------------------
(* The command.                                                             *)

Go(label) == pc' = label
Stop == pc' = "idle" /\ route' = "none" /\ doc' = NoDoc /\ plan' = NoDoc
Locked == route = "relock" \/ pc = "capture"

\* One fetch per invocation, before anything is measured.
Fetch ==
  \/ UNCHANGED <<ref, moves>>
  \/ /\ moves < MaxMove /\ moves' = moves + 1
     /\ ref' = [ref EXCEPT ![<<"remotes", OriginMain>>] = @ \cup {100 + moves}]

Preview ==
  /\ pc = "idle" /\ ~run.on /\ ~approved.usable
  /\ req' \in Requests /\ Fetch
  /\ Go("resolve") /\ route' = "preview"
  /\ UNCHANGED <<stack, merges, lost, hold, head, live, syncing, doc, plan,
                 approved, run>>

Execute ==
  /\ pc = "idle" /\ ~run.on /\ approved.usable
  /\ Fetch /\ Go("resolve") /\ route' = "execute"
  /\ UNCHANGED <<stack, merges, lost, hold, head, live, syncing, req, doc, plan,
                 approved, run>>

\* The first probes: the file, the closure, both parents and their meaning.
SyncFiles == syncing   \* the payload, sentinel or guard of a sync
ForeignSyncState == SyncFiles
AuthoritativeState == IF run.on THEN {"reparent-state-present"} ELSE {}
StateBlockers ==
  AuthoritativeState \cup (IF ForeignSyncState THEN {"sync-state-present"} ELSE {})
LiveSessions == IF live THEN {"session-live"} ELSE {}
\* A plan that cannot be measured is shown without rows and approves nothing.
Unavailable == Stop
Unplannable(S) ==
  IF Target \notin DOMAIN S THEN {"target-unknown"}
  ELSE IF ClosureSorts(S) THEN {} ELSE {"stack-unsortable"}
DestinationBlockers(S, dest) ==
  IF ~dest.ok THEN {dest.why}
  ELSE GraphBlockers(S, dest)
       \cup (IF Agree(S, dest) THEN {} ELSE {"destination-resolver-divergent"})

Resolve ==
  /\ pc = "resolve"
  /\ LET dest == ResolveDestination(stack, req.onto, req.kind) IN
     IF Unplannable(stack) # {} THEN Unavailable
     ELSE /\ doc' = [stack |-> stack, order |-> ClosureOrder(stack), dest |-> dest,
                     old |-> OldParentTip(stack, Target), at |-> ref,
                     block |-> DestinationBlockers(stack, dest) \cup LiveSessions]
          /\ Go("measure") /\ UNCHANGED <<route, plan>>
  /\ UNCHANGED <<world, req, approved, run, moves>>

\* Then the rows, the worktrees and the files of other runs.
Found(d) ==
  d.block \cup StateBlockers \cup IdentityBlockers(d.stack)
    \cup RowsBlockers(d.stack, d.order)
    \cup HolderBlockers(MeasureHolders(Range(d.order)))
    \cup SameParentBlockers(d.stack, d.old, d.dest)
Blockers(d) ==
  IF NoWork(d.stack, d.old, d.dest) THEN (Found(d) \ NoWorkOnly) \cup {"no-work"}
  ELSE Found(d)
\* Only a document with work and no blocker has a fingerprint to approve.
Approvable(block) == block = {}

Measured(d) ==
  LET block == Blockers(d) IN
  [stack |-> d.stack, order |-> d.order, dest |-> d.dest, old |-> d.old, at |-> d.at,
   rows |-> MeasureRows(d.stack, d.order),
   holders |-> MeasureHolders(Range(d.order)), head |-> MeasureOriginal,
   block |-> block, usable |-> Approvable(block)]

\* The holders, the checkout and the rows' repositories are compared by name.
SameIdentity(a, b) ==
  a.order = b.order /\ ExecutionIdentity(a) = ExecutionIdentity(b)
Admitted(d) == d.usable /\ SameFingerprint(d, approved)
StillAdmitted(d) ==
  d.usable /\ SameIdentity(plan, d) /\ SameFingerprint(d, approved)
    /\ SameFingerprint(d, plan)

ShowPlan ==
  /\ pc = "measure" /\ route = "preview"
  /\ approved' = IF Measured(doc).usable THEN Measured(doc) ELSE NoDoc
  /\ Stop /\ UNCHANGED <<world, req, run, moves>>

AdmitFresh ==
  /\ pc = "measure" /\ route = "execute"
  /\ LET d == Measured(doc) IN
     IF Admitted(d) THEN plan' = d /\ doc' = NoDoc /\ Go("lock") /\ UNCHANGED route
     ELSE Stop
  /\ UNCHANGED <<world, req, approved, run, moves>>

AcquireModeLock ==
  /\ pc = "lock"
  /\ IF ForeignSyncState \/ AuthoritativeState # {} THEN Stop
     ELSE Go("resolve") /\ route' = "relock" /\ UNCHANGED <<doc, plan>>
  /\ UNCHANGED <<world, req, approved, run, moves>>

PostLockSnapshot ==
  /\ pc = "measure" /\ route = "relock"
  /\ LET d == Measured(doc) IN
     IF StillAdmitted(d) THEN doc' = d /\ Go("capture") /\ UNCHANGED <<route, plan>>
     ELSE Stop
  /\ UNCHANGED <<world, req, approved, run, moves>>

CapturePreImage ==
  /\ pc = "capture"
  /\ IF stack # doc.stack THEN Stop /\ UNCHANGED run
     ELSE /\ run' = [on |-> TRUE, stack |-> stack, order |-> doc.order,
                     dest |-> doc.dest, rows |-> doc.rows, holders |-> doc.holders,
                     head |-> head, at |-> doc.at]
          /\ Go("begun") /\ route' = "none" /\ doc' = NoDoc /\ plan' = NoDoc
  /\ UNCHANGED <<world, req, approved, moves>>
-----------------------------------------------------------------------------
(* What people and other commands do meanwhile.                             *)

Meddle == moves < MaxMove /\ pc # "begun" /\ moves' = moves + 1
Fresh == 10 + moves
Rest == UNCHANGED <<pc, route, req, doc, plan, approved, run>>
Branches == {n \in Names : ref[<<"heads", n>>] # Missing}

CommitOn(n) ==
  /\ Meddle
  /\ ref' = [ref EXCEPT ![<<"heads", n>>] = @ \cup {Fresh}]
  /\ merges' \in {merges, merges \cup {Fresh}}
  /\ UNCHANGED <<stack, lost, hold, head, live, syncing>> /\ Rest

\* The branch is rebuilt on the default branch; its old commit may be collected.
Amend(n) ==
  /\ Meddle /\ n # Main
  /\ ref' = [ref EXCEPT ![<<"heads", n>>] = ref[<<"heads", Main>>] \cup {Fresh}]
  /\ lost' \in {lost, lost \cup {ref[<<"heads", n>>]}}
  /\ UNCHANGED <<stack, merges, hold, head, live, syncing>> /\ Rest

TagName(n) ==
  /\ Meddle /\ ref[<<"tags", n>>] = Missing
  /\ ref' = [ref EXCEPT ![<<"tags", n>>] = ref[<<"heads", Main>>]]
  /\ UNCHANGED <<stack, merges, lost, hold, head, live, syncing>> /\ Rest

DeleteBranch(n) ==
  /\ Meddle /\ n # Main
  /\ ref' = [ref EXCEPT ![<<"heads", n>>] = Missing]
  /\ UNCHANGED <<stack, merges, lost, hold, head, live, syncing>> /\ Rest

EditStack(e) ==
  /\ Meddle /\ e \in DOMAIN stack
  /\ \/ stack' = [stack EXCEPT ![e].archived = ~@]
     \/ \E p \in (DOMAIN stack) \ {e} :
          stack' = [stack EXCEPT ![e].base = Name(p)]
     \/ \E p \in (DOMAIN stack) \ {e} :
          stack' = [stack EXCEPT ![e].branch = stack[p].branch]
     \/ stack' = [stack EXCEPT ![e].last = Missing]
     \/ stack' = [x \in (DOMAIN stack) \ {e} |-> stack[x]]
  /\ UNCHANGED <<ref, merges, lost, hold, head, live, syncing>> /\ Rest

UseWorktree(e) ==
  /\ Meddle
  /\ \E s \in {"none", "clean", "dirty", "busy", "prunable", "twice"} \ {hold[e]} :
       hold' = [hold EXCEPT ![e] = s]
  /\ UNCHANGED <<stack, ref, merges, lost, head, live, syncing>> /\ Rest

SwitchCheckout ==
  /\ Meddle /\ head' = 1 - head
  /\ UNCHANGED <<stack, ref, merges, lost, hold, live, syncing>> /\ Rest

OpenSession ==
  /\ Meddle /\ live' = ~live
  /\ UNCHANGED <<stack, ref, merges, lost, hold, head, syncing>> /\ Rest

\* A whole tws sync of the target, or one that stops and stays pending; the
\* lock keeps it out while a reparent is being admitted.
Sync ==
  /\ Meddle /\ ~Locked /\ ~syncing /\ Target \in DOMAIN stack
  /\ LET new == SyncBase(stack, Target) IN
     \/ /\ new # Missing /\ Tip(stack, Target) # Missing
        /\ ref' = [ref EXCEPT ![<<"heads", stack[Target].branch>>] = new \cup {Fresh}]
        /\ stack' = [stack EXCEPT ![Target].last = new]
        /\ UNCHANGED syncing
     \/ syncing' = TRUE /\ UNCHANGED <<ref, stack>>
  /\ UNCHANGED <<merges, lost, hold, head, live>> /\ Rest

SyncEnds ==
  /\ syncing /\ syncing' = FALSE
  /\ UNCHANGED <<stack, ref, merges, lost, hold, head, live, moves>> /\ Rest

Next ==
  \/ Preview \/ Execute \/ Resolve \/ ShowPlan \/ AdmitFresh
  \/ AcquireModeLock \/ PostLockSnapshot \/ CapturePreImage
  \/ \E n \in Branches : CommitOn(n) \/ Amend(n) \/ TagName(n) \/ DeleteBranch(n)
  \/ \E e \in Entries : EditStack(e) \/ UseWorktree(e)
  \/ SwitchCheckout \/ OpenSession \/ Sync \/ SyncEnds

Spec == Init /\ [][Next]_vars
-----------------------------------------------------------------------------
(* Properties.                                                              *)

\* RunIsApproved: the run that is journalled replays, row by row, the commits
\* the person saw in the plan, from the tips and onto the commit shown there,
\* and rewrites the stack.yaml shown there, whatever moved in between.
RunIsApproved ==
  run.on =>
    /\ run.dest = approved.dest /\ run.order = approved.order
    /\ run.rows = approved.rows /\ run.stack = approved.stack
    /\ \A e \in DOMAIN run.rows :
         run.rows[e].commits \cup run.rows[e].cutoff.sha = run.rows[e].head

\* MetadataStaysReadable: the stack.yaml that the run will write still sorts if
\* it sorted before, with the rows in the same order, and as long as no ref
\* moves every reader of it takes the target's new base for the very commit
\* the rows are replayed on.
MetadataStaysReadable ==
  run.on =>
    LET post == PostImage(run.stack, run.dest.token) IN
    /\ TopoSorts(run.stack) => TopoSorts(post)
    /\ ClosureOrder(post) = run.order
    /\ run.at = ref =>
         {SyncBase(post, Target), CheckoutBase(post, Target)} = {run.dest.sha}
=============================================================================
