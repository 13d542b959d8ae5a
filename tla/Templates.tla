------------------------------- MODULE Templates -------------------------------
(* Managed templates of an external feature (template_managed.go,            *)
(* template_preserve.go, template_conflict.go, cli/managed_template.go):     *)
(* tws renders files into the feature, links them into its worktrees and     *)
(* records what it owns in a ledger. What it replaces or removes is first    *)
(* moved into a recovery directory of the same root; a run that fails or is  *)
(* killed leaves that directory behind, and every later run refuses.         *)
(* tws rename branch (cli/rename.go) removes a worktree, renames its branch, *)
(* adds the worktree under the new name and moves the links and the entry of *)
(* stack.yaml over; a step that fails is rolled back, or leaves evidence.    *)
EXTENDS Integers, FiniteSets

CONSTANTS
  Files,      \* paths a template package may render
  Worktrees,  \* names of stack entries, their branches and their worktrees
  Packages,   \* what the configured source may render: partial functions on Files
  Deployed,   \* features to begin with: what was rendered, and the worktrees there are
  MaxRun, MaxKill,
  MaxUser     \* bound: edits, commits, and worktrees added again

Feature == "feature"
Places == {<<Feature, f>> : f \in Files}
Links == Worktrees \X Files
Slots == Places \cup Links
\* What people write is never what a template renders.
Mine == "mine"
Edited == "edited"
\* What a branch is at, besides the commits of a branch of the feature.
None == "none"
Elsewhere == "elsewhere"  \* a commit that no branch had when tws looked

ASSUME TemplatesAssumption ==
  /\ {Feature, None, Elsewhere} \cap Worktrees = {} /\ MaxRun \in Nat /\ MaxKill \in Nat /\ MaxUser \in Nat
  /\ \A p \in Packages : DOMAIN p \subseteq Files /\ \A f \in DOMAIN p : p[f] \notin {Mine, Edited}
  /\ \A d \in Deployed : d.package \in Packages /\ d.worktrees \subseteq Worktrees

VARIABLES
  disk,      \* slot -> the object at its path
  ledger,    \* .tws-templates.json
  wt,        \* worktree -> which incarnation of it exists; minus the last one if none does
  ref,       \* branch -> the branch whose commits it has, None if there is no such branch
  stack,     \* names in stack.yaml
  kept,      \* slot -> objects of it in the recovery directory of its root
  evidence,  \* roots that have a recovery directory
  pc, plan,  \* the running command
  todo,      \* what it has still to remove, write and link
  held,      \* the slot and object just moved into recovery, not compared yet
  saved,     \* objects in recovery that were compared
  mine,      \* objects of people that nobody agreed to lose
  touched,   \* slots somebody else has changed since tws last wrote them
  runs, kills, users
git == <<ref, stack>>
files == <<disk, wt, kept, evidence>>
run == <<pc, plan, todo, held, saved>>
history == <<mine, touched>>
bounds == <<runs, kills, users>>
vars == <<files, git, ledger, run, history, bounds>>

\* An object remembers its maker, so that the same content put there by
\* somebody else is another object (the code compares inodes).
Nothing == [by |-> "nobody", data |-> ""]
Rendered(d) == [by |-> "tws", data |-> d]
Link == Rendered("link")
Foreign(d) == [by |-> "user", data |-> d]

\* A file is owned with the content tws left there and the rendering it was
\* decided against; they differ where a person kept or edited the content.
NoEntry == [data |-> "", incoming |-> ""]
Override(e) == e.data # e.incoming
NoLedger == [on |-> FALSE, files |-> [f \in Files |-> NoEntry], links |-> {}]
Owned(l) == {f \in Files : l.files[f] # NoEntry}
Present == {w \in Worktrees : wt[w] > 0}
NoPlan == [request |-> <<"none">>, ledger |-> NoLedger, changed |-> FALSE, removals |-> {},
           before |-> <<>>, writes |-> <<>>, links |-> {}, checks |-> {}, agreed |-> {}]

Linked(fs) == {<<w, f, wt[w]>> : w \in Present, f \in fs}

\* A feature without managed templates, whose files may be there already.
Unmanaged ==
  /\ disk \in {[s \in Slots |-> Nothing], [s \in Slots |-> IF s \in Links THEN Nothing ELSE Foreign(Mine)]}
  /\ ledger = NoLedger /\ wt = [w \in Worktrees |-> 1] /\ stack = Worktrees
\* A feature that has been synchronized, some of the branches not made yet.
Managed ==
  \E d \in Deployed :
    LET fs == DOMAIN d.package IN
    /\ wt = [w \in Worktrees |-> IF w \in d.worktrees THEN 1 ELSE 0] /\ stack = d.worktrees
    /\ disk = [s \in Slots |-> CASE s[2] \notin fs -> Nothing
                                 [] s[2] \in fs /\ s[1] = Feature -> Rendered(d.package[s[2]])
                                 [] OTHER -> IF s[1] \in d.worktrees THEN Link ELSE Nothing]
    /\ ledger = [on |-> TRUE, links |-> d.worktrees \X fs \X {1},
                 files |-> [f \in Files |-> IF f \in fs THEN [data |-> d.package[f], incoming |-> d.package[f]]
                                            ELSE NoEntry]]
Init ==
  /\ Unmanaged \/ Managed
  /\ ref = [w \in Worktrees |-> IF w \in stack THEN w ELSE None]
  /\ kept = [s \in Slots |-> {}] /\ evidence = {}
  /\ pc = "idle" /\ plan = NoPlan /\ todo = {} /\ held = <<>> /\ saved = {}
  /\ mine = {<<s, disk[s]>> : s \in {x \in Slots : disk[x].by = "user"}}
  /\ touched = {m[1] : m \in mine}
  /\ runs = (IF ledger.on THEN 1 ELSE 0) /\ kills = 0 /\ users = 0
-----------------------------------------------------------------------------
(* Planning. A plan is a record, or Refused.                                 *)

Refused == [NoPlan EXCEPT !.request = <<"refused">>]
Residue == evidence # {}
At(f) == disk[<<Feature, f>>]
\* tws recognises a link by the identity it recorded and by the worktree.
matchOwnedLink(l) == disk[l] = Link /\ <<l[1], l[2], wt[l[1]]>> \in ledger.links
matchOwnedFile(f) == At(f).data = ledger.files[f].data
OwnedLinks(l) == {<<k[1], k[2]>> : k \in l.links}
\* Recorded links whose worktree is gone, or is another one of the same name.
Gone == {k \in ledger.links : wt[k[1]] <= 0}
Stale == {k \in ledger.links : wt[k[1]] # k[3]}

\* d is the decisions of --resolve-conflicts, or NoDecisions without the flag.
NoDecisions == [f \in Files |-> "none"]
needsDecision(p, d, f) ==
  /\ At(f) # Nothing
  /\ \/ At(f).data # ledger.files[f].data
     \/ Override(ledger.files[f]) /\ (d # NoDecisions \/ ledger.files[f].incoming # p[f])
Decided(p, d, f) ==
  CASE d[f] = "keep" -> At(f).data [] d[f] = "replace" -> p[f] [] OTHER -> Edited
EntryFor(p, d, f) ==
  CASE f \notin DOMAIN p -> NoEntry
    [] f \in DOMAIN p /\ needsDecision(p, d, f) -> [data |-> Decided(p, d, f), incoming |-> p[f]]
    [] f \in DOMAIN p /\ ~needsDecision(p, d, f) ->
         IF Override(ledger.files[f]) THEN ledger.files[f] ELSE [data |-> p[f], incoming |-> p[f]]

FilesRefused(p, d) ==
  \/ \E f \in DOMAIN p :
       \/ At(f) # Nothing /\ f \notin Owned(ledger)
       \/ At(f) = Nothing /\ Override(ledger.files[f])
       \/ f \in Owned(ledger) /\ needsDecision(p, d, f) /\ d = NoDecisions
  \/ \E f \in Owned(ledger) \ DOMAIN p :
       Override(ledger.files[f]) \/ (At(f) # Nothing /\ ~matchOwnedFile(f))
LinksRefused(p) ==
  \/ Stale # {}
  \/ \E l \in Present \X DOMAIN p \cup OwnedLinks(ledger) : disk[l] # Nothing /\ ~matchOwnedLink(l)

Effective(p) ==
  [p EXCEPT !.changed = p.ledger # ledger \/ p.links # {},
            !.before = [s \in p.removals \cup DOMAIN p.writes |-> disk[s]]]

planManagedRoleFiles(p, d) ==
  IF Residue \/ FilesRefused(p, d) \/ LinksRefused(p) THEN Refused
  ELSE LET new == [f \in Files |-> EntryFor(p, d, f)]
           written == {f \in DOMAIN p : new[f].data # At(f).data}
           obsolete == Owned(ledger) \ DOMAIN p IN
       Effective([NoPlan EXCEPT
         !.request = <<"roles", p, d>>,
         !.ledger = [on |-> TRUE, files |-> new, links |-> Linked(DOMAIN p)],
         !.removals = {s \in {<<Feature, f>> : f \in obsolete} \cup (OwnedLinks(ledger) \ (Present \X DOMAIN p)) :
                         disk[s] # Nothing},
         !.writes = [s \in {<<Feature, f>> : f \in written} |-> new[s[2]].data],
         !.links = {l \in Present \X DOMAIN p : disk[l] = Nothing},
         !.checks = {<<<<Feature, f>>, At(f)>> :
                       f \in {g \in DOMAIN p \cup obsolete : At(g) # Nothing}},
         !.agreed = {<<<<Feature, f>>, At(f)>> : f \in {g \in DOMAIN p : needsDecision(p, d, g)}}])

\* The recorded files must be there, unchanged.
validateManagedWorktreeContext == \A f \in Owned(ledger) : matchOwnedFile(f)

planManagedTemplateLinksOnly(w) ==
  LET wanted == {w} \X Owned(ledger) IN
  IF \/ Residue \/ ~ledger.on \/ ~validateManagedWorktreeContext
     \/ Gone # {} \/ \E k \in Stale : k[1] = w
     \/ \E l \in wanted : disk[l] # Nothing /\ ~matchOwnedLink(l)
  THEN Refused
  ELSE Effective([NoPlan EXCEPT
         !.request = <<"links", w>>, !.links = {l \in wanted : disk[l] = Nothing},
         !.ledger = [ledger EXCEPT !.links = @ \cup {<<w, f, wt[w]>> : f \in Owned(ledger)}]])

planManagedTemplateWorktreeRetirement(w) ==
  LET retiring == {k \in ledger.links : k[1] = w} IN
  IF \/ ledger.on /\ ~validateManagedWorktreeContext
     \/ retiring # {} /\ (Gone # {} \/ evidence \cap {k[1] : k \in ledger.links} # {})
     \/ \E k \in retiring : ~matchOwnedLink(<<k[1], k[2]>>)
  THEN Refused
  ELSE Effective([NoPlan EXCEPT !.request = <<"retire", w>>,
                    !.ledger = [ledger EXCEPT !.links = @ \ retiring]])

HasEffects(p) == p.changed \/ p.removals # {} \/ DOMAIN p.writes # {} \/ p.links # {}
-----------------------------------------------------------------------------
(* Commands. One at a time has the locks of the feature; a person reads and  *)
(* decides on a plan before the locks are taken, and it is made again under  *)
(* them.                                                                     *)

Decisions == {NoDecisions} \cup {[f \in Files |-> a] : a \in {"keep", "replace", "edit"}}
Idle == pc' = "idle" /\ plan' = NoPlan /\ todo' = {} /\ held' = <<>> /\ saved' = {}
Begin(p, next) ==
  /\ pc' = next /\ plan' = p /\ todo' = {} /\ held' = <<>> /\ saved' = {}
  /\ runs < MaxRun /\ runs' = runs + 1 /\ UNCHANGED <<kills, users>>

\* tws template sync
Propose(p, d) ==
  /\ pc = "idle"
  /\ LET new == planManagedRoleFiles(p, d) IN
     new # Refused /\ HasEffects(new) /\ Begin(new, "consent")
  /\ UNCHANGED <<files, git, ledger, history>>
executeManagedTemplatePlans ==
  /\ pc = "consent"
  /\ IF planManagedRoleFiles(plan.request[2], plan.request[3]) = plan
     THEN pc' = "open" /\ UNCHANGED <<plan, todo, held, saved>>
     ELSE Idle
  /\ UNCHANGED <<files, git, ledger, history, bounds>>

\* tws inject, tws open
syncManagedAndLegacyInject(w) ==
  /\ pc = "idle" /\ w \in Present
  /\ LET new == planManagedTemplateLinksOnly(w) IN
     new # Refused /\ HasEffects(new) /\ Begin(new, "open")
  /\ UNCHANGED <<files, git, ledger, history>>

\* tws archive: the worktree goes first, its links leave the ledger after it.
Archive(w) ==
  /\ pc = "idle" /\ w \in Present /\ evidence \cap {Feature, w} = {}
  /\ LET new == planManagedTemplateWorktreeRetirement(w) IN
     new # Refused /\ Begin(new, "remove")
  /\ UNCHANGED <<files, git, ledger, history>>
WithoutWorktree(w) ==
  LET gone == {l \in Links : l[1] = w} IN
  /\ wt' = [wt EXCEPT ![w] = -@]
  /\ disk' = [s \in Slots |-> IF s \in gone THEN Nothing ELSE disk[s]]
  /\ mine' = {m \in mine : m[1] \notin gone} /\ touched' = touched \ gone
  /\ UNCHANGED <<kept, evidence, git, ledger, bounds>>
RemoveWorktree ==
  /\ pc = "remove" /\ WithoutWorktree(plan.request[2])
  /\ IF plan.changed THEN pc' = "open" /\ UNCHANGED <<plan, todo, held, saved>> ELSE Idle
-----------------------------------------------------------------------------
(* Applying a plan.                                                          *)

Effects == plan.removals \cup DOMAIN plan.writes \cup plan.links
Unchecked(c) == c[1] \notin plan.removals \cup DOMAIN plan.writes
\* Only files the plan does not write itself are compared again on the way.
revalidateManagedTemplateFileChecks(all) ==
  \A c \in plan.checks : all \/ Unchecked(c) => disk[c[1]] = c[2]

Roots == {s[1] : s \in Effects} \cup (IF plan.changed THEN {Feature} ELSE {})

\* A run that fails leaves its recovery directories where they are; a rename
\* adds an account of what it has done and not done to the feature's.
Retiring == plan.request[1] \in {"retire", "rename"}
Renaming == plan.request[1] \in {"rename", "reinject", "restore"}
\* Mutant: it tidies them away.
FailTidied == Idle /\ evidence' = {} /\ UNCHANGED <<disk, wt, kept, git, ledger, history, bounds>>
Account == IF Renaming THEN {Feature} ELSE {}
Fail ==
  /\ Idle /\ evidence' = evidence \cup Account
  /\ UNCHANGED <<disk, wt, kept, git, ledger, history, bounds>>
\* The plan is applied; a rename has its entry of stack.yaml to write yet.
Applied ==
  IF plan.request[1] = "rename" THEN pc' = "stack" /\ todo' = {} /\ held' = <<>> /\ saved' = {} /\ UNCHANGED plan
  ELSE Idle

ApplyManagedTemplatePlan ==
  /\ pc = "open"
  /\ IF /\ revalidateManagedTemplateFileChecks(TRUE)
        /\ Retiring => wt[plan.request[2]] <= 0
     THEN pc' = "roots" /\ todo' = Roots /\ UNCHANGED <<plan, held, saved>>
          /\ UNCHANGED <<files, git, ledger, history, bounds>>
     ELSE Fail

\* The feature first, then the worktrees.
newManagedRecoveryRoot(r) ==
  /\ pc = "roots" /\ r \in todo /\ (Feature \in todo => r = Feature)
  /\ IF r \in evidence THEN Fail
     ELSE /\ evidence' = evidence \cup {r}
          /\ IF todo = {r} THEN pc' = "effect" /\ todo' = Effects
             ELSE todo' = todo \ {r} /\ UNCHANGED pc
          /\ UNCHANGED <<disk, wt, kept, git, plan, held, saved, ledger, history, bounds>>

Removing == plan.removals \cap todo
Writing == DOMAIN plan.writes \cap todo
\* Removals, then writes, then links.
NextEffect ==
  IF Removing # {} THEN Removing ELSE IF Writing # {} THEN Writing ELSE todo
MustMove(s) == s \in DOMAIN plan.before /\ plan.before[s] # Nothing

\* Whatever is at the path now is moved aside, and only then looked at.
preserve(s) ==
  /\ pc = "effect" /\ s \in NextEffect /\ MustMove(s) /\ <<s, plan.before[s]>> \notin saved
  /\ IF disk[s] = Nothing THEN Fail
     ELSE /\ pc' = "compare" /\ held' = <<s, disk[s]>>
          /\ disk' = [disk EXCEPT ![s] = Nothing]
          /\ kept' = [kept EXCEPT ![s] = @ \cup {disk[s]}]
          /\ UNCHANGED <<wt, evidence, git, plan, todo, saved, ledger, history, bounds>>

Planned == plan.before[held[1]]
Captured ==
  /\ saved' = saved \cup {held, <<held[1], Planned>>} /\ pc' = "effect" /\ held' = <<>>
  /\ todo' = IF held[1] \in plan.removals THEN todo \ {held[1]} ELSE todo
  /\ UNCHANGED <<files, git, plan, ledger, history, bounds>>
\* Mutant: what was moved aside is taken for what was planned.
compareNot == pc = "compare" /\ Captured
compare ==
  /\ pc = "compare"
  /\ IF held[2] = Planned THEN Captured
     ELSE /\ pc' = "restore" /\ UNCHANGED <<plan, todo, held, saved>>
          /\ UNCHANGED <<files, git, ledger, history, bounds>>
\* It goes back unless something else is at the path by now.
restoreAfterPreservationFailure ==
  /\ pc = "restore" /\ Idle
  /\ IF disk[held[1]] = Nothing
     THEN /\ disk' = [disk EXCEPT ![held[1]] = held[2]]
          /\ kept' = [kept EXCEPT ![held[1]] = @ \ {held[2]}]
     ELSE UNCHANGED <<disk, kept>>
  /\ evidence' = evidence \cup Account /\ UNCHANGED <<wt, git, ledger, history, bounds>>

\* A new object is linked to a path only when nothing is there.
publish(s) ==
  /\ pc = "effect" /\ s \in NextEffect \ plan.removals
  /\ MustMove(s) => <<s, plan.before[s]>> \in saved
  /\ IF disk[s] # Nothing THEN Fail
     ELSE /\ disk' = [disk EXCEPT ![s] = IF s \in Links THEN Link ELSE Rendered(plan.writes[s])]
          /\ touched' = touched \ {s} /\ todo' = todo \ {s}
          /\ mine' = mine \ {m \in plan.agreed : m[1] = s}
          /\ UNCHANGED <<wt, kept, evidence, git, ledger, pc, plan, held, saved, bounds>>

EffectsDone ==
  /\ pc = "effect" /\ todo = {}
  /\ pc' = (IF plan.changed THEN "ledger" ELSE "preflight")
  /\ UNCHANGED <<files, git, ledger, plan, todo, held, saved, history, bounds>>

revalidateManagedOwnedLinks ==
  \A k \in plan.ledger.links : disk[<<k[1], k[2]>>] = Link /\ wt[k[1]] = k[3]
\* The old ledger is moved aside like any other object.
preserveLedger ==
  /\ pc = "ledger"
  /\ IF revalidateManagedTemplateFileChecks(FALSE) /\ revalidateManagedOwnedLinks
     THEN /\ ledger' = NoLedger /\ pc' = "record"
          /\ UNCHANGED <<files, git, plan, todo, held, saved, history, bounds>>
     ELSE Fail
publishLedger ==
  /\ pc = "record"
  /\ IF revalidateManagedTemplateFileChecks(FALSE)
     THEN /\ ledger' = plan.ledger /\ pc' = "preflight"
          /\ UNCHANGED <<files, git, plan, todo, held, saved, history, bounds>>
     ELSE Fail

preflightCleanup ==
  /\ pc = "preflight"
  /\ IF /\ revalidateManagedTemplateFileChecks(FALSE)
        /\ \A s \in plan.removals : disk[s] = Nothing
        /\ \A s \in plan.links : disk[s] = Link
        /\ \A s \in DOMAIN plan.writes : disk[s] = Rendered(plan.writes[s])
     THEN pc' = "clean" /\ todo' = Roots /\ UNCHANGED <<plan, held, saved>>
          /\ UNCHANGED <<files, git, ledger, history, bounds>>
     ELSE Fail
\* One by one, the worktrees before the feature; each object is compared once
\* more, and the directory goes when nothing unexpected is left in it.
removeVerifiedPrivate(s) ==
  /\ pc = "clean" /\ s[1] \in todo /\ (s[1] = Feature => todo = {Feature})
  /\ \E o \in kept[s] : <<s, o>> \in saved
  /\ IF revalidateManagedTemplateFileChecks(FALSE)
     THEN /\ kept' = [kept EXCEPT ![s] = {o \in @ : <<s, o>> \notin saved}]
          /\ UNCHANGED <<disk, wt, evidence, git, run, ledger, history, bounds>>
     ELSE Fail
cleanupVerified(r) ==
  /\ pc = "clean" /\ r \in todo /\ (r = Feature => todo = {Feature})
  /\ IF revalidateManagedTemplateFileChecks(FALSE) /\ \A s \in Slots : s[1] = r => kept[s] = {}
     THEN /\ evidence' = evidence \ {r}
          /\ IF todo = {r} THEN Applied
             ELSE todo' = todo \ {r} /\ UNCHANGED <<pc, plan, held, saved>>
          /\ UNCHANGED <<disk, wt, kept, git, ledger, history, bounds>>
     ELSE Fail
-----------------------------------------------------------------------------
(* tws rename branch, of an entry of a managed feature. It has the locks of  *)
(* the feature from beginning to end; Git is used by others as well, and a   *)
(* git command may fail of itself.                                           *)

Old == plan.request[2]
New == plan.request[3]
Expected == plan.request[4]      \* what the branch is at, as planned
Materialized == plan.request[5]  \* there is a worktree to rename
To(next, p) == pc' = next /\ plan' = p /\ todo' = {} /\ held' = <<>> /\ saved' = {}
Added(w) == wt' = [wt EXCEPT ![w] = 1 - @]

renameBranchExternal(old, new) ==
  /\ pc = "idle" /\ ledger.on /\ Feature \notin evidence /\ validateManagedWorktreeContext
  /\ old \in stack /\ new \notin stack /\ ref[old] # None /\ ref[new] = None
  /\ wt[old] > 0 => old \notin evidence /\ wt[new] <= 0
  /\ LET retirement == planManagedTemplateWorktreeRetirement(old) IN
     /\ retirement # Refused
     /\ Begin([retirement EXCEPT !.request = <<"rename", old, new, ref[old], wt[old] > 0>>],
              IF wt[old] > 0 THEN "take down" ELSE "branch")
  /\ UNCHANGED <<files, git, ledger, history>>

TakeDownWorktree ==
  /\ pc = "take down"
  /\ \/ WithoutWorktree(Old) /\ To("branch", plan)
     \/ Idle /\ UNCHANGED <<files, git, ledger, history, bounds>>

\* git branch -m refuses a name that is taken.
RenameRef(from, to) == ref[from] # None /\ ref[to] = None /\ ref' = [ref EXCEPT ![from] = None, ![to] = ref[from]]
RenameBranch ==
  /\ pc = "branch"
  /\ \/ RenameRef(Old, New) /\ To(IF Materialized THEN "tree" ELSE "stack", plan)
     \/ UNCHANGED ref /\ IF Materialized THEN To("rollback", plan) ELSE Idle
  /\ UNCHANGED <<files, stack, ledger, history, bounds>>
\* The plan is applied as soon as the worktree is there, if it retires links.
AddRenamedWorktree ==
  /\ pc = "tree"
  /\ \/ wt[New] <= 0 /\ ref[New] # None /\ Added(New) /\ To(IF plan.changed THEN "open" ELSE "stack", plan)
     \/ UNCHANGED wt /\ To("rollback", plan)
  /\ UNCHANGED <<disk, kept, evidence, git, ledger, history, bounds>>

SaveStackAtomic ==
  /\ pc = "stack"
  /\ \/ /\ stack' = (stack \ {Old}) \cup {New}
        /\ IF Materialized THEN To("reinject", plan) ELSE Idle
        /\ UNCHANGED <<files, ref, ledger, history, bounds>>
     \/ Fail
\* The links come back under the new name, as tws inject would make them.
Reinject ==
  /\ pc = "reinject"
  /\ LET links == planManagedTemplateLinksOnly(New) IN
     IF ~ledger.on \/ wt[New] <= 0 \/ links = Refused THEN Fail
     ELSE /\ IF HasEffects(links) THEN To("open", [links EXCEPT !.request = <<"reinject", New>>]) ELSE Idle
          /\ UNCHANGED <<files, git, ledger, history, bounds>>

\* The rollback takes back only what is recognisably its own: both paths are
\* free, and the commits that were at the old name are at one of the names.
RollbackRef ==
  /\ pc = "rollback"
  /\ \/ /\ wt[Old] <= 0 /\ wt[New] <= 0 /\ To("put back", plan) /\ UNCHANGED stack
        /\ \/ ref[Old] = Expected /\ UNCHANGED ref
           \/ ref[New] = Expected /\ RenameRef(New, Old)
        /\ UNCHANGED <<files, ledger, history, bounds>>
     \/ Fail
\* A commit that came in between has the worktree refused once it is there.
verifyManagedRenameRollbackWorktree == ref[Old] = Expected
RollbackWorktree ==
  /\ pc = "put back"
  /\ \/ /\ wt[Old] <= 0 /\ ref[Old] # None /\ Added(Old)
        /\ IF ~verifyManagedRenameRollbackWorktree THEN Idle /\ evidence' = evidence \cup Account
           ELSE UNCHANGED evidence /\ IF plan.changed THEN To("put links back", plan) ELSE Idle
        /\ UNCHANGED <<disk, kept, git, ledger, history, bounds>>
     \/ Fail
\* What the rename would have retired belongs to the worktree that came back.
RetiredLinks == {k \in ledger.links : k[1] = Old}
RestoreManagedTemplateRetirementAfterRollback ==
  /\ pc = "put links back"
  /\ IF /\ plan.ledger = [ledger EXCEPT !.links = @ \ RetiredLinks]
        /\ validateManagedWorktreeContext /\ \A k \in RetiredLinks : disk[<<k[1], k[2]>>] = Nothing
     THEN /\ To("open", Effective([NoPlan EXCEPT
               !.request = <<"restore", Old>>, !.links = {<<k[1], k[2]>> : k \in RetiredLinks},
               !.ledger = [plan.ledger EXCEPT !.links = @ \cup {<<Old, k[2], wt[Old]>> : k \in RetiredLinks}]]))
          /\ UNCHANGED <<files, git, ledger, history, bounds>>
     ELSE Fail
-----------------------------------------------------------------------------
(* Everything else.                                                          *)

Kill ==
  /\ pc # "idle" /\ kills < MaxKill /\ kills' = kills + 1 /\ Idle
  /\ UNCHANGED <<files, git, ledger, history, runs, users>>

\* Somebody writes a file of their own where tws keeps one, replaces a link,
\* or removes what is there.
UserEdit(s) ==
  /\ users < MaxUser /\ users' = users + 1 /\ s[1] \in Present \cup {Feature}
  /\ touched' = touched \cup {s}
  /\ \/ disk[s] # Foreign(Mine) /\ disk' = [disk EXCEPT ![s] = Foreign(Mine)]
        /\ mine' = mine \cup {<<s, Foreign(Mine)>>}
     \/ disk[s] # Nothing /\ disk' = [disk EXCEPT ![s] = Nothing]
        /\ mine' = mine \ {<<s, disk[s]>>}
  /\ UNCHANGED <<wt, kept, evidence, git, ledger, run, runs, kills>>
\* git worktree add makes the branch if there is none.
UserAddsWorktree(w) ==
  /\ wt[w] <= 0 /\ users < MaxUser /\ users' = users + 1
  /\ Added(w) /\ ref' = [ref EXCEPT ![w] = IF @ = None THEN Elsewhere ELSE @]
  /\ UNCHANGED <<disk, kept, evidence, stack, ledger, run, history, runs, kills>>
\* Another terminal commits on a branch that is being renamed.
UserCommits(w) ==
  /\ plan.request[1] = "rename" /\ ref[w] \notin {None, Elsewhere} /\ users < MaxUser /\ users' = users + 1
  /\ ref' = [ref EXCEPT ![w] = Elsewhere]
  /\ UNCHANGED <<files, stack, ledger, run, history, runs, kills>>
StackNamesBranches == \A w \in stack : ref[w] # None
\* A person looks through the evidence, ends a rename as it says, and takes it
\* away.
UserSettles ==
  /\ pc = "idle" /\ evidence # {} /\ evidence' = {}
  /\ kept' = [s \in Slots |-> {}] /\ touched' = Slots
  /\ mine' = {m \in mine : disk[m[1]] = m[2]}
  /\ stack' = IF StackNamesBranches THEN stack ELSE {w \in Worktrees : ref[w] # None}
  /\ UNCHANGED <<disk, wt, ref, ledger, run, bounds>>

Next ==
  \/ \E p \in Packages, d \in Decisions : Propose(p, d)
  \/ executeManagedTemplatePlans
  \/ \E w \in Worktrees : syncManagedAndLegacyInject(w) \/ Archive(w) \/ UserAddsWorktree(w) \/ UserCommits(w)
  \/ \E old, new \in Worktrees : renameBranchExternal(old, new)
  \/ TakeDownWorktree \/ RenameBranch \/ AddRenamedWorktree \/ SaveStackAtomic \/ Reinject
  \/ RollbackRef \/ RollbackWorktree \/ RestoreManagedTemplateRetirementAfterRollback
  \/ RemoveWorktree \/ ApplyManagedTemplatePlan
  \/ \E r \in Worktrees \cup {Feature} : newManagedRecoveryRoot(r) \/ cleanupVerified(r)
  \/ \E s \in Slots : preserve(s) \/ publish(s) \/ removeVerifiedPrivate(s) \/ UserEdit(s)
  \/ compare \/ restoreAfterPreservationFailure
  \/ EffectsDone \/ preserveLedger \/ publishLedger \/ preflightCleanup
  \/ Kill \/ UserSettles

Spec == Init /\ [][Next]_vars
-----------------------------------------------------------------------------
(* What managed templates promise.                                           *)

\* UserContentKept: what a person wrote at a managed path is there or in the
\* recovery directory, whatever is applied, refused or killed, until the person
\* agreed to replace it, removed it, or archived or renamed the worktree it was in.
UserContentKept == \A m \in mine : disk[m[1]] = m[2] \/ m[2] \in kept[m[1]]

\* RecordedAsLeft: when no recovery evidence is left anywhere, the ledger is
\* right about every path that only tws has written: no half of an update can
\* pass for the whole of it, and no link is without an owner. A rename of a
\* branch that ended by itself has not left stack.yaml without its branch.
RecordedAsLeft ==
  evidence = {} =>
    /\ pc = "idle" /\ kills = 0 => StackNamesBranches
    /\ \A f \in Files : <<Feature, f>> \notin touched => matchOwnedFile(f)
    /\ \A l \in Links \ touched :
         wt[l[1]] > 0 => (disk[l] = Link) = (<<l[1], l[2], wt[l[1]]>> \in ledger.links)
=============================================================================
