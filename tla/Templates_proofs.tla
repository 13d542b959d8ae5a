---------------------------- MODULE Templates_proofs ----------------------------
(* What a person wrote at a managed path is never lost, and an update that   *)
(* leaves no recovery evidence left the ledger true, for any number of       *)
(* files, worktrees, template versions, commands, kills and interferences.   *)
EXTENDS Templates, TLAPS

(* Types.                                                                    *)

\* The recovery roots: one beside the feature, one beside each worktree.
RootNames == Worktrees \cup {Feature}
\* What an object may hold, and the objects and ledger entries made of it.
Contents == {"", "link", Mine, Edited} \cup UNION {{p[f] : f \in DOMAIN p} : p \in Packages}
Objects == [by : {"nobody", "tws", "user"}, data : Contents]
Entries == [data : Contents, incoming : Contents]
Ledgers == [on : BOOLEAN, files : [Files -> Entries], links : SUBSET (Worktrees \X Files \X Int)]
Partial(S) == UNION {[D -> S] : D \in SUBSET Slots}
\* The commands, with what they were asked.
Requests ==
  {<<"none">>} \cup ({"roles"} \X Packages \X Decisions)
    \cup ({"links", "retire", "reinject", "restore"} \X Worktrees)
    \cup ({"rename"} \X Worktrees \X Worktrees \X (Worktrees \cup {Elsewhere}) \X BOOLEAN)
Plans ==
  [request : Requests, ledger : Ledgers, changed : BOOLEAN, removals : SUBSET Slots,
   before : Partial(Objects), writes : Partial(Contents), links : SUBSET Slots,
   checks : SUBSET (Slots \X Objects), agreed : SUBSET (Slots \X Objects)]

\* Where a plan is being applied: it moves and publishes objects, and all of
\* them are done.
Moving == {"effect", "compare", "restore"}
Past == {"ledger", "record", "preflight", "clean"}
Applying == Moving \cup Past
\* A plan that is not applied yet; a rename, or an archive, under way.
Renames == {"take down", "branch", "tree", "stack", "reinject", "rollback", "put back",
            "put links back"}
Early == {"consent", "remove", "open"} \cup (Renames \ {"stack", "reinject"})
Labels == {"idle", "roots"} \cup Applying \cup Early \cup Renames

\* The types of the state, by what it is about.
DiskType ==
  /\ disk \in [Slots -> Objects] /\ kept \in [Slots -> SUBSET Objects]
  /\ evidence \subseteq RootNames /\ mine \subseteq Slots \X Objects /\ touched \subseteq Slots
BookType ==
  /\ ledger \in Ledgers /\ wt \in [Worktrees -> Int]
  /\ ref \in [Worktrees -> Worktrees \cup {None, Elsewhere}] /\ stack \subseteq Worktrees
RunType ==
  /\ pc \in Labels /\ plan \in Plans
  /\ pc \in {"roots", "clean"} => todo \subseteq RootNames
  /\ pc \notin {"roots", "clean"} => todo \subseteq Slots
  /\ held \in {<<>>} \cup (Slots \X Objects) /\ saved \subseteq Slots \X Objects
CountType == runs \in Nat /\ kills \in Nat /\ users \in Nat
TypeOK == DiskType /\ BookType /\ RunType /\ CountType
-----------------------------------------------------------------------------
(* What a plan is.                                                           *)

\* A recorded link is of an incarnation of the worktree that there is or was;
\* a worktree that is not there has nothing at the paths of its links.
Known(links) == \A k \in links : k[3] > 0 /\ (k[3] <= wt[k[1]] \/ k[3] <= -wt[k[1]])
\* No ledger says that a template rendered what a person wrote.
Honest(l) == \A f \in Files : l.files[f].incoming # Mine
Absent == \A l \in Links : wt[l[1]] <= 0 => disk[l] = Nothing
LedgersOK ==
  /\ Known(ledger.links) /\ Known(plan.ledger.links)
  /\ Honest(ledger) /\ Honest(plan.ledger) /\ Absent

\* A plan knows what is at every path it changes. Where that is somebody's
\* own work, they agreed to its replacement, and it is not just removed.
Sound(q) ==
  /\ DOMAIN q.before = q.removals \cup DOMAIN q.writes
  /\ q.links \subseteq Links /\ DOMAIN q.writes \subseteq Places
  /\ q.removals \cap (DOMAIN q.writes \cup q.links) = {}
  /\ \A s \in DOMAIN q.before :
       q.before[s] = Foreign(Mine) => s \notin q.removals /\ <<s, Foreign(Mine)>> \in q.agreed
\* Its ledger says what its effects lead to.
Leads(q) ==
  /\ \A f \in Files : <<Feature, f>> \in q.removals => q.ledger.files[f].data = ""
  /\ \A s \in DOMAIN q.writes : q.writes[s] = q.ledger.files[s[2]].data
  /\ \A l \in q.links : wt[l[1]] > 0 /\ <<l[1], l[2], wt[l[1]]>> \in q.ledger.links
  /\ \A l \in Links \cap q.removals :
       wt[l[1]] > 0 /\ \A k \in q.ledger.links : <<k[1], k[2]>> # l
\* It changes the ledger, or a file of the feature.
Reaches(q) == q.changed \/ \E s \in q.removals \cup DOMAIN q.writes : s[1] = Feature
\* The paths a plan changes.
Changes(q) == q.removals \cup DOMAIN q.writes \cup q.links
PlanOK ==
  /\ Sound(plan) /\ Leads(plan)
  /\ pc \in {"consent", "open", "roots"} \cup Applying => Reaches(plan)
\* How it differs from the ledger it was made from.
RelationOK ==
  /\ pc = "idle" => plan = NoPlan
  /\ pc \in Early \cup {"roots"} \cup Moving =>
       plan.changed = (plan.ledger # ledger \/ plan.links # {})
  /\ pc \in {"preflight", "clean", "stack", "reinject"} => plan.ledger.files = ledger.files
  /\ pc \in {"preflight", "clean"} => plan.ledger = ledger
  /\ plan.request[1] \notin {"none", "roles"} /\ pc # "record" => plan.ledger.files = ledger.files
  /\ Retiring => plan.links = {} /\ plan.removals = {} /\ DOMAIN plan.writes = {}
  /\ Retiring /\ pc \in Early =>
       plan.ledger.links = {k \in ledger.links : k[1] # plan.request[2]}
  /\ pc = "consent" => plan.request[1] = "roles"
  /\ pc = "remove" => plan.request[1] = "retire" /\ wt[plan.request[2]] > 0
  /\ pc \in Renames => plan.request[1] = "rename"
  /\ pc = "take down" => wt[Old] > 0
  /\ pc = "put links back" => wt[Old] > 0 /\ plan.changed

\* Plans, and the ledgers they lead from and to.
PlanInv == LedgersOK /\ PlanOK /\ RelationOK
-----------------------------------------------------------------------------
(* What people wrote.                                                        *)

\* What is moved aside was at a path the plan has still to deal with.
HeldOK ==
  /\ pc \in Moving => todo \subseteq Effects
  /\ pc \in {"ledger", "record", "preflight"} => todo = {}
  /\ pc \in {"compare", "restore"} =>
       held \in Slots \X Objects /\ held[1] \in todo \cap DOMAIN plan.before
  /\ pc \notin Applying => saved = {}
  /\ \A c \in saved : c[1] \in DOMAIN plan.before /\ c[2] = plan.before[c[1]]

\* Somebody's work is where they left it, or in a recovery directory; there it
\* may be taken for dealt with only until the plan writes what they agreed to.
KeptOK ==
  /\ \A m \in mine : m[2] = Foreign(Mine)
  /\ \A m \in mine :
       disk[m[1]] # m[2] =>
         /\ m[2] \in kept[m[1]]
         /\ m \in saved => pc \in Moving /\ m[1] \in todo

\* What recovery holds.
ContentInv == HeldOK /\ KeptOK
-----------------------------------------------------------------------------
(* What the ledger says.                                                     *)

\* A ledger is right about the paths that only tws has written, S aside.
FilesRight(l, S) ==
  \A f \in Files : <<Feature, f>> \notin touched \cup S => At(f).data = l.files[f].data
LinksRight(l, S) ==
  \A s \in Links : s \notin touched \cup S /\ wt[s[1]] > 0 =>
    ((disk[s] = Link) <=> (<<s[1], s[2], wt[s[1]]>> \in l.links))
Right(l, S) == FilesRight(l, S) /\ LinksRight(l, S)

\* From the first to the last step of a plan its evidence is there; before it
\* the old ledger is right, after it the new one, and between them the new one
\* about what is done.
RightOK ==
  /\ pc \in {"idle", "consent"} => Feature \in evidence \/ Right(ledger, {})
  /\ pc \notin {"idle", "consent"} \cup Applying => Right(ledger, {})
  /\ (pc = "open" /\ ~Retiring) \/ pc = "roots" => Right(plan.ledger, Effects)
  /\ pc \in Moving => Right(plan.ledger, todo)
  /\ pc \in Past => Right(plan.ledger, {})
  /\ pc \in {"compare", "restore"} /\ held[1] \notin touched => disk[held[1]] = Nothing
EvidenceOK ==
  /\ pc = "roots" => Feature \in todo \cup evidence
  /\ pc \in Applying \ {"clean"} => Feature \in evidence

\* Where a rename has renamed the branch and not yet the entry.
Between == {"tree", "open", "roots", "stack", "rollback"} \cup Applying
Renamed == plan.request[1] = "rename" /\ pc \in Between
\* It has at most its own entry without a branch, and the new name has one
\* until it is taken back; nothing else leaves an entry without a branch.
RenamedNames ==
  /\ \A w \in stack : w # Old => ref[w] # None
  /\ pc # "rollback" => ref[New] # None
NamesOK ==
  kills = 0 =>
    /\ pc \in {"idle", "consent"} => Feature \in evidence \/ StackNamesBranches
    /\ Renamed => RenamedNames
    /\ pc \notin {"idle", "consent"} /\ ~Renamed => StackNamesBranches
\* A rename expects a branch, and its new name has no entry until the entry
\* has been renamed.
RequestOK ==
  plan.request[1] = "rename" =>
    Expected # None /\ (pc # "reinject" => New \notin stack)
StackOK == NamesOK /\ RequestOK

\* What is recorded, of managed paths and of the stack.
RecordInv == RightOK /\ EvidenceOK /\ StackOK
-----------------------------------------------------------------------------
(* Paths and objects.                                                        *)

\* Paths are pairs, of the feature or of a worktree and of a file.
LEMMA SlotFacts ==
  /\ Links \subseteq Slots /\ Places \subseteq Slots /\ Links \cap Places = {}
  /\ \A s \in Slots : s[1] \in RootNames /\ s[2] \in Files /\ s = <<s[1], s[2]>>
  /\ \A l \in Links : l[1] \in Worktrees /\ l[1] # Feature
  /\ \A f \in Files : <<Feature, f>> \in Places
  /\ \A s \in Places : s[1] = Feature
  BY TemplatesAssumption DEF Slots, Links, Places, RootNames

\* The objects that the actions put at a path are objects.
LEMMA ObjectFacts ==
  /\ Nothing \in Objects /\ Link \in Objects /\ Foreign(Mine) \in Objects
  /\ Foreign(Mine) # Nothing /\ Foreign(Mine) # Link /\ Link # Nothing
  /\ Foreign(Mine).data = Mine /\ Nothing.data = "" /\ Mine # ""
  /\ \A c \in Contents : Rendered(c) \in Objects /\ Rendered(c) # Foreign(Mine)
                         /\ Rendered(c).data = c /\ Rendered(c) # Nothing
  BY DEF Nothing, Link, Foreign, Mine, Objects, Contents, Rendered

\* No template renders what a person wrote.
LEMMA RenderedContents ==
  \A p \in Packages : \A f \in DOMAIN p :
    f \in Files /\ p[f] \in Contents /\ p[f] # Mine
<1>1. SUFFICES ASSUME NEW p \in Packages, NEW f \in DOMAIN p
               PROVE  f \in Files /\ p[f] \in Contents /\ p[f] # Mine
  OBVIOUS
<1>2. p[f] \in {p[g] : g \in DOMAIN p}
  OBVIOUS
<1>3. p[f] \in Contents
  BY <1>2 DEF Contents
<1> QED
  BY <1>3, TemplatesAssumption

\* The empty function is a plan's "nothing before" and "nothing to write".
LEMMA EmptyFunction == DOMAIN <<>> = {} /\ <<>> \in Partial(Objects) /\ <<>> \in Partial(Contents)
<1>1. DOMAIN <<>> = {}
  OBVIOUS
<1>2. <<>> = [x \in {} |-> x]
  BY <1>1
<1>3. \A S : <<>> \in [{} -> S]
  BY <1>2
<1> QED
  BY <1>1, <1>3 DEF Partial

\* The plan of no command is a plan.
LEMMA NoPlanType ==
  /\ NoPlan \in Plans /\ NoLedger \in Ledgers /\ NoEntry \in Entries
  /\ NoPlan.request = <<"none">> /\ NoPlan.ledger = NoLedger /\ NoPlan.removals = {}
  /\ NoPlan.before = <<>> /\ NoPlan.writes = <<>> /\ NoPlan.links = {} /\ NoPlan.checks = {}
  /\ NoPlan.agreed = {} /\ NoPlan.changed = FALSE
<1>1. NoEntry \in Entries
  BY DEF NoEntry, Entries, Contents
<1>2. NoLedger \in Ledgers
  BY <1>1 DEF NoLedger, Ledgers
<1>3. <<"none">> \in Requests
  BY DEF Requests
<1> QED
  BY <1>1, <1>2, <1>3, EmptyFunction DEF NoPlan, Plans
-----------------------------------------------------------------------------
(* Plans.                                                                    *)

\* What a plan is, once its effects are compared with the disk.
Plan(q, r, l, removals, writes, links, checks, agreed) ==
  /\ q.request = r /\ q.ledger = l /\ q.changed = (l # ledger \/ links # {})
  /\ q.removals = removals /\ q.writes = writes /\ q.links = links
  /\ q.before = [s \in removals \cup DOMAIN writes |-> disk[s]]
  /\ q.checks = checks /\ q.agreed = agreed

\* Effective keeps what the planner chose, and fills in the rest.
LEMMA EffectivePlan ==
  ASSUME TypeOK, NEW x \in Plans, NEW q, q = Effective(x)
  PROVE  /\ q \in Plans
         /\ Plan(q, x.request, x.ledger, x.removals, x.writes, x.links, x.checks, x.agreed)
<1> DEFINE before == [s \in x.removals \cup DOMAIN x.writes |-> disk[s]]
<1> DEFINE changed == (x.ledger # ledger \/ x.links # {})
<1>1. x.removals \subseteq Slots /\ DOMAIN x.writes \subseteq Slots
  BY DEF Plans, Partial
<1>2. before \in Partial(Objects)
  <2>1. before \in [x.removals \cup DOMAIN x.writes -> Objects]
    BY <1>1 DEF TypeOK, DiskType, BookType, RunType
  <2> QED
    BY <1>1, <2>1 DEF Partial
<1>3. changed \in BOOLEAN
  OBVIOUS
<1>4. q = [x EXCEPT !.changed = changed, !.before = before]
  BY DEF Effective
<1> HIDE DEF before, changed
<1>5. q \in Plans
  BY <1>2, <1>3, <1>4 DEF Plans
<1>6. /\ q.request = x.request /\ q.ledger = x.ledger /\ q.changed = changed
      /\ q.removals = x.removals /\ q.writes = x.writes /\ q.links = x.links
      /\ q.before = before /\ q.checks = x.checks /\ q.agreed = x.agreed
  BY <1>4 DEF Plans
<1> QED
  BY <1>5, <1>6 DEF Plan, before, changed

\* What each of the planners decides, field by field.
Wanted(p) == Present \X DOMAIN p
RoleFiles(p, d) == [f \in Files |-> EntryFor(p, d, f)]
RoleLedger(p, d) == [on |-> TRUE, files |-> RoleFiles(p, d), links |-> Linked(DOMAIN p)]
RoleRemovals(p) ==
  {s \in {<<Feature, f>> : f \in Owned(ledger) \ DOMAIN p} \cup (OwnedLinks(ledger) \ Wanted(p)) :
     disk[s] # Nothing}
RoleWrites(p, d) ==
  [s \in {<<Feature, f>> : f \in {g \in DOMAIN p : RoleFiles(p, d)[g].data # At(g).data}} |->
     RoleFiles(p, d)[s[2]].data]
RoleLinks(p) == {l \in Wanted(p) : disk[l] = Nothing}
RoleChecks(p) ==
  {<<<<Feature, f>>, At(f)>> : f \in {g \in DOMAIN p \cup (Owned(ledger) \ DOMAIN p) : At(g) # Nothing}}
RoleAgreed(p, d) ==
  {<<<<Feature, f>>, At(f)>> : f \in {g \in DOMAIN p : needsDecision(p, d, g)}}

\* What is at the path of a file of the feature.
LEMMA AtType ==
  ASSUME TypeOK
  PROVE  \A f \in Files : At(f) \in Objects /\ At(f).data \in Contents
  BY SlotFacts DEF TypeOK, DiskType, BookType, RunType, At, Objects

\* The links of every present worktree, as a ledger records them.
LEMMA LinkedType ==
  ASSUME TypeOK, NEW fs \in SUBSET Files
  PROVE  Linked(fs) \in SUBSET (Worktrees \X Files \X Int)
  BY DEF TypeOK, DiskType, BookType, RunType, Linked, Present

\* The links of a ledger are paths.
LEMMA OwnedLinksType == ASSUME TypeOK PROVE OwnedLinks(ledger) \subseteq Links
  BY DEF TypeOK, DiskType, BookType, RunType, OwnedLinks, Links, Ledgers

\* The planner of roles makes an entry of every file.
LEMMA EntryType ==
  ASSUME TypeOK, NEW p \in Packages, NEW d \in Decisions, NEW f \in Files
  PROVE  EntryFor(p, d, f) \in Entries
<1>1. At(f).data \in Contents /\ ledger.files[f] \in Entries /\ NoEntry \in Entries
  BY AtType, NoPlanType DEF TypeOK, DiskType, BookType, RunType, Ledgers
<1>2. Edited \in Contents
  BY DEF Contents
<1>3. CASE f \notin DOMAIN p
  BY <1>1, <1>3 DEF EntryFor
<1>4. CASE f \in DOMAIN p
  <2>1. p[f] \in Contents
    BY <1>4, RenderedContents
  <2>2. Decided(p, d, f) \in Contents
    BY <1>1, <1>2, <2>1 DEF Decided
  <2> QED
    BY <1>1, <1>4, <2>1, <2>2 DEF EntryFor, Entries
<1> QED
  BY <1>3, <1>4

\* What tws template apply plans, when it does not refuse.
LEMMA RolesPlan ==
  ASSUME TypeOK, NEW p \in Packages, NEW d \in Decisions,
         NEW q, q = planManagedRoleFiles(p, d), q # Refused
  PROVE  /\ ~Residue /\ ~FilesRefused(p, d) /\ ~LinksRefused(p) /\ q \in Plans
         /\ Plan(q, <<"roles", p, d>>, RoleLedger(p, d), RoleRemovals(p), RoleWrites(p, d),
                 RoleLinks(p), RoleChecks(p), RoleAgreed(p, d))
<1>1. <<"roles", p, d>> \in Requests
  BY DEF Requests
<1>2. RoleLedger(p, d) \in Ledgers
  <2>1. RoleFiles(p, d) \in [Files -> Entries]
    BY EntryType DEF RoleFiles
  <2>2. Linked(DOMAIN p) \in SUBSET (Worktrees \X Files \X Int)
    BY LinkedType, TemplatesAssumption
  <2> QED
    BY <2>1, <2>2 DEF RoleLedger, Ledgers
<1>3. DOMAIN p \subseteq Files /\ Wanted(p) \subseteq Links
  BY TemplatesAssumption DEF Wanted, Present, Links
<1>4. RoleRemovals(p) \in SUBSET Slots /\ RoleLinks(p) \in SUBSET Slots
  BY <1>3, SlotFacts, OwnedLinksType DEF RoleRemovals, RoleLinks, Owned
<1>5. RoleWrites(p, d) \in Partial(Contents)
  <2> DEFINE D == {<<Feature, f>> : f \in {g \in DOMAIN p : RoleFiles(p, d)[g].data # At(g).data}}
  <2>1. D \in SUBSET Slots /\ \A s \in D : s[2] \in Files
    BY <1>3, SlotFacts
  <2>2. \A s \in D : RoleFiles(p, d)[s[2]].data \in Contents
    BY <2>1, EntryType DEF Entries, RoleFiles
  <2>3. RoleWrites(p, d) \in [D -> Contents]
    BY <2>2 DEF RoleWrites
  <2> QED
    BY <2>1, <2>3 DEF Partial
<1>6. RoleChecks(p) \in SUBSET (Slots \X Objects) /\ RoleAgreed(p, d) \in SUBSET (Slots \X Objects)
  BY <1>3, SlotFacts, AtType DEF RoleChecks, RoleAgreed, Owned
<1>7. ~Residue /\ ~FilesRefused(p, d) /\ ~LinksRefused(p)
  BY DEF planManagedRoleFiles
<1> DEFINE x == [NoPlan EXCEPT !.request = <<"roles", p, d>>, !.ledger = RoleLedger(p, d),
                   !.removals = RoleRemovals(p), !.writes = RoleWrites(p, d),
                   !.links = RoleLinks(p), !.checks = RoleChecks(p), !.agreed = RoleAgreed(p, d)]
<1>8. q = Effective(x)
  BY <1>7, Zenon
    DEF planManagedRoleFiles, RoleFiles, RoleLedger, RoleRemovals, RoleWrites, RoleLinks,
    RoleChecks, RoleAgreed, Wanted
<1>9. /\ x \in Plans /\ x.request = <<"roles", p, d>> /\ x.ledger = RoleLedger(p, d)
      /\ x.removals = RoleRemovals(p) /\ x.writes = RoleWrites(p, d) /\ x.links = RoleLinks(p)
      /\ x.checks = RoleChecks(p) /\ x.agreed = RoleAgreed(p, d)
  BY <1>1, <1>2, <1>4, <1>5, <1>6, NoPlanType DEF Plans
<1> HIDE DEF x
<1>10. /\ q \in Plans
       /\ Plan(q, x.request, x.ledger, x.removals, x.writes, x.links, x.checks, x.agreed)
  BY <1>8, <1>9, EffectivePlan
<1> QED
  BY <1>7, <1>9, <1>10

\* A ledger with other links.
LEMMA LedgerExcept ==
  ASSUME NEW l \in Ledgers, NEW links \in SUBSET (Worktrees \X Files \X Int)
  PROVE  /\ [l EXCEPT !.links = links] \in Ledgers
         /\ [l EXCEPT !.links = links].links = links
         /\ [l EXCEPT !.links = links].files = l.files
  BY DEF Ledgers

\* A recorded link is a worktree, a file and an incarnation.
LEMMA TripleFacts ==
  ASSUME NEW links \in SUBSET (Worktrees \X Files \X Int), NEW k \in links
  PROVE  k[1] \in Worktrees /\ k[2] \in Files /\ k[3] \in Int /\ k = <<k[1], k[2], k[3]>>
  OBVIOUS

\* The plan of tws inject, and of the links of a renamed worktree.
LinkedTo(w) == ledger.links \cup {<<w, f, wt[w]>> : f \in Owned(ledger)}
NewLinks(w) == {l \in {w} \X Owned(ledger) : disk[l] = Nothing}
LEMMA LinksPlan ==
  ASSUME TypeOK, NEW w \in Worktrees, NEW q, q = planManagedTemplateLinksOnly(w), q # Refused
  PROVE  /\ ~Residue /\ q \in Plans
         /\ \A l \in {w} \X Owned(ledger) : disk[l] # Nothing => matchOwnedLink(l)
         /\ Plan(q, <<"links", w>>, [ledger EXCEPT !.links = LinkedTo(w)], {}, <<>>,
                 NewLinks(w), {}, {})
<1>1. <<"links", w>> \in Requests
  BY DEF Requests
<1>2. LinkedTo(w) \in SUBSET (Worktrees \X Files \X Int)
  BY DEF TypeOK, DiskType, BookType, RunType, Ledgers, LinkedTo, Owned
<1>3. [ledger EXCEPT !.links = LinkedTo(w)] \in Ledgers
  BY <1>2, LedgerExcept DEF TypeOK, DiskType, BookType, RunType
<1>4. NewLinks(w) \in SUBSET Slots
  BY SlotFacts DEF NewLinks, Links, Owned
<1>5. ~Residue /\ \A l \in {w} \X Owned(ledger) : disk[l] # Nothing => matchOwnedLink(l)
  BY DEF planManagedTemplateLinksOnly
<1> DEFINE x == [NoPlan EXCEPT !.request = <<"links", w>>, !.links = NewLinks(w),
                   !.ledger = [ledger EXCEPT !.links = LinkedTo(w)]]
<1>6. q = Effective(x)
  BY Zenon DEF planManagedTemplateLinksOnly, LinkedTo, NewLinks
<1>7. /\ x \in Plans /\ x.request = <<"links", w>> /\ x.links = NewLinks(w)
      /\ x.ledger = [ledger EXCEPT !.links = LinkedTo(w)]
      /\ x.removals = {} /\ x.writes = <<>> /\ x.checks = {} /\ x.agreed = {}
  BY <1>1, <1>3, <1>4, NoPlanType DEF Plans
<1> HIDE DEF x
<1>8. /\ q \in Plans
      /\ Plan(q, x.request, x.ledger, x.removals, x.writes, x.links, x.checks, x.agreed)
  BY <1>6, <1>7, EffectivePlan
<1> QED
  BY <1>5, <1>7, <1>8

\* The plan of an archived or renamed worktree.
Remaining(w) == ledger.links \ {k \in ledger.links : k[1] = w}
LEMMA RetirePlan ==
  ASSUME TypeOK, NEW w \in Worktrees, NEW q, q = planManagedTemplateWorktreeRetirement(w),
         q # Refused
  PROVE  /\ q \in Plans
         /\ Plan(q, <<"retire", w>>, [ledger EXCEPT !.links = Remaining(w)], {}, <<>>,
                 {}, {}, {})
<1>1. <<"retire", w>> \in Requests
  BY DEF Requests
<1>2. Remaining(w) \in SUBSET (Worktrees \X Files \X Int)
  BY DEF TypeOK, DiskType, BookType, RunType, Ledgers, Remaining
<1>3. [ledger EXCEPT !.links = Remaining(w)] \in Ledgers
  BY <1>2, LedgerExcept DEF TypeOK, DiskType, BookType, RunType
<1> DEFINE x == [NoPlan EXCEPT !.request = <<"retire", w>>,
                   !.ledger = [ledger EXCEPT !.links = Remaining(w)]]
<1>6. q = Effective(x)
  BY Zenon DEF planManagedTemplateWorktreeRetirement, Remaining
<1>7. /\ x \in Plans /\ x.request = <<"retire", w>> /\ x.links = {}
      /\ x.ledger = [ledger EXCEPT !.links = Remaining(w)]
      /\ x.removals = {} /\ x.writes = <<>> /\ x.checks = {} /\ x.agreed = {}
  BY <1>1, <1>3, NoPlanType DEF Plans
<1> HIDE DEF x
<1>8. /\ q \in Plans
      /\ Plan(q, x.request, x.ledger, x.removals, x.writes, x.links, x.checks, x.agreed)
  BY <1>6, <1>7, EffectivePlan
<1> QED
  BY <1>7, <1>8

\* The same plan on another command's behalf.
LEMMA PlanFor ==
  ASSUME NEW q \in Plans, NEW r \in Requests, NEW z, z = [q EXCEPT !.request = r]
  PROVE  /\ z \in Plans /\ z.request = r /\ z.ledger = q.ledger /\ z.changed = q.changed
         /\ z.removals = q.removals /\ z.before = q.before /\ z.writes = q.writes
         /\ z.links = q.links /\ z.checks = q.checks /\ z.agreed = q.agreed
  BY DEF Plans

\* What each command was asked.
LEMMA RequestFacts ==
  ASSUME NEW r \in Requests
  PROVE  /\ r[1] = "roles" => r[2] \in Packages /\ r[3] \in Decisions
         /\ r[1] \in {"links", "retire", "reinject", "restore", "rename"} => r[2] \in Worktrees
         /\ r[1] = "rename" => r[3] \in Worktrees /\ r[4] \in Worktrees \cup {Elsewhere}
         /\ r[1] \in {"none", "roles", "links", "retire", "reinject", "restore", "rename"}
<1>1. CASE r = <<"none">>
  BY <1>1
<1>2. CASE r \in {"roles"} \X Packages \X Decisions
  BY <1>2
<1>3. CASE r \in {"links", "retire", "reinject", "restore"} \X Worktrees
  BY <1>3
<1>4. CASE r \in {"rename"} \X Worktrees \X Worktrees \X (Worktrees \cup {Elsewhere}) \X BOOLEAN
  BY <1>4
<1> QED
  BY <1>1, <1>2, <1>3, <1>4 DEF Requests

\* The plan that gives a worktree its links back.
LEMMA RestorePlan ==
  ASSUME TypeOK, pc = "put links back", RelationOK,
         RestoreManagedTemplateRetirementAfterRollback,
         pc' = "open"
  PROVE  LET back == {<<k[1], k[2]>> : k \in RetiredLinks}
             links == plan.ledger.links \cup {<<Old, k[2], wt[Old]>> : k \in RetiredLinks}
         IN /\ Old \in Worktrees /\ plan' \in Plans
            /\ plan.ledger = [ledger EXCEPT !.links = @ \ RetiredLinks]
            /\ \A k \in RetiredLinks : disk[<<k[1], k[2]>>] = Nothing
            /\ Plan(plan', <<"restore", Old>>, [plan.ledger EXCEPT !.links = links], {}, <<>>,
                    back, {}, {})
<1> DEFINE back == {<<k[1], k[2]>> : k \in RetiredLinks}
<1> DEFINE links == plan.ledger.links \cup {<<Old, k[2], wt[Old]>> : k \in RetiredLinks}
<1>1. Old \in Worktrees
  <2>1. plan.request \in Requests /\ plan.request[1] = "rename"
    BY DEF RelationOK, TypeOK, DiskType, BookType, RunType, Renames, Plans
  <2> QED
    BY <2>1, RequestFacts DEF Old
<1>2. <<"restore", Old>> \in Requests
  BY <1>1 DEF Requests
<1>0. RetiredLinks \in SUBSET (Worktrees \X Files \X Int)
  BY DEF RetiredLinks, TypeOK, DiskType, BookType, RunType, Ledgers
<1>3. back \in SUBSET Slots
  <2>1. \A k \in RetiredLinks : <<k[1], k[2]>> \in Links
    BY <1>0, TripleFacts DEF Links
  <2> QED
    BY <2>1, SlotFacts
<1>4. links \in SUBSET (Worktrees \X Files \X Int)
  <2>1. plan.ledger.links \in SUBSET (Worktrees \X Files \X Int) /\ wt[Old] \in Int
    BY <1>1 DEF TypeOK, DiskType, BookType, RunType, Plans, Ledgers
  <2>2. \A k \in RetiredLinks : <<Old, k[2], wt[Old]>> \in Worktrees \X Files \X Int
    BY <1>0, <1>1, <2>1, TripleFacts
  <2> QED
    BY <2>1, <2>2
<1>5. [plan.ledger EXCEPT !.links = links] \in Ledgers
  BY <1>4, LedgerExcept DEF TypeOK, DiskType, BookType, RunType, Plans
<1>6. /\ plan.ledger = [ledger EXCEPT !.links = @ \ RetiredLinks]
      /\ \A k \in RetiredLinks : disk[<<k[1], k[2]>>] = Nothing
      /\ plan' = Effective([NoPlan EXCEPT !.request = <<"restore", Old>>, !.links = back,
                              !.ledger = [plan.ledger EXCEPT !.links = links]])
  BY DEF RestoreManagedTemplateRetirementAfterRollback, To, Fail, Idle
<1> DEFINE x == [NoPlan EXCEPT !.request = <<"restore", Old>>, !.links = back,
                   !.ledger = [plan.ledger EXCEPT !.links = links]]
<1>7. /\ x \in Plans /\ x.request = <<"restore", Old>> /\ x.links = back
      /\ x.ledger = [plan.ledger EXCEPT !.links = links]
      /\ x.removals = {} /\ x.writes = <<>> /\ x.checks = {} /\ x.agreed = {}
  BY <1>2, <1>3, <1>5, NoPlanType DEF Plans
<1> HIDE DEF x
<1>8. /\ plan' \in Plans
      /\ Plan(plan', x.request, x.ledger, x.removals, x.writes, x.links, x.checks, x.agreed)
  BY <1>6, <1>7, EffectivePlan DEF x
<1> QED
  BY <1>1, <1>6, <1>7, <1>8
-----------------------------------------------------------------------------
(* What the plans lead to.                                                   *)

\* The entry of a file that a plan does not write is what is at its path.
LEMMA EntryFacts ==
  ASSUME TypeOK, LedgersOK, NEW p \in Packages, NEW d \in Decisions, ~FilesRefused(p, d),
         NEW f \in Files
  PROVE  LET new == EntryFor(p, d, f) IN
         /\ new.incoming # Mine
         /\ f \notin DOMAIN p => new.data = ""
         /\ f \in DOMAIN p /\ At(f) = Foreign(Mine) /\ new.data # At(f).data => needsDecision(p, d, f)
<1>1. NoEntry.data = "" /\ NoEntry.incoming # Mine /\ ledger.files[f].incoming # Mine
  BY DEF NoEntry, Mine, LedgersOK, Honest
<1>2. CASE f \notin DOMAIN p
  BY <1>1, <1>2 DEF EntryFor
<1>3. CASE f \in DOMAIN p
  <2>1. p[f] # Mine
    BY <1>3, RenderedContents
  <2>2. EntryFor(p, d, f).incoming # Mine
    BY <1>1, <1>3, <2>1 DEF EntryFor
  <2>3. ASSUME At(f) = Foreign(Mine), ~needsDecision(p, d, f)
        PROVE  EntryFor(p, d, f).data = At(f).data
    <3>1. At(f) # Nothing /\ At(f).data = Mine
      BY <2>3, ObjectFacts
    <3>2. ledger.files[f].data = Mine
      BY <2>3, <3>1 DEF needsDecision
    <3>3. Override(ledger.files[f])
      BY <1>1, <3>2 DEF Override
    <3> QED
      BY <1>3, <2>3, <3>1, <3>2, <3>3 DEF EntryFor
  <2> QED
    BY <1>3, <2>2, <2>3
<1> QED
  BY <1>2, <1>3

\* The plan of roles knows what it changes, and its ledger is what it leads to.
LEMMA RoleSound ==
  ASSUME TypeOK, LedgersOK, NEW p \in Packages, NEW d \in Decisions,
         NEW q, q = planManagedRoleFiles(p, d), q # Refused
  PROVE  Sound(q) /\ Leads(q) /\ Known(q.ledger.links) /\ Honest(q.ledger)
<1>1. /\ ~FilesRefused(p, d) /\ ~LinksRefused(p)
      /\ Plan(q, <<"roles", p, d>>, RoleLedger(p, d), RoleRemovals(p), RoleWrites(p, d),
              RoleLinks(p), RoleChecks(p), RoleAgreed(p, d))
  BY RolesPlan
<1>2. /\ q.ledger = RoleLedger(p, d) /\ q.removals = RoleRemovals(p) /\ q.writes = RoleWrites(p, d)
      /\ q.links = RoleLinks(p) /\ q.agreed = RoleAgreed(p, d)
      /\ q.before = [s \in q.removals \cup DOMAIN q.writes |-> disk[s]]
  BY <1>1 DEF Plan
<1>3. /\ q.ledger.files = RoleFiles(p, d) /\ q.ledger.links = Linked(DOMAIN p)
      /\ \A f \in Files : RoleFiles(p, d)[f] = EntryFor(p, d, f)
  BY <1>2 DEF RoleLedger, RoleFiles
<1>4. DOMAIN p \subseteq Files /\ Wanted(p) \subseteq Links
  BY TemplatesAssumption DEF Wanted, Present, Links
<1>5. DOMAIN q.writes = {<<Feature, f>> : f \in {g \in DOMAIN p : EntryFor(p, d, g).data # At(g).data}}
  BY <1>2, <1>3, <1>4 DEF RoleWrites
<1>6. \A s \in DOMAIN q.writes : s \in Places /\ q.writes[s] = RoleFiles(p, d)[s[2]].data
  BY <1>2, <1>4, <1>5, SlotFacts DEF RoleWrites
<1>7. \A s \in q.removals :
        \/ /\ s \in Places /\ s = <<Feature, s[2]>> /\ s[2] \in Owned(ledger) \ DOMAIN p
           /\ disk[s] # Nothing
        \/ s \in OwnedLinks(ledger) \ Wanted(p) /\ s \in Links /\ disk[s] # Nothing
  BY <1>2, SlotFacts, OwnedLinksType DEF RoleRemovals, Owned
<1>8. \A l \in OwnedLinks(ledger) \cup Wanted(p) : disk[l] # Nothing => matchOwnedLink(l)
  BY <1>1 DEF LinksRefused, Wanted
<1>9. \A k \in ledger.links : k \in Worktrees \X Files \X Int /\ wt[k[1]] = k[3] /\ k[3] > 0
  <2>1. \A k \in ledger.links : wt[k[1]] = k[3]
    BY <1>1 DEF LinksRefused, Stale
  <2> QED
    BY <2>1 DEF TypeOK, DiskType, BookType, RunType, Ledgers, LedgersOK, Known
<1>10. Sound(q)
  <2>1. DOMAIN q.before = q.removals \cup DOMAIN q.writes
    BY <1>2
  <2>2. q.links \subseteq Links /\ DOMAIN q.writes \subseteq Places
    BY <1>2, <1>4, <1>6 DEF RoleLinks
  <2>3. q.removals \cap (DOMAIN q.writes \cup q.links) = {}
    <3>1. \A s \in DOMAIN q.writes : s[2] \in DOMAIN p
      BY <1>5
    <3>2. q.links \subseteq Wanted(p)
      BY <1>2 DEF RoleLinks
    <3> QED
      BY <1>6, <1>7, <2>2, <3>1, <3>2, SlotFacts
  <2>4. ASSUME NEW s \in DOMAIN q.before, q.before[s] = Foreign(Mine)
        PROVE  s \notin q.removals /\ <<s, Foreign(Mine)>> \in q.agreed
    <3>1. disk[s] = Foreign(Mine)
      BY <1>2, <2>4
    <3>2. CASE s \in q.removals
      <4>1. CASE s \in OwnedLinks(ledger)
        <5>1. disk[s] = Link
          BY <1>7, <1>8, <3>2, <4>1 DEF matchOwnedLink
        <5> QED
          BY <3>1, <5>1, ObjectFacts
      <4>2. CASE s = <<Feature, s[2]>> /\ s[2] \in Owned(ledger) \ DOMAIN p /\ disk[s] # Nothing
        <5>1. At(s[2]).data = Mine /\ At(s[2]) # Nothing
          BY <3>1, <4>2, ObjectFacts DEF At
        <5>2. matchOwnedFile(s[2]) /\ ~Override(ledger.files[s[2]])
          BY <1>1, <4>2, <5>1 DEF FilesRefused
        <5>3. ledger.files[s[2]].incoming # Mine
          BY <4>2 DEF LedgersOK, Honest, Owned
        <5> QED
          BY <5>1, <5>2, <5>3 DEF matchOwnedFile, Override
      <4> QED
        BY <1>7, <3>2, <4>1, <4>2
    <3>3. CASE s \in DOMAIN q.writes
      <4>1. PICK f \in DOMAIN p : s = <<Feature, f>> /\ EntryFor(p, d, f).data # At(f).data
        BY <1>5, <3>3
      <4>2. At(f) = Foreign(Mine)
        BY <3>1, <4>1 DEF At
      <4>3. needsDecision(p, d, f)
        BY <1>1, <1>4, <4>1, <4>2, EntryFacts
      <4>4. <<s, Foreign(Mine)>> \in q.agreed
        BY <1>2, <4>1, <4>2, <4>3 DEF RoleAgreed
      <4> QED
        BY <2>3, <3>3, <4>4
    <3> QED
      BY <2>1, <2>4, <3>2, <3>3
  <2> QED
    BY <2>1, <2>2, <2>3, <2>4 DEF Sound
<1>11. Leads(q)
  <2>1. ASSUME NEW f \in Files, <<Feature, f>> \in q.removals
        PROVE  q.ledger.files[f].data = ""
    <3>1. <<Feature, f>> \notin Links
      BY SlotFacts
    <3>2. f \in Owned(ledger) \ DOMAIN p
      BY <1>7, <2>1, <3>1
    <3>3. EntryFor(p, d, f).data = ""
      BY <1>1, <3>2, EntryFacts
    <3> QED
      BY <1>3, <3>3
  <2>2. ASSUME NEW s \in DOMAIN q.writes PROVE q.writes[s] = q.ledger.files[s[2]].data
    BY <1>3, <1>6
  <2>3. ASSUME NEW l \in q.links
        PROVE  wt[l[1]] > 0 /\ <<l[1], l[2], wt[l[1]]>> \in q.ledger.links
    <3>1. l[1] \in Present /\ l[2] \in DOMAIN p
      BY <1>2, <2>3 DEF RoleLinks, Wanted
    <3> QED
      BY <1>3, <3>1 DEF Linked, Present
  <2>4. ASSUME NEW l \in Links \cap q.removals
        PROVE  wt[l[1]] > 0 /\ \A k \in q.ledger.links : <<k[1], k[2]>> # l
    <3>1. l \in OwnedLinks(ledger) \ Wanted(p)
      BY <1>7, SlotFacts
    <3>2. PICK k \in ledger.links : l = <<k[1], k[2]>>
      BY <3>1 DEF OwnedLinks
    <3>3. wt[l[1]] > 0
      BY <1>9, <3>2
    <3>4. \A j \in q.ledger.links : <<j[1], j[2]>> \in Wanted(p)
      BY <1>3 DEF Linked, Wanted
    <3> QED
      BY <3>1, <3>3, <3>4
  <2> QED
    BY <2>1, <2>2, <2>3, <2>4 DEF Leads
<1>12. Known(q.ledger.links)
  BY <1>3 DEF Known, Linked, Present, TypeOK, DiskType, BookType, RunType
<1>13. Honest(q.ledger)
  BY <1>1, <1>3, EntryFacts DEF Honest
<1> QED
  BY <1>10, <1>11, <1>12, <1>13

\* What the ledger of synchronized files says is right wherever the plan has
\* nothing to do.
LEMMA RoleRight ==
  ASSUME TypeOK, LedgersOK, NEW p \in Packages, NEW d \in Decisions,
         NEW q, q = planManagedRoleFiles(p, d), q # Refused, Right(ledger, {})
  PROVE  Right(q.ledger, Changes(q))
<1>1. /\ ~FilesRefused(p, d) /\ ~LinksRefused(p)
      /\ Plan(q, <<"roles", p, d>>, RoleLedger(p, d), RoleRemovals(p), RoleWrites(p, d),
              RoleLinks(p), RoleChecks(p), RoleAgreed(p, d))
  BY RolesPlan
<1>2. /\ q.ledger = RoleLedger(p, d) /\ q.removals = RoleRemovals(p) /\ q.writes = RoleWrites(p, d)
      /\ q.links = RoleLinks(p)
  BY <1>1 DEF Plan
<1>3. /\ q.ledger.files = RoleFiles(p, d) /\ q.ledger.links = Linked(DOMAIN p)
      /\ \A f \in Files : RoleFiles(p, d)[f] = EntryFor(p, d, f)
  BY <1>2 DEF RoleLedger, RoleFiles
<1>4. ASSUME NEW f \in Files, <<Feature, f>> \notin touched \cup Changes(q)
      PROVE  At(f).data = q.ledger.files[f].data
  <2>1. CASE f \in DOMAIN p
    <3>1. <<Feature, f>> \notin DOMAIN RoleWrites(p, d)
      BY <1>2, <1>4 DEF Changes
    <3> QED
      BY <1>3, <2>1, <3>1 DEF RoleWrites
  <2>2. CASE f \notin DOMAIN p
    <3>1. q.ledger.files[f].data = ""
      BY <1>1, <1>3, <2>2, EntryFacts
    <3>2. CASE f \in Owned(ledger)
      <4>1. disk[<<Feature, f>>] = Nothing
        BY <1>2, <1>4, <2>2, <3>2 DEF Changes, RoleRemovals
      <4> QED
        BY <3>1, <4>1, ObjectFacts DEF At
    <3>3. CASE f \notin Owned(ledger)
      <4>1. ledger.files[f].data = ""
        <5>1. ledger.files[f] = NoEntry
          BY <3>3 DEF Owned
        <5>2. NoEntry.data = ""
          BY DEF NoEntry
        <5> QED
          BY <5>1, <5>2
      <4>2. At(f).data = ledger.files[f].data
        BY <1>4 DEF Right, FilesRight
      <4> QED
        BY <3>1, <4>1, <4>2
    <3> QED
      BY <3>2, <3>3
  <2> QED
    BY <2>1, <2>2
<1>5. ASSUME NEW s \in Links, s \notin touched \cup Changes(q), wt[s[1]] > 0
      PROVE  (disk[s] = Link) <=> (<<s[1], s[2], wt[s[1]]>> \in q.ledger.links)
  <2>1. s[1] \in Present /\ s[2] \in Files /\ s = <<s[1], s[2]>>
    BY <1>5, SlotFacts DEF Present
  <2>2. (s \in Wanted(p)) <=> (<<s[1], s[2], wt[s[1]]>> \in q.ledger.links)
    BY <1>3, <2>1 DEF Wanted, Linked
  <2>3. CASE s \in Wanted(p)
    <3>1. disk[s] # Nothing
      BY <1>2, <1>5, <2>3 DEF Changes, RoleLinks
    <3>2. disk[s] = Link
      BY <1>1, <2>3, <3>1 DEF LinksRefused, Wanted, matchOwnedLink
    <3> QED
      BY <2>2, <2>3, <3>2
  <2>4. CASE s \notin Wanted(p)
    <3>1. CASE s \in OwnedLinks(ledger)
      <4>1. disk[s] = Nothing
        BY <1>2, <1>5, <2>4, <3>1 DEF Changes, RoleRemovals
      <4> QED
        BY <2>2, <2>4, <4>1, ObjectFacts
    <3>2. CASE s \notin OwnedLinks(ledger)
      <4>1. <<s[1], s[2], wt[s[1]]>> \notin ledger.links
        BY <2>1, <3>2 DEF OwnedLinks
      <4>2. disk[s] # Link
        BY <1>5, <4>1 DEF Right, LinksRight
      <4> QED
        BY <2>2, <2>4, <4>2
    <3> QED
      BY <3>1, <3>2
  <2> QED
    BY <2>3, <2>4
<1> QED
  BY <1>4, <1>5 DEF Right, FilesRight, LinksRight

\* A plan with effects, on files or links, changes a file or the ledger.
LEMMA RoleReaches ==
  ASSUME TypeOK, LedgersOK, NEW p \in Packages, NEW d \in Decisions,
         NEW q, q = planManagedRoleFiles(p, d), q # Refused, HasEffects(q)
  PROVE  Reaches(q)
<1>1. /\ Sound(q) /\ Leads(q)
      /\ Plan(q, <<"roles", p, d>>, RoleLedger(p, d), RoleRemovals(p), RoleWrites(p, d),
              RoleLinks(p), RoleChecks(p), RoleAgreed(p, d))
  BY RolesPlan, RoleSound
<1>2. /\ q.ledger = RoleLedger(p, d) /\ q.removals = RoleRemovals(p)
      /\ q.changed = (q.ledger # ledger \/ q.links # {})
  BY <1>1 DEF Plan
<1>3. CASE q.links # {} \/ q.changed
  BY <1>2, <1>3 DEF Reaches
<1>4. CASE DOMAIN q.writes # {}
  BY <1>1, <1>4, SlotFacts DEF Reaches, Sound
<1>5. ASSUME NEW s \in q.removals, s \in Links PROVE q.changed
  <2>1. s \in OwnedLinks(ledger)
    BY <1>2, <1>5, SlotFacts DEF RoleRemovals
  <2>2. PICK k \in ledger.links : s = <<k[1], k[2]>>
    BY <2>1 DEF OwnedLinks
  <2>3. k \notin q.ledger.links
    BY <1>1, <1>5, <2>2 DEF Leads
  <2> QED
    BY <1>2, <2>2, <2>3
<1>6. CASE q.removals # {}
  <2>1. PICK s \in q.removals : TRUE
    BY <1>6
  <2>2. s \in Slots
    BY <1>2, SlotFacts, OwnedLinksType DEF RoleRemovals, Owned
  <2>3. CASE s \in Links
    BY <1>5, <2>3 DEF Reaches
  <2>4. CASE s \in Places
    BY <2>4, SlotFacts DEF Reaches
  <2> QED
    BY <2>2, <2>3, <2>4 DEF Slots
<1> QED
  BY <1>3, <1>4, <1>6 DEF HasEffects

\* A plan that only links and records: it moves nothing aside.
Light(q) ==
  /\ q.removals = {} /\ DOMAIN q.writes = {} /\ DOMAIN q.before = {}
  /\ q.ledger.files = ledger.files /\ q.changed = (q.ledger # ledger \/ q.links # {})

\* The plans of links and of retirements are light.
LEMMA LightPlan ==
  ASSUME TypeOK, NEW q, NEW r, NEW links \in SUBSET (Worktrees \X Files \X Int), NEW new,
         Plan(q, r, [ledger EXCEPT !.links = links], {}, <<>>, new, {}, {})
  PROVE  /\ Light(q) /\ q.request = r /\ q.links = new /\ q.ledger.links = links
         /\ q.ledger = [ledger EXCEPT !.links = links]
<1>1. /\ q.request = r /\ q.ledger = [ledger EXCEPT !.links = links] /\ q.removals = {}
      /\ q.writes = <<>> /\ q.links = new /\ q.before = [s \in {} \cup DOMAIN <<>> |-> disk[s]]
      /\ q.changed = (q.ledger # ledger \/ q.links # {})
  BY DEF Plan
<1>2. ledger \in Ledgers
  BY DEF TypeOK, DiskType, BookType, RunType
<1>3. q.ledger.links = links /\ q.ledger.files = ledger.files
  BY <1>1, <1>2, LedgerExcept
<1>4. DOMAIN q.writes = {} /\ DOMAIN q.before = {}
  BY <1>1, EmptyFunction
<1> QED
  BY <1>1, <1>3, <1>4 DEF Light

\* A light plan is sound when its links are of present worktrees.
LEMMA LightSound ==
  ASSUME TypeOK, LedgersOK, NEW q, Light(q), q.links \subseteq Links,
         \A l \in q.links : wt[l[1]] > 0 /\ <<l[1], l[2], wt[l[1]]>> \in q.ledger.links
  PROVE  Sound(q) /\ Leads(q) /\ Honest(q.ledger) /\ (HasEffects(q) => Reaches(q))
  BY DEF Light, Sound, Leads, LedgersOK, Honest, HasEffects, Reaches

\* A light plan's ledger is right when it is about the links it keeps.
LEMMA LightRight ==
  ASSUME TypeOK, NEW q, Light(q), Right(ledger, {}),
         \A s \in Links : s \notin touched \cup q.links /\ wt[s[1]] > 0 =>
           ((disk[s] = Link) <=> (<<s[1], s[2], wt[s[1]]>> \in q.ledger.links))
  PROVE  Right(q.ledger, Changes(q))
  BY SlotFacts DEF Light, Right, FilesRight, LinksRight, Changes

\* The plan of links is sound.
LEMMA LinksSound ==
  ASSUME TypeOK, LedgersOK, NEW w \in Present, NEW q,
         Light(q), q.links = NewLinks(w), q.ledger.links = LinkedTo(w)
  PROVE  /\ Sound(q) /\ Leads(q) /\ Known(q.ledger.links) /\ Honest(q.ledger)
         /\ HasEffects(q) => Reaches(q)
<1>1. wt[w] > 0 /\ w \in Worktrees /\ wt[w] \in Int
  BY DEF Present, TypeOK, DiskType, BookType, RunType
<1>2. q.links \subseteq Links
  BY <1>1 DEF NewLinks, Links, Owned
<1>3. \A l \in q.links : wt[l[1]] > 0 /\ <<l[1], l[2], wt[l[1]]>> \in q.ledger.links
  BY <1>1 DEF NewLinks, LinkedTo
<1>4. Known(q.ledger.links)
  BY <1>1 DEF Known, LinkedTo, LedgersOK
<1> QED
  BY <1>2, <1>3, <1>4, LightSound

\* Its ledger is right about every path but those it links.
LEMMA LinksRightAfter ==
  ASSUME TypeOK, NEW w \in Present, NEW q,
         Light(q), q.links = NewLinks(w), q.ledger.links = LinkedTo(w),
         \A l \in {w} \X Owned(ledger) : disk[l] # Nothing => matchOwnedLink(l),
         Right(ledger, {})
  PROVE  Right(q.ledger, Changes(q))
<1>1. ASSUME NEW s \in Links, s \notin touched \cup q.links, wt[s[1]] > 0
      PROVE  (disk[s] = Link) <=> (<<s[1], s[2], wt[s[1]]>> \in q.ledger.links)
  <2>1. (disk[s] = Link) <=> (<<s[1], s[2], wt[s[1]]>> \in ledger.links)
    BY <1>1 DEF Right, LinksRight
  <2>2. s = <<s[1], s[2]>>
    BY SlotFacts
  <2>3. CASE s \in {w} \X Owned(ledger)
    <3>1. disk[s] # Nothing
      BY <1>1, <2>3 DEF NewLinks
    <3>2. disk[s] = Link
      BY <2>3, <3>1 DEF matchOwnedLink
    <3> QED
      BY <2>1, <3>2 DEF LinkedTo
  <2>4. CASE s \notin {w} \X Owned(ledger)
    <3>1. <<s[1], s[2], wt[s[1]]>> \notin {<<w, f, wt[w]>> : f \in Owned(ledger)}
      BY <2>2, <2>4
    <3> QED
      BY <2>1, <3>1 DEF LinkedTo
  <2> QED
    BY <2>3, <2>4
<1> QED
  BY <1>1, LightRight

\* A retirement keeps the other links.
LEMMA RetireSound ==
  ASSUME TypeOK, LedgersOK, NEW w \in Worktrees, NEW q,
         Light(q), q.links = {}, q.ledger.links = Remaining(w)
  PROVE  Sound(q) /\ Leads(q) /\ Known(q.ledger.links) /\ Honest(q.ledger)
<1>1. Known(q.ledger.links)
  BY DEF Known, Remaining, LedgersOK
<1> QED
  BY <1>1, LightSound

\* Once its worktree is gone, or another one, the rest is right.
LEMMA RetireRight ==
  ASSUME TypeOK, NEW w \in Worktrees, NEW q, Light(q), q.links = {},
         q.ledger.links = {k \in ledger.links : k[1] # w}, wt[w] <= 0, Right(ledger, {})
  PROVE  Right(q.ledger, Changes(q))
<1>1. ASSUME NEW s \in Links, s \notin touched \cup q.links, wt[s[1]] > 0
      PROVE  (disk[s] = Link) <=> (<<s[1], s[2], wt[s[1]]>> \in q.ledger.links)
  <2>1. (disk[s] = Link) <=> (<<s[1], s[2], wt[s[1]]>> \in ledger.links)
    BY <1>1 DEF Right, LinksRight
  <2>2. s[1] # w
    BY <1>1 DEF TypeOK, DiskType, BookType, RunType
  <2> QED
    BY <2>1, <2>2
<1> QED
  BY <1>1, LightRight

\* The links that are put back are those of the worktree that came back.
LEMMA RestoreSound ==
  ASSUME TypeOK, LedgersOK, NEW w \in Worktrees, wt[w] > 0, NEW q,
         LET own == {k \in ledger.links : k[1] = w} IN
           /\ Light(q) /\ q.links = {<<k[1], k[2]>> : k \in own}
           /\ q.ledger.links = (ledger.links \ own) \cup {<<w, k[2], wt[w]>> : k \in own}
  PROVE  Sound(q) /\ Leads(q) /\ Known(q.ledger.links) /\ Honest(q.ledger)
<1> DEFINE back == {k \in ledger.links : k[1] = w}
<1>1. /\ Light(q) /\ q.links = {<<k[1], k[2]>> : k \in back}
      /\ q.ledger.links = (ledger.links \ back) \cup {<<w, k[2], wt[w]>> : k \in back}
  OBVIOUS
<1>2. \A k \in back : k[1] = w /\ k[2] \in Files /\ <<k[1], k[2]>> \in Links
  BY DEF TypeOK, DiskType, BookType, RunType, Ledgers, Links
<1>3. q.links \subseteq Links
  BY <1>1, <1>2
<1>4. \A l \in q.links : wt[l[1]] > 0 /\ <<l[1], l[2], wt[l[1]]>> \in q.ledger.links
  BY <1>1, <1>2
<1>5. Known(q.ledger.links)
  <2>1. wt[w] \in Int
    BY DEF TypeOK, DiskType, BookType, RunType
  <2> QED
    BY <1>1, <2>1 DEF Known, LedgersOK
<1> QED
  BY <1>1, <1>3, <1>4, <1>5, LightSound

\* So is the ledger of a rename that is taken back.
LEMMA RestoreRight ==
  ASSUME TypeOK, NEW w \in Worktrees, wt[w] > 0, NEW q, Right(ledger, {}),
         LET own == {k \in ledger.links : k[1] = w} IN
           /\ Light(q) /\ q.links = {<<k[1], k[2]>> : k \in own}
           /\ q.ledger.links = (ledger.links \ own) \cup {<<w, k[2], wt[w]>> : k \in own}
  PROVE  Right(q.ledger, Changes(q))
<1> DEFINE back == {k \in ledger.links : k[1] = w}
<1>1. /\ Light(q) /\ q.links = {<<k[1], k[2]>> : k \in back}
      /\ q.ledger.links = (ledger.links \ back) \cup {<<w, k[2], wt[w]>> : k \in back}
  OBVIOUS
<1>2. ASSUME NEW s \in Links, s \notin touched \cup q.links, wt[s[1]] > 0
      PROVE  (disk[s] = Link) <=> (<<s[1], s[2], wt[s[1]]>> \in q.ledger.links)
  <2>1. (disk[s] = Link) <=> (<<s[1], s[2], wt[s[1]]>> \in ledger.links)
    BY <1>2 DEF Right, LinksRight
  <2>2. s = <<s[1], s[2]>>
    BY SlotFacts
  <2>3. CASE s[1] # w
    BY <1>1, <2>1, <2>3
  <2>4. CASE s[1] = w
    <3>1. <<s[1], s[2], wt[s[1]]>> \notin back
      BY <1>1, <1>2, <2>2
    <3>2. \A k \in back : k[2] # s[2]
      BY <1>1, <1>2, <2>2, <2>4
    <3> QED
      BY <1>1, <2>1, <2>4, <3>1, <3>2
  <2> QED
    BY <2>3, <2>4
<1> QED
  BY <1>1, <1>2, LightRight
-----------------------------------------------------------------------------
(* Types.                                                                    *)

\* The ways a command starts, goes on and ends.
LEMMA IdleType == ASSUME Idle PROVE RunType'
  BY NoPlanType DEF Idle, RunType, Labels

LEMMA BeginType ==
  ASSUME CountType, NEW q \in Plans, NEW next \in Labels \ {"roots", "clean"}, Begin(q, next)
  PROVE  RunType' /\ CountType'
  BY DEF Begin, RunType, CountType

LEMMA ToType ==
  ASSUME NEW q \in Plans, NEW next \in Labels \ {"roots", "clean"}, To(next, q)
  PROVE  RunType'
  BY DEF To, RunType

\* A command that fails.
LEMMA FailType == ASSUME TypeOK, Fail PROVE TypeOK'
<1>1. RunType'
  BY IdleType DEF Fail
<1>2. DiskType'
  BY DEF Fail, TypeOK, DiskType, Account, RootNames, history
<1>3. BookType' /\ CountType'
  BY DEF Fail, TypeOK, BookType, CountType, git, bounds
<1> QED
  BY <1>1, <1>2, <1>3 DEF TypeOK

\* Steps that leave a part of the state alone.
LEMMA SameRun == ASSUME RunType, UNCHANGED run PROVE RunType'
  BY DEF RunType, run
LEMMA SameDisk == ASSUME DiskType, UNCHANGED <<disk, kept, evidence, history>> PROVE DiskType'
  BY DEF DiskType, history
LEMMA SameBook == ASSUME BookType, UNCHANGED <<ledger, wt, git>> PROVE BookType'
  BY DEF BookType, git
LEMMA SameCount == ASSUME CountType, UNCHANGED bounds PROVE CountType'
  BY DEF CountType, bounds

\* What a rename under way was asked.
LEMMA RenameFacts ==
  ASSUME TypeOK, RelationOK, pc \in Renames
  PROVE  /\ plan.request[1] = "rename" /\ Old \in Worktrees /\ New \in Worktrees
         /\ Expected \in Worktrees \cup {Elsewhere}
  BY RequestFacts DEF TypeOK, RunType, RelationOK, Plans, Old, New, Expected

\* What a plan changes, and the roots it needs.
LEMMA EffectsType == ASSUME TypeOK PROVE Effects \subseteq Slots /\ Roots \subseteq RootNames
<1>1. Effects \subseteq Slots
  BY DEF TypeOK, DiskType, BookType, RunType, Plans, Partial, Effects
<1> QED
  BY <1>1, SlotFacts DEF Roots, RootNames

\* The state a workspace is first seen in.
LEMMA InitType == Init => TypeOK
<1> SUFFICES ASSUME Init PROVE TypeOK
  OBVIOUS
<1>1. disk \in [Slots -> Objects] /\ ledger \in Ledgers /\ wt \in [Worktrees -> Int] /\ stack \subseteq Worktrees
  <2>1. CASE Unmanaged
    <3>1. Foreign(Mine) \in Objects /\ Nothing \in Objects
      BY ObjectFacts
    <3>2. disk \in [Slots -> Objects]
      BY <2>1, <3>1 DEF Unmanaged
    <3>3. ledger \in Ledgers
      BY <2>1, NoPlanType DEF Unmanaged
    <3> QED
      BY <2>1, <3>2, <3>3 DEF Unmanaged
  <2>2. CASE Managed
    <3>1. PICK d \in Deployed :
      LET fs == DOMAIN d.package IN
      /\ wt = [w \in Worktrees |-> IF w \in d.worktrees THEN 1 ELSE 0] /\ stack = d.worktrees
      /\ disk = [s \in Slots |-> CASE s[2] \notin fs -> Nothing
                                 [] s[2] \in fs /\ s[1] = Feature -> Rendered(d.package[s[2]])
                                 [] OTHER -> IF s[1] \in d.worktrees THEN Link ELSE Nothing]
      /\ ledger = [on |-> TRUE, links |-> d.worktrees \X fs \X {1},
                 files |-> [f \in Files |-> IF f \in fs THEN [data |-> d.package[f], incoming |-> d.package[f]]
                                            ELSE NoEntry]]
      BY <2>2 DEF Managed
    <3>2. /\ d.package \in Packages /\ d.worktrees \subseteq Worktrees /\ DOMAIN d.package \subseteq Files
          /\ \A f \in DOMAIN d.package : d.package[f] \in Contents
      BY TemplatesAssumption, RenderedContents
    <3>3. ledger \in Ledgers
      <4> DEFINE fs == DOMAIN d.package
      <4> DEFINE ws == d.worktrees
      <4> DEFINE entries == [f \in Files |-> IF f \in fs
                             THEN [data |-> d.package[f], incoming |-> d.package[f]] ELSE NoEntry]
      <4> DEFINE links == ws \X fs \X {1}
      <4>1. entries \in [Files -> Entries]
        BY <3>2, NoPlanType DEF Entries
      <4>2. fs \subseteq Files /\ ws \subseteq Worktrees
        BY <3>2
      <4>3. ledger = [on |-> TRUE, links |-> links, files |-> entries]
        BY <3>1
      <4> HIDE DEF fs, ws, entries
      <4>4. links \in SUBSET (Worktrees \X Files \X Int)
        BY <4>2
      <4> HIDE DEF links
      <4> QED
        BY <4>1, <4>3, <4>4 DEF Ledgers
    <3>4. disk \in [Slots -> Objects]
      BY <3>1, <3>2, ObjectFacts
    <3> QED
      BY <3>1, <3>2, <3>3, <3>4
  <2> QED
    BY <2>1, <2>2 DEF Init
<1> QED
  BY <1>1, NoPlanType, TemplatesAssumption
    DEF Init, TypeOK, DiskType, BookType, RunType, CountType, Labels, RootNames

\* A worktree goes, comes, or gets another branch.
LEMMA WithoutWorktreeType ==
  ASSUME TypeOK, NEW w \in Worktrees, WithoutWorktree(w)
  PROVE  DiskType' /\ BookType' /\ CountType'
<1>1. DiskType'
  <2>1. disk' \in [Slots -> Objects]
    BY ObjectFacts DEF WithoutWorktree, TypeOK, DiskType
  <2> QED
    BY <2>1 DEF WithoutWorktree, TypeOK, DiskType
<1>2. wt' \in [Worktrees -> Int]
  BY DEF WithoutWorktree, TypeOK, BookType
<1> QED
  BY <1>1, <1>2 DEF WithoutWorktree, TypeOK, BookType, CountType, git, bounds

\* A worktree that is added, a branch that is renamed.
LEMMA AddedType ==
  ASSUME BookType, NEW w \in Worktrees, Added(w)
  PROVE  wt' \in [Worktrees -> Int]
  BY DEF Added, BookType

LEMMA RenameRefType ==
  ASSUME BookType, NEW w \in Worktrees, NEW v \in Worktrees, RenameRef(w, v)
  PROVE  ref' \in [Worktrees -> Worktrees \cup {None, Elsewhere}]
  BY DEF RenameRef, BookType

\* The step that ends a plan.
LEMMA AppliedType == ASSUME RunType, Applied PROVE RunType'
  BY IdleType DEF Applied, RunType, Labels, Renames

\* Every step keeps the types.
LEMMA TypeStep ==
  ASSUME TypeOK, PlanOK, RelationOK, HeldOK, [Next]_vars
  PROVE  TypeOK'
<1>1. ASSUME NEW p \in Packages, NEW d \in Decisions, Propose(p, d) PROVE TypeOK'
  <2> DEFINE q == planManagedRoleFiles(p, d)
  <2>5. q \in Plans /\ Begin(q, "consent")
    BY <1>1, RolesPlan DEF Propose
  <2>1. DiskType'
    BY <1>1, SameDisk DEF TypeOK, Propose, files
  <2>2. BookType'
    BY <1>1, SameBook DEF TypeOK, Propose, files
  <2>3. RunType'
    BY <2>5, BeginType DEF TypeOK, Labels, Early
  <2>4. CountType'
    BY <2>5, BeginType DEF TypeOK, Labels, Early
  <2> QED
    BY <2>1, <2>2, <2>3, <2>4 DEF TypeOK
<1>2. CASE executeManagedTemplatePlans
  <2>1. DiskType'
    BY <1>2, SameDisk DEF TypeOK, executeManagedTemplatePlans, files
  <2>2. BookType'
    BY <1>2, SameBook DEF TypeOK, executeManagedTemplatePlans, files
  <2>3. RunType'
    BY <1>2, IdleType DEF executeManagedTemplatePlans, TypeOK, RunType, Labels, Early
  <2>4. CountType'
    BY <1>2, SameCount DEF TypeOK, executeManagedTemplatePlans
  <2> QED
    BY <2>1, <2>2, <2>3, <2>4 DEF TypeOK
<1>3. ASSUME NEW w \in Worktrees, syncManagedAndLegacyInject(w) PROVE TypeOK'
  <2> DEFINE q == planManagedTemplateLinksOnly(w)
  <2>5. q \in Plans /\ Begin(q, "open")
    BY <1>3, LinksPlan DEF syncManagedAndLegacyInject
  <2>1. DiskType'
    BY <1>3, SameDisk DEF TypeOK, syncManagedAndLegacyInject, files
  <2>2. BookType'
    BY <1>3, SameBook DEF TypeOK, syncManagedAndLegacyInject, files
  <2>3. RunType'
    BY <2>5, BeginType DEF TypeOK, Labels, Early
  <2>4. CountType'
    BY <2>5, BeginType DEF TypeOK, Labels, Early
  <2> QED
    BY <2>1, <2>2, <2>3, <2>4 DEF TypeOK
<1>4. ASSUME NEW w \in Worktrees, Archive(w) PROVE TypeOK'
  <2> DEFINE q == planManagedTemplateWorktreeRetirement(w)
  <2>5. q \in Plans /\ Begin(q, "remove")
    BY <1>4, RetirePlan DEF Archive
  <2>1. DiskType'
    BY <1>4, SameDisk DEF TypeOK, Archive, files
  <2>2. BookType'
    BY <1>4, SameBook DEF TypeOK, Archive, files
  <2>3. RunType'
    BY <2>5, BeginType DEF TypeOK, Labels, Early
  <2>4. CountType'
    BY <2>5, BeginType DEF TypeOK, Labels, Early
  <2> QED
    BY <2>1, <2>2, <2>3, <2>4 DEF TypeOK
<1>5. ASSUME NEW w \in Worktrees, UserAddsWorktree(w) PROVE TypeOK'
  <2>1. DiskType'
    BY <1>5, SameDisk DEF TypeOK, UserAddsWorktree
  <2>2. BookType'
    BY <1>5, AddedType DEF TypeOK, BookType, UserAddsWorktree
  <2>3. RunType'
    BY <1>5, SameRun DEF TypeOK, UserAddsWorktree
  <2>4. CountType'
    BY <1>5 DEF TypeOK, CountType, UserAddsWorktree
  <2> QED
    BY <2>1, <2>2, <2>3, <2>4 DEF TypeOK
<1>6. ASSUME NEW w \in Worktrees, UserCommits(w) PROVE TypeOK'
  <2>1. DiskType'
    BY <1>6, SameDisk DEF TypeOK, UserCommits, files
  <2>2. BookType'
    BY <1>6 DEF TypeOK, BookType, UserCommits, files
  <2>3. RunType'
    BY <1>6, SameRun DEF TypeOK, UserCommits
  <2>4. CountType'
    BY <1>6 DEF TypeOK, CountType, UserCommits
  <2> QED
    BY <2>1, <2>2, <2>3, <2>4 DEF TypeOK
<1>7. ASSUME NEW old \in Worktrees, NEW new \in Worktrees, renameBranchExternal(old, new)
      PROVE TypeOK'
  <2> DEFINE q == planManagedTemplateWorktreeRetirement(old)
  <2> DEFINE r == <<"rename", old, new, ref[old], wt[old] > 0>>
  <2> DEFINE next == IF wt[old] > 0 THEN "take down" ELSE "branch"
  <2>5. q # Refused /\ ref[old] # None /\ Begin([q EXCEPT !.request = r], next)
    BY <1>7 DEF renameBranchExternal
  <2>6. q \in Plans
    BY <2>5, RetirePlan
  <2>7. r \in Requests
    <3>1. ref[old] \in Worktrees \cup {Elsewhere}
      BY <2>5 DEF TypeOK, BookType
    <3>2. (wt[old] > 0) \in BOOLEAN
      OBVIOUS
    <3> QED
      BY <3>1, <3>2 DEF Requests
  <2> HIDE DEF r
  <2>8. [q EXCEPT !.request = r] \in Plans
    BY <2>6, <2>7, PlanFor
  <2>9. next \in Labels \ {"roots", "clean"}
    BY DEF Labels, Renames, Early, Applying, Moving, Past
  <2> HIDE DEF next, q
  <2>1. DiskType'
    BY <1>7, SameDisk DEF TypeOK, renameBranchExternal, files
  <2>2. BookType'
    BY <1>7, SameBook DEF TypeOK, renameBranchExternal, files
  <2>3. RunType'
    BY <2>5, <2>8, <2>9, BeginType DEF TypeOK
  <2>4. CountType'
    BY <2>5, <2>8, <2>9, BeginType DEF TypeOK
  <2> QED
    BY <2>1, <2>2, <2>3, <2>4 DEF TypeOK
<1>8. CASE TakeDownWorktree
  <2>1. CASE Idle /\ UNCHANGED <<files, git, ledger, history, bounds>>
    BY <2>1, IdleType, SameDisk, SameBook, SameCount DEF TypeOK, files
  <2>2. CASE WithoutWorktree(Old) /\ To("branch", plan)
    <3>1. Old \in Worktrees
      BY <1>8, RenameFacts DEF TakeDownWorktree, Renames
    <3>2. RunType'
      BY <2>2, ToType DEF TypeOK, RunType, Labels, Renames
    <3> QED
      BY <2>2, <3>1, <3>2, WithoutWorktreeType DEF TypeOK
  <2> QED
    BY <1>8, <2>1, <2>2 DEF TakeDownWorktree
<1>9. CASE RenameBranch
  <2>1. Old \in Worktrees /\ New \in Worktrees
    BY <1>9, RenameFacts DEF RenameBranch, Renames
  <2>2. DiskType'
    BY <1>9, SameDisk DEF TypeOK, RenameBranch, files
  <2>3. BookType'
    BY <1>9, <2>1, RenameRefType DEF TypeOK, BookType, RenameBranch, files
  <2>4. RunType'
    <3>1. \A next \in {"tree", "stack", "rollback"} : To(next, plan) => RunType'
      BY ToType DEF TypeOK, RunType, Labels, Renames
    <3> QED
      BY <1>9, <3>1, IdleType DEF RenameBranch
  <2>5. CountType'
    BY <1>9, SameCount DEF TypeOK, RenameBranch
  <2> QED
    BY <2>2, <2>3, <2>4, <2>5 DEF TypeOK
<1>10. CASE AddRenamedWorktree
  <2>5. New \in Worktrees
    BY <1>10, RenameFacts DEF AddRenamedWorktree, Renames
  <2>1. DiskType'
    BY <1>10, SameDisk DEF TypeOK, AddRenamedWorktree
  <2>2. BookType'
    BY <1>10, <2>5, AddedType DEF TypeOK, BookType, AddRenamedWorktree, git
  <2>3. RunType'
    <3>1. \A next \in {"open", "stack", "rollback"} : To(next, plan) => RunType'
      BY ToType DEF TypeOK, RunType, Labels, Renames, Early
    <3> QED
      BY <1>10, <3>1 DEF AddRenamedWorktree
  <2>4. CountType'
    BY <1>10, SameCount DEF TypeOK, AddRenamedWorktree
  <2> QED
    BY <2>1, <2>2, <2>3, <2>4 DEF TypeOK
<1>11. CASE SaveStackAtomic
  <2>6. CASE Fail
    BY <2>6, FailType
  <2>7. CASE /\ stack' = (stack \ {Old}) \cup {New}
             /\ (IF Materialized THEN To("reinject", plan) ELSE Idle)
             /\ UNCHANGED <<files, ref, ledger, history, bounds>>
    <3>5. New \in Worktrees
      BY <1>11, RenameFacts DEF SaveStackAtomic, Renames
    <3>1. DiskType'
      BY <2>7, SameDisk DEF TypeOK, files
    <3>2. BookType'
      BY <2>7, <3>5 DEF TypeOK, BookType, files
    <3>3. RunType'
      BY <2>7, IdleType, ToType DEF TypeOK, RunType, Labels, Renames
    <3> QED
      BY <2>7, <3>1, <3>2, <3>3, SameCount DEF TypeOK
  <2> QED
    BY <1>11, <2>6, <2>7 DEF SaveStackAtomic
<1>12. CASE Reinject
  <2> DEFINE q == planManagedTemplateLinksOnly(New)
  <2>1. CASE Fail
    BY <2>1, FailType
  <2>2. CASE /\ q # Refused
             /\ (IF HasEffects(q) THEN To("open", [q EXCEPT !.request = <<"reinject", New>>]) ELSE Idle)
             /\ UNCHANGED <<files, git, ledger, history, bounds>>
    <3>1. New \in Worktrees
      BY <1>12, RenameFacts DEF Reinject, Renames
    <3>2. q \in Plans
      BY <2>2, <3>1, LinksPlan
    <3>3. [q EXCEPT !.request = <<"reinject", New>>] \in Plans
      BY <3>1, <3>2, PlanFor DEF Requests
    <3> HIDE DEF q
    <3>4. RunType'
      BY <2>2, <3>3, IdleType, ToType DEF Labels, Early
    <3> QED
      BY <2>2, <3>4, SameDisk, SameBook, SameCount DEF TypeOK, files
  <2> QED
    BY <1>12, <2>1, <2>2 DEF Reinject
<1>13. CASE RollbackRef
  <2>1. CASE Fail
    BY <2>1, FailType
  <2>2. CASE /\ To("put back", plan) /\ UNCHANGED stack
             /\ UNCHANGED ref \/ RenameRef(New, Old)
             /\ UNCHANGED <<files, ledger, history, bounds>>
    <3>1. New \in Worktrees /\ Old \in Worktrees
      BY <1>13, RenameFacts DEF RollbackRef, Renames
    <3>2. RunType'
      BY <2>2, ToType DEF TypeOK, RunType, Labels, Renames
    <3>3. BookType'
      BY <2>2, <3>1, RenameRefType DEF TypeOK, BookType, files
    <3> QED
      BY <2>2, <3>2, <3>3, SameDisk, SameCount DEF TypeOK, files
  <2> QED
    BY <1>13, <2>1, <2>2 DEF RollbackRef
<1>14. CASE RollbackWorktree
  <2>1. CASE Fail
    BY <2>1, FailType
  <2>2. CASE ~Fail
    <3>1. Old \in Worktrees /\ Added(Old)
      BY <1>14, <2>2, RenameFacts DEF RollbackWorktree, Renames
    <3>2. RunType'
      BY <1>14, <2>2, ToType, IdleType DEF RollbackWorktree, TypeOK, RunType, Labels, Renames
    <3>3. BookType'
      BY <1>14, <2>2, <3>1, AddedType DEF RollbackWorktree, TypeOK, BookType, git
    <3>4. DiskType'
      BY <1>14, <2>2 DEF RollbackWorktree, TypeOK, DiskType, history, Account, RootNames
    <3>5. CountType'
      BY <1>14, <2>2, SameCount DEF RollbackWorktree, TypeOK
    <3> QED
      BY <3>2, <3>3, <3>4, <3>5 DEF TypeOK
  <2> QED
    BY <2>1, <2>2
<1>15. CASE RestoreManagedTemplateRetirementAfterRollback
  <2>1. CASE Fail
    BY <2>1, FailType
  <2>2. CASE ~Fail
    <3>1. pc = "put links back" /\ pc' = "open" /\ UNCHANGED <<files, git, ledger, history, bounds>>
          /\ To("open", plan')
      BY <1>15, <2>2 DEF RestoreManagedTemplateRetirementAfterRollback, To
    <3>2. plan' \in Plans
      BY <1>15, <3>1, RestorePlan
    <3>3. RunType'
      BY <3>1, <3>2, ToType DEF Labels, Early
    <3> QED
      BY <3>1, <3>3, SameDisk, SameBook, SameCount DEF TypeOK, files
  <2> QED
    BY <2>1, <2>2
<1>16. CASE RemoveWorktree
  <2>1. WithoutWorktree(plan.request[2]) /\ plan.request[2] \in Worktrees
    BY <1>16, RequestFacts DEF RemoveWorktree, RelationOK, TypeOK, RunType, Plans
  <2>2. RunType'
    <3>1. CASE Idle
      BY <3>1, IdleType
    <3>2. CASE pc' = "open" /\ UNCHANGED <<plan, todo, held, saved>>
      BY <1>16, <3>2 DEF RemoveWorktree, TypeOK, RunType, Labels, Early
    <3> QED
      BY <1>16, <3>1, <3>2 DEF RemoveWorktree
  <2> QED
    BY <2>1, <2>2, WithoutWorktreeType DEF TypeOK
<1>17. CASE ApplyManagedTemplatePlan
  <2>1. CASE Fail
    BY <2>1, FailType
  <2>2. CASE ~Fail
    <3>1. DiskType'
      BY <1>17, <2>2, SameDisk DEF ApplyManagedTemplatePlan, TypeOK, files
    <3>2. BookType'
      BY <1>17, <2>2, SameBook DEF ApplyManagedTemplatePlan, TypeOK, files
    <3>3. RunType'
      BY <1>17, <2>2, EffectsType DEF ApplyManagedTemplatePlan, TypeOK, RunType, Labels
    <3>4. CountType'
      BY <1>17, <2>2, SameCount DEF ApplyManagedTemplatePlan, TypeOK
    <3> QED
      BY <3>1, <3>2, <3>3, <3>4 DEF TypeOK
  <2> QED
    BY <2>1, <2>2
<1>18. ASSUME NEW r \in RootNames, newManagedRecoveryRoot(r) PROVE TypeOK'
  <2>1. CASE Fail
    BY <2>1, FailType
  <2>2. CASE ~Fail
    <3>1. DiskType'
      BY <1>18, <2>2 DEF newManagedRecoveryRoot, TypeOK, DiskType, RootNames, history
    <3>2. BookType'
      BY <1>18, <2>2, SameBook DEF newManagedRecoveryRoot, TypeOK, files
    <3>3. RunType'
      BY <1>18, <2>2, EffectsType
        DEF newManagedRecoveryRoot, TypeOK, RunType, Labels, Applying, Moving
    <3>4. CountType'
      BY <1>18, <2>2, SameCount DEF newManagedRecoveryRoot, TypeOK
    <3> QED
      BY <3>1, <3>2, <3>3, <3>4 DEF TypeOK
  <2> QED
    BY <2>1, <2>2
<1>19. ASSUME NEW r \in RootNames, cleanupVerified(r) PROVE TypeOK'
  <2>1. CASE Fail
    BY <2>1, FailType
  <2>2. CASE ~Fail
    <3>1. DiskType'
      BY <1>19, <2>2 DEF cleanupVerified, TypeOK, DiskType, history
    <3>2. BookType'
      BY <1>19, <2>2, SameBook DEF cleanupVerified, TypeOK, files
    <3>3. RunType'
      BY <1>19, <2>2, AppliedType DEF cleanupVerified, TypeOK, RunType, Labels, Applying, Past
    <3>4. CountType'
      BY <1>19, <2>2, SameCount DEF cleanupVerified, TypeOK
    <3> QED
      BY <3>1, <3>2, <3>3, <3>4 DEF TypeOK
  <2> QED
    BY <2>1, <2>2
<1>20. ASSUME NEW s \in Slots, preserve(s) PROVE TypeOK'
  <2>1. CASE Fail
    BY <2>1, FailType
  <2>2. CASE ~Fail
    <3>1. DiskType'
      <4>1. disk[s] \in Objects /\ Nothing \in Objects
        BY ObjectFacts DEF TypeOK, DiskType
      <4> QED
        BY <1>20, <2>2, <4>1 DEF preserve, TypeOK, DiskType, history
    <3>2. BookType'
      BY <1>20, <2>2, SameBook DEF preserve, TypeOK, files
    <3>3. RunType'
      <4>1. disk[s] \in Objects
        BY DEF TypeOK, DiskType
      <4>2. held' \in Slots \X Objects
        BY <1>20, <2>2, <4>1 DEF preserve
      <4> QED
        BY <1>20, <2>2, <4>2 DEF preserve, TypeOK, RunType, Labels, Applying, Moving
    <3>4. CountType'
      BY <1>20, <2>2, SameCount DEF preserve, TypeOK
    <3> QED
      BY <3>1, <3>2, <3>3, <3>4 DEF TypeOK
  <2> QED
    BY <2>1, <2>2
<1>21. ASSUME NEW s \in Slots, publish(s) PROVE TypeOK'
  <2>1. CASE Fail
    BY <2>1, FailType
  <2>2. CASE ~Fail
    <3>1. DiskType'
      <4>1. Link \in Objects
        BY ObjectFacts
      <4>2. s \notin Links => Rendered(plan.writes[s]) \in Objects
        <5>1. s \notin Links => s \in DOMAIN plan.writes
          BY <1>21
            DEF publish, NextEffect, Removing, Writing, PlanOK, Sound, HeldOK, Moving, Effects
        <5>2. s \in DOMAIN plan.writes => plan.writes[s] \in Contents
          BY DEF TypeOK, RunType, Plans, Partial
        <5> QED
          BY <5>1, <5>2, ObjectFacts
      <4> QED
        BY <1>21, <2>2, <4>1, <4>2 DEF publish, TypeOK, DiskType
    <3>2. BookType'
      BY <1>21, <2>2, SameBook DEF publish, TypeOK, files
    <3>3. RunType'
      BY <1>21, <2>2 DEF publish, TypeOK, RunType, Labels, Applying, Moving
    <3>4. CountType'
      BY <1>21, <2>2, SameCount DEF publish, TypeOK
    <3> QED
      BY <3>1, <3>2, <3>3, <3>4 DEF TypeOK
  <2> QED
    BY <2>1, <2>2
<1>22. ASSUME NEW s \in Slots, removeVerifiedPrivate(s) PROVE TypeOK'
  <2>1. CASE Fail
    BY <2>1, FailType
  <2>2. CASE ~Fail
    <3>1. DiskType'
      BY <1>22, <2>2 DEF removeVerifiedPrivate, TypeOK, DiskType, history
    <3>2. BookType'
      BY <1>22, <2>2, SameBook DEF removeVerifiedPrivate, TypeOK, files
    <3>3. RunType'
      BY <1>22, <2>2, SameRun DEF removeVerifiedPrivate, TypeOK
    <3>4. CountType'
      BY <1>22, <2>2, SameCount DEF removeVerifiedPrivate, TypeOK
    <3> QED
      BY <3>1, <3>2, <3>3, <3>4 DEF TypeOK
  <2> QED
    BY <2>1, <2>2
<1>23. ASSUME NEW s \in Slots, UserEdit(s) PROVE TypeOK'
  <2>1. DiskType'
    <3>1. Foreign(Mine) \in Objects /\ Nothing \in Objects /\ disk[s] \in Objects
      BY ObjectFacts DEF TypeOK, DiskType
    <3> QED
      BY <1>23, <3>1 DEF UserEdit, TypeOK, DiskType
  <2>2. BookType'
    BY <1>23, SameBook DEF TypeOK, UserEdit
  <2>3. RunType'
    BY <1>23, SameRun DEF TypeOK, UserEdit
  <2>4. CountType'
    BY <1>23 DEF TypeOK, CountType, UserEdit
  <2> QED
    BY <2>1, <2>2, <2>3, <2>4 DEF TypeOK
<1>24. CASE compare
  <2>1. DiskType'
    BY <1>24, SameDisk DEF TypeOK, compare, Captured, files
  <2>2. BookType'
    BY <1>24, SameBook DEF TypeOK, compare, Captured, files
  <2>3. RunType'
    <3>1. CASE Captured
      <4>1. held \in Slots \X Objects /\ held[1] \in DOMAIN plan.before
        BY <1>24 DEF compare, HeldOK
      <4>2. <<held[1], Planned>> \in Slots \X Objects
        BY <4>1 DEF Planned, TypeOK, RunType, Plans, Partial
      <4> QED
        BY <1>24, <3>1, <4>1, <4>2
          DEF Captured, TypeOK, RunType, Labels, Applying, Moving, compare
    <3>2. CASE ~Captured
      BY <1>24, <3>2 DEF compare, TypeOK, RunType, Labels, Applying, Moving
    <3> QED
      BY <3>1, <3>2
  <2>4. CountType'
    BY <1>24, SameCount DEF TypeOK, compare, Captured
  <2> QED
    BY <2>1, <2>2, <2>3, <2>4 DEF TypeOK
<1>25. CASE restoreAfterPreservationFailure
  <2>1. DiskType'
    <3>1. held \in Slots \X Objects
      BY <1>25 DEF restoreAfterPreservationFailure, HeldOK
    <3>2. held[1] \in Slots /\ held[2] \in Objects
      BY <3>1
    <3>3. disk' \in [Slots -> Objects] /\ kept' \in [Slots -> SUBSET Objects]
      BY <1>25, <3>2 DEF restoreAfterPreservationFailure, TypeOK, DiskType
    <3> QED
      BY <1>25, <3>3
        DEF restoreAfterPreservationFailure, TypeOK, DiskType, Account, RootNames, history
  <2>2. BookType'
    BY <1>25, SameBook DEF TypeOK, restoreAfterPreservationFailure
  <2>3. RunType'
    BY <1>25, IdleType DEF TypeOK, restoreAfterPreservationFailure
  <2>4. CountType'
    BY <1>25, SameCount DEF TypeOK, restoreAfterPreservationFailure
  <2> QED
    BY <2>1, <2>2, <2>3, <2>4 DEF TypeOK
<1>26. CASE EffectsDone
  <2>1. DiskType'
    BY <1>26, SameDisk DEF TypeOK, EffectsDone, files
  <2>2. BookType'
    BY <1>26, SameBook DEF TypeOK, EffectsDone, files
  <2>3. RunType'
    BY <1>26 DEF EffectsDone, TypeOK, RunType, Labels, Applying, Past
  <2>4. CountType'
    BY <1>26, SameCount DEF TypeOK, EffectsDone
  <2> QED
    BY <2>1, <2>2, <2>3, <2>4 DEF TypeOK
<1>27. CASE preserveLedger
  <2>1. CASE Fail
    BY <2>1, FailType
  <2>2. CASE ~Fail
    <3>1. DiskType'
      BY <1>27, <2>2, SameDisk DEF preserveLedger, TypeOK, files
    <3>2. BookType'
      BY <1>27, <2>2, NoPlanType DEF preserveLedger, TypeOK, BookType, files, git
    <3>3. RunType'
      BY <1>27, <2>2 DEF preserveLedger, TypeOK, RunType, Labels, Applying, Past
    <3>4. CountType'
      BY <1>27, <2>2, SameCount DEF preserveLedger, TypeOK
    <3> QED
      BY <3>1, <3>2, <3>3, <3>4 DEF TypeOK
  <2> QED
    BY <2>1, <2>2
<1>28. CASE publishLedger
  <2>1. CASE Fail
    BY <2>1, FailType
  <2>2. CASE ~Fail
    <3>1. DiskType'
      BY <1>28, <2>2, SameDisk DEF publishLedger, TypeOK, files
    <3>2. BookType'
      <4>1. plan.ledger \in Ledgers
        BY DEF TypeOK, RunType, Plans
      <4> QED
        BY <1>28, <2>2, <4>1 DEF publishLedger, TypeOK, BookType, files, git
    <3>3. RunType'
      BY <1>28, <2>2 DEF publishLedger, TypeOK, RunType, Labels, Applying, Past
    <3>4. CountType'
      BY <1>28, <2>2, SameCount DEF publishLedger, TypeOK
    <3> QED
      BY <3>1, <3>2, <3>3, <3>4 DEF TypeOK
  <2> QED
    BY <2>1, <2>2
<1>29. CASE preflightCleanup
  <2>1. CASE Fail
    BY <2>1, FailType
  <2>2. CASE ~Fail
    <3>1. DiskType'
      BY <1>29, <2>2, SameDisk DEF preflightCleanup, TypeOK, files
    <3>2. BookType'
      BY <1>29, <2>2, SameBook DEF preflightCleanup, TypeOK, files
    <3>3. RunType'
      BY <1>29, <2>2, EffectsType
        DEF preflightCleanup, TypeOK, RunType, Labels, Applying, Past
    <3>4. CountType'
      BY <1>29, <2>2, SameCount DEF preflightCleanup, TypeOK
    <3> QED
      BY <3>1, <3>2, <3>3, <3>4 DEF TypeOK
  <2> QED
    BY <2>1, <2>2
<1>30. CASE Kill
  <2>1. DiskType'
    BY <1>30, SameDisk DEF TypeOK, Kill, files
  <2>2. BookType'
    BY <1>30, SameBook DEF TypeOK, Kill, files
  <2>3. RunType'
    BY <1>30, IdleType DEF TypeOK, Kill
  <2>4. CountType'
    BY <1>30 DEF TypeOK, CountType, Kill
  <2> QED
    BY <2>1, <2>2, <2>3, <2>4 DEF TypeOK
<1>31. CASE UserSettles
  <2>1. DiskType'
    BY <1>31 DEF UserSettles, TypeOK, DiskType
  <2>2. BookType'
    BY <1>31 DEF UserSettles, TypeOK, BookType
  <2>3. RunType'
    BY <1>31, SameRun DEF TypeOK, UserSettles
  <2>4. CountType'
    BY <1>31, SameCount DEF TypeOK, UserSettles
  <2> QED
    BY <2>1, <2>2, <2>3, <2>4 DEF TypeOK
<1>32. CASE UNCHANGED vars
  <2>1. DiskType'
    BY <1>32, SameDisk DEF TypeOK, vars, files
  <2>2. BookType'
    BY <1>32, SameBook DEF TypeOK, vars, files
  <2>3. RunType'
    BY <1>32, SameRun DEF TypeOK, vars
  <2>4. CountType'
    BY <1>32, SameCount DEF TypeOK, vars
  <2> QED
    BY <2>1, <2>2, <2>3, <2>4 DEF TypeOK
<1> QED
  BY <1>1, <1>2, <1>3, <1>4, <1>5, <1>6, <1>7, <1>8, <1>9, <1>10, <1>11, <1>12, <1>13,
    <1>14, <1>15, <1>16, <1>17, <1>18, <1>19, <1>20, <1>21, <1>22, <1>23, <1>24, <1>25,
    <1>26, <1>27, <1>28, <1>29, <1>30, <1>31, <1>32 DEF Next, RootNames
-----------------------------------------------------------------------------
(* A step keeps the plan, or drops it, or makes a new one of the state it    *)
(* finds.                                                                    *)

\* A plan that is made of the present state.
Fresh(q) == Sound(q) /\ Leads(q) /\ Known(q.ledger.links) /\ Honest(q.ledger)

\* What a plan of links links and records.
LEMMA LinksType == ASSUME TypeOK, NEW w \in Worktrees PROVE
  /\ LinkedTo(w) \in SUBSET (Worktrees \X Files \X Int)
  /\ Remaining(w) \in SUBSET (Worktrees \X Files \X Int)
  BY DEF TypeOK, BookType, Ledgers, LinkedTo, Owned, Remaining

\* tws inject makes a fresh plan.
LEMMA LinksFresh ==
  ASSUME TypeOK, LedgersOK, NEW w \in Present, NEW q, q = planManagedTemplateLinksOnly(w),
         q # Refused
  PROVE  /\ Fresh(q) /\ Light(q) /\ q.request = <<"links", w>> /\ ~Residue
         /\ HasEffects(q) => Reaches(q)
         /\ Right(ledger, {}) => Right(q.ledger, Changes(q))
<1>1. w \in Worktrees
  BY DEF Present
<1>2. /\ ~Residue /\ \A l \in {w} \X Owned(ledger) : disk[l] # Nothing => matchOwnedLink(l)
      /\ Plan(q, <<"links", w>>, [ledger EXCEPT !.links = LinkedTo(w)], {}, <<>>, NewLinks(w), {}, {})
  BY <1>1, LinksPlan
<1>3. LinkedTo(w) \in SUBSET (Worktrees \X Files \X Int)
  BY <1>1, LinksType
<1>4. /\ Light(q) /\ q.request = <<"links", w>> /\ q.links = NewLinks(w)
      /\ q.ledger.links = LinkedTo(w)
  BY <1>2, <1>3, LightPlan
<1>5. Fresh(q) /\ (HasEffects(q) => Reaches(q))
  BY <1>4, LinksSound DEF Fresh
<1>6. Right(ledger, {}) => Right(q.ledger, Changes(q))
  BY <1>2, <1>4, LinksRightAfter
<1> QED
  BY <1>2, <1>4, <1>5, <1>6

\* tws archive makes a fresh plan, which only forgets the links.
LEMMA RetireFresh ==
  ASSUME TypeOK, LedgersOK, NEW w \in Worktrees, NEW q,
         q = planManagedTemplateWorktreeRetirement(w), q # Refused
  PROVE  /\ q \in Plans /\ Fresh(q) /\ Light(q) /\ q.request = <<"retire", w>> /\ q.links = {}
         /\ q.ledger.links = {k \in ledger.links : k[1] # w}
<1>1. /\ q \in Plans
      /\ Plan(q, <<"retire", w>>, [ledger EXCEPT !.links = Remaining(w)], {}, <<>>, {}, {}, {})
  BY RetirePlan
<1>2. Remaining(w) \in SUBSET (Worktrees \X Files \X Int)
  BY LinksType
<1>3. /\ Light(q) /\ q.request = <<"retire", w>> /\ q.links = {} /\ q.ledger.links = Remaining(w)
  BY <1>1, <1>2, LightPlan
<1>4. Fresh(q)
  BY <1>3, RetireSound DEF Fresh
<1>5. Remaining(w) = {k \in ledger.links : k[1] # w}
  BY DEF Remaining
<1> QED
  BY <1>1, <1>3, <1>4, <1>5

\* The same plan under another name is as good.
LEMMA SameFresh ==
  ASSUME NEW q \in Plans, NEW z \in Plans, z.ledger = q.ledger, z.changed = q.changed,
         z.removals = q.removals, z.before = q.before, z.writes = q.writes, z.links = q.links,
         z.agreed = q.agreed
  PROVE  /\ Fresh(q) => Fresh(z)
         /\ Light(q) => Light(z)
         /\ HasEffects(z) => HasEffects(q)
         /\ Reaches(q) => Reaches(z)
         /\ Changes(z) = Changes(q)
  BY DEF Fresh, Sound, Leads, Light, HasEffects, Reaches, Changes

\* tws rename makes the same plan, of the worktree it takes down.
LEMMA RenameFresh ==
  ASSUME TypeOK, LedgersOK, NEW old \in Worktrees, NEW new \in Worktrees,
         renameBranchExternal(old, new)
  PROVE  /\ plan' \in Plans /\ Fresh(plan') /\ Light(plan')
         /\ plan'.request = <<"rename", old, new, ref[old], wt[old] > 0>> /\ plan'.links = {}
         /\ plan'.ledger.links = {k \in ledger.links : k[1] # old}
         /\ UNCHANGED <<files, git, ledger, history>>
<1> DEFINE q == planManagedTemplateWorktreeRetirement(old)
<1> DEFINE r == <<"rename", old, new, ref[old], wt[old] > 0>>
<1>1. /\ q # Refused /\ plan' = [q EXCEPT !.request = r] /\ ref[old] # None
      /\ UNCHANGED <<files, git, ledger, history>>
  BY DEF renameBranchExternal, Begin
<1>2. r \in Requests
  <2>1. ref[old] \in Worktrees \cup {Elsewhere}
    BY <1>1 DEF TypeOK, BookType
  <2>2. (wt[old] > 0) \in BOOLEAN
    OBVIOUS
  <2> QED
    BY <2>1, <2>2 DEF Requests
<1> HIDE DEF q, r
<1>3. /\ q \in Plans /\ Fresh(q) /\ Light(q) /\ q.links = {}
      /\ q.ledger.links = {k \in ledger.links : k[1] # old}
  BY <1>1, RetireFresh DEF q
<1>4. /\ plan' \in Plans /\ plan'.request = r /\ plan'.ledger = q.ledger /\ plan'.changed = q.changed
      /\ plan'.removals = q.removals /\ plan'.before = q.before /\ plan'.writes = q.writes
      /\ plan'.links = q.links /\ plan'.agreed = q.agreed
  BY <1>1, <1>2, <1>3, PlanFor
<1>5. Fresh(plan') /\ Light(plan')
  BY <1>3, <1>4, SameFresh
<1> QED
  BY <1>1, <1>3, <1>4, <1>5 DEF r

\* It links the renamed worktree with a fresh plan.
LEMMA ReinjectFresh ==
  ASSUME TypeOK, LedgersOK, RelationOK, Reinject, plan' # NoPlan
  PROVE  /\ plan' \in Plans /\ Fresh(plan') /\ Light(plan') /\ plan'.request = <<"reinject", New>>
         /\ Reaches(plan') /\ pc' = "open" /\ saved' = {} /\ ~Residue
         /\ Right(ledger, {}) => Right(plan'.ledger, Changes(plan'))
         /\ UNCHANGED <<files, git, ledger, history, bounds>>
<1> DEFINE q == planManagedTemplateLinksOnly(New)
<1> DEFINE r == <<"reinject", New>>
<1>1. New \in Worktrees
  BY RenameFacts DEF Reinject, Renames
<1>2. /\ q # Refused /\ wt[New] > 0 /\ HasEffects(q) /\ plan' = [q EXCEPT !.request = r]
      /\ pc' = "open" /\ saved' = {} /\ UNCHANGED <<files, git, ledger, history, bounds>>
  BY <1>1 DEF Reinject, Fail, Idle, To, TypeOK, BookType
<1>3. New \in Present /\ r \in Requests
  BY <1>1, <1>2 DEF Present, Requests
<1> HIDE DEF q, r
<1>4. /\ q \in Plans /\ Fresh(q) /\ Light(q) /\ ~Residue
      /\ HasEffects(q) => Reaches(q)
      /\ Right(ledger, {}) => Right(q.ledger, Changes(q))
  <2>1. q \in Plans
    BY <1>1, <1>2, LinksPlan DEF q
  <2> QED
    BY <1>2, <1>3, <2>1, LinksFresh DEF q
<1>5. /\ plan' \in Plans /\ plan'.request = r /\ plan'.ledger = q.ledger /\ plan'.changed = q.changed
      /\ plan'.removals = q.removals /\ plan'.before = q.before /\ plan'.writes = q.writes
      /\ plan'.links = q.links /\ plan'.agreed = q.agreed
  BY <1>2, <1>3, <1>4, PlanFor
<1>6. /\ Fresh(plan') /\ Light(plan') /\ Reaches(plan') /\ Changes(plan') = Changes(q)
  BY <1>2, <1>4, <1>5, SameFresh
<1> QED
  BY <1>2, <1>4, <1>5, <1>6 DEF r

\* When it is taken back it restores the links with a fresh plan.
LEMMA RestoreFresh ==
  ASSUME TypeOK, LedgersOK, RelationOK, RestoreManagedTemplateRetirementAfterRollback,
         plan' # NoPlan, wt[Old] > 0
  PROVE  /\ plan' \in Plans /\ Fresh(plan') /\ Light(plan') /\ plan'.request = <<"restore", Old>>
         /\ (plan.changed => Reaches(plan')) /\ pc' = "open" /\ saved' = {}
         /\ Right(ledger, {}) => Right(plan'.ledger, Changes(plan'))
         /\ UNCHANGED <<files, git, ledger, history, bounds>>
<1> DEFINE back == {<<k[1], k[2]>> : k \in RetiredLinks}
<1> DEFINE links == plan.ledger.links \cup {<<Old, k[2], wt[Old]>> : k \in RetiredLinks}
<1>1. /\ pc = "put links back" /\ pc' = "open" /\ saved' = {}
      /\ UNCHANGED <<files, git, ledger, history, bounds>>
  BY DEF RestoreManagedTemplateRetirementAfterRollback, Fail, Idle, To
<1>2. /\ Old \in Worktrees /\ plan' \in Plans
      /\ plan.ledger = [ledger EXCEPT !.links = @ \ RetiredLinks]
      /\ Plan(plan', <<"restore", Old>>, [plan.ledger EXCEPT !.links = links], {}, <<>>, back, {}, {})
  BY <1>1, RestorePlan
<1>3. RetiredLinks = {k \in ledger.links : k[1] = Old} /\ ledger \in Ledgers
  BY DEF RetiredLinks, TypeOK, BookType
<1>4. plan.ledger.links = ledger.links \ RetiredLinks /\ plan.ledger.files = ledger.files
  BY <1>2, <1>3 DEF Ledgers
<1>5. links \in SUBSET (Worktrees \X Files \X Int)
  <2>1. RetiredLinks \in SUBSET (Worktrees \X Files \X Int) /\ wt[Old] \in Int
        /\ plan.ledger.links \in SUBSET (Worktrees \X Files \X Int)
    BY <1>2, <1>3, <1>4 DEF TypeOK, BookType, Ledgers
  <2>2. \A k \in RetiredLinks : <<Old, k[2], wt[Old]>> \in Worktrees \X Files \X Int
    BY <1>2, <2>1, TripleFacts
  <2> QED
    BY <2>1, <2>2
<1>6. [plan.ledger EXCEPT !.links = links] = [ledger EXCEPT !.links = links]
  BY <1>2, <1>3 DEF Ledgers
<1> HIDE DEF links, back
<1>7. /\ Light(plan') /\ plan'.request = <<"restore", Old>> /\ plan'.links = back
      /\ plan'.ledger.links = links
  BY <1>2, <1>5, <1>6, LightPlan
<1>8. LET own == {k \in ledger.links : k[1] = Old} IN
      /\ Light(plan') /\ plan'.links = {<<k[1], k[2]>> : k \in own}
      /\ plan'.ledger.links = (ledger.links \ own) \cup {<<Old, k[2], wt[Old]>> : k \in own}
  BY <1>3, <1>4, <1>7 DEF links, back
<1>9. Fresh(plan')
  BY <1>2, <1>8, RestoreSound DEF Fresh
<1>10. Right(ledger, {}) => Right(plan'.ledger, Changes(plan'))
  BY <1>2, <1>8, RestoreRight
<1>11. plan.changed => Reaches(plan')
  <2>1. plan.changed => plan.ledger # ledger
    BY <1>1 DEF RelationOK, Early, Renames, Retiring
  <2>2. plan.ledger # ledger => RetiredLinks # {}
    BY <1>2, <1>3 DEF Ledgers
  <2>3. RetiredLinks # {} => plan'.links # {}
    BY ZenonT(60), <1>3, <1>8
  <2> QED
    BY <1>7, <2>1, <2>2, <2>3 DEF Light, Reaches
<1> QED
  BY <1>1, <1>2, <1>7, <1>9, <1>10, <1>11

\* The plan after a step: the same, none, or one of the present state.
NewPlan == plan' = plan \/ plan' = NoPlan \/ (Fresh(plan') /\ UNCHANGED <<files, git, ledger, history>>)

\* No step changes a plan: it makes another one of a state it leaves alone.
LEMMA PlanCases ==
  ASSUME TypeOK, PlanInv, [Next]_vars
  PROVE  NewPlan
<1>1. ASSUME NEW p \in Packages, NEW d \in Decisions, Propose(p, d) PROVE NewPlan
  <2> DEFINE q == planManagedRoleFiles(p, d)
  <2>1. q # Refused /\ plan' = q /\ UNCHANGED <<files, git, ledger, history>>
    BY <1>1 DEF Propose, Begin
  <2> HIDE DEF q
  <2>2. Fresh(q)
    BY <2>1, RoleSound DEF q, Fresh, PlanInv
  <2> QED
    BY <2>1, <2>2 DEF NewPlan
<1>2. CASE executeManagedTemplatePlans
  BY <1>2 DEF NewPlan, executeManagedTemplatePlans, Idle, Fail, To, run
<1>3. ASSUME NEW w \in Worktrees, syncManagedAndLegacyInject(w) PROVE NewPlan
  <2> DEFINE q == planManagedTemplateLinksOnly(w)
  <2>1. q # Refused /\ w \in Present /\ plan' = q /\ UNCHANGED <<files, git, ledger, history>>
    BY <1>3 DEF syncManagedAndLegacyInject, Begin
  <2>2. Fresh(q)
    BY <2>1, LinksFresh DEF PlanInv
  <2> QED
    BY <2>1, <2>2 DEF NewPlan
<1>4. ASSUME NEW w \in Worktrees, Archive(w) PROVE NewPlan
  <2> DEFINE q == planManagedTemplateWorktreeRetirement(w)
  <2>1. q # Refused /\ plan' = q /\ UNCHANGED <<files, git, ledger, history>>
    BY <1>4 DEF Archive, Begin
  <2>2. Fresh(q)
    BY <2>1, RetireFresh DEF PlanInv
  <2> QED
    BY <2>1, <2>2 DEF NewPlan
<1>5. ASSUME NEW w \in Worktrees, UserAddsWorktree(w) PROVE NewPlan
  BY <1>5 DEF NewPlan, UserAddsWorktree, Idle, Fail, To, run
<1>6. ASSUME NEW w \in Worktrees, UserCommits(w) PROVE NewPlan
  BY <1>6 DEF NewPlan, UserCommits, Idle, Fail, To, run
<1>7. ASSUME NEW old \in Worktrees, NEW new \in Worktrees, renameBranchExternal(old, new)
      PROVE NewPlan
  <2>1. /\ plan' \in Plans /\ Fresh(plan') /\ UNCHANGED <<files, git, ledger, history>>
    BY <1>7, RenameFresh DEF PlanInv
  <2> QED
    BY <2>1 DEF NewPlan
<1>8. CASE TakeDownWorktree
  BY <1>8 DEF NewPlan, TakeDownWorktree, Idle, Fail, To, run
<1>9. CASE RenameBranch
  BY <1>9 DEF NewPlan, RenameBranch, Idle, Fail, To, run
<1>10. CASE AddRenamedWorktree
  BY <1>10 DEF NewPlan, AddRenamedWorktree, Idle, Fail, To, run
<1>11. CASE SaveStackAtomic
  BY <1>11 DEF NewPlan, SaveStackAtomic, Idle, Fail, To, run
<1>12. CASE Reinject
  <2>1. CASE plan' = NoPlan
    BY <2>1 DEF NewPlan
  <2>2. CASE plan' # NoPlan
    BY <1>12, <2>2, ReinjectFresh DEF PlanInv, NewPlan
  <2> QED
    BY <2>1, <2>2 DEF NewPlan
<1>13. CASE RollbackRef
  BY <1>13 DEF NewPlan, RollbackRef, Idle, Fail, To, run
<1>14. CASE RollbackWorktree
  BY <1>14 DEF NewPlan, RollbackWorktree, Idle, Fail, To, run
<1>15. CASE RestoreManagedTemplateRetirementAfterRollback
  <2>1. CASE plan' = NoPlan
    BY <2>1 DEF NewPlan
  <2>2. CASE plan' # NoPlan
    BY <1>15, <2>2, RestoreFresh
      DEF PlanInv, NewPlan, RelationOK, RestoreManagedTemplateRetirementAfterRollback
  <2> QED
    BY <2>1, <2>2 DEF NewPlan
<1>16. CASE RemoveWorktree
  BY <1>16 DEF NewPlan, RemoveWorktree, Idle, Fail, To, run
<1>17. CASE ApplyManagedTemplatePlan
  BY <1>17 DEF NewPlan, ApplyManagedTemplatePlan, Idle, Fail, To, run
<1>18. ASSUME NEW r \in RootNames, newManagedRecoveryRoot(r) PROVE NewPlan
  BY <1>18 DEF NewPlan, newManagedRecoveryRoot, Idle, Fail, To, run
<1>19. ASSUME NEW r \in RootNames, cleanupVerified(r) PROVE NewPlan
  BY <1>19 DEF NewPlan, cleanupVerified, Idle, Fail, To, run, Applied
<1>20. ASSUME NEW s \in Slots, preserve(s) PROVE NewPlan
  BY <1>20 DEF NewPlan, preserve, Idle, Fail, To, run
<1>21. ASSUME NEW s \in Slots, publish(s) PROVE NewPlan
  BY <1>21 DEF NewPlan, publish, Idle, Fail, To, run
<1>22. ASSUME NEW s \in Slots, removeVerifiedPrivate(s) PROVE NewPlan
  BY <1>22 DEF NewPlan, removeVerifiedPrivate, Idle, Fail, To, run
<1>23. ASSUME NEW s \in Slots, UserEdit(s) PROVE NewPlan
  BY <1>23 DEF NewPlan, UserEdit, Idle, Fail, To, run
<1>24. CASE compare
  BY <1>24 DEF NewPlan, compare, Idle, Fail, To, run, Captured
<1>25. CASE restoreAfterPreservationFailure
  BY <1>25 DEF NewPlan, restoreAfterPreservationFailure, Idle, Fail, To, run
<1>26. CASE EffectsDone
  BY <1>26 DEF NewPlan, EffectsDone, Idle, Fail, To, run
<1>27. CASE preserveLedger
  BY <1>27 DEF NewPlan, preserveLedger, Idle, Fail, To, run
<1>28. CASE publishLedger
  BY <1>28 DEF NewPlan, publishLedger, Idle, Fail, To, run
<1>29. CASE preflightCleanup
  BY <1>29 DEF NewPlan, preflightCleanup, Idle, Fail, To, run
<1>30. CASE Kill
  BY <1>30 DEF NewPlan, Kill, Idle, Fail, To, run
<1>31. CASE UserSettles
  BY <1>31 DEF NewPlan, UserSettles, Idle, Fail, To, run
<1>32. CASE UNCHANGED vars
  BY <1>32 DEF NewPlan, vars, Idle, Fail, To, run, run
<1> QED
  BY <1>1, <1>2, <1>3, <1>4, <1>5, <1>6, <1>7, <1>8, <1>9, <1>10, <1>11, <1>12, <1>13,
    <1>14, <1>15, <1>16, <1>17, <1>18, <1>19, <1>20, <1>21, <1>22, <1>23, <1>24, <1>25,
    <1>26, <1>27, <1>28, <1>29, <1>30, <1>31, <1>32 DEF Next, RootNames
-----------------------------------------------------------------------------
(* Worktrees, and what the ledgers know of them.                             *)

\* A worktree appears where there is none, and goes only for its retirement.
Replanned == plan' = plan \/ plan' = NoPlan
Appears(w) == wt[w] <= 0 /\ Added(w) /\ UNCHANGED <<disk, touched, ledger>>
Goes(w) == wt[w] > 0 /\ WithoutWorktree(w) /\ Retiring /\ Replanned
WorktreeStep ==
  \/ UNCHANGED wt
  \/ \E w \in Worktrees : Appears(w)
  \/ \E w \in Worktrees : Goes(w)

\* Every step, of the worktrees.
LEMMA WorktreeCases ==
  ASSUME TypeOK, PlanInv, [Next]_vars
  PROVE  WorktreeStep
<1>1. ASSUME NEW p \in Packages, NEW d \in Decisions, Propose(p, d) PROVE WorktreeStep
  BY <1>1 DEF WorktreeStep, Propose, files, Idle, Fail, To
<1>2. CASE executeManagedTemplatePlans
  BY <1>2 DEF WorktreeStep, executeManagedTemplatePlans, files, Idle, Fail, To
<1>3. ASSUME NEW w \in Worktrees, syncManagedAndLegacyInject(w) PROVE WorktreeStep
  BY <1>3 DEF WorktreeStep, syncManagedAndLegacyInject, files, Idle, Fail, To
<1>4. ASSUME NEW w \in Worktrees, Archive(w) PROVE WorktreeStep
  BY <1>4 DEF WorktreeStep, Archive, files, Idle, Fail, To
<1>5. ASSUME NEW w \in Worktrees, UserAddsWorktree(w) PROVE WorktreeStep
  BY <1>5 DEF WorktreeStep, UserAddsWorktree, Appears, history
<1>6. ASSUME NEW w \in Worktrees, UserCommits(w) PROVE WorktreeStep
  BY <1>6 DEF WorktreeStep, UserCommits, files, Idle, Fail, To
<1>7. ASSUME NEW old \in Worktrees, NEW new \in Worktrees, renameBranchExternal(old, new)
      PROVE WorktreeStep
  BY <1>7 DEF WorktreeStep, renameBranchExternal, files, Idle, Fail, To
<1>8. CASE TakeDownWorktree
  <2>1. Old \in Worktrees /\ wt[Old] > 0 /\ Retiring
    BY <1>8, RenameFacts DEF PlanInv, TakeDownWorktree, Renames, RelationOK, Retiring
  <2>2. CASE WithoutWorktree(Old) /\ To("branch", plan)
    <3>1. Replanned
      BY <2>2 DEF To, Replanned
    <3> QED
      BY <2>1, <2>2, <3>1 DEF WorktreeStep, Goes
  <2>3. CASE UNCHANGED <<files, git, ledger, history, bounds>>
    BY <2>3 DEF WorktreeStep, files
  <2> QED
    BY <1>8, <2>2, <2>3 DEF TakeDownWorktree
<1>9. CASE RenameBranch
  BY <1>9 DEF WorktreeStep, RenameBranch, files, Idle, Fail, To
<1>10. CASE AddRenamedWorktree
  <2>1. New \in Worktrees
    BY <1>10, RenameFacts DEF PlanInv, AddRenamedWorktree, Renames
  <2>2. UNCHANGED wt \/ Appears(New)
    BY <1>10, <2>1 DEF AddRenamedWorktree, Appears, history
  <2> QED
    BY <2>1, <2>2 DEF WorktreeStep
<1>11. CASE SaveStackAtomic
  BY <1>11 DEF WorktreeStep, SaveStackAtomic, files, Idle, Fail, To
<1>12. CASE Reinject
  BY <1>12 DEF WorktreeStep, Reinject, files, Idle, Fail, To
<1>13. CASE RollbackRef
  BY <1>13 DEF WorktreeStep, RollbackRef, files, Idle, Fail, To
<1>14. CASE RollbackWorktree
  <2>1. Old \in Worktrees
    BY <1>14, RenameFacts DEF PlanInv, RollbackWorktree, Renames
  <2>2. UNCHANGED wt \/ Appears(Old)
    BY <1>14, <2>1 DEF RollbackWorktree, Appears, Fail, history
  <2> QED
    BY <2>1, <2>2 DEF WorktreeStep
<1>15. CASE RestoreManagedTemplateRetirementAfterRollback
  BY <1>15 DEF WorktreeStep, RestoreManagedTemplateRetirementAfterRollback, files, Idle,
    Fail, To
<1>16. CASE RemoveWorktree
  <2>1. plan.request[2] \in Worktrees /\ wt[plan.request[2]] > 0 /\ Retiring
    BY <1>16, RequestFacts
      DEF PlanInv, RemoveWorktree, RelationOK, TypeOK, RunType, Plans, Retiring
  <2>2. WithoutWorktree(plan.request[2]) /\ Replanned
    BY <1>16 DEF RemoveWorktree, Idle, Replanned
  <2> QED
    BY <2>1, <2>2 DEF WorktreeStep, Goes
<1>17. CASE ApplyManagedTemplatePlan
  BY <1>17 DEF WorktreeStep, ApplyManagedTemplatePlan, files, Idle, Fail, To
<1>18. ASSUME NEW r \in RootNames, newManagedRecoveryRoot(r) PROVE WorktreeStep
  BY <1>18 DEF WorktreeStep, newManagedRecoveryRoot, files, Idle, Fail, To
<1>19. ASSUME NEW r \in RootNames, cleanupVerified(r) PROVE WorktreeStep
  BY <1>19 DEF WorktreeStep, cleanupVerified, files, Idle, Fail, To, Applied
<1>20. ASSUME NEW s \in Slots, preserve(s) PROVE WorktreeStep
  BY <1>20 DEF WorktreeStep, preserve, files, Idle, Fail, To
<1>21. ASSUME NEW s \in Slots, publish(s) PROVE WorktreeStep
  BY <1>21 DEF WorktreeStep, publish, files, Idle, Fail, To
<1>22. ASSUME NEW s \in Slots, removeVerifiedPrivate(s) PROVE WorktreeStep
  BY <1>22 DEF WorktreeStep, removeVerifiedPrivate, files, Idle, Fail, To
<1>23. ASSUME NEW s \in Slots, UserEdit(s) PROVE WorktreeStep
  BY <1>23 DEF WorktreeStep, UserEdit, files, Idle, Fail, To
<1>24. CASE compare
  BY <1>24 DEF WorktreeStep, compare, files, Idle, Fail, To, Captured
<1>25. CASE restoreAfterPreservationFailure
  BY <1>25 DEF WorktreeStep, restoreAfterPreservationFailure, files, Idle, Fail, To
<1>26. CASE EffectsDone
  BY <1>26 DEF WorktreeStep, EffectsDone, files, Idle, Fail, To
<1>27. CASE preserveLedger
  BY <1>27 DEF WorktreeStep, preserveLedger, files, Idle, Fail, To
<1>28. CASE publishLedger
  BY <1>28 DEF WorktreeStep, publishLedger, files, Idle, Fail, To
<1>29. CASE preflightCleanup
  BY <1>29 DEF WorktreeStep, preflightCleanup, files, Idle, Fail, To
<1>30. CASE Kill
  BY <1>30 DEF WorktreeStep, Kill, files, Idle, Fail, To
<1>31. CASE UserSettles
  BY <1>31 DEF WorktreeStep, UserSettles, files, Idle, Fail, To
<1>32. CASE UNCHANGED vars
  BY <1>32 DEF WorktreeStep, vars, files
<1> QED
  BY <1>1, <1>2, <1>3, <1>4, <1>5, <1>6, <1>7, <1>8, <1>9, <1>10, <1>11, <1>12, <1>13,
    <1>14, <1>15, <1>16, <1>17, <1>18, <1>19, <1>20, <1>21, <1>22, <1>23, <1>24, <1>25,
    <1>26, <1>27, <1>28, <1>29, <1>30, <1>31, <1>32 DEF Next, RootNames

\* Incarnations only grow: links that were known stay known.
LEMMA KnownStep ==
  ASSUME TypeOK, WorktreeStep, NEW links \in SUBSET (Worktrees \X Files \X Int), Known(links)
  PROVE  Known(links)'
<1>1. SUFFICES ASSUME NEW k \in links
               PROVE  k[3] > 0 /\ (k[3] <= wt'[k[1]] \/ k[3] <= -wt'[k[1]])
  BY DEF Known
<1>2. k[3] > 0 /\ (k[3] <= wt[k[1]] \/ k[3] <= -wt[k[1]]) /\ k[1] \in Worktrees /\ k[3] \in Int
  BY TripleFacts DEF Known
<1>3. wt[k[1]] \in Int
  BY <1>2 DEF TypeOK, BookType
<1>4. wt'[k[1]] = wt[k[1]] \/ (wt'[k[1]] = 1 - wt[k[1]] /\ wt[k[1]] <= 0) \/ wt'[k[1]] = -wt[k[1]]
  <2>1. CASE UNCHANGED wt
    BY <2>1
  <2>2. ASSUME NEW w \in Worktrees, Appears(w)
        PROVE  wt'[k[1]] = wt[k[1]] \/ (wt'[k[1]] = 1 - wt[k[1]] /\ wt[k[1]] <= 0)
    <3>1. wt' = [wt EXCEPT ![w] = 1 - @] /\ wt[w] <= 0 /\ wt \in [Worktrees -> Int]
      BY <2>2 DEF Appears, Added, TypeOK, BookType
    <3> QED
      BY <1>2, <3>1
  <2>3. ASSUME NEW w \in Worktrees, Goes(w)
        PROVE  wt'[k[1]] = wt[k[1]] \/ wt'[k[1]] = -wt[k[1]]
    <3>1. wt' = [wt EXCEPT ![w] = -@] /\ wt \in [Worktrees -> Int]
      BY <2>3 DEF Goes, WithoutWorktree, TypeOK, BookType
    <3> QED
      BY <1>2, <3>1
  <2> QED
    BY <2>1, <2>2, <2>3 DEF WorktreeStep
<1> QED
  BY <1>2, <1>3, <1>4

\* The links a plan makes or removes are those of worktrees that are there.
LEMMA LeadsStep ==
  ASSUME TypeOK, PlanInv, WorktreeStep, Replanned PROVE Leads(plan)'
<1>1. CASE plan' = NoPlan
  <2>1. plan'.removals = {} /\ plan'.links = {} /\ DOMAIN plan'.writes = {}
    BY <1>1, NoPlanType, EmptyFunction
  <2> QED
    BY <2>1 DEF Leads
<1>2. CASE plan' = plan
  <2>1. CASE UNCHANGED wt
    BY <1>2, <2>1 DEF PlanInv, PlanOK, Leads
  <2>2. ASSUME NEW w \in Worktrees, Appears(w) PROVE Leads(plan)'
    <3>1. \A v \in Worktrees : wt[v] > 0 => wt'[v] = wt[v]
      BY <2>2 DEF Appears, Added, TypeOK, BookType
    <3>2. \A l \in plan.links : wt[l[1]] > 0 => wt'[l[1]] = wt[l[1]]
      BY <3>1, SlotFacts DEF PlanInv, PlanOK, Sound
    <3>3. \A l \in Links : wt[l[1]] > 0 => wt'[l[1]] = wt[l[1]]
      BY <3>1, SlotFacts
    <3> QED
      BY <1>2, <3>2, <3>3 DEF PlanInv, PlanOK, Leads
  <2>3. ASSUME NEW w \in Worktrees, Goes(w) PROVE Leads(plan)'
    BY <1>2, <2>3 DEF Goes, PlanInv, RelationOK, Leads
  <2> QED
    BY <2>1, <2>2, <2>3 DEF WorktreeStep
<1> QED
  BY <1>1, <1>2 DEF Replanned

\* A ledger is kept, removed, or replaced by that of the plan.
LEMMA LedgerCases ==
  ASSUME TypeOK, [Next]_vars PROVE ledger' \in {ledger, NoLedger, plan.ledger}
  BY DEF Next, vars, Propose, executeManagedTemplatePlans, syncManagedAndLegacyInject,
      Archive,
    UserAddsWorktree, UserCommits, renameBranchExternal, TakeDownWorktree, RenameBranch,
    AddRenamedWorktree, SaveStackAtomic, Reinject, RollbackRef, RollbackWorktree,
    RestoreManagedTemplateRetirementAfterRollback, RemoveWorktree, ApplyManagedTemplatePlan,
    newManagedRecoveryRoot, cleanupVerified, preserve, publish, removeVerifiedPrivate,
         UserEdit,
    compare, Captured, restoreAfterPreservationFailure, EffectsDone, preserveLedger,
    publishLedger, preflightCleanup, Kill, UserSettles, Fail, WithoutWorktree

\* One path changes: to nothing, or in a worktree that is there.
LEMMA Putting ==
  ASSUME TypeOK, Absent, UNCHANGED wt, NEW s \in Slots, NEW o,
         disk' = disk \/ disk' = [disk EXCEPT ![s] = o],
         o = Nothing \/ (s \in Links => wt[s[1]] > 0)
  PROVE  Absent'
<1>1. SUFFICES ASSUME NEW l \in Links, wt[l[1]] <= 0 PROVE disk'[l] = Nothing
  BY DEF Absent
<1>2. disk[l] = Nothing /\ l \in Slots /\ disk \in [Slots -> Objects] /\ wt[l[1]] \in Int
  BY <1>1, SlotFacts DEF Absent, TypeOK, DiskType, BookType
<1>3. l = s => o = Nothing
  BY <1>1, <1>2
<1> QED
  BY <1>2, <1>3

\* Nothing is put at the links of a worktree that is not there.
LEMMA AbsentStep ==
  ASSUME TypeOK, PlanInv, HeldOK, [Next]_vars
  PROVE  Absent'
<1>1. ASSUME NEW p \in Packages, NEW d \in Decisions, Propose(p, d) PROVE Absent'
  BY <1>1 DEF Absent, PlanInv, LedgersOK, Propose, files, Idle, Fail, To
<1>2. CASE executeManagedTemplatePlans
  BY <1>2 DEF Absent, PlanInv, LedgersOK, executeManagedTemplatePlans, files, Idle,
    Fail, To
<1>3. ASSUME NEW w \in Worktrees, syncManagedAndLegacyInject(w) PROVE Absent'
  BY <1>3 DEF Absent, PlanInv, LedgersOK, syncManagedAndLegacyInject, files, Idle, Fail,
    To
<1>4. ASSUME NEW w \in Worktrees, Archive(w) PROVE Absent'
  BY <1>4 DEF Absent, PlanInv, LedgersOK, Archive, files, Idle, Fail, To
<1>5. ASSUME NEW w \in Worktrees, UserAddsWorktree(w) PROVE Absent'
  BY <1>5 DEF Absent, UserAddsWorktree, Added, PlanInv, LedgersOK, TypeOK, BookType, Links
<1>6. ASSUME NEW w \in Worktrees, UserCommits(w) PROVE Absent'
  BY <1>6 DEF Absent, PlanInv, LedgersOK, UserCommits, files, Idle, Fail, To
<1>7. ASSUME NEW old \in Worktrees, NEW new \in Worktrees, renameBranchExternal(old, new)
      PROVE Absent'
  BY <1>7 DEF Absent, PlanInv, LedgersOK, renameBranchExternal, files, Idle, Fail, To
<1>8. CASE TakeDownWorktree
  <2>1. Old \in Worktrees
    BY <1>8, RenameFacts DEF PlanInv, TakeDownWorktree, Renames
  <2>2. CASE WithoutWorktree(Old)
    BY <2>1, <2>2
      DEF Absent, WithoutWorktree, PlanInv, LedgersOK, TypeOK, BookType, Links, Slots
  <2> QED
    BY <1>8, <2>2 DEF Absent, TakeDownWorktree, files, PlanInv, LedgersOK
<1>9. CASE RenameBranch
  BY <1>9 DEF Absent, PlanInv, LedgersOK, RenameBranch, files, Idle, Fail, To
<1>10. CASE AddRenamedWorktree
  <2>1. New \in Worktrees
    BY <1>10, RenameFacts DEF PlanInv, AddRenamedWorktree, Renames
  <2> QED
    BY <1>10, <2>1
      DEF Absent, AddRenamedWorktree, Added, PlanInv, LedgersOK, TypeOK, BookType, Links
<1>11. CASE SaveStackAtomic
  BY <1>11 DEF Absent, PlanInv, LedgersOK, SaveStackAtomic, files, Idle, Fail, To
<1>12. CASE Reinject
  BY <1>12 DEF Absent, PlanInv, LedgersOK, Reinject, files, Idle, Fail, To
<1>13. CASE RollbackRef
  BY <1>13 DEF Absent, PlanInv, LedgersOK, RollbackRef, files, Idle, Fail, To
<1>14. CASE RollbackWorktree
  <2>1. Old \in Worktrees
    BY <1>14, RenameFacts DEF PlanInv, RollbackWorktree, Renames
  <2> QED
    BY <1>14, <2>1
      DEF Absent, RollbackWorktree, Added, PlanInv, LedgersOK, TypeOK, BookType, Links,
      Fail
<1>15. CASE RestoreManagedTemplateRetirementAfterRollback
  BY <1>15 DEF Absent, PlanInv, LedgersOK,
    RestoreManagedTemplateRetirementAfterRollback, files, Idle, Fail, To
<1>16. CASE RemoveWorktree
  <2>1. plan.request[2] \in Worktrees
    BY <1>16, RequestFacts DEF PlanInv, RemoveWorktree, RelationOK, TypeOK, RunType, Plans
  <2>2. CASE WithoutWorktree(plan.request[2])
    BY <2>1, <2>2
      DEF Absent, WithoutWorktree, PlanInv, LedgersOK, TypeOK, BookType, Links, Slots
  <2> QED
    BY <1>16, <2>2 DEF RemoveWorktree
<1>17. CASE ApplyManagedTemplatePlan
  BY <1>17 DEF Absent, PlanInv, LedgersOK, ApplyManagedTemplatePlan, files, Idle, Fail,
    To
<1>18. ASSUME NEW r \in RootNames, newManagedRecoveryRoot(r) PROVE Absent'
  BY <1>18 DEF Absent, PlanInv, LedgersOK, newManagedRecoveryRoot, files, Idle, Fail, To
<1>19. ASSUME NEW r \in RootNames, cleanupVerified(r) PROVE Absent'
  BY <1>19 DEF Absent, PlanInv, LedgersOK, cleanupVerified, files, Idle, Fail, To,
    Applied
<1>20. ASSUME NEW s \in Slots, preserve(s) PROVE Absent'
  <2>1. UNCHANGED wt /\ (disk' = disk \/ disk' = [disk EXCEPT ![s] = Nothing])
    BY <1>20 DEF preserve, Fail
  <2> QED
    BY <2>1, Putting DEF PlanInv, LedgersOK
<1>21. ASSUME NEW s \in Slots, publish(s) PROVE Absent'
  <2>1. CASE Fail
    BY <2>1 DEF Absent, Fail, PlanInv, LedgersOK
  <2>2. CASE disk' = [disk EXCEPT ![s] = IF s \in Links THEN Link ELSE Rendered(plan.writes[s])]
             /\ UNCHANGED wt
    <3>1. s \in Links => s \in plan.links
      BY <1>21, SlotFacts
        DEF publish, NextEffect, Removing, Writing, PlanInv, PlanOK, Sound, HeldOK,
        Moving, Effects
    <3>2. s \in Links => wt[s[1]] > 0 /\ wt[s[1]] \in Int
      BY <3>1, SlotFacts DEF PlanInv, PlanOK, Leads, TypeOK, BookType
    <3> QED
      BY <2>2, <3>2 DEF Absent, PlanInv, LedgersOK, TypeOK, DiskType
  <2> QED
    BY <1>21, <2>1, <2>2 DEF publish
<1>22. ASSUME NEW s \in Slots, removeVerifiedPrivate(s) PROVE Absent'
  BY <1>22 DEF Absent, PlanInv, LedgersOK, removeVerifiedPrivate, files, Idle, Fail, To
<1>23. ASSUME NEW s \in Slots, UserEdit(s) PROVE Absent'
  <2>1. s \in Links => wt[s[1]] > 0 /\ wt[s[1]] \in Int
    BY <1>23, SlotFacts DEF UserEdit, Present, TypeOK, BookType
  <2>2. UNCHANGED wt /\ \E o \in {Nothing, Foreign(Mine)} : disk' = [disk EXCEPT ![s] = o]
    BY <1>23 DEF UserEdit
  <2> QED
    BY <2>1, <2>2, Putting DEF PlanInv, LedgersOK
<1>24. CASE compare
  BY <1>24 DEF Absent, PlanInv, LedgersOK, compare, files, Idle, Fail, To, Captured
<1>25. CASE restoreAfterPreservationFailure
  <2>1. held[1] \in DOMAIN plan.before
    BY <1>25 DEF restoreAfterPreservationFailure, HeldOK
  <2>2. held[1] \in Links => wt[held[1][1]] > 0 /\ wt[held[1][1]] \in Int
    BY <2>1, SlotFacts DEF PlanInv, PlanOK, Leads, Sound, TypeOK, BookType
  <2>3. UNCHANGED wt /\ (disk' = disk \/ disk' = [disk EXCEPT ![held[1]] = held[2]])
    BY <1>25 DEF restoreAfterPreservationFailure
  <2>4. held[1] \in Slots
    BY <1>25 DEF restoreAfterPreservationFailure, HeldOK, Moving
  <2> QED
    BY <2>2, <2>3, <2>4, Putting DEF PlanInv, LedgersOK
<1>26. CASE EffectsDone
  BY <1>26 DEF Absent, PlanInv, LedgersOK, EffectsDone, files, Idle, Fail, To
<1>27. CASE preserveLedger
  BY <1>27 DEF Absent, PlanInv, LedgersOK, preserveLedger, files, Idle, Fail, To
<1>28. CASE publishLedger
  BY <1>28 DEF Absent, PlanInv, LedgersOK, publishLedger, files, Idle, Fail, To
<1>29. CASE preflightCleanup
  BY <1>29 DEF Absent, PlanInv, LedgersOK, preflightCleanup, files, Idle, Fail, To
<1>30. CASE Kill
  BY <1>30 DEF Absent, PlanInv, LedgersOK, Kill, files, Idle, Fail, To
<1>31. CASE UserSettles
  BY <1>31 DEF Absent, PlanInv, LedgersOK, UserSettles, files, Idle, Fail, To
<1>32. CASE UNCHANGED vars
  BY <1>32 DEF Absent, PlanInv, LedgersOK, vars, files, Idle, Fail, To, run
<1> QED
  BY <1>1, <1>2, <1>3, <1>4, <1>5, <1>6, <1>7, <1>8, <1>9, <1>10, <1>11, <1>12, <1>13,
    <1>14, <1>15, <1>16, <1>17, <1>18, <1>19, <1>20, <1>21, <1>22, <1>23, <1>24, <1>25,
    <1>26, <1>27, <1>28, <1>29, <1>30, <1>31, <1>32 DEF Next, RootNames

\* LedgersOK is preserved.
LEMMA LedgersStep ==
  ASSUME TypeOK, PlanInv, HeldOK, [Next]_vars PROVE LedgersOK'
<1>1. NewPlan /\ WorktreeStep /\ ledger' \in {ledger, NoLedger, plan.ledger} /\ Absent'
  BY PlanCases, WorktreeCases, LedgerCases, AbsentStep DEF PlanInv
<1>2. /\ ledger.links \in SUBSET (Worktrees \X Files \X Int)
      /\ plan.ledger.links \in SUBSET (Worktrees \X Files \X Int)
  BY DEF TypeOK, BookType, RunType, Plans, Ledgers
<1>3. Known(ledger.links) /\ Known(plan.ledger.links) /\ Honest(ledger) /\ Honest(plan.ledger)
  BY DEF PlanInv, LedgersOK
<1>4. NoLedger.links = {} /\ Honest(NoLedger) /\ NoPlan.ledger = NoLedger
  BY NoPlanType DEF NoLedger, Honest, NoEntry, Mine
<1>5. \A k \in ledger.links \cup plan.ledger.links :
        k[3] > 0 /\ (k[3] <= wt'[k[1]] \/ k[3] <= -wt'[k[1]])
  BY <1>1, <1>2, <1>3, KnownStep DEF Known
<1>6. Known(ledger.links)' /\ Honest(ledger)'
  BY <1>1, <1>3, <1>4, <1>5 DEF Known, Honest
<1>7. CASE plan' = plan \/ plan' = NoPlan
  BY <1>1, <1>3, <1>4, <1>5, <1>6, <1>7 DEF Known, Honest, LedgersOK
<1>8. CASE Fresh(plan') /\ UNCHANGED <<files, git, ledger, history>>
  <2>1. UNCHANGED wt
    BY <1>8 DEF files
  <2> QED
    BY <1>1, <1>6, <1>8, <2>1 DEF Fresh, Known, Honest, LedgersOK
<1> QED
  BY <1>1, <1>7, <1>8 DEF NewPlan
-----------------------------------------------------------------------------
(* The plan of a running command is what it was made as.                     *)

\* A plan that is to be applied changes the ledger, or a file of the feature.
ReachesOK == pc \in {"consent", "open", "roots"} \cup Applying => Reaches(plan)

\* The links of a rename come back with a plan of their own, or not at all.
LEMMA ReinjectCases == ASSUME TypeOK, RelationOK, Reinject PROVE Idle \/ plan' # NoPlan
<1> DEFINE q == planManagedTemplateLinksOnly(New)
<1>1. CASE Fail \/ Idle
  BY <1>1 DEF Fail
<1>2. CASE q # Refused /\ To("open", [q EXCEPT !.request = <<"reinject", New>>])
  <2>1. New \in Worktrees
    BY RenameFacts DEF Reinject, Renames
  <2>2. q \in Plans /\ <<"reinject", New>> \in Requests
    BY <1>2, <2>1, LinksPlan DEF Requests
  <2>3. plan' = [q EXCEPT !.request = <<"reinject", New>>]
    BY <1>2 DEF To
  <2> HIDE DEF q
  <2>4. plan'.request = <<"reinject", New>>
    BY <2>2, <2>3, PlanFor
  <2> QED
    BY <2>4, NoPlanType
<1> QED
  BY <1>1, <1>2 DEF Reinject

\* Links are restored with a plan, or the command ends.
LEMMA RestoreCases ==
  ASSUME TypeOK, RelationOK, RestoreManagedTemplateRetirementAfterRollback
  PROVE  Idle \/ plan' # NoPlan
<1>1. CASE Fail
  BY <1>1 DEF Fail
<1>2. CASE pc' = "open"
  <2> DEFINE back == {<<k[1], k[2]>> : k \in RetiredLinks}
  <2> DEFINE links == plan.ledger.links \cup {<<Old, k[2], wt[Old]>> : k \in RetiredLinks}
  <2>1. Plan(plan', <<"restore", Old>>, [plan.ledger EXCEPT !.links = links], {}, <<>>, back, {}, {})
    BY <1>2, RestorePlan DEF RestoreManagedTemplateRetirementAfterRollback
  <2> HIDE DEF back, links
  <2>2. plan'.request = <<"restore", Old>>
    BY <2>1 DEF Plan
  <2> QED
    BY <2>2, NoPlanType
<1> QED
  BY <1>1, <1>2 DEF RestoreManagedTemplateRetirementAfterRollback, To

\* Every step keeps ReachesOK.
LEMMA ReachesStep ==
  ASSUME TypeOK, PlanInv, [Next]_vars
  PROVE  ReachesOK'
<1>1. ASSUME NEW p \in Packages, NEW d \in Decisions, Propose(p, d) PROVE ReachesOK'
  <2> DEFINE q == planManagedRoleFiles(p, d)
  <2>1. q # Refused /\ HasEffects(q) /\ plan' = q
    BY <1>1 DEF Propose, Begin
  <2> HIDE DEF q
  <2> QED
    BY <2>1, RoleReaches DEF q, PlanInv, ReachesOK
<1>2. CASE executeManagedTemplatePlans
  BY <1>2 DEF ReachesOK, PlanInv, PlanOK, Applying, Moving, Past,
    executeManagedTemplatePlans, run, Idle, Fail, To
<1>3. ASSUME NEW w \in Worktrees, syncManagedAndLegacyInject(w) PROVE ReachesOK'
  <2> DEFINE q == planManagedTemplateLinksOnly(w)
  <2>1. w \in Present /\ q # Refused /\ HasEffects(q) /\ plan' = q
    BY <1>3 DEF syncManagedAndLegacyInject, Begin
  <2>2. Reaches(q)
    BY <2>1, LinksFresh DEF PlanInv
  <2> QED
    BY <2>1, <2>2 DEF ReachesOK
<1>4. ASSUME NEW w \in Worktrees, Archive(w) PROVE ReachesOK'
  BY <1>4 DEF Archive, Begin, ReachesOK, Applying, Moving, Past
<1>5. ASSUME NEW w \in Worktrees, UserAddsWorktree(w) PROVE ReachesOK'
  BY <1>5 DEF ReachesOK, PlanInv, PlanOK, Applying, Moving, Past, UserAddsWorktree, run,
    Idle, Fail, To
<1>6. ASSUME NEW w \in Worktrees, UserCommits(w) PROVE ReachesOK'
  BY <1>6 DEF ReachesOK, PlanInv, PlanOK, Applying, Moving, Past, UserCommits, run,
    Idle, Fail, To
<1>7. ASSUME NEW old \in Worktrees, NEW new \in Worktrees, renameBranchExternal(old, new)
      PROVE ReachesOK'
  BY <1>7 DEF renameBranchExternal, Begin, ReachesOK, Applying, Moving, Past
<1>8. CASE TakeDownWorktree
  BY <1>8 DEF ReachesOK, PlanInv, PlanOK, Applying, Moving, Past, TakeDownWorktree, run,
    Idle, Fail, To
<1>9. CASE RenameBranch
  BY <1>9 DEF ReachesOK, PlanInv, PlanOK, Applying, Moving, Past, RenameBranch, run,
    Idle, Fail, To
<1>10. CASE AddRenamedWorktree
  <2>1. plan' = plan /\ (pc' \in {"stack", "rollback"} \/ (pc' = "open" /\ plan.changed))
    BY <1>10 DEF AddRenamedWorktree, To
  <2> QED
    BY <2>1 DEF ReachesOK, Reaches, Applying, Moving, Past
<1>11. CASE SaveStackAtomic
  BY <1>11 DEF ReachesOK, PlanInv, PlanOK, Applying, Moving, Past, SaveStackAtomic, run,
    Idle, Fail, To
<1>12. CASE Reinject
  BY <1>12, ReinjectCases, ReinjectFresh DEF PlanInv, ReachesOK, Idle, Applying, Moving, Past
<1>13. CASE RollbackRef
  BY <1>13 DEF ReachesOK, PlanInv, PlanOK, Applying, Moving, Past, RollbackRef, run,
    Idle, Fail, To
<1>14. CASE RollbackWorktree
  BY <1>14 DEF ReachesOK, PlanInv, PlanOK, Applying, Moving, Past, RollbackWorktree,
    run, Idle, Fail, To
<1>15. CASE RestoreManagedTemplateRetirementAfterRollback
  <2>1. wt[Old] > 0 /\ plan.changed
    BY <1>15 DEF RestoreManagedTemplateRetirementAfterRollback, PlanInv, RelationOK
  <2> QED
    BY <1>15, <2>1, RestoreCases, RestoreFresh
      DEF PlanInv, ReachesOK, Idle, Applying, Moving, Past
<1>16. CASE RemoveWorktree
  <2>1. pc' = "idle" \/ (plan' = plan /\ plan.changed)
    BY <1>16 DEF RemoveWorktree, Idle
  <2> QED
    BY <2>1 DEF ReachesOK, Reaches, Applying, Moving, Past
<1>17. CASE ApplyManagedTemplatePlan
  BY <1>17 DEF ReachesOK, PlanInv, PlanOK, Applying, Moving, Past,
    ApplyManagedTemplatePlan, run, Idle, Fail, To
<1>18. ASSUME NEW r \in RootNames, newManagedRecoveryRoot(r) PROVE ReachesOK'
  BY <1>18 DEF ReachesOK, PlanInv, PlanOK, Applying, Moving, Past,
    newManagedRecoveryRoot, run, Idle, Fail, To
<1>19. ASSUME NEW r \in RootNames, cleanupVerified(r) PROVE ReachesOK'
  BY <1>19 DEF ReachesOK, PlanInv, PlanOK, Applying, Moving, Past, cleanupVerified, run,
    Idle, Fail, To, Applied
<1>20. ASSUME NEW s \in Slots, preserve(s) PROVE ReachesOK'
  BY <1>20 DEF ReachesOK, PlanInv, PlanOK, Applying, Moving, Past, preserve, run, Idle,
    Fail, To
<1>21. ASSUME NEW s \in Slots, publish(s) PROVE ReachesOK'
  BY <1>21 DEF ReachesOK, PlanInv, PlanOK, Applying, Moving, Past, publish, run, Idle,
    Fail, To
<1>22. ASSUME NEW s \in Slots, removeVerifiedPrivate(s) PROVE ReachesOK'
  BY <1>22 DEF ReachesOK, PlanInv, PlanOK, Applying, Moving, Past,
    removeVerifiedPrivate, run, Idle, Fail, To
<1>23. ASSUME NEW s \in Slots, UserEdit(s) PROVE ReachesOK'
  BY <1>23 DEF ReachesOK, PlanInv, PlanOK, Applying, Moving, Past, UserEdit, run, Idle,
    Fail, To
<1>24. CASE compare
  BY <1>24 DEF ReachesOK, PlanInv, PlanOK, Applying, Moving, Past, compare, run, Idle,
    Fail, To, Captured
<1>25. CASE restoreAfterPreservationFailure
  BY <1>25 DEF ReachesOK, PlanInv, PlanOK, Applying, Moving, Past,
    restoreAfterPreservationFailure, run, Idle, Fail, To
<1>26. CASE EffectsDone
  BY <1>26 DEF ReachesOK, PlanInv, PlanOK, Applying, Moving, Past, EffectsDone, run,
    Idle, Fail, To
<1>27. CASE preserveLedger
  BY <1>27 DEF ReachesOK, PlanInv, PlanOK, Applying, Moving, Past, preserveLedger, run,
    Idle, Fail, To
<1>28. CASE publishLedger
  BY <1>28 DEF ReachesOK, PlanInv, PlanOK, Applying, Moving, Past, publishLedger, run,
    Idle, Fail, To
<1>29. CASE preflightCleanup
  BY <1>29 DEF ReachesOK, PlanInv, PlanOK, Applying, Moving, Past, preflightCleanup,
    run, Idle, Fail, To
<1>30. CASE Kill
  BY <1>30 DEF ReachesOK, PlanInv, PlanOK, Applying, Moving, Past, Kill, run, Idle,
    Fail, To
<1>31. CASE UserSettles
  BY <1>31 DEF ReachesOK, UserSettles, run, Applying, Moving, Past, PlanInv, PlanOK
<1>32. CASE UNCHANGED vars
  BY <1>32 DEF ReachesOK, PlanInv, PlanOK, Applying, Moving, Past, vars, run, Idle,
    Fail, To, files
<1> QED
  BY <1>1, <1>2, <1>3, <1>4, <1>5, <1>6, <1>7, <1>8, <1>9, <1>10, <1>11, <1>12, <1>13,
    <1>14, <1>15, <1>16, <1>17, <1>18, <1>19, <1>20, <1>21, <1>22, <1>23, <1>24, <1>25,
    <1>26, <1>27, <1>28, <1>29, <1>30, <1>31, <1>32 DEF Next, RootNames

\* PlanOK is preserved.
LEMMA PlanStep == ASSUME TypeOK, PlanInv, [Next]_vars PROVE PlanOK'
<1>1. NewPlan /\ WorktreeStep /\ ReachesOK'
  BY PlanCases, WorktreeCases, ReachesStep
<1>2. CASE plan' = plan \/ plan' = NoPlan
  <2>1. Sound(plan)'
    <3>1. Sound(NoPlan)
      BY NoPlanType, EmptyFunction DEF Sound
    <3> QED
      BY <1>2, <3>1 DEF PlanInv, PlanOK
  <2>2. Leads(plan)'
    BY <1>1, <1>2, LeadsStep DEF Replanned
  <2> QED
    BY <1>1, <2>1, <2>2 DEF PlanOK, ReachesOK
<1>3. CASE Fresh(plan') /\ UNCHANGED <<files, git, ledger, history>>
  <2>1. UNCHANGED wt
    BY <1>3 DEF files
  <2>2. Sound(plan)' /\ Leads(plan)'
    BY <1>3, <2>1 DEF Fresh, Leads
  <2> QED
    BY <1>1, <2>2 DEF PlanOK, ReachesOK
<1> QED
  BY <1>1, <1>2, <1>3 DEF NewPlan

\* A worktree that is added is there, and no other changes.
LEMMA AddedIsPresent ==
  ASSUME TypeOK, NEW w \in Worktrees, wt[w] <= 0, Added(w)
  PROVE  wt'[w] > 0 /\ wt'[w] \in Int /\ \A v \in Worktrees : v # w => wt'[v] = wt[v]
  BY DEF Added, TypeOK, BookType

\* A command that ends drops its plan.
LEMMA IdleRelation == ASSUME Idle PROVE RelationOK'
  BY NoPlanType DEF Idle, RelationOK, Early, Renames, Moving, Retiring

\* A step that leaves the ledger, the worktrees and the plan alone, and goes on
\* without making a plan, an archive or a renamed worktree of it.
LEMMA FailRelation == ASSUME Fail PROVE RelationOK'
  BY IdleRelation DEF Fail

\* RelationOK is preserved.
LEMMA RelationStep ==
  ASSUME TypeOK, PlanInv, [Next]_vars
  PROVE  RelationOK'
<1>1. ASSUME NEW p \in Packages, NEW d \in Decisions, Propose(p, d) PROVE RelationOK'
  <2> DEFINE q == planManagedRoleFiles(p, d)
  <2>1. q # Refused /\ plan' = q /\ pc' = "consent" /\ UNCHANGED ledger
    BY <1>1 DEF Propose, Begin
  <2>2. Plan(q, <<"roles", p, d>>, RoleLedger(p, d), RoleRemovals(p), RoleWrites(p, d),
             RoleLinks(p), RoleChecks(p), RoleAgreed(p, d))
    BY <2>1, RolesPlan DEF PlanInv
  <2> HIDE DEF q
  <2>3. q.request = <<"roles", p, d>> /\ q.changed = (q.ledger # ledger \/ q.links # {})
    BY <2>2 DEF Plan
  <2> QED
    BY <2>1, <2>3 DEF RelationOK, Renames, Retiring
<1>2. CASE executeManagedTemplatePlans
  BY <1>2, IdleRelation, FailRelation DEF PlanInv, RelationOK, Early, Renames, Moving,
    Retiring, Old, executeManagedTemplatePlans, run, files, To
<1>3. ASSUME NEW w \in Worktrees, syncManagedAndLegacyInject(w) PROVE RelationOK'
  <2> DEFINE q == planManagedTemplateLinksOnly(w)
  <2>1. w \in Present /\ q # Refused /\ plan' = q /\ pc' = "open" /\ UNCHANGED ledger
    BY <1>3 DEF syncManagedAndLegacyInject, Begin
  <2>2. Light(q) /\ q.request = <<"links", w>>
    BY <2>1, LinksFresh DEF PlanInv
  <2> QED
    BY <2>1, <2>2 DEF RelationOK, Renames, Retiring, Light
<1>4. ASSUME NEW w \in Worktrees, Archive(w) PROVE RelationOK'
  <2> DEFINE q == planManagedTemplateWorktreeRetirement(w)
  <2>1. /\ w \in Present /\ q # Refused /\ plan' = q /\ pc' = "remove"
        /\ UNCHANGED <<ledger, wt>>
    BY <1>4 DEF Archive, Begin, files
  <2>2. /\ Light(q) /\ q.request = <<"retire", w>> /\ q.links = {}
        /\ q.ledger.links = {k \in ledger.links : k[1] # w}
    BY <2>1, RetireFresh DEF PlanInv
  <2> QED
    BY <2>1, <2>2 DEF RelationOK, Renames, Retiring, Light, Present
<1>5. ASSUME NEW w \in Worktrees, UserAddsWorktree(w) PROVE RelationOK'
  <2>1. /\ pc \in {"remove", "take down", "put links back"} => plan.request[2] \in Worktrees
        /\ Old = plan.request[2] /\ Old' = plan'.request[2]
    BY RequestFacts DEF PlanInv, RelationOK, Renames, TypeOK, RunType, Plans, Old
  <2>2. /\ UNCHANGED <<pc, plan, ledger>> /\ \A v \in Worktrees : wt[v] > 0 => wt'[v] = wt[v]
    BY <1>5 DEF UserAddsWorktree, Added, run, TypeOK, BookType
  <2> QED
    BY <2>1, <2>2 DEF PlanInv, RelationOK, Early, Renames, Moving, Retiring
<1>6. ASSUME NEW w \in Worktrees, UserCommits(w) PROVE RelationOK'
  BY <1>6, IdleRelation, FailRelation DEF PlanInv, RelationOK, Early, Renames, Moving,
    Retiring, Old, UserCommits, run, files, To
<1>7. ASSUME NEW old \in Worktrees, NEW new \in Worktrees, renameBranchExternal(old, new)
      PROVE RelationOK'
  <2>1. /\ Light(plan') /\ plan'.request = <<"rename", old, new, ref[old], wt[old] > 0>>
        /\ plan'.links = {} /\ plan'.ledger.links = {k \in ledger.links : k[1] # old}
        /\ UNCHANGED <<files, git, ledger, history>>
    BY <1>7, RenameFresh DEF PlanInv
  <2>2. /\ (pc' = "take down" /\ wt[old] > 0) \/ pc' = "branch"
        /\ UNCHANGED <<ledger, wt>>
    BY <1>7 DEF renameBranchExternal, Begin, files
  <2>3. plan'.request[1] = "rename" /\ plan'.request[2] = old
    BY <2>1
  <2> QED
    BY <2>1, <2>2, <2>3 DEF RelationOK, Renames, Retiring, Light, Old
<1>8. CASE TakeDownWorktree
  <2>1. CASE Idle
    BY <2>1, IdleRelation
  <2>2. CASE To("branch", plan) /\ UNCHANGED ledger
    BY <1>8, <2>2
      DEF TakeDownWorktree, PlanInv, RelationOK, Early, Renames, Moving, Retiring, To
  <2> QED
    BY <1>8, <2>1, <2>2 DEF TakeDownWorktree, WithoutWorktree
<1>9. CASE RenameBranch
  BY <1>9, IdleRelation, FailRelation DEF PlanInv, RelationOK, Early, Renames, Moving,
    Retiring, Old, RenameBranch, run, files, To
<1>10. CASE AddRenamedWorktree
  BY <1>10, IdleRelation, FailRelation DEF PlanInv, RelationOK, Early, Renames, Moving,
    Retiring, Old, AddRenamedWorktree, run, files, To
<1>11. CASE SaveStackAtomic
  BY <1>11, IdleRelation, FailRelation DEF PlanInv, RelationOK, Early, Renames, Moving,
    Retiring, Old, SaveStackAtomic, run, files, To
<1>12. CASE Reinject
  <2>1. CASE Idle
    BY <2>1, IdleRelation
  <2>2. CASE plan' # NoPlan
    <3>1. /\ Light(plan') /\ plan'.request = <<"reinject", New>> /\ pc' = "open"
          /\ UNCHANGED ledger
      BY <1>12, <2>2, ReinjectFresh DEF PlanInv
    <3> QED
      BY <3>1 DEF RelationOK, Renames, Retiring, Light
  <2> QED
    BY <1>12, <2>1, <2>2, ReinjectCases DEF PlanInv
<1>13. CASE RollbackRef
  BY <1>13, IdleRelation, FailRelation DEF PlanInv, RelationOK, Early, Renames, Moving,
    Retiring, Old, RollbackRef, run, files, To
<1>14. CASE RollbackWorktree
  <2>1. CASE Idle
    BY <2>1, IdleRelation
  <2>2. CASE To("put links back", plan) /\ plan.changed /\ wt[Old] <= 0 /\ Added(Old) /\ UNCHANGED ledger
    <3>1. pc = "put back" /\ Old \in Worktrees /\ wt[Old] \in Int /\ wt \in [Worktrees -> Int]
      BY <1>14, RenameFacts DEF PlanInv, RollbackWorktree, Renames, TypeOK, BookType
    <3>2. wt'[Old] > 0
      BY <2>2, <3>1, AddedIsPresent
    <3>3. Old' = Old /\ plan' = plan /\ pc' = "put links back"
      BY <2>2 DEF To, Old
    <3> QED
      BY <2>2, <3>1, <3>2, <3>3 DEF PlanInv, RelationOK, Early, Renames, Moving, Retiring
  <2> QED
    BY <1>14, <2>1, <2>2 DEF RollbackWorktree, Fail
<1>15. CASE RestoreManagedTemplateRetirementAfterRollback
  <2>1. CASE Idle
    BY <2>1, IdleRelation
  <2>2. CASE plan' # NoPlan
    <3>1. /\ Light(plan') /\ plan'.request = <<"restore", Old>> /\ pc' = "open"
          /\ UNCHANGED ledger
      BY <1>15, <2>2, RestoreFresh
        DEF PlanInv, RelationOK, RestoreManagedTemplateRetirementAfterRollback
    <3> QED
      BY <3>1 DEF RelationOK, Renames, Retiring, Light
  <2> QED
    BY <1>15, <2>1, <2>2, RestoreCases DEF PlanInv
<1>16. CASE RemoveWorktree
  BY <1>16, IdleRelation, FailRelation DEF PlanInv, RelationOK, Early, Renames, Moving,
    Retiring, Old, RemoveWorktree, run, files, To, WithoutWorktree
<1>17. CASE ApplyManagedTemplatePlan
  BY <1>17, IdleRelation, FailRelation DEF PlanInv, RelationOK, Early, Renames, Moving,
    Retiring, Old, ApplyManagedTemplatePlan, run, files, To
<1>18. ASSUME NEW r \in RootNames, newManagedRecoveryRoot(r) PROVE RelationOK'
  BY <1>18, IdleRelation, FailRelation DEF PlanInv, RelationOK, Early, Renames, Moving,
    Retiring, Old, newManagedRecoveryRoot, run, files, To
<1>19. ASSUME NEW r \in RootNames, cleanupVerified(r) PROVE RelationOK'
  BY <1>19, IdleRelation, FailRelation DEF PlanInv, RelationOK, Early, Renames, Moving,
    Retiring, Old, cleanupVerified, run, files, To, Applied
<1>20. ASSUME NEW s \in Slots, preserve(s) PROVE RelationOK'
  BY <1>20, IdleRelation, FailRelation DEF PlanInv, RelationOK, Early, Renames, Moving,
    Retiring, Old, preserve, run, files, To
<1>21. ASSUME NEW s \in Slots, publish(s) PROVE RelationOK'
  BY <1>21, IdleRelation, FailRelation DEF PlanInv, RelationOK, Early, Renames, Moving,
    Retiring, Old, publish, run, files, To
<1>22. ASSUME NEW s \in Slots, removeVerifiedPrivate(s) PROVE RelationOK'
  BY <1>22, IdleRelation, FailRelation DEF PlanInv, RelationOK, Early, Renames, Moving,
    Retiring, Old, removeVerifiedPrivate, run, files, To
<1>23. ASSUME NEW s \in Slots, UserEdit(s) PROVE RelationOK'
  BY <1>23, IdleRelation, FailRelation DEF PlanInv, RelationOK, Early, Renames, Moving,
    Retiring, Old, UserEdit, run, files, To
<1>24. CASE compare
  BY <1>24, IdleRelation, FailRelation DEF PlanInv, RelationOK, Early, Renames, Moving,
    Retiring, Old, compare, run, files, To, Captured
<1>25. CASE restoreAfterPreservationFailure
  BY <1>25, IdleRelation, FailRelation DEF PlanInv, RelationOK, Early, Renames, Moving,
    Retiring, Old, restoreAfterPreservationFailure, run, files, To
<1>26. CASE EffectsDone
  BY <1>26, IdleRelation, FailRelation DEF PlanInv, RelationOK, Early, Renames, Moving,
    Retiring, Old, EffectsDone, run, files, To
<1>27. CASE preserveLedger
  BY <1>27, IdleRelation, FailRelation DEF PlanInv, RelationOK, Early, Renames, Moving,
    Retiring, Old, preserveLedger, run, files, To
<1>28. CASE publishLedger
  BY <1>28, IdleRelation, FailRelation DEF PlanInv, RelationOK, Early, Renames, Moving,
    Retiring, Old, publishLedger, run, files, To
<1>29. CASE preflightCleanup
  BY <1>29, IdleRelation, FailRelation DEF PlanInv, RelationOK, Early, Renames, Moving,
    Retiring, Old, preflightCleanup, run, files, To
<1>30. CASE Kill
  BY <1>30, IdleRelation, FailRelation DEF PlanInv, RelationOK, Early, Renames, Moving,
    Retiring, Old, Kill, run, files, To
<1>31. CASE UserSettles
  BY <1>31, IdleRelation, FailRelation DEF PlanInv, RelationOK, Early, Renames, Moving,
    Retiring, Old, UserSettles, run, files, To
<1>32. CASE UNCHANGED vars
  BY <1>32, IdleRelation, FailRelation DEF PlanInv, RelationOK, Early, Renames, Moving,
    Retiring, Old, vars, run, files, To
<1> QED
  BY <1>1, <1>2, <1>3, <1>4, <1>5, <1>6, <1>7, <1>8, <1>9, <1>10, <1>11, <1>12, <1>13,
    <1>14, <1>15, <1>16, <1>17, <1>18, <1>19, <1>20, <1>21, <1>22, <1>23, <1>24, <1>25,
    <1>26, <1>27, <1>28, <1>29, <1>30, <1>31, <1>32 DEF Next, RootNames

\* The plan and the ledgers, together.
LEMMA PlanInvStep == ASSUME TypeOK, PlanInv, HeldOK, [Next]_vars PROVE PlanInv'
  BY LedgersStep, PlanStep, RelationStep DEF PlanInv
-----------------------------------------------------------------------------
(* What people wrote is where they left it, or in recovery.                  *)

\* Outside of a plan's effects nothing is held.
LEMMA IdleHeld == ASSUME Idle PROVE HeldOK'
  BY DEF Idle, HeldOK, Applying, Moving, Past
LEMMA FailHeld == ASSUME Fail PROVE HeldOK'
  BY IdleHeld DEF Fail
LEMMA OutsideHeld == ASSUME pc' \notin Applying, saved' = {} PROVE HeldOK'
  BY DEF HeldOK, Applying, Moving, Past

\* HeldOK is preserved.
LEMMA HeldStep ==
  ASSUME TypeOK, HeldOK, [Next]_vars
  PROVE  HeldOK'
<1>1. ASSUME NEW p \in Packages, NEW d \in Decisions, Propose(p, d) PROVE HeldOK'
  BY <1>1, OutsideHeld DEF Propose, Begin, Applying, Moving, Past
<1>2. CASE executeManagedTemplatePlans
  BY <1>2, IdleHeld, OutsideHeld
    DEF executeManagedTemplatePlans, HeldOK, Applying, Moving, Past
<1>3. ASSUME NEW w \in Worktrees, syncManagedAndLegacyInject(w) PROVE HeldOK'
  BY <1>3, OutsideHeld DEF syncManagedAndLegacyInject, Begin, Applying, Moving, Past
<1>4. ASSUME NEW w \in Worktrees, Archive(w) PROVE HeldOK'
  BY <1>4, OutsideHeld DEF Archive, Begin, Applying, Moving, Past
<1>5. ASSUME NEW w \in Worktrees, UserAddsWorktree(w) PROVE HeldOK'
  BY <1>5, FailHeld DEF UserAddsWorktree, run, Effects, HeldOK, Applying, Moving, Past
<1>6. ASSUME NEW w \in Worktrees, UserCommits(w) PROVE HeldOK'
  BY <1>6, FailHeld DEF UserCommits, run, Effects, HeldOK, Applying, Moving, Past
<1>7. ASSUME NEW old \in Worktrees, NEW new \in Worktrees, renameBranchExternal(old, new)
      PROVE HeldOK'
  BY <1>7, OutsideHeld DEF renameBranchExternal, Begin, Applying, Moving, Past
<1>8. CASE TakeDownWorktree
  BY <1>8, IdleHeld, OutsideHeld DEF TakeDownWorktree, To, Applying, Moving, Past
<1>9. CASE RenameBranch
  BY <1>9, IdleHeld, OutsideHeld DEF RenameBranch, To, Applying, Moving, Past
<1>10. CASE AddRenamedWorktree
  BY <1>10, IdleHeld, OutsideHeld DEF AddRenamedWorktree, To, Applying, Moving, Past
<1>11. CASE SaveStackAtomic
  BY <1>11, IdleHeld, FailHeld, OutsideHeld
    DEF SaveStackAtomic, To, Applying, Moving, Past
<1>12. CASE Reinject
  BY <1>12, IdleHeld, FailHeld, OutsideHeld
    DEF Reinject, To, Applying, Moving, Past
<1>13. CASE RollbackRef
  BY <1>13, IdleHeld, FailHeld, OutsideHeld
    DEF RollbackRef, To, Applying, Moving, Past
<1>14. CASE RollbackWorktree
  BY <1>14, IdleHeld, FailHeld, OutsideHeld
    DEF RollbackWorktree, To, Applying, Moving, Past
<1>15. CASE RestoreManagedTemplateRetirementAfterRollback
  BY <1>15, IdleHeld, FailHeld, OutsideHeld
    DEF RestoreManagedTemplateRetirementAfterRollback, To, Applying, Moving, Past
<1>16. CASE RemoveWorktree
  BY <1>16, IdleHeld, OutsideHeld DEF RemoveWorktree, HeldOK, Applying, Moving, Past
<1>17. CASE ApplyManagedTemplatePlan
  BY <1>17, FailHeld, OutsideHeld DEF ApplyManagedTemplatePlan, HeldOK, Applying, Moving, Past
<1>18. ASSUME NEW r \in RootNames, newManagedRecoveryRoot(r) PROVE HeldOK'
  <2>1. CASE Fail
    BY <2>1, FailHeld
  <2>2. CASE pc = "roots" /\ UNCHANGED <<plan, held, saved>>
             /\ ((pc' = "effect" /\ todo' = Effects) \/ UNCHANGED pc)
    BY <2>2 DEF Effects, HeldOK, Applying, Moving, Past
  <2> QED
    BY <1>18, <2>1, <2>2 DEF newManagedRecoveryRoot
<1>19. ASSUME NEW r \in RootNames, cleanupVerified(r) PROVE HeldOK'
  <2>1. CASE Fail \/ Idle
    BY <2>1, FailHeld, IdleHeld
  <2>2. CASE pc' = "stack" /\ saved' = {}
    BY <2>2, OutsideHeld DEF Applying, Moving, Past
  <2>3. CASE pc = "clean" /\ UNCHANGED <<pc, plan, held, saved>>
    BY <2>3 DEF HeldOK, Applying, Moving, Past
  <2> QED
    BY <1>19, <2>1, <2>2, <2>3 DEF cleanupVerified, Applied
<1>20. ASSUME NEW s \in Slots, preserve(s) PROVE HeldOK'
  <2>1. CASE Fail
    BY <2>1, FailHeld
  <2>2. CASE ~Fail
    <3>1. /\ pc = "effect" /\ pc' = "compare" /\ held' = <<s, disk[s]>>
          /\ UNCHANGED <<plan, todo, saved>>
      BY <1>20, <2>2 DEF preserve
    <3>2. s \in todo /\ s \in DOMAIN plan.before /\ <<s, disk[s]>> \in Slots \X Objects
      BY <1>20 DEF preserve, NextEffect, Removing, Writing, MustMove, TypeOK, DiskType
    <3>3. todo \subseteq Effects /\ \A c \in saved : c[1] \in DOMAIN plan.before /\ c[2] = plan.before[c[1]]
      BY <3>1 DEF HeldOK, Moving
    <3> QED
      BY <3>1, <3>2, <3>3 DEF HeldOK, Applying, Moving, Past, Effects
  <2> QED
    BY <2>1, <2>2
<1>21. ASSUME NEW s \in Slots, publish(s) PROVE HeldOK'
  <2>1. CASE Fail
    BY <2>1, FailHeld
  <2>2. CASE ~Fail
    <3>1. pc = "effect" /\ UNCHANGED <<pc, plan, held, saved>> /\ todo' = todo \ {s}
      BY <1>21, <2>2 DEF publish
    <3> QED
      BY <3>1 DEF HeldOK, Applying, Moving, Past, Effects
  <2> QED
    BY <2>1, <2>2
<1>22. ASSUME NEW s \in Slots, removeVerifiedPrivate(s) PROVE HeldOK'
  BY <1>22, FailHeld DEF removeVerifiedPrivate, run, Effects, HeldOK, Applying, Moving,
    Past
<1>23. ASSUME NEW s \in Slots, UserEdit(s) PROVE HeldOK'
  BY <1>23, FailHeld DEF UserEdit, run, Effects, HeldOK, Applying, Moving, Past
<1>24. CASE compare
  <2>1. /\ pc = "compare" /\ held \in Slots \X Objects /\ held[1] \in todo \cap DOMAIN plan.before
        /\ todo \subseteq Effects
        /\ \A c \in saved : c[1] \in DOMAIN plan.before /\ c[2] = plan.before[c[1]]
    BY <1>24 DEF compare, HeldOK, Moving
  <2>2. CASE held[2] = Planned /\ Captured
    <3>1. /\ pc' = "effect" /\ plan' = plan /\ todo' \subseteq todo
          /\ saved' = saved \cup {held, <<held[1], Planned>>}
      BY <2>2 DEF Captured
    <3>2. \A c \in saved' : c[1] \in DOMAIN plan.before /\ c[2] = plan.before[c[1]]
      BY <2>1, <2>2, <3>1 DEF Planned
    <3> QED
      BY <2>1, <3>1, <3>2 DEF HeldOK, Applying, Moving, Past, Effects
  <2>3. CASE pc' = "restore" /\ UNCHANGED <<plan, todo, held, saved>>
    BY <2>1, <2>3 DEF HeldOK, Applying, Moving, Past, Effects
  <2> QED
    BY <1>24, <2>2, <2>3 DEF compare
<1>25. CASE restoreAfterPreservationFailure
  BY <1>25, IdleHeld DEF restoreAfterPreservationFailure
<1>26. CASE EffectsDone
  BY <1>26, FailHeld DEF EffectsDone, run, Effects, HeldOK, Applying, Moving, Past
<1>27. CASE preserveLedger
  BY <1>27, FailHeld DEF preserveLedger, run, Effects, HeldOK, Applying, Moving, Past
<1>28. CASE publishLedger
  BY <1>28, FailHeld DEF publishLedger, run, Effects, HeldOK, Applying, Moving, Past
<1>29. CASE preflightCleanup
  BY <1>29, FailHeld DEF preflightCleanup, run, Effects, HeldOK, Applying, Moving, Past
<1>30. CASE Kill
  BY <1>30, IdleHeld DEF Kill
<1>31. CASE UserSettles
  BY <1>31 DEF UserSettles, run, Effects, HeldOK, Applying, Moving, Past
<1>32. CASE UNCHANGED vars
  BY <1>32, FailHeld DEF vars, run, Effects, HeldOK, Applying, Moving, Past
<1> QED
  BY <1>1, <1>2, <1>3, <1>4, <1>5, <1>6, <1>7, <1>8, <1>9, <1>10, <1>11, <1>12, <1>13,
    <1>14, <1>15, <1>16, <1>17, <1>18, <1>19, <1>20, <1>21, <1>22, <1>23, <1>24, <1>25,
    <1>26, <1>27, <1>28, <1>29, <1>30, <1>31, <1>32 DEF Next, RootNames

\* What is kept stays kept while paths and recovery roots are left alone.
LEMMA KeptSame ==
  ASSUME KeptOK, UNCHANGED <<disk, kept, mine>>,
         \A m \in saved' : m \in saved /\ (pc \in Moving /\ m[1] \in todo => pc' \in Moving /\ m[1] \in todo')
  PROVE  KeptOK'
  BY DEF KeptOK
LEMMA KeptIdle == ASSUME KeptOK, UNCHANGED <<disk, kept, mine>>, saved' = {} PROVE KeptOK'
  BY KeptSame
LEMMA KeptFail == ASSUME KeptOK, Fail PROVE KeptOK'
  BY KeptIdle DEF Fail, Idle, history

\* What is in a worktree that is removed goes with it, as its owner asked for.
LEMMA KeptWithout ==
  ASSUME TypeOK, KeptOK, NEW w \in Worktrees, WithoutWorktree(w), saved' = {}
  PROVE  KeptOK'
<1>1. /\ \A m \in mine' : m \in mine /\ m[1] \in Slots /\ disk'[m[1]] = disk[m[1]]
      /\ kept' = kept
  BY DEF WithoutWorktree, TypeOK, DiskType
<1> QED
  BY <1>1 DEF KeptOK

\* KeptOK is preserved.
LEMMA KeptStep ==
  ASSUME TypeOK, PlanInv, HeldOK, KeptOK, [Next]_vars
  PROVE  KeptOK'
<1>1. ASSUME NEW p \in Packages, NEW d \in Decisions, Propose(p, d) PROVE KeptOK'
  BY <1>1, KeptIdle DEF Propose, Begin, files, history
<1>2. CASE executeManagedTemplatePlans
  BY <1>2, KeptSame, KeptIdle DEF executeManagedTemplatePlans, Idle, Moving, files, history
<1>3. ASSUME NEW w \in Worktrees, syncManagedAndLegacyInject(w) PROVE KeptOK'
  BY <1>3, KeptIdle DEF syncManagedAndLegacyInject, Begin, files, history
<1>4. ASSUME NEW w \in Worktrees, Archive(w) PROVE KeptOK'
  BY <1>4, KeptIdle DEF Archive, Begin, files, history
<1>5. ASSUME NEW w \in Worktrees, UserAddsWorktree(w) PROVE KeptOK'
  BY <1>5, KeptSame DEF UserAddsWorktree, run, history
<1>6. ASSUME NEW w \in Worktrees, UserCommits(w) PROVE KeptOK'
  BY <1>6, KeptSame DEF UserCommits, run, files, history
<1>7. ASSUME NEW old \in Worktrees, NEW new \in Worktrees, renameBranchExternal(old, new)
      PROVE KeptOK'
  BY <1>7, KeptIdle DEF renameBranchExternal, Begin, files, history
<1>8. CASE TakeDownWorktree
  <2>1. Old \in Worktrees
    BY <1>8, RenameFacts DEF PlanInv, TakeDownWorktree, Renames
  <2>2. CASE WithoutWorktree(Old) /\ To("branch", plan)
    BY <2>1, <2>2, KeptWithout DEF To, ContentInv
  <2>3. CASE Idle /\ UNCHANGED <<files, git, ledger, history, bounds>>
    BY <2>3, KeptIdle DEF Idle, files, history
  <2> QED
    BY <1>8, <2>2, <2>3 DEF TakeDownWorktree
<1>9. CASE RenameBranch
  BY <1>9, KeptIdle, KeptFail DEF RenameBranch, To, Idle, files, history
<1>10. CASE AddRenamedWorktree
  BY <1>10, KeptIdle, KeptFail DEF AddRenamedWorktree, To, Idle, files, history
<1>11. CASE SaveStackAtomic
  BY <1>11, KeptIdle, KeptFail DEF SaveStackAtomic, To, Idle, files, history
<1>12. CASE Reinject
  BY <1>12, KeptIdle, KeptFail DEF Reinject, To, Idle, files, history
<1>13. CASE RollbackRef
  BY <1>13, KeptIdle, KeptFail DEF RollbackRef, To, Idle, files, history
<1>14. CASE RollbackWorktree
  BY <1>14, KeptIdle, KeptFail DEF RollbackWorktree, To, Idle, files, history
<1>15. CASE RestoreManagedTemplateRetirementAfterRollback
  BY <1>15, KeptIdle, KeptFail DEF RestoreManagedTemplateRetirementAfterRollback, To,
    Idle, files, history
<1>16. CASE RemoveWorktree
  <2>1. plan.request[2] \in Worktrees
    BY <1>16, RequestFacts DEF PlanInv, RemoveWorktree, RelationOK, TypeOK, RunType, Plans
  <2>2. saved' = {}
    BY <1>16 DEF RemoveWorktree, HeldOK, Idle, Applying, Moving, Past
  <2> QED
    BY <1>16, <2>1, <2>2, KeptWithout DEF RemoveWorktree
<1>17. CASE ApplyManagedTemplatePlan
  BY <1>17, KeptSame, KeptFail DEF ApplyManagedTemplatePlan, Moving, files, history
<1>18. ASSUME NEW r \in RootNames, newManagedRecoveryRoot(r) PROVE KeptOK'
  BY <1>18, KeptSame, KeptFail DEF newManagedRecoveryRoot, Moving, history
<1>19. ASSUME NEW r \in RootNames, cleanupVerified(r) PROVE KeptOK'
  BY <1>19, KeptSame, KeptIdle, KeptFail
    DEF cleanupVerified, Applied, Idle, Moving, history
<1>20. ASSUME NEW s \in Slots, preserve(s) PROVE KeptOK'
  <2>1. CASE Fail
    BY <2>1, KeptFail
  <2>2. CASE ~Fail
    <3>1. /\ pc = "effect" /\ pc' = "compare" /\ disk' = [disk EXCEPT ![s] = Nothing]
          /\ kept' = [kept EXCEPT ![s] = @ \cup {disk[s]}] /\ UNCHANGED <<mine, todo, saved>>
      BY <1>20, <2>2 DEF preserve, history
    <3>2. s \in todo /\ disk \in [Slots -> Objects] /\ kept \in [Slots -> SUBSET Objects]
      BY <1>20 DEF preserve, NextEffect, Removing, Writing, TypeOK, DiskType
    <3>3. ASSUME NEW m \in mine, disk'[m[1]] # m[2]
          PROVE  m[2] \in kept'[m[1]] /\ (m \in saved => m[1] \in todo)
      <4>1. m[1] \in Slots /\ (disk[m[1]] # m[2] =>
              m[2] \in kept[m[1]] /\ (m \in saved => m[1] \in todo))
        BY DEF KeptOK, TypeOK, DiskType
      <4>2. CASE disk[m[1]] # m[2]
        BY <3>1, <3>2, <4>1, <4>2
      <4>3. CASE disk[m[1]] = m[2]
        BY <3>1, <3>2, <3>3, <4>1, <4>3
      <4> QED
        BY <4>2, <4>3
    <3> QED
      BY <3>1, <3>3 DEF KeptOK, Moving
  <2> QED
    BY <2>1, <2>2
<1>21. ASSUME NEW s \in Slots, publish(s) PROVE KeptOK'
  <2>1. CASE Fail
    BY <2>1, KeptFail
  <2>2. CASE ~Fail
    <3>1. /\ pc = "effect" /\ pc' = "effect" /\ UNCHANGED <<kept, plan, saved>> /\ disk[s] = Nothing
          /\ \A v \in Slots : v # s => disk'[v] = disk[v]
          /\ todo' = todo \ {s} /\ mine' = mine \ {m \in plan.agreed : m[1] = s}
      BY <1>21, <2>2 DEF publish, TypeOK, DiskType
    <3>2. ASSUME NEW m \in mine', disk'[m[1]] # m[2]
          PROVE  m[2] \in kept[m[1]] /\ (m \in saved => m[1] \in todo')
      <4>1. m \in mine /\ m \in Slots \X Objects /\ m[2] = Foreign(Mine) /\ m[2] # Nothing
        BY <3>1, ObjectFacts DEF KeptOK, TypeOK, DiskType
      <4>2. disk[m[1]] # m[2]
        BY <3>1, <3>2, <4>1
      <4>3. m[2] \in kept[m[1]] /\ (m \in saved => m[1] \in todo)
        BY <4>1, <4>2 DEF KeptOK
      <4>4. m[1] = s => m \notin saved
        <5>1. SUFFICES ASSUME m[1] = s, m \in saved PROVE FALSE
          OBVIOUS
        <5>2. s \in DOMAIN plan.before /\ plan.before[s] = Foreign(Mine)
          BY <4>1, <5>1 DEF HeldOK
        <5>3. <<s, Foreign(Mine)>> \in plan.agreed /\ m = <<s, Foreign(Mine)>>
          BY <4>1, <5>1, <5>2 DEF PlanInv, PlanOK, Sound
        <5> QED
          BY <3>1, <3>2, <5>1, <5>3
      <4> QED
        BY <3>1, <4>3, <4>4
    <3> QED
      BY <3>1, <3>2 DEF KeptOK, Moving
  <2> QED
    BY <2>1, <2>2
<1>22. ASSUME NEW s \in Slots, removeVerifiedPrivate(s) PROVE KeptOK'
  <2>1. CASE Fail
    BY <2>1, KeptFail
  <2>2. CASE ~Fail
    <3>1. /\ pc = "clean" /\ UNCHANGED <<pc, disk, mine, saved, todo>>
          /\ kept' = [kept EXCEPT ![s] = {o \in @ : <<s, o>> \notin saved}]
          /\ kept \in [Slots -> SUBSET Objects]
      BY <1>22, <2>2 DEF removeVerifiedPrivate, run, history, TypeOK, DiskType
    <3>2. ASSUME NEW m \in mine, disk[m[1]] # m[2] PROVE m[2] \in kept'[m[1]] /\ m \notin saved
      <4>1. m = <<m[1], m[2]>> /\ m[1] \in Slots
        BY DEF TypeOK, DiskType
      <4>2. m[2] \in kept[m[1]] /\ m \notin saved
        BY <3>1, <3>2 DEF KeptOK, Moving
      <4> QED
        BY <3>1, <4>1, <4>2
    <3> QED
      BY <3>1, <3>2 DEF KeptOK
  <2> QED
    BY <2>1, <2>2
<1>23. ASSUME NEW s \in Slots, UserEdit(s) PROVE KeptOK'
  <2>1. UNCHANGED <<kept, pc, todo, saved>> /\ disk \in [Slots -> Objects]
    BY <1>23 DEF UserEdit, run, TypeOK, DiskType
  <2>2. CASE disk' = [disk EXCEPT ![s] = Foreign(Mine)] /\ mine' = mine \cup {<<s, Foreign(Mine)>>}
    <3>1. ASSUME NEW m \in mine' PROVE m[2] = Foreign(Mine) /\ (m[1] = s \/ m \in mine) /\ m[1] \in Slots
      BY <2>2 DEF KeptOK, TypeOK, DiskType
    <3>2. ASSUME NEW m \in mine', disk'[m[1]] # m[2] PROVE m \in mine /\ disk[m[1]] # m[2]
      BY <2>1, <2>2, <3>1, <3>2
    <3> QED
      BY <2>1, <3>1, <3>2 DEF KeptOK
  <2>3. CASE disk' = [disk EXCEPT ![s] = Nothing] /\ mine' = mine \ {<<s, disk[s]>>}
    <3>1. ASSUME NEW m \in mine' PROVE m \in mine /\ m = <<m[1], m[2]>> /\ m[1] \in Slots
      BY <2>3 DEF TypeOK, DiskType
    <3>2. ASSUME NEW m \in mine', disk'[m[1]] # m[2] PROVE disk[m[1]] # m[2]
      <4>1. m[1] = s => m[2] # disk[s]
        BY <2>3, <3>1
      <4> QED
        BY <2>1, <2>3, <3>1, <3>2, <4>1
    <3> QED
      BY <2>1, <3>1, <3>2 DEF KeptOK
  <2> QED
    BY <1>23, <2>2, <2>3 DEF UserEdit
<1>24. CASE compare
  <2>1. CASE held[2] = Planned /\ Captured
    <3>1. /\ pc = "compare" /\ pc' = "effect" /\ UNCHANGED <<disk, kept, mine, plan>>
          /\ todo' = IF held[1] \in plan.removals THEN todo \ {held[1]} ELSE todo
          /\ saved' = saved \cup {held, <<held[1], Planned>>}
      BY <1>24, <2>1 DEF compare, Captured, files, history
    <3>2. /\ held \in Slots \X Objects /\ held[1] \in todo \cap DOMAIN plan.before
          /\ \A c \in saved' : c[1] \in DOMAIN plan.before /\ c[2] = plan.before[c[1]]
      BY <2>1, <3>1 DEF HeldOK, Moving, Planned
    <3>3. ASSUME NEW m \in mine, m \in saved', disk[m[1]] # m[2] PROVE m[1] \in todo'
      <4>1. m[2] = Foreign(Mine) /\ m[1] \notin plan.removals
        BY <3>2, <3>3 DEF KeptOK, PlanInv, PlanOK, Sound
      <4>2. m[1] \in todo
        BY <3>1, <3>2, <3>3 DEF KeptOK
      <4> QED
        BY <3>1, <4>1, <4>2
    <3> QED
      BY <3>1, <3>3 DEF KeptOK, Moving
  <2>2. CASE pc' = "restore" /\ UNCHANGED <<plan, todo, held, saved, files, history>>
    BY <2>2, KeptSame DEF Moving, files, history
  <2> QED
    BY <1>24, <2>1, <2>2 DEF compare
<1>25. CASE restoreAfterPreservationFailure
  <2>1. /\ held \in Slots \X Objects /\ saved' = {} /\ UNCHANGED mine
        /\ disk \in [Slots -> Objects] /\ kept \in [Slots -> SUBSET Objects]
    BY <1>25
      DEF restoreAfterPreservationFailure, HeldOK, Moving, Idle, history, TypeOK, DiskType
  <2>2. CASE UNCHANGED <<disk, kept>>
    BY <2>1, <2>2, KeptIdle
  <2>3. CASE /\ disk[held[1]] = Nothing /\ disk' = [disk EXCEPT ![held[1]] = held[2]]
             /\ kept' = [kept EXCEPT ![held[1]] = @ \ {held[2]}]
    <3>1. ASSUME NEW m \in mine, disk'[m[1]] # m[2] PROVE m[2] \in kept'[m[1]]
      <4>1. m[1] \in Slots /\ m[2] # Nothing /\ (disk[m[1]] # m[2] => m[2] \in kept[m[1]])
        BY ObjectFacts DEF KeptOK, TypeOK, DiskType
      <4>2. CASE m[1] = held[1]
        BY <2>1, <2>3, <3>1, <4>1, <4>2
      <4>3. CASE m[1] # held[1]
        BY <2>1, <2>3, <3>1, <4>1, <4>3
      <4> QED
        BY <4>2, <4>3
    <3> QED
      BY <2>1, <3>1 DEF KeptOK
  <2> QED
    BY <1>25, <2>2, <2>3 DEF restoreAfterPreservationFailure
<1>26. CASE EffectsDone
  BY <1>26, KeptSame DEF EffectsDone, Moving, files, history
<1>27. CASE preserveLedger
  BY <1>27, KeptSame, KeptFail DEF preserveLedger, Moving, files, history
<1>28. CASE publishLedger
  BY <1>28, KeptSame, KeptFail DEF publishLedger, Moving, files, history
<1>29. CASE preflightCleanup
  BY <1>29, KeptSame, KeptFail DEF preflightCleanup, Moving, files, history
<1>30. CASE Kill
  BY <1>30, KeptIdle, KeptFail DEF Kill, To, Idle, files, history
<1>31. CASE UserSettles
  <2>1. UNCHANGED disk /\ mine' = {m \in mine : disk[m[1]] = m[2]}
    BY <1>31 DEF UserSettles
  <2> QED
    BY <2>1 DEF KeptOK
<1>32. CASE UNCHANGED vars
  BY <1>32, KeptSame DEF vars, run, files, history
<1> QED
  BY <1>1, <1>2, <1>3, <1>4, <1>5, <1>6, <1>7, <1>8, <1>9, <1>10, <1>11, <1>12, <1>13,
    <1>14, <1>15, <1>16, <1>17, <1>18, <1>19, <1>20, <1>21, <1>22, <1>23, <1>24, <1>25,
    <1>26, <1>27, <1>28, <1>29, <1>30, <1>31, <1>32 DEF Next, RootNames
-----------------------------------------------------------------------------
(* The ledger is right about what only tws has written.                      *)

\* Right, of the state after a step.
RightThen(l, S) ==
  /\ \A f \in Files : <<Feature, f>> \notin touched' \cup S =>
       disk'[<<Feature, f>>].data = l.files[f].data
  /\ \A s \in Links : s \notin touched' \cup S /\ wt'[s[1]] > 0 =>
       ((disk'[s] = Link) <=> (<<s[1], s[2], wt'[s[1]]>> \in l.links))

\* It is what Right says of that state.
LEMMA RightThenFacts ==
  /\ RightThen(ledger', {}) => Right(ledger, {})'
  /\ RightThen(plan'.ledger, Effects') => Right(plan.ledger, Effects)'
  /\ RightThen(plan'.ledger, todo') => Right(plan.ledger, todo)'
  /\ RightThen(plan'.ledger, {}) => Right(plan.ledger, {})'
  BY DEF RightThen, Right, FilesRight, LinksRight, At

\* What is changed in slots the ledger need not be right about does no harm.
LEMMA RightElsewhere ==
  ASSUME UNCHANGED wt, touched \subseteq touched', NEW l, NEW S, Right(l, S),
         \A v \in Slots : v \notin touched' \cup S => disk'[v] = disk[v]
  PROVE  RightThen(l, S)
<1>1. \A f \in Files : <<Feature, f>> \in Slots
  BY SlotFacts
<1>2. \A s \in Links : s \in Slots
  BY SlotFacts
<1> QED
  BY <1>1, <1>2 DEF RightThen, Right, FilesRight, LinksRight, At

\* A ledger stays right where nothing it is about changes.
LEMMA RightSame ==
  ASSUME UNCHANGED <<disk, touched, wt>>, NEW l, NEW S, Right(l, S) PROVE RightThen(l, S)
  BY RightElsewhere

\* No ledger knows of a worktree that has just been added.
LEMMA RightAppears ==
  ASSUME TypeOK, Absent, NEW w \in Worktrees, Appears(w), NEW l, NEW S, Known(l.links),
         l.links \in SUBSET (Worktrees \X Files \X Int), Right(l, S)
  PROVE  RightThen(l, S)
<1>1. /\ wt'[w] = 1 - wt[w] /\ wt[w] <= 0 /\ wt[w] \in Int
      /\ \A v \in Worktrees : v # w => wt'[v] = wt[v]
      /\ disk' = disk /\ touched' = touched
  BY DEF Appears, Added, TypeOK, BookType
<1>2. ASSUME NEW s \in Links, s \notin touched' \cup S, wt'[s[1]] > 0
      PROVE  (disk'[s] = Link) <=> (<<s[1], s[2], wt'[s[1]]>> \in l.links)
  <2>1. s[1] \in Worktrees
    BY SlotFacts
  <2>2. CASE s[1] = w
    <3>1. disk'[s] # Link
      BY <1>1, <2>2, ObjectFacts DEF Absent
    <3>2. <<s[1], s[2], wt'[s[1]]>> \notin l.links
      <4> DEFINE k == <<s[1], s[2], wt'[s[1]]>>
      <4>1. k \in l.links => k[3] <= wt[k[1]] \/ k[3] <= -wt[k[1]]
        BY DEF Known
      <4>2. k[3] = 1 - wt[w] /\ k[1] = w
        BY <1>1, <2>2
      <4> HIDE DEF k
      <4>3. k \notin l.links
        BY <1>1, <4>1, <4>2
      <4> QED
        BY <4>3 DEF k
    <3> QED
      BY <3>1, <3>2
  <2>3. CASE s[1] # w
    BY <1>1, <1>2, <2>1, <2>3 DEF Right, LinksRight
  <2> QED
    BY <2>2, <2>3
<1>3. \A f \in Files : <<Feature, f>> \notin touched' \cup S =>
        disk'[<<Feature, f>>].data = l.files[f].data
  BY <1>1 DEF Right, FilesRight, At
<1> QED
  BY <1>2, <1>3 DEF RightThen

\* A worktree that is gone has no links to be right about.
LEMMA RightGoes ==
  ASSUME TypeOK, NEW w \in Worktrees, wt[w] > 0, WithoutWorktree(w), NEW l, NEW S, Right(l, S)
  PROVE  RightThen(l, S)
<1>1. /\ wt'[w] = -wt[w] /\ wt[w] \in Int /\ \A v \in Worktrees : v # w => wt'[v] = wt[v]
      /\ \A s \in Slots : s \notin {slot \in Links : slot[1] = w} => disk'[s] = disk[s]
      /\ touched' = touched \ {slot \in Links : slot[1] = w}
  BY DEF WithoutWorktree, TypeOK, BookType
<1>2. ASSUME NEW s \in Links, s \notin touched' \cup S, wt'[s[1]] > 0
      PROVE  (disk'[s] = Link) <=> (<<s[1], s[2], wt'[s[1]]>> \in l.links)
  <2>1. s[1] \in Worktrees /\ s[1] # w /\ s \in Slots
    BY <1>1, <1>2, SlotFacts
  <2>2. disk'[s] = disk[s] /\ wt'[s[1]] = wt[s[1]] /\ s \notin touched \cup S
    BY <1>1, <1>2, <2>1
  <2> QED
    BY <1>2, <2>2 DEF Right, LinksRight
<1>3. ASSUME NEW f \in Files, <<Feature, f>> \notin touched' \cup S
      PROVE  disk'[<<Feature, f>>].data = l.files[f].data
  <2>1. <<Feature, f>> \in Slots /\ <<Feature, f>> \notin Links
    BY SlotFacts
  <2> QED
    BY <1>1, <1>3, <2>1 DEF Right, FilesRight, At
<1> QED
  BY <1>2, <1>3 DEF RightThen

\* A file that a plan removes leaves nothing behind.
LEMMA RightRemoved ==
  ASSUME TypeOK, PlanInv, NEW s \in Slots, s \in plan.removals,
         s \notin touched => disk[s] = Nothing,
         UNCHANGED <<disk, touched, wt>>, Right(plan.ledger, todo)
  PROVE  RightThen(plan.ledger, todo \ {s})
<1>1. ASSUME NEW f \in Files, <<Feature, f>> \notin touched \cup (todo \ {s})
      PROVE  disk[<<Feature, f>>].data = plan.ledger.files[f].data
  <2>1. CASE s = <<Feature, f>>
    <3>1. plan.ledger.files[f].data = "" /\ disk[s] = Nothing
      BY <1>1, <2>1 DEF PlanInv, PlanOK, Leads
    <3> QED
      BY <2>1, <3>1, ObjectFacts
  <2>2. CASE s # <<Feature, f>>
    BY <1>1, <2>2 DEF Right, FilesRight, At
  <2> QED
    BY <2>1, <2>2
<1>2. ASSUME NEW v \in Links, v \notin touched \cup (todo \ {s}), wt[v[1]] > 0
      PROVE  (disk[v] = Link) <=> (<<v[1], v[2], wt[v[1]]>> \in plan.ledger.links)
  <2>1. CASE s = v
    <3>1. /\ disk[v] # Link /\ v = <<v[1], v[2]>>
          /\ \A k \in plan.ledger.links : <<k[1], k[2]>> # v
      BY <1>2, <2>1, ObjectFacts, SlotFacts DEF PlanInv, PlanOK, Leads
    <3> QED
      BY <3>1
  <2>2. CASE s # v
    BY <1>2, <2>2 DEF Right, LinksRight
  <2> QED
    BY <2>1, <2>2
<1> QED
  BY <1>1, <1>2 DEF RightThen

\* What a plan publishes is what its ledger says.
LEMMA RightPublished ==
  ASSUME TypeOK, PlanInv, NEW s \in Slots, s \in Effects \ plan.removals, UNCHANGED wt,
         disk' = [disk EXCEPT ![s] = IF s \in Links THEN Link ELSE Rendered(plan.writes[s])],
         touched' = touched \ {s}, Right(plan.ledger, todo)
  PROVE  RightThen(plan.ledger, todo \ {s})
<1>1. \A v \in Slots : v # s => disk'[v] = disk[v]
  BY DEF TypeOK, DiskType
<1>2. disk'[s] = IF s \in Links THEN Link ELSE Rendered(plan.writes[s])
  BY DEF TypeOK, DiskType
<1>3. ASSUME NEW f \in Files, <<Feature, f>> \notin touched' \cup (todo \ {s})
      PROVE  disk'[<<Feature, f>>].data = plan.ledger.files[f].data
  <2>1. <<Feature, f>> \in Slots /\ <<Feature, f>> \notin Links
    BY SlotFacts
  <2>2. CASE s = <<Feature, f>>
    <3>1. s \in DOMAIN plan.writes
      BY <2>1, <2>2 DEF Effects, PlanInv, PlanOK, Sound
    <3>2. plan.writes[s] = plan.ledger.files[f].data
      BY <2>2, <3>1 DEF PlanInv, PlanOK, Leads
    <3>3. disk'[s].data = plan.writes[s]
      BY <1>2, <2>1, <2>2 DEF Rendered
    <3> QED
      BY <2>2, <3>2, <3>3
  <2>3. CASE s # <<Feature, f>>
    BY <1>1, <1>3, <2>1, <2>3 DEF Right, FilesRight, At
  <2> QED
    BY <2>2, <2>3
<1>4. ASSUME NEW v \in Links, v \notin touched' \cup (todo \ {s}), wt[v[1]] > 0
      PROVE  (disk'[v] = Link) <=> (<<v[1], v[2], wt[v[1]]>> \in plan.ledger.links)
  <2>1. CASE s = v
    <3>1. v \in plan.links
      BY <2>1, SlotFacts DEF Effects, PlanInv, PlanOK, Sound
    <3> QED
      BY <1>2, <2>1, <3>1 DEF PlanInv, PlanOK, Leads
  <2>2. CASE s # v
    BY <1>1, <1>4, <2>2, SlotFacts DEF Right, LinksRight
  <2> QED
    BY <2>1, <2>2
<1> QED
  BY <1>3, <1>4 DEF RightThen

\* The conjuncts of RightOK, of the state after a step.
RightStep ==
  /\ pc' \in {"idle", "consent"} => Feature \in evidence' \/ RightThen(ledger', {})
  /\ pc' \notin {"idle", "consent"} \cup Applying => RightThen(ledger', {})
  /\ (pc' = "open" /\ ~Retiring') \/ pc' = "roots" => RightThen(plan'.ledger, Effects')
  /\ pc' \in Moving => RightThen(plan'.ledger, todo')
  /\ pc' \in Past => RightThen(plan'.ledger, {})
  /\ pc' \in {"compare", "restore"} /\ held'[1] \notin touched' => disk'[held'[1]] = Nothing

\* Together they are RightOK of that state.
LEMMA RightStepIsRight == ASSUME RightStep PROVE RightOK'
  BY RightThenFacts DEF RightStep, RightOK

\* A command that ends, well or badly, before it moved anything aside or after
\* it recorded what it did leaves the ledger right; between them, evidence.
LEMMA RightEnd ==
  ASSUME TypeOK, PlanInv, RightOK, EvidenceOK, pc' = "idle", evidence \subseteq evidence',
         UNCHANGED <<disk, touched, wt, ledger>>
  PROVE  RightStep
<1>1. Feature \in evidence' \/ Right(ledger, {})
  <2>1. CASE pc \in {"idle", "consent"}
    BY <2>1 DEF RightOK
  <2>2. CASE pc \in Applying \ {"clean"}
    BY <2>2 DEF EvidenceOK
  <2>3. CASE pc = "clean"
    BY <2>3 DEF RightOK, Past, PlanInv, RelationOK
  <2>4. CASE pc \notin {"idle", "consent"} \cup Applying
    BY <2>4 DEF RightOK
  <2> QED
    BY <2>1, <2>2, <2>3, <2>4
<1>2. Feature \in evidence' \/ RightThen(ledger', {})
  BY <1>1, RightSame
<1> QED
  BY <1>2 DEF RightStep, Applying, Moving, Past
\* A command that fails leaves its evidence, or the old ledger.
LEMMA RightFail ==
  ASSUME TypeOK, PlanInv, RightOK, EvidenceOK, Fail PROVE RightStep
  BY RightEnd DEF Fail, Idle, history, Account

\* Between commands, and in those that have not begun to apply a plan.
LEMMA RightBefore ==
  ASSUME RightOK, pc \notin {"idle", "consent"} \cup Applying, UNCHANGED <<disk, touched, wt,
         ledger>>,
         pc' \notin {"idle", "consent", "roots"} \cup Applying, pc' = "open" => Retiring'
  PROVE  RightStep
<1>1. RightThen(ledger', {})
  BY RightSame DEF RightOK
<1> QED
  BY <1>1 DEF RightStep, Applying, Moving, Past

\* A plan that comes out the same under the locks met no evidence.
LEMMA ConsentFacts ==
  ASSUME TypeOK, PlanInv, pc = "consent", planManagedRoleFiles(plan.request[2], plan.request[3]) = plan
  PROVE  plan.request[2] \in Packages /\ plan.request[3] \in Decisions /\ plan # Refused /\ ~Residue
<1> DEFINE p == plan.request[2]
<1> DEFINE d == plan.request[3]
<1>1. plan.request[1] = "roles" /\ p \in Packages /\ d \in Decisions
  BY RequestFacts DEF PlanInv, RelationOK, TypeOK, RunType, Plans
<1>2. Refused.request = <<"refused">>
  BY NoPlanType DEF Refused, Plans
<1>3. plan # Refused
  BY <1>1, <1>2
<1> HIDE DEF p, d
<1>4. planManagedRoleFiles(p, d) # Refused
  BY <1>3 DEF p, d
<1>5. ~Residue
  BY <1>4 DEF planManagedRoleFiles
<1> QED
  BY <1>1, <1>3, <1>5 DEF p, d

\* Without evidence no effect is under way, and the ledger is right.
LEMMA RightCases ==
  ASSUME RightOK, PlanInv, pc \notin Applying \ {"clean"}, Feature \notin evidence
  PROVE  Right(ledger, {})
  BY DEF RightOK, PlanInv, RelationOK, Applying, Moving, Past

\* RightOK is preserved.
LEMMA RightSteps ==
  ASSUME TypeOK, PlanInv, HeldOK, RightOK, EvidenceOK, [Next]_vars
  PROVE  RightStep
<1>1. ASSUME NEW p \in Packages, NEW d \in Decisions, Propose(p, d) PROVE RightStep
  <2>1. pc = "idle" /\ pc' = "consent" /\ UNCHANGED <<disk, touched, wt, ledger, evidence>>
    BY <1>1 DEF Propose, Begin, files, history
  <2>2. Feature \in evidence \/ RightThen(ledger', {})
    BY <2>1, RightSame DEF RightOK
  <2> QED
    BY <2>1, <2>2 DEF RightStep, Applying, Moving, Past
<1>2. CASE executeManagedTemplatePlans
  <2>1. CASE Idle
    BY <1>2, <2>1, RightEnd DEF executeManagedTemplatePlans, Idle, files, history
  <2>2. CASE planManagedRoleFiles(plan.request[2], plan.request[3]) = plan /\ pc' = "open"
             /\ UNCHANGED plan
    <3> DEFINE p == plan.request[2]
    <3> DEFINE d == plan.request[3]
    <3>1. /\ pc = "consent" /\ p \in Packages /\ d \in Decisions /\ plan # Refused
          /\ ~Residue
      BY <1>2, <2>2, ConsentFacts DEF executeManagedTemplatePlans
    <3> HIDE DEF p, d
    <3>4. Right(ledger, {})
      BY <3>1 DEF Residue, RightOK
    <3>5. Right(plan.ledger, Changes(plan))
      BY <2>2, <3>1, <3>4, RoleRight DEF PlanInv, p, d
    <3>6. UNCHANGED <<disk, touched, wt, ledger>> /\ Effects' = Changes(plan)
      BY <1>2, <2>2 DEF executeManagedTemplatePlans, files, history, Effects, Changes
    <3> QED
      BY <2>2, <3>4, <3>5, <3>6, RightSame DEF RightStep, Applying, Moving, Past
  <2> QED
    BY <1>2, <2>1, <2>2 DEF executeManagedTemplatePlans
<1>3. ASSUME NEW w \in Worktrees, syncManagedAndLegacyInject(w) PROVE RightStep
  <2> DEFINE q == planManagedTemplateLinksOnly(w)
  <2>1. /\ pc = "idle" /\ w \in Present /\ q # Refused /\ plan' = q /\ pc' = "open"
        /\ UNCHANGED <<disk, touched, wt, ledger>>
    BY <1>3 DEF syncManagedAndLegacyInject, Begin, files, history
  <2>2. ~Residue /\ (Right(ledger, {}) => Right(q.ledger, Changes(q)))
    BY <2>1, LinksFresh DEF PlanInv
  <2> HIDE DEF q
  <2>3. Right(ledger, {}) /\ Right(q.ledger, Changes(q))
    BY <2>1, <2>2, RightCases DEF Residue, Applying, Moving, Past
  <2>4. Effects' = Changes(q)
    BY <2>1 DEF Effects, Changes
  <2> QED
    BY <2>1, <2>3, <2>4, RightSame DEF RightStep, Applying, Moving, Past
<1>4. ASSUME NEW w \in Worktrees, Archive(w) PROVE RightStep
  <2>1. /\ pc = "idle" /\ pc' \in {"remove"} /\ Feature \notin evidence
        /\ UNCHANGED <<disk, touched, wt, ledger>>
    BY <1>4 DEF Archive, Begin, files, history
  <2>2. RightThen(ledger', {})
    BY <2>1, RightCases, RightSame DEF Applying, Moving, Past
  <2> QED
    BY <2>1, <2>2 DEF RightStep, Applying, Moving, Past
<1>5. ASSUME NEW w \in Worktrees, UserAddsWorktree(w) PROVE RightStep
  <2>1. Appears(w) /\ UNCHANGED <<pc, plan, todo, held, evidence>>
    BY <1>5 DEF UserAddsWorktree, Appears, run, history
  <2>2. /\ ledger.links \in SUBSET (Worktrees \X Files \X Int)
        /\ plan.ledger.links \in SUBSET (Worktrees \X Files \X Int)
    BY DEF TypeOK, BookType, RunType, Plans, Ledgers
  <2>3. /\ \A S : Right(ledger, S) => RightThen(ledger, S)
        /\ \A S : Right(plan.ledger, S) => RightThen(plan.ledger, S)
    BY <2>1, <2>2, RightAppears DEF PlanInv, LedgersOK
  <2>4. UNCHANGED <<disk, touched, ledger, Effects, Retiring>>
    BY <2>1 DEF Appears, Effects, Retiring
  <2> QED
    BY <2>1, <2>3, <2>4 DEF RightStep, RightOK
<1>6. ASSUME NEW w \in Worktrees, UserCommits(w) PROVE RightStep
  <2>1. UNCHANGED <<disk, touched, wt, ledger, plan, pc, todo, held, evidence>>
    BY <1>6 DEF UserCommits, run, files, history
  <2>2. Effects' = Effects /\ (Retiring' <=> Retiring) /\ \A l, S : Right(l, S) => RightThen(l, S)
    BY <2>1, RightSame DEF Effects, Retiring
  <2> QED
    BY <2>1, <2>2 DEF RightStep, RightOK
<1>7. ASSUME NEW old \in Worktrees, NEW new \in Worktrees, renameBranchExternal(old, new)
      PROVE RightStep
  <2>1. /\ pc = "idle" /\ pc' \in {"take down", "branch"} /\ Feature \notin evidence
        /\ UNCHANGED <<disk, touched, wt, ledger>>
    BY <1>7 DEF renameBranchExternal, Begin, files, history
  <2>2. RightThen(ledger', {})
    BY <2>1, RightCases, RightSame DEF Applying, Moving, Past
  <2> QED
    BY <2>1, <2>2 DEF RightStep, Applying, Moving, Past
<1>8. CASE TakeDownWorktree
  <2>1. Old \in Worktrees /\ wt[Old] > 0 /\ Right(ledger, {})
    BY <1>8, RenameFacts
      DEF PlanInv, TakeDownWorktree, Renames, RelationOK, RightOK, Applying, Moving, Past
  <2>2. CASE WithoutWorktree(Old) /\ To("branch", plan)
    <3>1. RightThen(ledger', {}) /\ pc' = "branch"
      BY <2>1, <2>2, RightGoes DEF WithoutWorktree, To
    <3> QED
      BY <3>1 DEF RightStep, Applying, Moving, Past
  <2>3. CASE Idle /\ UNCHANGED <<files, git, ledger, history, bounds>>
    BY <2>3, RightEnd DEF Idle, files, history
  <2> QED
    BY <1>8, <2>2, <2>3 DEF TakeDownWorktree
<1>9. CASE RenameBranch
  <2>1. CASE Idle
    BY <1>9, <2>1, RightEnd DEF RenameBranch, Idle, files, history
  <2>2. CASE pc' \in {"tree", "stack", "rollback"}
    BY <1>9, <2>2, RightBefore DEF RenameBranch, files, history, Applying, Moving, Past
  <2> QED
    BY <1>9, <2>1, <2>2 DEF RenameBranch, To
<1>10. CASE AddRenamedWorktree
  <2>1. New \in Worktrees /\ pc \notin {"idle", "consent"} \cup Applying /\ Retiring
    BY <1>10, RenameFacts
      DEF PlanInv, AddRenamedWorktree, Renames, Applying, Moving, Past, Retiring
  <2>2. Right(ledger, {})
    BY <2>1 DEF RightOK
  <2>3. /\ wt[New] <= 0 /\ Added(New) => RightThen(ledger, {})
        /\ UNCHANGED wt => RightThen(ledger, {})
        /\ UNCHANGED <<disk, touched, ledger>>
    <3>1. UNCHANGED <<disk, touched, ledger>>
      BY <1>10 DEF AddRenamedWorktree, Fail, history
    <3>2. ledger.links \in SUBSET (Worktrees \X Files \X Int)
      BY DEF TypeOK, BookType, Ledgers
    <3>3. wt[New] <= 0 /\ Added(New) => Appears(New)
      BY <3>1 DEF Appears
    <3> QED
      BY <2>1, <2>2, <3>1, <3>2, <3>3, RightAppears, RightSame DEF PlanInv, LedgersOK
  <2>4. RightThen(ledger', {})
    BY <1>10, <2>3 DEF AddRenamedWorktree, Fail
  <2>5. pc' \in {"open", "stack", "rollback"} /\ plan' = plan
    BY <1>10 DEF AddRenamedWorktree, To
  <2> QED
    BY <2>1, <2>4, <2>5 DEF RightStep, Retiring, Applying, Moving, Past
<1>11. CASE SaveStackAtomic
  <2>1. CASE Fail
    BY <2>1, RightFail
  <2>2. CASE ~Fail /\ pc' = "idle"
    BY <1>11, <2>2, RightEnd DEF SaveStackAtomic, files, history
  <2>3. CASE ~Fail /\ pc' = "reinject"
    BY <1>11, <2>3, RightBefore DEF SaveStackAtomic, files, history, Applying, Moving, Past
  <2> QED
    BY <1>11, <2>1, <2>2, <2>3 DEF SaveStackAtomic, To, Idle
<1>12. CASE Reinject
  <2>1. UNCHANGED <<disk, touched, wt, ledger>> /\ evidence \subseteq evidence' /\ pc = "reinject"
    BY <1>12 DEF Reinject, Fail, files, history
  <2>2. CASE Idle
    BY <2>1, <2>2, RightEnd DEF Idle
  <2>3. CASE plan' # NoPlan
    <3>1. pc' = "open" /\ (Right(ledger, {}) => Right(plan'.ledger, Changes(plan')))
      BY <1>12, <2>1, <2>3, ReinjectFresh DEF PlanInv, RelationOK
    <3>2. Right(ledger, {})
      BY <2>1 DEF RightOK, Applying, Moving, Past
    <3>3. RightThen(plan'.ledger, Effects') /\ RightThen(ledger', {})
      <4>1. Effects' = Changes(plan')
        BY DEF Effects, Changes
      <4> QED
        BY <2>1, <3>1, <3>2, <4>1, RightSame
    <3> QED
      BY <3>1, <3>3 DEF RightStep, Applying, Moving, Past
  <2> QED
    BY <1>12, <2>2, <2>3, ReinjectCases DEF PlanInv
<1>13. CASE RollbackRef
  <2>1. CASE Fail
    BY <2>1, RightFail
  <2>2. CASE ~Fail
    BY <1>13, <2>2, RightBefore DEF RollbackRef, To, files, history, Applying, Moving, Past
  <2> QED
    BY <2>1, <2>2
<1>14. CASE RollbackWorktree
  <2>1. Old \in Worktrees /\ pc \notin {"idle", "consent"} \cup Applying /\ Retiring
    BY <1>14, RenameFacts
      DEF PlanInv, RollbackWorktree, Renames, Applying, Moving, Past, Retiring
  <2>2. Right(ledger, {})
    BY <2>1 DEF RightOK
  <2>3. /\ wt[Old] <= 0 /\ Added(Old) => RightThen(ledger, {})
        /\ UNCHANGED wt => RightThen(ledger, {})
        /\ UNCHANGED <<disk, touched, ledger>>
    <3>1. UNCHANGED <<disk, touched, ledger>>
      BY <1>14 DEF RollbackWorktree, Fail, history
    <3>2. ledger.links \in SUBSET (Worktrees \X Files \X Int)
      BY DEF TypeOK, BookType, Ledgers
    <3>3. wt[Old] <= 0 /\ Added(Old) => Appears(Old)
      BY <3>1 DEF Appears
    <3> QED
      BY <2>1, <2>2, <3>1, <3>2, <3>3, RightAppears, RightSame DEF PlanInv, LedgersOK
  <2>4. RightThen(ledger', {})
    BY <1>14, <2>3 DEF RollbackWorktree, Fail
  <2>5. pc' \in {"idle", "put links back"}
    BY <1>14 DEF RollbackWorktree, To, Fail, Idle
  <2> QED
    BY <2>4, <2>5 DEF RightStep, Applying, Moving, Past
<1>15. CASE RestoreManagedTemplateRetirementAfterRollback
  <2>1. UNCHANGED <<disk, touched, wt, ledger>> /\ evidence \subseteq evidence' /\ pc = "put links back"
    BY <1>15 DEF RestoreManagedTemplateRetirementAfterRollback, Fail, files, history
  <2>2. CASE Idle
    BY <2>1, <2>2, RightEnd DEF Idle
  <2>3. CASE plan' # NoPlan
    <3>1. pc' = "open" /\ (Right(ledger, {}) => Right(plan'.ledger, Changes(plan')))
      BY <1>15, <2>1, <2>3, RestoreFresh DEF PlanInv, RelationOK
    <3>2. Right(ledger, {})
      BY <2>1 DEF RightOK, Applying, Moving, Past
    <3>3. RightThen(plan'.ledger, Effects') /\ RightThen(ledger', {})
      <4>1. Effects' = Changes(plan')
        BY DEF Effects, Changes
      <4> QED
        BY <2>1, <3>1, <3>2, <4>1, RightSame
    <3> QED
      BY <3>1, <3>3 DEF RightStep, Applying, Moving, Past
  <2> QED
    BY <1>15, <2>2, <2>3, RestoreCases DEF PlanInv
<1>16. CASE RemoveWorktree
  <2> DEFINE w == plan.request[2]
  <2>1. w \in Worktrees /\ wt[w] > 0 /\ Right(ledger, {}) /\ plan.request[1] = "retire"
    BY <1>16, RequestFacts
      DEF PlanInv, RemoveWorktree, RelationOK, TypeOK, RunType, Plans, RightOK, Applying,
          Moving, Past
  <2>2. RightThen(ledger, {})
    BY <1>16, <2>1, RightGoes DEF RemoveWorktree
  <2>3. ledger' = ledger /\ (pc' = "idle" \/ (pc' = "open" /\ plan' = plan))
    BY <1>16 DEF RemoveWorktree, WithoutWorktree, Idle
  <2>4. pc' = "open" => Retiring'
    BY <2>1, <2>3 DEF Retiring
  <2> QED
    BY <2>2, <2>3, <2>4 DEF RightStep, Applying, Moving, Past
<1>17. CASE ApplyManagedTemplatePlan
  <2>1. CASE Fail
    BY <2>1, RightFail
  <2>2. CASE ~Fail
    <3>1. /\ pc = "open" /\ pc' = "roots" /\ (Retiring => wt[plan.request[2]] <= 0)
          /\ UNCHANGED <<plan, disk, touched, wt, ledger>>
      BY <1>17, <2>2 DEF ApplyManagedTemplatePlan, files, history
    <3>2. Right(ledger, {})
      BY <3>1 DEF RightOK, Applying, Moving, Past
    <3>3. Right(plan.ledger, Effects)
      <4>1. CASE ~Retiring
        BY <3>1, <4>1 DEF RightOK
      <4>2. CASE Retiring
        <5>1. plan.request[2] \in Worktrees /\ wt[plan.request[2]] <= 0
          BY <3>1, <4>2, RequestFacts DEF Retiring, TypeOK, RunType, Plans
        <5>2. /\ Light(plan) /\ plan.links = {}
              /\ plan.ledger.links = {k \in ledger.links : k[1] # plan.request[2]}
          BY <3>1, <4>2
            DEF PlanInv, PlanOK, Sound, RelationOK, Early, Renames, Retiring, Light
        <5> QED
          BY <3>2, <5>1, <5>2, RetireRight DEF Changes, Effects
      <4> QED
        BY <4>1, <4>2
    <3>4. RightThen(plan'.ledger, Effects') /\ RightThen(ledger', {})
      BY <3>1, <3>2, <3>3, RightSame DEF Effects
    <3> QED
      BY <3>1, <3>4 DEF RightStep, Applying, Moving, Past
  <2> QED
    BY <2>1, <2>2
<1>18. ASSUME NEW r \in RootNames, newManagedRecoveryRoot(r) PROVE RightStep
  <2>1. CASE Fail
    BY <2>1, RightFail
  <2>2. CASE ~Fail
    <3>1. /\ pc = "roots" /\ ((pc' = "effect" /\ todo' = Effects) \/ pc' = "roots")
          /\ UNCHANGED <<plan, disk, touched, wt, ledger>>
      BY <1>18, <2>2 DEF newManagedRecoveryRoot, history
    <3>2. RightThen(plan'.ledger, Effects') /\ RightThen(ledger', {})
      BY <3>1, RightSame DEF RightOK, Applying, Moving, Past, Effects
    <3> QED
      BY <3>1, <3>2 DEF RightStep, Applying, Moving, Past, Effects
  <2> QED
    BY <2>1, <2>2
<1>19. ASSUME NEW r \in RootNames, cleanupVerified(r) PROVE RightStep
  <2>1. CASE Fail
    BY <2>1, RightFail
  <2>2. CASE ~Fail
    <3>1. /\ pc = "clean" /\ pc' \in {"idle", "stack", "clean"} /\ (pc' = "clean" => plan' = plan)
          /\ UNCHANGED <<disk, touched, wt, ledger>>
      BY <1>19, <2>2 DEF cleanupVerified, Applied, Idle, history
    <3>2. Right(plan.ledger, {}) /\ plan.ledger = ledger
      BY <3>1 DEF RightOK, Past, PlanInv, RelationOK
    <3>3. RightThen(ledger', {}) /\ RightThen(plan.ledger, {})
      BY <3>1, <3>2, RightSame
    <3> QED
      BY <3>1, <3>3 DEF RightStep, Applying, Moving, Past
  <2> QED
    BY <2>1, <2>2
<1>20. ASSUME NEW s \in Slots, preserve(s) PROVE RightStep
  <2>1. CASE Fail
    BY <2>1, RightFail
  <2>2. CASE ~Fail
    <3>1. /\ pc = "effect" /\ pc' = "compare" /\ held' = <<s, disk[s]>>
          /\ disk' = [disk EXCEPT ![s] = Nothing] /\ UNCHANGED <<plan, todo, touched, wt>>
      BY <1>20, <2>2 DEF preserve, history
    <3>2. s \in todo /\ Right(plan.ledger, todo)
      BY <1>20, <3>1 DEF preserve, NextEffect, Removing, Writing, RightOK, Moving
    <3>3. disk'[s] = Nothing /\ \A v \in Slots : v # s => disk'[v] = disk[v]
      BY <3>1 DEF TypeOK, DiskType
    <3>4. RightThen(plan.ledger, todo)
      BY <3>1, <3>2, <3>3, RightElsewhere
    <3> QED
      BY <3>1, <3>3, <3>4 DEF RightStep, Applying, Moving, Past
  <2> QED
    BY <2>1, <2>2
<1>21. ASSUME NEW s \in Slots, publish(s) PROVE RightStep
  <2>1. CASE Fail
    BY <2>1, RightFail
  <2>2. CASE ~Fail
    <3>1. /\ pc = "effect" /\ UNCHANGED <<pc, plan, wt>> /\ todo' = todo \ {s}
          /\ disk' = [disk EXCEPT ![s] = IF s \in Links THEN Link ELSE Rendered(plan.writes[s])]
          /\ touched' = touched \ {s}
      BY <1>21, <2>2 DEF publish
    <3>2. s \in Effects \ plan.removals /\ Right(plan.ledger, todo)
      BY <1>21, <3>1 DEF publish, NextEffect, Removing, Writing, RightOK, Moving, HeldOK
    <3>3. RightThen(plan.ledger, todo \ {s})
      BY <3>1, <3>2, RightPublished
    <3> QED
      BY <3>1, <3>3 DEF RightStep, Applying, Moving, Past
  <2> QED
    BY <2>1, <2>2
<1>22. ASSUME NEW s \in Slots, removeVerifiedPrivate(s) PROVE RightStep
  <2>1. CASE Fail
    BY <2>1, RightFail
  <2>2. CASE ~Fail
    <3>1. pc = "clean" /\ UNCHANGED <<pc, plan, disk, touched, wt, ledger>>
      BY <1>22, <2>2 DEF removeVerifiedPrivate, run, history
    <3>2. RightThen(plan.ledger, {})
      BY <3>1, RightSame DEF RightOK, Past
    <3> QED
      BY <3>1, <3>2 DEF RightStep, Applying, Moving, Past
  <2> QED
    BY <2>1, <2>2
<1>23. ASSUME NEW s \in Slots, UserEdit(s) PROVE RightStep
  <2>1. /\ UNCHANGED <<pc, plan, todo, held, ledger, wt, evidence>> /\ touched' = touched \cup {s}
        /\ \A v \in Slots : v # s => disk'[v] = disk[v]
    BY <1>23 DEF UserEdit, run, TypeOK, DiskType
  <2>2. \A l, S : Right(l, S) => RightThen(l, S)
    BY <2>1, RightElsewhere
  <2>3. Effects' = Effects /\ (Retiring' <=> Retiring)
    BY <2>1 DEF Effects, Retiring
  <2>4. pc \in {"compare", "restore"} => held[1] \in Slots
    BY DEF HeldOK
  <2> QED
    BY <2>1, <2>2, <2>3, <2>4 DEF RightStep, RightOK
<1>24. CASE compare
  <2>1. CASE Captured
    <3>1. /\ pc = "compare" /\ pc' = "effect" /\ UNCHANGED <<disk, touched, wt, plan>>
          /\ todo' = IF held[1] \in plan.removals THEN todo \ {held[1]} ELSE todo
      BY <1>24, <2>1 DEF compare, Captured, files, history
    <3>2. /\ Right(plan.ledger, todo) /\ held[1] \in Slots
          /\ held[1] \notin touched => disk[held[1]] = Nothing
      BY <3>1 DEF RightOK, Moving, HeldOK
    <3>3. RightThen(plan.ledger, todo')
      <4>1. CASE held[1] \in plan.removals
        BY <3>1, <3>2, <4>1, RightRemoved
      <4>2. CASE held[1] \notin plan.removals
        BY <3>1, <3>2, <4>2, RightSame
      <4> QED
        BY <4>1, <4>2
    <3> QED
      BY <3>1, <3>3 DEF RightStep, Applying, Moving, Past
  <2>2. CASE pc' = "restore" /\ UNCHANGED <<plan, todo, held, saved>> /\ UNCHANGED <<files, history>>
    <3>1. /\ pc = "compare" /\ UNCHANGED <<disk, touched, wt>> /\ Right(plan.ledger, todo)
          /\ held[1] \notin touched => disk[held[1]] = Nothing
      BY <1>24, <2>2 DEF compare, files, history, RightOK, Moving
    <3>2. RightThen(plan.ledger, todo)
      BY <3>1, RightSame
    <3> QED
      BY <2>2, <3>1, <3>2 DEF RightStep, Applying, Moving, Past
  <2> QED
    BY <1>24, <2>1, <2>2 DEF compare
<1>25. CASE restoreAfterPreservationFailure
  <2>1. Feature \in evidence' /\ pc' = "idle"
    BY <1>25 DEF restoreAfterPreservationFailure, EvidenceOK, Applying, Moving, Idle
  <2> QED
    BY <2>1 DEF RightStep, Applying, Moving, Past
<1>26. CASE EffectsDone
  <2>1. /\ pc = "effect" /\ pc' \in {"ledger", "preflight"} /\ todo = {}
        /\ UNCHANGED <<plan, disk, touched, wt>>
    BY <1>26 DEF EffectsDone, files, history
  <2>2. RightThen(plan.ledger, {})
    BY <2>1, RightSame DEF RightOK, Moving
  <2> QED
    BY <2>1, <2>2 DEF RightStep, Applying, Moving, Past
<1>27. CASE preserveLedger
  <2>1. CASE Fail
    BY <2>1, RightFail
  <2>2. CASE ~Fail
    <3>1. pc = "ledger" /\ pc' = "record" /\ UNCHANGED <<plan, disk, touched, wt>>
      BY <1>27, <2>2 DEF preserveLedger, files, history
    <3>2. RightThen(plan.ledger, {})
      BY <3>1, RightSame DEF RightOK, Past
    <3> QED
      BY <3>1, <3>2 DEF RightStep, Applying, Moving, Past
  <2> QED
    BY <2>1, <2>2
<1>28. CASE publishLedger
  <2>1. CASE Fail
    BY <2>1, RightFail
  <2>2. CASE ~Fail
    <3>1. pc = "record" /\ pc' = "preflight" /\ UNCHANGED <<plan, disk, touched, wt>>
      BY <1>28, <2>2 DEF publishLedger, files, history
    <3>2. RightThen(plan.ledger, {})
      BY <3>1, RightSame DEF RightOK, Past
    <3> QED
      BY <3>1, <3>2 DEF RightStep, Applying, Moving, Past
  <2> QED
    BY <2>1, <2>2
<1>29. CASE preflightCleanup
  <2>1. CASE Fail
    BY <2>1, RightFail
  <2>2. CASE ~Fail
    <3>1. pc = "preflight" /\ pc' = "clean" /\ UNCHANGED <<plan, disk, touched, wt>>
      BY <1>29, <2>2 DEF preflightCleanup, files, history
    <3>2. RightThen(plan.ledger, {})
      BY <3>1, RightSame DEF RightOK, Past
    <3> QED
      BY <3>1, <3>2 DEF RightStep, Applying, Moving, Past
  <2> QED
    BY <2>1, <2>2
<1>30. CASE Kill
  BY <1>30, RightEnd DEF Kill, Idle, files, history
<1>31. CASE UserSettles
  <2>1. touched' = Slots /\ pc' = "idle"
    BY <1>31 DEF UserSettles, run
  <2>2. RightThen(ledger', {})
    BY <2>1, SlotFacts DEF RightThen
  <2> QED
    BY <2>1, <2>2 DEF RightStep, Applying, Moving, Past
<1>32. CASE UNCHANGED vars
  <2>1. UNCHANGED <<disk, touched, wt, ledger, plan, pc, todo, held, evidence>>
    BY <1>32 DEF vars, run, files, history
  <2>2. Effects' = Effects /\ (Retiring' <=> Retiring) /\ \A l, S : Right(l, S) => RightThen(l, S)
    BY <2>1, RightSame DEF Effects, Retiring
  <2> QED
    BY <2>1, <2>2 DEF RightStep, RightOK
<1> QED
  BY <1>1, <1>2, <1>3, <1>4, <1>5, <1>6, <1>7, <1>8, <1>9, <1>10, <1>11, <1>12, <1>13,
    <1>14, <1>15, <1>16, <1>17, <1>18, <1>19, <1>20, <1>21, <1>22, <1>23, <1>24, <1>25,
    <1>26, <1>27, <1>28, <1>29, <1>30, <1>31, <1>32 DEF Next, RootNames
-----------------------------------------------------------------------------
(* A plan under way has its evidence.                                        *)

\* Evidence goes only with the cleanup that ends a plan.
LEMMA NotApplying ==
  ASSUME pc' \notin {"roots"} \cup (Applying \ {"clean"}) PROVE EvidenceOK'
  BY DEF EvidenceOK, Applying, Moving, Past
LEMMA EvidenceGrows ==
  ASSUME EvidenceOK, evidence \subseteq evidence',
         pc' \in Applying => pc \in Applying \ {"clean"},
         pc' = "roots" => pc = "roots" /\ todo' = todo
  PROVE  EvidenceOK'
  BY DEF EvidenceOK, Applying, Moving, Past
LEMMA EvidenceSame == ASSUME EvidenceOK, UNCHANGED <<pc, todo, evidence>> PROVE EvidenceOK'
  BY DEF EvidenceOK
LEMMA EvidenceFail == ASSUME Fail PROVE EvidenceOK'
  BY NotApplying DEF Fail, Idle, Applying, Moving, Past

\* EvidenceOK is preserved.
LEMMA EvidenceStep ==
  ASSUME TypeOK, PlanInv, EvidenceOK, [Next]_vars
  PROVE  EvidenceOK'
<1>1. ASSUME NEW p \in Packages, NEW d \in Decisions, Propose(p, d) PROVE EvidenceOK'
  BY <1>1, NotApplying, EvidenceFail DEF Propose, Begin, Applying, Moving, Past
<1>2. CASE executeManagedTemplatePlans
  BY <1>2, NotApplying DEF executeManagedTemplatePlans, Idle, Applying, Moving, Past
<1>3. ASSUME NEW w \in Worktrees, syncManagedAndLegacyInject(w) PROVE EvidenceOK'
  BY <1>3, NotApplying, EvidenceFail DEF syncManagedAndLegacyInject, Begin, Applying,
    Moving, Past
<1>4. ASSUME NEW w \in Worktrees, Archive(w) PROVE EvidenceOK'
  BY <1>4, NotApplying, EvidenceFail DEF Archive, Begin, Applying, Moving, Past
<1>5. ASSUME NEW w \in Worktrees, UserAddsWorktree(w) PROVE EvidenceOK'
  BY <1>5, EvidenceSame DEF UserAddsWorktree, run
<1>6. ASSUME NEW w \in Worktrees, UserCommits(w) PROVE EvidenceOK'
  BY <1>6, EvidenceSame DEF UserCommits, run, files
<1>7. ASSUME NEW old \in Worktrees, NEW new \in Worktrees, renameBranchExternal(old, new)
      PROVE EvidenceOK'
  BY <1>7, NotApplying, EvidenceFail DEF renameBranchExternal, Begin, Applying, Moving,
    Past
<1>8. CASE TakeDownWorktree
  BY <1>8, NotApplying, EvidenceFail DEF TakeDownWorktree, To, Idle, Applying, Moving,
    Past
<1>9. CASE RenameBranch
  BY <1>9, NotApplying, EvidenceFail DEF RenameBranch, To, Idle, Applying, Moving, Past
<1>10. CASE AddRenamedWorktree
  BY <1>10, NotApplying, EvidenceFail DEF AddRenamedWorktree, To, Idle, Applying, Moving,
    Past
<1>11. CASE SaveStackAtomic
  BY <1>11, NotApplying, EvidenceFail DEF SaveStackAtomic, To, Idle, Applying, Moving,
    Past
<1>12. CASE Reinject
  BY <1>12, NotApplying, EvidenceFail DEF Reinject, To, Idle, Applying, Moving, Past
<1>13. CASE RollbackRef
  BY <1>13, NotApplying, EvidenceFail DEF RollbackRef, To, Idle, Applying, Moving, Past
<1>14. CASE RollbackWorktree
  BY <1>14, NotApplying, EvidenceFail DEF RollbackWorktree, To, Idle, Applying, Moving,
    Past
<1>15. CASE RestoreManagedTemplateRetirementAfterRollback
  BY <1>15, NotApplying, EvidenceFail DEF RestoreManagedTemplateRetirementAfterRollback,
    To, Idle, Applying, Moving, Past
<1>16. CASE RemoveWorktree
  BY <1>16, NotApplying DEF RemoveWorktree, Idle, Applying, Moving, Past
<1>17. CASE ApplyManagedTemplatePlan
  <2>1. CASE Fail
    BY <2>1, EvidenceFail
  <2>2. CASE ~Fail
    <3>1. pc = "open" /\ pc' = "roots" /\ todo' = Roots
      BY <1>17, <2>2 DEF ApplyManagedTemplatePlan
    <3>2. Reaches(plan)
      BY <3>1 DEF PlanInv, PlanOK
    <3>3. Feature \in Roots
      BY <3>2 DEF Reaches, Roots, Effects
    <3> QED
      BY <3>1, <3>3 DEF EvidenceOK, Applying, Moving, Past
  <2> QED
    BY <2>1, <2>2
<1>18. ASSUME NEW r \in RootNames, newManagedRecoveryRoot(r) PROVE EvidenceOK'
  <2>1. CASE Fail
    BY <2>1, EvidenceFail
  <2>2. CASE ~Fail
    <3>1. /\ pc = "roots" /\ evidence' = evidence \cup {r}
          /\ \/ todo = {r} /\ pc' = "effect"
             \/ todo' = todo \ {r} /\ pc' = "roots"
      BY <1>18, <2>2 DEF newManagedRecoveryRoot
    <3> QED
      BY <3>1 DEF EvidenceOK, Applying, Moving, Past
  <2> QED
    BY <2>1, <2>2
<1>19. ASSUME NEW r \in RootNames, cleanupVerified(r) PROVE EvidenceOK'
  <2>1. CASE Fail
    BY <2>1, EvidenceFail
  <2>2. CASE ~Fail
    BY <1>19, <2>2, NotApplying DEF cleanupVerified, Applied, Idle, Applying, Moving, Past
  <2> QED
    BY <2>1, <2>2
<1>20. ASSUME NEW s \in Slots, preserve(s) PROVE EvidenceOK'
  BY <1>20, EvidenceGrows, EvidenceFail DEF preserve, run, files, Applying, Moving, Past
<1>21. ASSUME NEW s \in Slots, publish(s) PROVE EvidenceOK'
  BY <1>21, EvidenceGrows, EvidenceFail DEF publish, run, files, Applying, Moving, Past
<1>22. ASSUME NEW s \in Slots, removeVerifiedPrivate(s) PROVE EvidenceOK'
  <2>1. CASE Fail
    BY <2>1, EvidenceFail
  <2>2. CASE ~Fail
    BY <1>22, <2>2, NotApplying DEF removeVerifiedPrivate, run, Applying, Moving, Past
  <2> QED
    BY <2>1, <2>2
<1>23. ASSUME NEW s \in Slots, UserEdit(s) PROVE EvidenceOK'
  BY <1>23, EvidenceSame DEF UserEdit, run
<1>24. CASE compare
  BY <1>24, EvidenceGrows, EvidenceFail DEF compare, run, files, Applying, Moving, Past,
    Captured
<1>25. CASE restoreAfterPreservationFailure
  BY <1>25, NotApplying, EvidenceFail DEF restoreAfterPreservationFailure, Idle,
    Applying, Moving, Past
<1>26. CASE EffectsDone
  BY <1>26, EvidenceGrows, EvidenceFail DEF EffectsDone, run, files, Applying, Moving,
    Past
<1>27. CASE preserveLedger
  BY <1>27, EvidenceGrows, EvidenceFail DEF preserveLedger, run, files, Applying,
    Moving, Past
<1>28. CASE publishLedger
  BY <1>28, EvidenceGrows, EvidenceFail DEF publishLedger, run, files, Applying, Moving,
    Past
<1>29. CASE preflightCleanup
  <2>1. CASE Fail
    BY <2>1, EvidenceFail
  <2>2. CASE ~Fail
    BY <1>29, <2>2, NotApplying DEF preflightCleanup, Applying, Moving, Past
  <2> QED
    BY <2>1, <2>2
<1>30. CASE Kill
  BY <1>30, NotApplying, EvidenceFail DEF Kill, Idle, Applying, Moving, Past
<1>31. CASE UserSettles
  <2>1. pc' = "idle"
    BY <1>31 DEF UserSettles, run
  <2> QED
    BY <2>1, NotApplying DEF Applying, Moving, Past
<1>32. CASE UNCHANGED vars
  BY <1>32, EvidenceSame DEF vars, run, files
<1> QED
  BY <1>1, <1>2, <1>3, <1>4, <1>5, <1>6, <1>7, <1>8, <1>9, <1>10, <1>11, <1>12, <1>13,
    <1>14, <1>15, <1>16, <1>17, <1>18, <1>19, <1>20, <1>21, <1>22, <1>23, <1>24, <1>25,
    <1>26, <1>27, <1>28, <1>29, <1>30, <1>31, <1>32 DEF Next, RootNames
-----------------------------------------------------------------------------
(* The entries of stack.yaml have their branches.                            *)

\* The plan of no command is not of a rename.
LEMMA NoRename == NoPlan.request[1] # "rename"
  BY NoPlanType
\* Nor is a plan that nobody has agreed to.
LEMMA NotRenamed ==
  ASSUME RelationOK, pc \in {"idle", "consent"}
  PROVE  plan.request[1] # "rename"
<1>1. (pc = "idle" => plan = NoPlan) /\ (pc = "consent" => plan.request[1] = "roles")
  BY DEF RelationOK
<1> QED
  BY <1>1, NoRename

\* A command ends: it is not in the middle of a rename, or it says that it was.
LEMMA StackEnd ==
  ASSUME RelationOK, StackOK, Idle, UNCHANGED <<stack, ref>>, kills' = 0 => kills = 0,
         \/ Feature \in evidence'
         \/ kills' # 0
         \/ pc \notin {"idle", "consent"} /\ ~Renamed
         \/ pc \in {"idle", "consent"} /\ evidence \subseteq evidence'
  PROVE  StackOK'
<1>1. pc' = "idle" /\ plan' = NoPlan
  BY DEF Idle
<1>2. RequestOK' /\ ~Renamed'
  BY <1>1, NoRename DEF RequestOK, Renamed
<1>3. kills' = 0 => Feature \in evidence' \/ StackNamesBranches'
  BY DEF StackOK, NamesOK, StackNamesBranches
<1> QED
  BY <1>1, <1>2, <1>3 DEF StackOK, NamesOK
\* A command that fails in a rename leaves evidence, or the names it found.
LEMMA StackFail == ASSUME RelationOK, StackOK, Fail PROVE StackOK'
<1>1. /\ Idle /\ UNCHANGED <<stack, ref, kills>> /\ evidence \subseteq evidence'
      /\ plan.request[1] = "rename" => Feature \in evidence'
  BY DEF Fail, Account, Renaming, git, bounds
<1> QED
  BY <1>1, StackEnd DEF Renamed

\* A command begins, with all entries in order.
LEMMA StackBegin ==
  ASSUME StackOK, UNCHANGED <<stack, ref>>, kills' = 0 => kills = 0,
         \/ pc \in {"idle", "consent"} /\ Feature \notin evidence
         \/ pc \notin {"idle", "consent"} /\ ~Renamed,
         pc' \notin {"idle", "consent"}, ~Renamed', RequestOK'
  PROVE  StackOK'
<1>1. kills' = 0 => StackNamesBranches'
  BY DEF StackOK, NamesOK, StackNamesBranches
<1> QED
  BY <1>1 DEF StackOK, NamesOK

\* It goes on, before or after the branch is renamed.
LEMMA StackOn ==
  ASSUME RelationOK, StackOK, UNCHANGED <<stack, ref, plan, kills>>,
         pc \in Between \ {"rollback"}, pc' \in Between
  PROVE  StackOK'
<1>1. Renamed' = Renamed /\ Old' = Old /\ New' = New /\ Expected' = Expected
  BY DEF Renamed, Old, New, Expected
<1>2. pc \notin {"idle", "consent", "rollback", "reinject"} /\ pc' \notin {"idle", "consent"}
  BY DEF Between, Applying, Moving, Past
<1>3. RequestOK'
  BY <1>1, <1>2 DEF StackOK, RequestOK
<1>4. NamesOK'
  BY <1>1, <1>2 DEF StackOK, NamesOK, RenamedNames, StackNamesBranches
<1> QED
  BY <1>3, <1>4 DEF StackOK

\* Somebody else's branches and commits take nothing away.
LEMMA MoreBranches ==
  ASSUME TypeOK, StackOK, UNCHANGED <<stack, plan, pc, kills, evidence>>,
         \A w \in Worktrees : ref[w] # None => ref'[w] # None,
         plan.request[1] = "rename" => New \in Worktrees
  PROVE  StackOK'
<1>1. Renamed' = Renamed /\ Old' = Old /\ New' = New /\ Expected' = Expected
  BY DEF Renamed, Old, New, Expected
<1>2. stack \subseteq Worktrees
  BY DEF TypeOK, BookType
<1>3. RequestOK'
  BY <1>1 DEF StackOK, RequestOK
<1>4. /\ StackNamesBranches => StackNamesBranches'
      /\ Renamed /\ RenamedNames => RenamedNames'
  BY <1>1, <1>2 DEF StackNamesBranches, RenamedNames, Renamed
<1> QED
  BY <1>1, <1>3, <1>4 DEF StackOK, NamesOK

\* StackOK is preserved.
LEMMA StackStep ==
  ASSUME TypeOK, PlanInv, StackOK, [Next]_vars
  PROVE  StackOK'
<1>1. ASSUME NEW p \in Packages, NEW d \in Decisions, Propose(p, d) PROVE StackOK'
  <2> DEFINE q == planManagedRoleFiles(p, d)
  <2>1. /\ q # Refused /\ plan' = q /\ pc = "idle" /\ pc' = "consent"
        /\ UNCHANGED <<stack, ref, kills, evidence>>
    BY <1>1 DEF Propose, Begin, git, files
  <2>2. Plan(q, <<"roles", p, d>>, RoleLedger(p, d), RoleRemovals(p), RoleWrites(p, d),
             RoleLinks(p), RoleChecks(p), RoleAgreed(p, d))
    BY <2>1, RolesPlan DEF PlanInv
  <2> HIDE DEF q
  <2>3. plan'.request[1] = "roles"
    BY <2>1, <2>2 DEF Plan
  <2>4. RequestOK' /\ ~Renamed'
    BY <2>3 DEF RequestOK, Renamed
  <2> QED
    BY <2>1, <2>4 DEF StackOK, NamesOK, StackNamesBranches
<1>2. CASE executeManagedTemplatePlans
  <2>1. pc = "consent" /\ UNCHANGED <<stack, ref, kills, evidence>>
    BY <1>2 DEF executeManagedTemplatePlans, git, files, bounds
  <2>2. CASE Idle
    BY <2>1, <2>2, StackEnd DEF PlanInv
  <2>3. CASE planManagedRoleFiles(plan.request[2], plan.request[3]) = plan /\ pc' = "open"
             /\ UNCHANGED plan
    <3>1. Feature \notin evidence
      BY <2>1, <2>3, ConsentFacts DEF Residue
    <3>2. plan'.request[1] # "rename"
      BY <2>1, <2>3, NotRenamed DEF PlanInv
    <3>3. RequestOK' /\ ~Renamed'
      BY <3>2 DEF RequestOK, Renamed
    <3> QED
      BY <2>1, <2>3, <3>1, <3>3, StackBegin
  <2> QED
    BY <1>2, <2>2, <2>3 DEF executeManagedTemplatePlans
<1>3. ASSUME NEW w \in Worktrees, syncManagedAndLegacyInject(w) PROVE StackOK'
  <2> DEFINE q == planManagedTemplateLinksOnly(w)
  <2>1. /\ pc = "idle" /\ w \in Present /\ q # Refused /\ plan' = q /\ pc' = "open"
        /\ UNCHANGED <<stack, ref, kills>>
    BY <1>3 DEF syncManagedAndLegacyInject, Begin, git
  <2>2. Feature \notin evidence /\ q.request = <<"links", w>>
    BY <2>1, LinksFresh DEF PlanInv, Residue
  <2> HIDE DEF q
  <2>3. RequestOK' /\ ~Renamed'
    BY <2>1, <2>2 DEF RequestOK, Renamed
  <2> QED
    BY <2>1, <2>2, <2>3, StackBegin
<1>4. ASSUME NEW w \in Worktrees, Archive(w) PROVE StackOK'
  <2> DEFINE q == planManagedTemplateWorktreeRetirement(w)
  <2>1. /\ pc = "idle" /\ q # Refused /\ plan' = q /\ pc' = "remove" /\ Feature \notin evidence
        /\ UNCHANGED <<stack, ref, kills>>
    BY <1>4 DEF Archive, Begin, git
  <2>2. q.request = <<"retire", w>>
    BY <2>1, RetireFresh DEF PlanInv
  <2> HIDE DEF q
  <2>3. RequestOK' /\ ~Renamed'
    BY <2>1, <2>2 DEF RequestOK, Renamed
  <2> QED
    BY <2>1, <2>3, StackBegin
<1>5. ASSUME NEW w \in Worktrees, UserAddsWorktree(w) PROVE StackOK'
  <2>1. UNCHANGED <<stack, plan, pc, kills, evidence>> /\ ref \in [Worktrees -> Worktrees \cup {None, Elsewhere}]
    BY <1>5 DEF UserAddsWorktree, run, TypeOK, BookType
  <2>2. \A v \in Worktrees : ref[v] # None => ref'[v] # None
    BY <1>5, <2>1 DEF UserAddsWorktree
  <2> QED
    BY <2>1, <2>2, MoreBranches, RequestFacts DEF New, TypeOK, RunType, Plans
<1>6. ASSUME NEW w \in Worktrees, UserCommits(w) PROVE StackOK'
  <2>1. UNCHANGED <<stack, plan, pc, kills, evidence>> /\ ref \in [Worktrees -> Worktrees \cup {None, Elsewhere}]
    BY <1>6 DEF UserCommits, run, files, TypeOK, BookType
  <2>2. \A v \in Worktrees : ref[v] # None => ref'[v] # None
    BY <1>6, <2>1 DEF UserCommits, Elsewhere, None
  <2> QED
    BY <2>1, <2>2, MoreBranches, RequestFacts DEF New, TypeOK, RunType, Plans
<1>7. ASSUME NEW old \in Worktrees, NEW new \in Worktrees, renameBranchExternal(old, new)
      PROVE StackOK'
  <2>1. plan'.request = <<"rename", old, new, ref[old], wt[old] > 0>>
    BY <1>7, RenameFresh DEF PlanInv
  <2>2. /\ pc = "idle" /\ pc' \in {"take down", "branch"} /\ Feature \notin evidence
        /\ ref[old] # None /\ new \notin stack /\ UNCHANGED <<stack, ref, kills>>
    BY <1>7 DEF renameBranchExternal, Begin, git
  <2>3. New' = new /\ Expected' = ref[old]
    BY <2>1 DEF New, Expected
  <2>4. RequestOK' /\ ~Renamed'
    BY <2>2, <2>3 DEF RequestOK, Renamed, Between, Applying, Moving, Past
  <2> QED
    BY <2>2, <2>4, StackBegin
<1>8. CASE TakeDownWorktree
  <2>1. pc = "take down" /\ ~Renamed /\ UNCHANGED <<stack, ref, kills>>
    BY <1>8
      DEF TakeDownWorktree, WithoutWorktree, git, bounds, Renamed, Between, Applying, Moving,
        Past
  <2>2. CASE Idle
    BY <2>1, <2>2, StackEnd DEF PlanInv
  <2>3. CASE pc' = "branch" /\ plan' = plan
    <3>1. ~Renamed'
      BY <2>3 DEF Renamed, Between, Applying, Moving, Past
    <3>2. RequestOK'
      BY <2>1, <2>3 DEF StackOK, RequestOK, New, Expected
    <3> QED
      BY <2>1, <2>3, <3>1, <3>2, StackBegin
  <2> QED
    BY <1>8, <2>2, <2>3 DEF TakeDownWorktree, To
<1>9. CASE RenameBranch
  <2>1. /\ pc = "branch" /\ ~Renamed /\ UNCHANGED <<stack, kills, evidence>>
        /\ plan.request[1] = "rename" /\ Old \in Worktrees /\ New \in Worktrees
        /\ Expected # None /\ New \notin stack /\ stack \subseteq Worktrees
        /\ ref \in [Worktrees -> Worktrees \cup {None, Elsewhere}]
    BY <1>9, RenameFacts
      DEF RenameBranch, PlanInv, bounds, files, Renames, Renamed, Between, Applying, Moving,
          Past,
        StackOK, RequestOK, TypeOK, BookType
  <2>2. CASE Idle /\ UNCHANGED ref
    BY <2>1, <2>2, StackEnd DEF PlanInv
  <2>3. CASE plan' = plan /\ pc' \in {"tree", "stack", "rollback"}
             /\ ((UNCHANGED ref /\ pc' = "rollback") \/ RenameRef(Old, New))
    <3>1. Old' = Old /\ New' = New /\ Expected' = Expected /\ Renamed'
      BY <2>1, <2>3 DEF Old, New, Expected, Renamed, Between
    <3>2. kills = 0 => StackNamesBranches
      BY <2>1 DEF StackOK, NamesOK
    <3>3. ASSUME kills = 0 PROVE RenamedNames'
      <4>1. CASE UNCHANGED ref /\ pc' = "rollback"
        BY <2>1, <3>2, <3>3, <4>1 DEF RenamedNames, StackNamesBranches
      <4>2. CASE RenameRef(Old, New)
        <5>1. /\ Old # New /\ ref'[New] # None
              /\ \A w \in Worktrees : w # Old /\ w # New => ref'[w] = ref[w]
          BY <2>1, <4>2 DEF RenameRef
        <5> QED
          BY <2>1, <3>1, <3>2, <3>3, <5>1 DEF RenamedNames, StackNamesBranches
      <4> QED
        BY <2>3, <4>1, <4>2
    <3>4. RequestOK'
      BY <2>1, <3>1 DEF RequestOK
    <3> QED
      BY <2>1, <2>3, <3>1, <3>3, <3>4 DEF StackOK, NamesOK
  <2> QED
    BY <1>9, <2>2, <2>3 DEF RenameBranch, To
<1>10. CASE AddRenamedWorktree
  <2>1. pc = "tree" /\ pc' \in {"open", "stack", "rollback"} /\ plan' = plan
        /\ UNCHANGED <<stack, ref, kills>>
    BY <1>10 DEF AddRenamedWorktree, To, git, bounds
  <2> QED
    BY <2>1, StackOn DEF PlanInv, Between
<1>11. CASE SaveStackAtomic
  <2>1. CASE Fail
    BY <2>1, StackFail DEF PlanInv
  <2>2. CASE ~Fail
    <3>1. /\ pc = "stack" /\ stack' = (stack \ {Old}) \cup {New} /\ UNCHANGED <<ref, kills>>
          /\ (Idle \/ (pc' = "reinject" /\ plan' = plan))
      BY <1>11, <2>2 DEF SaveStackAtomic, To, bounds
    <3>2. Renamed /\ Expected # None
      BY <3>1 DEF StackOK, RequestOK, PlanInv, RelationOK, Renames, Renamed, Between
    <3>3. kills = 0 => StackNamesBranches'
      BY <3>1, <3>2 DEF StackOK, NamesOK, RenamedNames, StackNamesBranches
    <3>4. CASE Idle
      <4>1. RequestOK' /\ ~Renamed' /\ pc' = "idle"
        BY <3>4, NoRename DEF RequestOK, Renamed, Idle
      <4> QED
        BY <3>1, <3>3, <4>1 DEF StackOK, NamesOK
    <3>5. CASE pc' = "reinject" /\ plan' = plan
      <4>1. RequestOK' /\ ~Renamed'
        BY <3>2, <3>5 DEF RequestOK, Expected, Renamed, Between, Applying, Moving, Past
      <4> QED
        BY <3>1, <3>3, <3>5, <4>1 DEF StackOK, NamesOK
    <3> QED
      BY <3>1, <3>4, <3>5
  <2> QED
    BY <2>1, <2>2
<1>12. CASE Reinject
  <2>1. UNCHANGED <<stack, ref, kills>> /\ pc = "reinject" /\ ~Renamed
    BY <1>12 DEF Reinject, Fail, git, bounds, Renamed, Between, Applying, Moving, Past
  <2>2. CASE Fail
    BY <2>2, StackFail DEF PlanInv
  <2>3. CASE Idle
    BY <2>1, <2>3, StackEnd DEF PlanInv
  <2>4. CASE plan' # NoPlan
    <3>1. pc' = "open" /\ plan'.request[1] # "rename"
      <4>1. pc = "put links back" => wt[Old] > 0
        BY DEF PlanInv, RelationOK
      <4>2. pc' = "open" /\ plan'.request \in {<<"reinject", New>>, <<"restore", Old>>}
        BY <1>12, <2>1, <2>4, <4>1, ReinjectFresh DEF PlanInv
      <4> QED
        BY <4>2
    <3>2. RequestOK' /\ ~Renamed'
      BY <3>1 DEF RequestOK, Renamed
    <3> QED
      BY <2>1, <3>1, <3>2, StackBegin
  <2> QED
    BY <1>12, <2>3, <2>4, ReinjectCases DEF PlanInv
<1>13. CASE RollbackRef
  <2>1. CASE Fail
    BY <2>1, StackFail DEF PlanInv
  <2>2. CASE ~Fail
    <3>1. /\ pc = "rollback" /\ pc' = "put back" /\ plan' = plan /\ UNCHANGED <<stack, kills>>
          /\ \/ ref[Old] = Expected /\ UNCHANGED ref
             \/ ref[New] = Expected /\ RenameRef(New, Old)
      BY <1>13, <2>2 DEF RollbackRef, To, bounds
    <3>2. /\ plan.request[1] = "rename" /\ Old \in Worktrees /\ New \in Worktrees
          /\ ref \in [Worktrees -> Worktrees \cup {None, Elsewhere}] /\ stack \subseteq Worktrees
      BY <3>1, RenameFacts DEF PlanInv, Renames, TypeOK, BookType
    <3>3. Renamed /\ Expected # None /\ New \notin stack
      BY <3>1, <3>2 DEF StackOK, RequestOK, Renamed, Between
    <3>4. kills = 0 => \A w \in stack : w # Old => ref[w] # None
      BY <3>3 DEF StackOK, NamesOK, RenamedNames
    <3>5. kills = 0 => StackNamesBranches'
      <4>1. CASE ref[Old] = Expected /\ UNCHANGED ref
        BY <3>1, <3>3, <3>4, <4>1 DEF StackNamesBranches
      <4>2. CASE ref[New] = Expected /\ RenameRef(New, Old)
        <5>1. ref'[Old] # None /\ \A w \in Worktrees : w # Old /\ w # New => ref'[w] = ref[w]
          BY <3>2, <4>2 DEF RenameRef
        <5> QED
          BY <3>1, <3>2, <3>3, <3>4, <5>1 DEF StackNamesBranches
      <4> QED
        BY <3>1, <4>1, <4>2
    <3>6. ~Renamed' /\ RequestOK'
      BY <3>1, <3>3 DEF Renamed, Between, Applying, Moving, Past, RequestOK, Expected, New
    <3> QED
      BY <3>1, <3>5, <3>6 DEF StackOK, NamesOK
  <2> QED
    BY <2>1, <2>2
<1>14. CASE RollbackWorktree
  <2>1. /\ UNCHANGED <<stack, ref, kills>> /\ pc = "put back" /\ ~Renamed
    BY <1>14 DEF RollbackWorktree, Fail, git, bounds, Renamed, Between, Applying, Moving, Past
  <2>2. CASE Idle
    BY <2>1, <2>2, StackEnd DEF PlanInv
  <2>3. CASE pc' = "put links back" /\ plan' = plan
    <3>1. ~Renamed' /\ RequestOK'
      BY <2>1, <2>3
        DEF Renamed, Between, Applying, Moving, Past, RequestOK, Expected, New, StackOK
    <3> QED
      BY <2>1, <2>3, <3>1, StackBegin
  <2> QED
    BY <1>14, <2>2, <2>3 DEF RollbackWorktree, Fail, To
<1>15. CASE RestoreManagedTemplateRetirementAfterRollback
  <2>1. UNCHANGED <<stack, ref, kills>> /\ pc = "put links back" /\ ~Renamed
    BY <1>15
      DEF RestoreManagedTemplateRetirementAfterRollback, Fail, git, bounds, Renamed, Between,
        Applying, Moving, Past
  <2>2. CASE Fail
    BY <2>2, StackFail DEF PlanInv
  <2>3. CASE Idle
    BY <2>1, <2>3, StackEnd DEF PlanInv
  <2>4. CASE plan' # NoPlan
    <3>1. pc' = "open" /\ plan'.request[1] # "rename"
      <4>1. pc = "put links back" => wt[Old] > 0
        BY DEF PlanInv, RelationOK
      <4>2. pc' = "open" /\ plan'.request \in {<<"reinject", New>>, <<"restore", Old>>}
        BY <1>15, <2>1, <2>4, <4>1, RestoreFresh DEF PlanInv
      <4> QED
        BY <4>2
    <3>2. RequestOK' /\ ~Renamed'
      BY <3>1 DEF RequestOK, Renamed
    <3> QED
      BY <2>1, <3>1, <3>2, StackBegin
  <2> QED
    BY <1>15, <2>3, <2>4, RestoreCases DEF PlanInv
<1>16. CASE RemoveWorktree
  <2>1. pc = "remove" /\ plan.request[1] = "retire" /\ UNCHANGED <<stack, ref, kills>>
    BY <1>16 DEF RemoveWorktree, WithoutWorktree, git, bounds, PlanInv, RelationOK
  <2>2. CASE Idle
    BY <2>1, <2>2, StackEnd DEF PlanInv, Renamed
  <2>3. CASE pc' = "open" /\ plan' = plan
    BY <2>1, <2>3, StackBegin DEF Renamed, RequestOK
  <2> QED
    BY <1>16, <2>2, <2>3 DEF RemoveWorktree
<1>17. CASE ApplyManagedTemplatePlan
  <2>1. CASE Fail
    BY <2>1, StackFail DEF PlanInv
  <2>2. CASE ~Fail
    <3>1. /\ pc \in Between \ {"rollback"} /\ pc' \in Between
          /\ UNCHANGED <<stack, ref, plan, kills>>
      BY <1>17, <2>2
        DEF ApplyManagedTemplatePlan, git, bounds, run, files, Between, Applying, Moving, Past
    <3> QED
      BY <3>1, StackOn DEF PlanInv
  <2> QED
    BY <2>1, <2>2
<1>18. ASSUME NEW r \in RootNames, newManagedRecoveryRoot(r) PROVE StackOK'
  <2>1. CASE Fail
    BY <2>1, StackFail DEF PlanInv
  <2>2. CASE ~Fail
    <3>1. /\ pc \in Between \ {"rollback"} /\ pc' \in Between
          /\ UNCHANGED <<stack, ref, plan, kills>>
      BY <1>18, <2>2
        DEF newManagedRecoveryRoot, git, bounds, run, files, Between, Applying, Moving, Past
    <3> QED
      BY <3>1, StackOn DEF PlanInv
  <2> QED
    BY <2>1, <2>2
<1>19. ASSUME NEW r \in RootNames, cleanupVerified(r) PROVE StackOK'
  <2>1. CASE Fail
    BY <2>1, StackFail DEF PlanInv
  <2>2. CASE ~Fail
    <3>1. /\ pc = "clean" /\ UNCHANGED <<stack, ref, kills>>
          /\ \/ plan.request[1] # "rename" /\ Idle
             \/ pc' \in {"stack", "clean"} /\ plan' = plan
      BY <1>19, <2>2 DEF cleanupVerified, Applied, git, bounds
    <3>2. CASE plan.request[1] # "rename" /\ Idle
      BY <3>1, <3>2, StackEnd DEF PlanInv, Renamed
    <3>3. CASE pc' \in {"stack", "clean"} /\ plan' = plan
      BY <3>1, <3>3, StackOn DEF PlanInv, Between, Applying, Past
    <3> QED
      BY <3>1, <3>2, <3>3
  <2> QED
    BY <2>1, <2>2
<1>20. ASSUME NEW s \in Slots, preserve(s) PROVE StackOK'
  <2>1. CASE Fail
    BY <2>1, StackFail DEF PlanInv
  <2>2. CASE ~Fail
    <3>1. /\ pc \in Between \ {"rollback"} /\ pc' \in Between
          /\ UNCHANGED <<stack, ref, plan, kills>>
      BY <1>20, <2>2 DEF preserve, git, bounds, run, files, Between, Applying, Moving, Past
    <3> QED
      BY <3>1, StackOn DEF PlanInv
  <2> QED
    BY <2>1, <2>2
<1>21. ASSUME NEW s \in Slots, publish(s) PROVE StackOK'
  <2>1. CASE Fail
    BY <2>1, StackFail DEF PlanInv
  <2>2. CASE ~Fail
    <3>1. /\ pc \in Between \ {"rollback"} /\ pc' \in Between
          /\ UNCHANGED <<stack, ref, plan, kills>>
      BY <1>21, <2>2 DEF publish, git, bounds, run, files, Between, Applying, Moving, Past
    <3> QED
      BY <3>1, StackOn DEF PlanInv
  <2> QED
    BY <2>1, <2>2
<1>22. ASSUME NEW s \in Slots, removeVerifiedPrivate(s) PROVE StackOK'
  <2>1. CASE Fail
    BY <2>1, StackFail DEF PlanInv
  <2>2. CASE ~Fail
    <3>1. /\ pc \in Between \ {"rollback"} /\ pc' \in Between
          /\ UNCHANGED <<stack, ref, plan, kills>>
      BY <1>22, <2>2
        DEF removeVerifiedPrivate, git, bounds, run, files, Between, Applying, Moving, Past
    <3> QED
      BY <3>1, StackOn DEF PlanInv
  <2> QED
    BY <2>1, <2>2
<1>23. ASSUME NEW s \in Slots, UserEdit(s) PROVE StackOK'
  <2>1. UNCHANGED <<stack, ref, plan, pc, kills, evidence>>
    BY <1>23 DEF UserEdit, git, run
  <2> QED
    BY <2>1, MoreBranches, RequestFacts DEF New, TypeOK, RunType, Plans
<1>24. CASE compare
  <2>1. CASE Fail
    BY <2>1, StackFail DEF PlanInv
  <2>2. CASE ~Fail
    <3>1. /\ pc \in Between \ {"rollback"} /\ pc' \in Between
          /\ UNCHANGED <<stack, ref, plan, kills>>
      BY <1>24, <2>2
        DEF compare, git, bounds, run, files, Between, Applying, Moving, Past, Captured
    <3> QED
      BY <3>1, StackOn DEF PlanInv
  <2> QED
    BY <2>1, <2>2
<1>25. CASE restoreAfterPreservationFailure
  <2>1. /\ pc = "restore" /\ Idle /\ UNCHANGED <<stack, ref, kills>>
        /\ plan.request[1] = "rename" => Feature \in evidence'
    BY <1>25 DEF restoreAfterPreservationFailure, Account, Renaming, git, bounds
  <2> QED
    BY <2>1, StackEnd DEF PlanInv, Renamed
<1>26. CASE EffectsDone
  <2>1. CASE Fail
    BY <2>1, StackFail DEF PlanInv
  <2>2. CASE ~Fail
    <3>1. /\ pc \in Between \ {"rollback"} /\ pc' \in Between
          /\ UNCHANGED <<stack, ref, plan, kills>>
      BY <1>26, <2>2 DEF EffectsDone, git, bounds, run, files, Between, Applying, Moving, Past
    <3> QED
      BY <3>1, StackOn DEF PlanInv
  <2> QED
    BY <2>1, <2>2
<1>27. CASE preserveLedger
  <2>1. CASE Fail
    BY <2>1, StackFail DEF PlanInv
  <2>2. CASE ~Fail
    <3>1. /\ pc \in Between \ {"rollback"} /\ pc' \in Between
          /\ UNCHANGED <<stack, ref, plan, kills>>
      BY <1>27, <2>2
        DEF preserveLedger, git, bounds, run, files, Between, Applying, Moving, Past
    <3> QED
      BY <3>1, StackOn DEF PlanInv
  <2> QED
    BY <2>1, <2>2
<1>28. CASE publishLedger
  <2>1. CASE Fail
    BY <2>1, StackFail DEF PlanInv
  <2>2. CASE ~Fail
    <3>1. /\ pc \in Between \ {"rollback"} /\ pc' \in Between
          /\ UNCHANGED <<stack, ref, plan, kills>>
      BY <1>28, <2>2
        DEF publishLedger, git, bounds, run, files, Between, Applying, Moving, Past
    <3> QED
      BY <3>1, StackOn DEF PlanInv
  <2> QED
    BY <2>1, <2>2
<1>29. CASE preflightCleanup
  <2>1. CASE Fail
    BY <2>1, StackFail DEF PlanInv
  <2>2. CASE ~Fail
    <3>1. /\ pc \in Between \ {"rollback"} /\ pc' \in Between
          /\ UNCHANGED <<stack, ref, plan, kills>>
      BY <1>29, <2>2
        DEF preflightCleanup, git, bounds, run, files, Between, Applying, Moving, Past
    <3> QED
      BY <3>1, StackOn DEF PlanInv
  <2> QED
    BY <2>1, <2>2
<1>30. CASE Kill
  <2>1. Idle /\ UNCHANGED <<stack, ref>> /\ kills' # 0
    BY <1>30 DEF Kill, git, TypeOK, CountType
  <2> QED
    BY <2>1, StackEnd DEF PlanInv
<1>31. CASE UserSettles
  <2>1. /\ pc' = "idle" /\ plan' = plan /\ pc = "idle" /\ UNCHANGED ref
        /\ stack' = IF StackNamesBranches THEN stack ELSE {w \in Worktrees : ref[w] # None}
    BY <1>31 DEF UserSettles, run
  <2>2. StackNamesBranches'
    BY <2>1 DEF StackNamesBranches
  <2>3. ~Renamed' /\ RequestOK'
    BY <2>1, NotRenamed DEF PlanInv, Renamed, RequestOK
  <2> QED
    BY <2>1, <2>2, <2>3 DEF StackOK, NamesOK
<1>32. CASE UNCHANGED vars
  <2>1. UNCHANGED <<stack, ref, plan, pc, kills, evidence>>
    BY <1>32 DEF vars, git, run, bounds, files
  <2> QED
    BY <2>1, MoreBranches, RequestFacts DEF New, TypeOK, RunType, Plans
<1> QED
  BY <1>1, <1>2, <1>3, <1>4, <1>5, <1>6, <1>7, <1>8, <1>9, <1>10, <1>11, <1>12, <1>13,
    <1>14, <1>15, <1>16, <1>17, <1>18, <1>19, <1>20, <1>21, <1>22, <1>23, <1>24, <1>25,
    <1>26, <1>27, <1>28, <1>29, <1>30, <1>31, <1>32 DEF Next, RootNames
-----------------------------------------------------------------------------
(* The invariant, and what it means to the people who use templates.         *)

\* The first ledger is right about the first disk.
LEMMA InitDisk ==
  ASSUME Init
  PROVE  /\ Known(ledger.links) /\ Honest(ledger) /\ Absent
         /\ \A s \in Slots : disk[s].by = "user" => disk[s] = Foreign(Mine)
         /\ Right(ledger, {})
<1>1. TypeOK /\ touched = {m[1] : m \in mine}
      /\ mine = {<<s, disk[s]>> : s \in {x \in Slots : disk[x].by = "user"}}
  BY InitType DEF Init
<1>2. \A s \in Slots : disk[s].by = "user" => s \in touched
  <2>1. ASSUME NEW s \in Slots, disk[s].by = "user" PROVE s \in touched
    <3>1. <<s, disk[s]>> \in mine
      BY <1>1, <2>1
    <3>2. <<s, disk[s]>>[1] \in {m[1] : m \in mine}
      BY <3>1
    <3> QED
      BY <1>1, <3>2
  <2> QED
    BY <2>1
<1>3. Nothing.by # "user" /\ Link.by # "user" /\ Foreign(Mine).by = "user"
      /\ Nothing.data = "" /\ Nothing # Link
      /\ \A c : Rendered(c).by # "user" /\ Rendered(c).data = c
  BY DEF Nothing, Link, Rendered, Foreign
<1>4. CASE Unmanaged
  <2>1. /\ ledger.links = {} /\ \A f \in Files : ledger.files[f].data = "" /\ ledger.files[f].incoming = ""
        /\ \A w \in Worktrees : wt[w] = 1
        /\ \A s \in Slots : disk[s] = Nothing \/ (s \notin Links /\ disk[s] = Foreign(Mine))
    BY <1>4 DEF Unmanaged, NoLedger, NoEntry
  <2>2. Known(ledger.links) /\ Honest(ledger) /\ Absent
    BY <2>1, SlotFacts DEF Known, Honest, Absent, Mine
  <2>3. Right(ledger, {})
    BY <1>2, <1>3, <2>1, SlotFacts DEF Right, FilesRight, LinksRight, At
  <2> QED
    BY <1>3, <2>1, <2>2, <2>3
<1>5. CASE Managed
  <2>1. PICK d \in Deployed :
      LET fs == DOMAIN d.package IN
      /\ wt = [w \in Worktrees |-> IF w \in d.worktrees THEN 1 ELSE 0] /\ stack = d.worktrees
      /\ disk = [s \in Slots |-> CASE s[2] \notin fs -> Nothing
                                 [] s[2] \in fs /\ s[1] = Feature -> Rendered(d.package[s[2]])
                                 [] OTHER -> IF s[1] \in d.worktrees THEN Link ELSE Nothing]
      /\ ledger = [on |-> TRUE, links |-> d.worktrees \X fs \X {1},
                 files |-> [f \in Files |-> IF f \in fs THEN [data |-> d.package[f], incoming |-> d.package[f]]
                                            ELSE NoEntry]]
    BY <1>5 DEF Managed
  <2> DEFINE fs == DOMAIN d.package
  <2> DEFINE ws == d.worktrees
  <2>2. fs \subseteq Files /\ ws \subseteq Worktrees /\ \A f \in fs : d.package[f] # Mine
    BY TemplatesAssumption, RenderedContents
  <2>3. /\ ledger.links = ws \X fs \X {1}
        /\ \A f \in Files : ledger.files[f] =
             IF f \in fs THEN [data |-> d.package[f], incoming |-> d.package[f]] ELSE NoEntry
    BY <2>1
  <2>4. \A w \in Worktrees : wt[w] = IF w \in ws THEN 1 ELSE 0
    BY <2>1
  <2>5. /\ \A f \in Files : disk[<<Feature, f>>] = IF f \in fs THEN Rendered(d.package[f]) ELSE Nothing
        /\ \A l \in Links : disk[l] = IF l[1] \in ws /\ l[2] \in fs THEN Link ELSE Nothing
    <3>1. ASSUME NEW f \in Files
          PROVE  disk[<<Feature, f>>] = IF f \in fs THEN Rendered(d.package[f]) ELSE Nothing
      <4>1. <<Feature, f>> \in Slots
        BY SlotFacts
      <4> QED
        BY <2>1, <4>1
    <3>2. ASSUME NEW l \in Links
          PROVE  disk[l] = IF l[1] \in ws /\ l[2] \in fs THEN Link ELSE Nothing
      <4>1. l \in Slots /\ l[1] # Feature
        BY SlotFacts
      <4> QED
        BY <2>1, <4>1
    <3> QED
      BY <3>1, <3>2
  <2> HIDE DEF fs, ws
  <2>6. Known(ledger.links)
    BY <2>2, <2>3, <2>4 DEF Known
  <2>7. Honest(ledger)
    <3>1. NoEntry.incoming # Mine
      BY DEF NoEntry, Mine
    <3>2. ASSUME NEW f \in Files PROVE ledger.files[f].incoming # Mine
      <4>1. CASE f \in fs
        <5>1. ledger.files[f] = [data |-> d.package[f], incoming |-> d.package[f]]
          BY <2>3, <4>1
        <5> QED
          BY <2>2, <4>1, <5>1
      <4>2. CASE f \notin fs
        BY <2>3, <3>1, <4>2
      <4> QED
        BY <4>1, <4>2
    <3> QED
      BY <3>2 DEF Honest
  <2>8. Absent
    BY <2>4, <2>5, SlotFacts DEF Absent
  <2>9. \A s \in Slots : disk[s].by # "user"
    <3>1. \A l \in Links : disk[l].by # "user"
      BY <1>3, <2>5
    <3>2. \A f \in Files : disk[<<Feature, f>>].by # "user"
      BY <1>3, <2>5
    <3> QED
      BY <3>1, <3>2 DEF Slots, Places
  <2>10. FilesRight(ledger, {})
    <3>1. NoEntry.data = ""
      BY DEF NoEntry
    <3>2. ASSUME NEW f \in Files PROVE disk[<<Feature, f>>].data = ledger.files[f].data
      <4>1. CASE f \in fs
        <5>1. ledger.files[f] = [data |-> d.package[f], incoming |-> d.package[f]]
          BY <2>3, <4>1
        <5>2. ledger.files[f].data = d.package[f]
          BY <5>1
        <5> QED
          BY <1>3, <2>5, <4>1, <5>2
      <4>2. CASE f \notin fs
        BY <1>3, <2>3, <2>5, <3>1, <4>2
      <4> QED
        BY <4>1, <4>2
    <3> QED
      BY <3>2 DEF FilesRight, At
  <2>11. LinksRight(ledger, {})
    <3>1. ASSUME NEW s \in Links, wt[s[1]] > 0
          PROVE  (disk[s] = Link) <=> (<<s[1], s[2], wt[s[1]]>> \in ledger.links)
      <4>1. s[1] \in ws /\ wt[s[1]] = 1
        BY <2>4, <3>1, SlotFacts
      <4>2. (<<s[1], s[2], 1>> \in ledger.links) <=> s[2] \in fs
        BY <2>3, <4>1
      <4> QED
        BY <1>3, <2>5, <4>1, <4>2
    <3> QED
      BY <3>1 DEF LinksRight
  <2> QED
    BY <2>6, <2>7, <2>8, <2>9, <2>10, <2>11 DEF Right
<1> QED
  BY <1>4, <1>5 DEF Init

\* The inductive invariant.
TemplatesInv == TypeOK /\ PlanInv /\ ContentInv /\ RecordInv

\* A workspace is first seen with its invariant.
LEMMA InitInv == Init => TemplatesInv
<1> SUFFICES ASSUME Init PROVE TemplatesInv
  OBVIOUS
<1>1. TypeOK
  BY InitType
<1>2. /\ pc = "idle" /\ plan = NoPlan /\ todo = {} /\ held = <<>> /\ saved = {}
      /\ mine = {<<s, disk[s]>> : s \in {x \in Slots : disk[x].by = "user"}}
      /\ ref = [w \in Worktrees |-> IF w \in stack THEN w ELSE None]
  BY DEF Init
<1>3. PlanInv
  <2>1. LedgersOK
    <3>1. plan.ledger = NoLedger /\ NoLedger.links = {}
      BY <1>2, NoPlanType DEF NoLedger
    <3>2. \A f \in Files : NoLedger.files[f].incoming = ""
      BY DEF NoLedger, NoEntry
    <3> QED
      BY <3>1, <3>2, InitDisk DEF LedgersOK, Known, Honest, Mine
  <2>2. PlanOK
    BY <1>2, NoPlanType, EmptyFunction DEF PlanOK, Sound, Leads, Applying, Moving, Past
  <2>3. RelationOK
    BY <1>2, NoPlanType DEF RelationOK, Early, Renames, Moving, Retiring
  <2> QED
    BY <2>1, <2>2, <2>3 DEF PlanInv
<1>4. ContentInv
  <2>1. HeldOK
    BY <1>2 DEF HeldOK, Applying, Moving, Past
  <2>2. ASSUME NEW m \in mine PROVE m[2] = Foreign(Mine) /\ disk[m[1]] = m[2]
    <3>1. PICK s \in Slots : m = <<s, disk[s]>> /\ disk[s].by = "user"
      BY <1>2
    <3> QED
      BY <3>1, InitDisk
  <2> QED
    BY <2>1, <2>2 DEF ContentInv, KeptOK
<1>5. RecordInv
  <2>1. RightOK
    BY <1>2, InitDisk DEF RightOK, Applying, Moving, Past
  <2>2. EvidenceOK
    BY <1>2 DEF EvidenceOK, Applying, Moving, Past
  <2>3. StackOK
    <3>1. StackNamesBranches
      BY <1>1, <1>2, TemplatesAssumption DEF StackNamesBranches, TypeOK, BookType
    <3>2. ~Renamed /\ RequestOK
      BY <1>2, NoRename DEF Renamed, RequestOK
    <3> QED
      BY <1>2, <3>1, <3>2 DEF StackOK, NamesOK
  <2> QED
    BY <2>1, <2>2, <2>3 DEF RecordInv
<1> QED
  BY <1>1, <1>3, <1>4, <1>5 DEF TemplatesInv

\* TemplatesInvariant: plans, objects in recovery, the ledger and the evidence
\* agree at every step of every command, with any number of files, worktrees,
\* template versions, kills and edits.
THEOREM TemplatesInvariant == Spec => []TemplatesInv
<1>1. TemplatesInv /\ [Next]_vars => TemplatesInv'
  <2> SUFFICES ASSUME TemplatesInv, [Next]_vars PROVE TemplatesInv'
    OBVIOUS
  <2>1. /\ TypeOK /\ PlanInv /\ HeldOK /\ KeptOK /\ RightOK /\ EvidenceOK /\ StackOK
        /\ PlanOK /\ RelationOK
    BY DEF TemplatesInv, PlanInv, ContentInv, RecordInv
  <2>2. TypeOK' /\ PlanInv' /\ HeldOK' /\ KeptOK'
    BY <2>1, TypeStep, PlanInvStep, HeldStep, KeptStep
  <2>3. RightOK'
    BY <2>1, RightSteps, RightStepIsRight
  <2>4. EvidenceOK' /\ StackOK'
    BY <2>1, EvidenceStep, StackStep
  <2> QED
    BY <2>2, <2>3, <2>4 DEF TemplatesInv, ContentInv, RecordInv
<1> QED
  BY InitInv, <1>1, PTL DEF Spec

\* ContentStays: what a person wrote at a managed path is there or in the
\* recovery directory, until the person agreed to replace it, removed it, or
\* archived or renamed its worktree.
THEOREM ContentStays == Spec => []UserContentKept
<1>1. TemplatesInv => UserContentKept
  BY DEF TemplatesInv, ContentInv, KeptOK, UserContentKept
<1> QED
  BY <1>1, TemplatesInvariant, PTL

\* RecordStaysRight: where no evidence is left, the ledger is right about every
\* path that only tws has written, and no entry of stack.yaml has lost its
\* branch to a rename that ended by itself.
THEOREM RecordStaysRight == Spec => []RecordedAsLeft
<1>1. TemplatesInv => RecordedAsLeft
  <2> SUFFICES ASSUME TemplatesInv, evidence = {}
               PROVE  /\ pc = "idle" /\ kills = 0 => StackNamesBranches
                      /\ Right(ledger, {})
    BY DEF RecordedAsLeft, Right, FilesRight, LinksRight, matchOwnedFile
  <2>1. RightOK /\ EvidenceOK /\ StackOK /\ PlanInv
    BY DEF TemplatesInv, RecordInv
  <2>2. pc = "idle" /\ kills = 0 => StackNamesBranches
    BY <2>1 DEF StackOK, NamesOK
  <2>3. pc \notin Applying \ {"clean"} /\ Feature \notin evidence
    BY <2>1 DEF EvidenceOK
  <2>4. Right(ledger, {})
    BY <2>1, <2>3, RightCases
  <2> QED
    BY <2>2, <2>4
<1> QED
  BY <1>1, TemplatesInvariant, PTL
=============================================================================
