----------------------------- MODULE SyncGuard -----------------------------
(* The three files that admit one external sync per feature: the run guard  *)
(* (.sync-run.lock), the sentinel that keeps older binaries out, and the    *)
(* recovery payload, whose content is SyncTransaction's business.  Several  *)
(* tws processes race; any of them may be killed between two file           *)
(* operations, or stop on a conflict and leave its files behind.  A feature  *)
(* may also have been left in a state that only an older tws writes.         *)
EXTENDS Integers, FiniteSets

CONSTANTS
  Procs,     \* terminals in which tws commands are run
  Patient,   \* those of them at which somebody keeps trying --abort
  MaxRuns,   \* bound on the commands of a terminal still named by some file
  Scenes     \* what one behaviour may contain: the terminals in use, how many
             \* commands are killed, whether runs stop on a conflict, what an
             \* older tws left, a guard beside it, and a stack.yaml

ASSUME ConstantsAssumption ==
  /\ IsFiniteSet(Procs) /\ Patient \subseteq Procs /\ MaxRuns \in Nat \ {0}
  /\ Scenes \subseteq [procs : SUBSET Procs, kills : Nat, stop : BOOLEAN,
       left : {"nothing", "legacy", "backup", "scoped", "orphan"},
       stale : BOOLEAN, meta : BOOLEAN]

(* A process is <<terminal, number of the command>>; numbers that no file   *)
(* and no running command names any more are used again.  A run's owner     *)
(* token and marker are the process that started it.  A guard that was      *)
(* created but not yet written has no readable owner (full = FALSE).        *)
None == <<>>
Processes == Procs \X (1..MaxRuns)

(* What older versions leave: a state file that is no sentinel, a sentinel  *)
(* that carries a guarded run and a backup of the state it replaced, and a  *)
(* payload without a transaction.  Dead is a process of that time.          *)
Legacy == <<"legacy">>
Backup == <<"backup">>
Scoped == <<"scoped">>
Dead == <<"dead">>
Untransacted == {Backup, Scoped}

VARIABLES guard, sentinel, payload,  \* the files, or None
          pc, verb, cnt,             \* terminal -> its running command
          seen,                      \* guard bytes judged reclaimable
          found,                     \* the files it has classified
          scene                      \* chosen once; kills counts down, and
                                     \* stack.yaml may appear

vars == <<guard, sentinel, payload, pc, verb, cnt, seen, found, scene>>
files == <<guard, sentinel, payload>>
local == <<verb, cnt, seen, found, scene>>

Me(p) == <<p, cnt[p]>>
Alive(i) == i \in Processes /\ pc[i[1]] # "idle" /\ cnt[i[1]] = i[2]

\* The token a command writes into the guard: the recorded run's, if any.
Token(p) ==
  CASE found[p].payload # None -> found[p].payload
    [] found[p].payload = None /\ verb[p] \in {"resume", "discard"} -> Backup
    [] OTHER -> Me(p)

NotFound == [payload |-> None, sentinel |-> None, guarded |-> FALSE]

LeftSentinel(l) ==
  CASE l = "legacy" -> Legacy [] l = "backup" -> Backup [] l = "scoped" -> Scoped
    [] OTHER -> None
LeftPayload(l) == IF l \in {"scoped", "orphan"} THEN Scoped ELSE None
StaleGuard ==
  [own |-> Dead, full |-> TRUE,
   tok |-> CASE payload # None -> payload [] sentinel = Backup -> Backup [] OTHER -> Dead]

Init ==
  /\ \E s \in Scenes :
       /\ scene = [procs |-> s.procs, kills |-> s.kills, stop |-> s.stop, meta |-> s.meta]
       /\ sentinel = LeftSentinel(s.left) /\ payload = LeftPayload(s.left)
       /\ guard = IF s.stale THEN StaleGuard ELSE None
  /\ pc = [p \in Procs |-> "idle"] /\ verb = [p \in Procs |-> "sync"]
  /\ cnt = [p \in Procs |-> 0]
  /\ seen = [p \in Procs |-> None]
  /\ found = [p \in Procs |-> NotFound]
-----------------------------------------------------------------------------
CellOf(s, f) ==
  CASE s = None /\ f = None -> 1   [] s = None /\ f # None -> 2
    [] s = Legacy /\ f = None -> 7 [] s = Legacy /\ f # None -> 8
    [] s \notin {None, Legacy} /\ f = None -> 4
    [] s \notin {None, Legacy} /\ f # None -> 5
Cell == CellOf(sentinel, payload)

Readable == guard # None /\ guard.full
GuardForeign == Readable /\ payload # None /\ guard.tok # payload
GuardLive == Readable /\ Alive(guard.own) /\ ~GuardForeign

\* Where a run may be at work, no verb starts.
LiveGuardRefusal == Cell \in {2, 4, 5} /\ GuardLive

\* Without stack.yaml a sync needs a consent, and keeps no recovery state.
FreshRoute == Cell = 1 /\ scene.meta
CompatRoute == Cell = 1 /\ ~scene.meta
\* --continue needs a transaction, or a complete older run; a state file that
\* is no sentinel predates the cutoffs and is refused.
ContinueRoute ==
  /\ Cell = 5 \/ (Cell = 2 /\ payload \notin Untransacted)
  /\ ~GuardForeign
\* --abort of a state file that is no sentinel looks at the guard first.
LegacyAbortRoute == Cell = 7 /\ (guard # None => guard.full /\ ~Alive(guard.own))
UnlockRoute == Cell = 1 /\ Readable /\ ~GuardLive
AbortRoute == LegacyAbortRoute \/ (Cell \in {2, 4, 5} /\ ~GuardForeign)

Continuing == {"continue", "armed"}
Starting == {"sync", "compat"}
Verbs == Starting \cup Continuing \cup {"abort", "unlock"}

\* The ordinary route of a verb in the cell that was found.
Routed(v) ==
  CASE v = "sync" -> FreshRoute
    [] v = "compat" -> CompatRoute
    [] v \in Continuing -> ContinueRoute
    [] v = "abort" -> AbortRoute
    [] v = "unlock" -> UnlockRoute

Named ==
  {sentinel, payload} \cup UNION {
    {g.own, g.tok} : g \in ({guard} \cup {seen[q] : q \in Procs}) \ {None}}
  \cup {found[q].payload : q \in Procs} \cup {Me(q) : q \in Procs}

Classified == [payload |-> payload, sentinel |-> sentinel, guarded |-> guard # None]
Entry(v) == IF v \in Starting THEN "open" ELSE "judge"

\* A command starts and classifies what it finds; a sentinel without a payload
\* is read once more, anything else goes on to the claim.
StartCommand(p, v) ==
  /\ pc[p] = "idle" /\ p \in scene.procs /\ ~LiveGuardRefusal
  /\ Cell = 4 \/ Routed(v)
  /\ \E i \in 1..MaxRuns :
       /\ <<p, i>> \notin Named
       /\ \A j \in 1..(i - 1) : <<p, j>> \in Named
       /\ cnt' = [cnt EXCEPT ![p] = i]
  /\ verb' = [verb EXCEPT ![p] = v]
  /\ found' = [found EXCEPT ![p] = Classified]
  /\ pc' = [pc EXCEPT ![p] = IF Cell = 4 THEN "inspect" ELSE Entry(v)]
  /\ UNCHANGED <<files, seen, scene>>

At(p, label) == pc[p] = label
Goto(p, label) == pc' = [pc EXCEPT ![p] = label]
Exit(p) == Goto(p, "idle")

\* The sentinel vanished: the files are classified once more, and only once.
Reclassified(p) ==
  /\ sentinel = None
  /\ found' = [found EXCEPT ![p] = Classified] /\ UNCHANGED verb
  /\ IF Routed(verb[p]) THEN Goto(p, Entry(verb[p])) ELSE Exit(p)

\* The sentinel carries a guarded run, which --continue resumes and --abort
\* discards; whether to claim or to reclaim follows the guard found at first.
Intercepted(p) ==
  /\ sentinel = Backup /\ UNCHANGED found
  /\ CASE verb[p] \in Continuing ->
            /\ verb' = [verb EXCEPT ![p] = "resume"]
            /\ Goto(p, IF found[p].guarded THEN "judge" ELSE "open")
       [] verb[p] = "abort" -> verb' = [verb EXCEPT ![p] = "discard"] /\ Goto(p, "judge")
       [] OTHER -> UNCHANGED verb /\ Exit(p)

\* An ordinary sentinel without a payload is for --abort alone.
Inspect(p) ==
  /\ At(p, "inspect") /\ UNCHANGED <<files, cnt, seen, scene>>
  /\ \/ Reclassified(p) \/ Intercepted(p)
     \/ /\ sentinel \notin {None, Backup} /\ UNCHANGED <<verb, found>>
        /\ IF verb[p] = "abort" THEN Goto(p, "judge") ELSE Exit(p)

Create(p) ==
  /\ guard' = [own |-> Me(p), full |-> FALSE, tok |-> Token(p)]
  /\ Goto(p, "write") /\ UNCHANGED <<sentinel, payload>>

\* Mutant: the guard is created without O_EXCL.
OpenOver(p) == pc[p] \in {"open", "reopen"} /\ Create(p) /\ UNCHANGED local

\* O_CREATE|O_EXCL: a fresh sync that finds a guard goes on to judge it, a
\* second attempt after a reclaim gives up.
Open(p) ==
  /\ pc[p] \in {"open", "reopen"} /\ UNCHANGED local
  /\ IF guard = None THEN Create(p)
     ELSE /\ UNCHANGED files
          /\ IF pc[p] = "open" THEN Goto(p, "judge") ELSE Exit(p)

\* Mutant: a recovery that finds no guard gives up.
JudgePresent(p) ==
  /\ At(p, "judge") /\ UNCHANGED <<files, verb, cnt, found, scene>>
  /\ IF Readable /\ ~Alive(guard.own)
     THEN seen' = [seen EXCEPT ![p] = guard] /\ Goto(p, "compare")
     ELSE UNCHANGED seen /\ Exit(p)

\* A claim, unlike a recovery's reclaim, expects no guard.
Claims(p) ==
  verb[p] \in Starting \/ (verb[p] = "resume" /\ ~found[p].guarded)

\* The guard is read once; only one whose owner is dead is reclaimed, and a
\* claim leaves a run with a payload to --continue and --abort.
Judge(p) ==
  /\ At(p, "judge") /\ UNCHANGED <<files, verb, cnt, found, scene>>
  /\ IF /\ Readable /\ ~Alive(guard.own)
        /\ Claims(p) => payload = None
     THEN seen' = [seen EXCEPT ![p] = guard] /\ Goto(p, "compare")
     ELSE /\ UNCHANGED seen
          /\ IF guard = None /\ ~Claims(p) THEN Goto(p, "reopen") ELSE Exit(p)

\* removeLockIfUnchanged compares the content, and then removes the path.
Compare(p) ==
  /\ At(p, "compare") /\ UNCHANGED <<files, local>>
  /\ IF guard = seen[p] THEN Goto(p, "remove") ELSE Exit(p)

Remove(p) ==
  /\ At(p, "remove") /\ UNCHANGED <<sentinel, payload, local>>
  /\ IF guard = None THEN Exit(p) /\ UNCHANGED guard
     ELSE guard' = None /\ Goto(p, "reopen")

\* The content goes to the file that was created, wherever its path leads now.
Write(p) ==
  /\ At(p, "write") /\ Goto(p, "recheck")
  /\ guard' = IF guard # None /\ guard.own = Me(p)
              THEN [guard EXCEPT !.full = TRUE] ELSE guard
  /\ UNCHANGED <<sentinel, payload, local>>

\* ReleaseOwnedSyncRunGuard: token and owner must match.
Released(p) ==
  IF Readable /\ guard.own = Me(p) /\ guard.tok = Token(p) THEN None ELSE guard
Release(p) == guard' = Released(p) /\ Exit(p) /\ UNCHANGED local

\* A pending reparent or publication sends the command back.
Recheck(p) ==
  /\ At(p, "recheck") /\ UNCHANGED <<sentinel, payload>>
  /\ \/ Goto(p, "admit") /\ UNCHANGED <<guard, local>>
     \/ Release(p)

Admitting(p, verbs) == At(p, "admit") /\ verb[p] \in verbs
FreshAdmission(p) == Readable /\ guard.tok = Me(p) /\ Cell = 1
AdmitSync(p) ==
  /\ Admitting(p, {"sync"}) /\ UNCHANGED <<sentinel, payload>>
  /\ IF FreshAdmission(p) THEN Goto(p, "sentinel") /\ UNCHANGED <<guard, local>>
     ELSE Release(p)

\* The consented sync checks twice that there still is no stack.yaml, and then
\* rebases beneath nothing but the guard.
AdmitCompat(p) ==
  /\ Admitting(p, {"compat"}) /\ UNCHANGED <<sentinel, payload>>
  /\ IF FreshAdmission(p) /\ ~scene.meta
     THEN Goto(p, "compat") /\ UNCHANGED <<guard, local>>
     ELSE Release(p)
RunCompat(p) == At(p, "compat") /\ Release(p) /\ UNCHANGED <<sentinel, payload>>

\* The payload, and the sentinel beside it, are still those the command was
\* started for.
Authoritative(p) ==
  /\ payload = found[p].payload
  /\ sentinel = None => found[p].sentinel = None
  /\ sentinel \in {None, payload}
Recovering(p) ==
  /\ Admitting(p, Continuing \cup {"abort"}) /\ found[p].payload # None
  /\ verb[p] = "abort" => found[p].payload \notin Untransacted

\* A missing sentinel is put back, unless only cleanup is left.
RestoredSentinel == IF sentinel = None THEN payload ELSE sentinel
AdmitRecovery(p) ==
  /\ Recovering(p) /\ UNCHANGED payload
  /\ IF Authoritative(p)
     THEN /\ Goto(p, IF verb[p] = "armed" THEN "upgrade" ELSE "run")
          /\ sentinel' = RestoredSentinel /\ UNCHANGED <<guard, local>>
     ELSE /\ UNCHANGED sentinel
          /\ IF verb[p] = "abort" THEN Release(p)
             ELSE Exit(p) /\ UNCHANGED <<guard, local>>
FinishCleanup(p) ==
  /\ Recovering(p) /\ Authoritative(p) /\ payload \notin Untransacted
  /\ Goto(p, "rmPayload") /\ UNCHANGED <<files, local>>

\* A --continue with limits records them, before it works.
Upgrade(p) ==
  /\ At(p, "upgrade") /\ payload' = Token(p) /\ Goto(p, "run")
  /\ UNCHANGED <<guard, sentinel, local>>

\* The resumed backup gets its payload back, unseen what is there.
ResumeBackup(p) ==
  /\ Admitting(p, {"resume"}) /\ payload' = Backup /\ Goto(p, "run")
  /\ UNCHANGED <<guard, sentinel, local>>

\* A payload without a transaction has nothing to roll back and is removed,
\* not read again; then the sentinel, where one was found.
AbortUntransacted(p) ==
  /\ Admitting(p, {"abort"}) /\ found[p].payload \in Untransacted
  /\ payload' = None
  /\ IF found[p].sentinel = None THEN Release(p)
     ELSE Goto(p, "drop") /\ UNCHANGED <<guard, local>>
  /\ UNCHANGED sentinel
DropSentinel(p) ==
  At(p, "drop") /\ sentinel' = None /\ Release(p) /\ UNCHANGED payload

\* --abort of a run that left no payload clears its sentinel, and so does the
\* discarding of a backup.
AbortResidue(p) ==
  /\ Admitting(p, {"abort", "discard"}) /\ found[p].payload = None
  /\ found[p].sentinel # Legacy
  /\ sentinel' = IF payload = None THEN None ELSE sentinel
  /\ Release(p) /\ UNCHANGED payload

\* A state file that is no sentinel is removed whatever it has become.
AbortLegacy(p) ==
  /\ Admitting(p, {"abort"}) /\ found[p].sentinel = Legacy
  /\ sentinel' = None /\ Release(p) /\ UNCHANGED payload

\* --abort that found only a guard is done once it has taken the guard over.
AbortStaleGuard(p) ==
  Admitting(p, {"unlock"}) /\ Release(p) /\ UNCHANGED <<sentinel, payload>>

WriteSentinel(p) ==
  /\ At(p, "sentinel") /\ Goto(p, "payload") /\ sentinel' = Me(p)
  /\ UNCHANGED <<guard, payload, local>>

\* Capture and preflight may fail; then setup takes its own files back.
WritePayload(p) ==
  /\ At(p, "payload")
  /\ \/ payload' = Me(p) /\ Goto(p, "run") /\ UNCHANGED <<guard, sentinel, local>>
     \/ /\ sentinel' = IF sentinel = Me(p) THEN None ELSE sentinel
        /\ Release(p) /\ UNCHANGED payload

\* The transaction ends; a fresh guarded run that is refused before it has
\* changed anything takes its files back in the same order.
Run(p) == At(p, "run") /\ Goto(p, "rmPayload") /\ UNCHANGED <<files, local>>

\* A conflict, a failure or a refusal leaves the files; --abort the guard not.
Stop(p) ==
  /\ At(p, "run") /\ scene.stop /\ UNCHANGED <<sentinel, payload>>
  /\ IF verb[p] = "abort" THEN Release(p)
     ELSE Exit(p) /\ UNCHANGED <<guard, local>>

\* clearSyncRunState, in this order; the guard goes unconditionally.
RemovePayload(p) ==
  /\ At(p, "rmPayload") /\ Goto(p, "rmSentinel") /\ payload' = None
  /\ UNCHANGED <<guard, sentinel, local>>

RemoveSentinel(p) ==
  /\ At(p, "rmSentinel") /\ Goto(p, "rmGuard") /\ sentinel' = None
  /\ UNCHANGED <<guard, payload, local>>

RemoveGuard(p) ==
  /\ At(p, "rmGuard") /\ guard' = None
  /\ IF verb[p] = "abort" THEN Goto(p, "release") ELSE Exit(p)
  /\ UNCHANGED <<sentinel, payload, local>>

\* The deferred release of --abort runs after the guard is already gone.
DeferredRelease(p) ==
  At(p, "release") /\ Release(p) /\ UNCHANGED <<sentinel, payload>>

Crash(p) ==
  /\ pc[p] # "idle" /\ scene.kills > 0
  /\ scene' = [scene EXCEPT !.kills = @ - 1]
  /\ Exit(p) /\ UNCHANGED <<files, verb, cnt, seen, found>>

\* A person writes the missing stack.yaml.
StackAppears ==
  /\ ~scene.meta /\ scene' = [scene EXCEPT !.meta = TRUE]
  /\ UNCHANGED <<files, pc, verb, cnt, seen, found>>

Step(p) ==
  \/ Inspect(p) \/ Open(p) \/ Judge(p) \/ Compare(p) \/ Remove(p) \/ Write(p) \/ Recheck(p)
  \/ AdmitSync(p) \/ AdmitCompat(p) \/ RunCompat(p)
  \/ AdmitRecovery(p) \/ FinishCleanup(p) \/ Upgrade(p) \/ ResumeBackup(p)
  \/ AbortUntransacted(p) \/ DropSentinel(p) \/ AbortResidue(p)
  \/ AbortLegacy(p) \/ AbortStaleGuard(p)
  \/ WriteSentinel(p) \/ WritePayload(p) \/ Run(p) \/ Stop(p)
  \/ RemovePayload(p) \/ RemoveSentinel(p) \/ RemoveGuard(p)
  \/ DeferredRelease(p)

Start(p) == \E v \in Verbs : StartCommand(p, v)

Next == StackAppears \/ \E p \in Procs : Start(p) \/ Step(p) \/ Crash(p)

Spec == Init /\ [][Next]_vars

(* Fairness: a running command takes its next step, and nothing else (a     *)
(* reparent, a publication) sends everybody back forever; a patient person  *)
(* who finds leftovers tries --abort again and again, and a transaction can *)
(* be ended, which is what SyncTransaction's EveryRunEnds says.             *)
FairSpec ==
  /\ Spec
  /\ \A p \in Procs : WF_vars(Step(p)) /\ SF_vars(Recheck(p) /\ pc'[p] = "admit")
  /\ \A p \in Patient :
       /\ SF_vars(StartCommand(p, "abort")) /\ SF_vars(StartCommand(p, "unlock"))
       /\ SF_vars(Run(p))
-----------------------------------------------------------------------------
(* Properties.                                                              *)

Mutating(p) ==
  pc[p] \in {"sentinel", "payload", "compat", "upgrade", "run", "drop",
            "rmPayload", "rmSentinel", "rmGuard"}

\* Two commands never work on the same feature's branches and files at once.
MutualExclusion ==
  \A p, q \in Procs : Mutating(p) /\ Mutating(q) => p = q

Clean == guard = None /\ sentinel = None /\ payload = None
NamelessGuard == guard # None /\ ~guard.full /\ ~Alive(guard.own)

\* Whatever a killed or stopped command leaves behind, --abort clears it in
\* the end; where one terminal is used, the one exception is a guard whose
\* owner died before writing its name, which the messages ask a person to
\* inspect.
ResidueCleared == []<>(Clean \/ NamelessGuard)
=============================================================================
