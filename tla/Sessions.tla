------------------------------- MODULE Sessions -------------------------------
(* Agent and command sessions (session.go, command_session.go,               *)
(* external_session_intent.go, direct_session.go, cli/open*.go) against the  *)
(* commands that rewrite what they run on: stack reparent and the managed    *)
(* templates. A session announces itself and then looks for a mutation; a    *)
(* mutation reserves the feature and then looks for sessions. In a checkout  *)
(* workspace a session also moves the one working tree and puts it back.     *)
EXTENDS Naturals, FiniteSets

CONSTANTS
  Terminals, Branches,
  Affected,  \* the branches a mutation rewrites, in an external workspace
  Home,      \* the branch checked out at first, in a checkout workspace
  MaxOpen,   \* bound: sessions opened and mutations started
  MaxTrouble \* bound: processes killed, and changes of the working tree by people

ASSUME SessionsAssumption ==
  /\ Home \in Branches /\ Affected \subseteq Branches
  /\ MaxOpen \in Nat \ {0} /\ MaxTrouble \in Nat

VARIABLES
  mode,     \* "external": worktrees of their own; "checkout": one working tree
  kinds,    \* what people open in this workspace: "agent", "command"
  guard,    \* token in the run guard or mutation lock on disk, 0 if absent
  run,      \* a reparent is recorded on disk
  records,  \* external: direct session records, <<token, branch>>
  intents,  \* external: launch intents, <<token, branch or Feature>>
  tmux,     \* tmux sessions that run, <<branch or Feature, token>>
  intent,   \* checkout: the launch intent directory and its owner file
  active,   \* checkout: the recorded session
  head,     \* checkout: the branch checked out
  link,     \* checkout: the context link, "none", "ours", or "foreign"
  dirty,    \* checkout: the working tree has uncommitted work
  job,      \* terminal -> the command it runs
  tokens, trouble
disk == <<guard, run>>
external == <<records, intents>>
checkout == <<intent, active, head, link, dirty>>
fixed == <<mode, kinds>>
bounds == <<tokens, trouble>>
vars == <<fixed, disk, external, tmux, checkout, job, bounds>>

Feature == "feature"
NoIntent == [token |-> 0, owned |-> FALSE]
NoSession == [token |-> 0, what |-> "none", name |-> Feature, tmux |-> FALSE, orig |-> Home]
Idle == [pc |-> "idle", token |-> 0, what |-> "none", name |-> Feature, tmux |-> FALSE,
         of |-> NoSession, unstarted |-> FALSE]

Init ==
  /\ mode \in {"external", "checkout"}
  /\ kinds \in (IF mode = "external" THEN {{"agent", "command"}}
                ELSE {{"agent", "command"}, {"command"}})
  /\ guard = 0 /\ run = FALSE
  /\ records = {} /\ intents = {} /\ tmux = {}
  /\ intent = NoIntent /\ active = NoSession /\ head = Home /\ link = "none" /\ dirty = FALSE
  /\ job = [t \in Terminals |-> Idle]
  /\ tokens = 0 /\ trouble = 0
-----------------------------------------------------------------------------
At(t, pc) == job[t].pc = pc
To(t, pc) == job' = [job EXCEPT ![t].pc = pc]
Quit(t) == job' = [job EXCEPT ![t] = Idle]
Begin(t, what, name, tm, pc) ==
  /\ At(t, "idle") /\ tokens < MaxOpen /\ tokens' = tokens + 1
  /\ job' = [job EXCEPT ![t] = [Idle EXCEPT !.pc = pc, !.token = tokens + 1,
                                            !.what = what, !.name = name, !.tmux = tm]]

\* A token on disk is of a live process while a command with it runs.
processAlive(k) == \E t \in Terminals : job[t].token = k
\* What a session looks for is on disk, whether or not its owner lives.
MutationPending == guard # 0 \/ run
applies(name) == name = Feature \/ name \in Affected
Exists(name) == \E s \in tmux : s[1] = name
Names == Branches \cup {Feature}
-----------------------------------------------------------------------------
(* External sessions: a record for a direct one, an intent for the others,   *)
(* an intent and then a record for a direct command.                         *)

CreateDirectSession(t) == records' = records \cup {<<job'[t].token, job'[t].name>>}
RemoveOwnedDirectSession(t) == records' = {r \in records : r[1] # job[t].token}
OnlyRecorded(j) == j.what = "agent" /\ j.name # Feature /\ ~j.tmux
RecordedToo(j) == j.what = "command" /\ j.name # Feature /\ ~j.tmux

CreateExternalSessionIntent(t, name) ==
  intents' = intents \cup {<<job'[t].token, name>>} /\ UNCHANGED records
OpenAgent(t, name, tm) ==
  /\ mode = "external" /\ "agent" \in kinds /\ ~MutationPending
  /\ Begin(t, "agent", name, tm, "announced")
  /\ IF OnlyRecorded(job'[t]) THEN CreateDirectSession(t) /\ UNCHANGED intents
                              ELSE CreateExternalSessionIntent(t, name)
  /\ UNCHANGED <<fixed, disk, tmux, checkout, trouble>>
\* A command never joins a tmux session that exists.
OpenCommand(t, name, tm) ==
  /\ mode = "external" /\ "command" \in kinds /\ ~MutationPending /\ (tm => ~Exists(name))
  /\ Begin(t, "command", name, tm, "announced") /\ CreateExternalSessionIntent(t, name)
  /\ UNCHANGED <<fixed, disk, tmux, checkout, trouble>>

\* The final guard, after the session has announced itself.
FinalGuard(t) ==
  /\ mode = "external" /\ At(t, "announced")
  /\ IF MutationPending
     THEN To(t, "leave") /\ RemoveOwnedDirectSession(t)
     ELSE /\ To(t, IF RecordedToo(job[t]) THEN "record" ELSE "launch")
          /\ UNCHANGED records
  /\ UNCHANGED <<fixed, disk, intents, tmux, checkout, bounds>>

RecordCommand(t) ==
  /\ At(t, "record") /\ To(t, "recorded") /\ CreateDirectSession(t)
  /\ UNCHANGED <<fixed, disk, intents, tmux, checkout, bounds>>
LaunchGuard(t) ==
  /\ At(t, "recorded")
  /\ IF MutationPending
     THEN To(t, "leave") /\ RemoveOwnedDirectSession(t)
     ELSE To(t, "launch") /\ UNCHANGED records
  /\ UNCHANGED <<fixed, disk, intents, tmux, checkout, bounds>>

\* An agent attaches to a tmux session that exists, a command refuses it.
NewSession(t) == tmux' = tmux \cup {<<job[t].name, job[t].token>>}
Start(t) ==
  /\ At(t, "launch") /\ ~job[t].tmux /\ To(t, "running")
  /\ UNCHANGED <<fixed, disk, external, tmux, checkout, bounds>>
openWithTmux(t) ==
  /\ At(t, "launch") /\ job[t].tmux /\ job[t].what = "agent" /\ To(t, "running")
  /\ IF Exists(job[t].name) THEN UNCHANGED tmux ELSE NewSession(t)
  /\ UNCHANGED <<fixed, disk, external, checkout, bounds>>
RunExternalTmuxCommand(t) ==
  /\ At(t, "launch") /\ job[t].tmux /\ job[t].what = "command"
  /\ IF Exists(job[t].name) THEN To(t, "leave") /\ UNCHANGED tmux
                             ELSE To(t, "running") /\ NewSession(t)
  /\ UNCHANGED <<fixed, disk, external, checkout, bounds>>

\* The child ends, or the person detaches from tmux.
Leave(t) ==
  /\ mode = "external" /\ At(t, "running") /\ To(t, "leave") /\ RemoveOwnedDirectSession(t)
  /\ UNCHANGED <<fixed, disk, intents, tmux, checkout, bounds>>
RemoveOwnedExternalSessionIntent(t) ==
  /\ At(t, "leave") /\ intents' = {i \in intents : i[1] # job[t].token} /\ Quit(t)
  /\ UNCHANGED <<fixed, disk, records, tmux, checkout, bounds>>

\* tws close: refused by a live record, else the dead ones and tmux go.
runExternalClose(name) ==
  LET own == {r \in records : r[2] = name} IN
  /\ mode = "external" /\ \A r \in own : ~processAlive(r[1])
  /\ own # {} \/ Exists(name)
  /\ records' = records \ own /\ tmux' = {s \in tmux : s[1] # name}
  /\ UNCHANGED <<fixed, disk, intents, checkout, job, bounds>>

\* What runs in a tmux session ends, or somebody kills it.
TmuxEnds(s) ==
  /\ s \in tmux /\ tmux' = tmux \ {s}
  /\ UNCHANGED <<fixed, disk, external, checkout, job, bounds>>
-----------------------------------------------------------------------------
(* Checkout sessions: one launch intent, a directory and then its owner      *)
(* file, and one session record for the whole workspace.                     *)

\* Nobody opens beside a recorded session. A command looks at everything
\* before it announces itself, and again after; an agent only after.
recordedCheckoutSessionRefusal == active # NoSession
PlanCheckoutSessionLinks == link = "none"
OpenCheckout(t, what, name, tm) ==
  /\ mode = "checkout" /\ what \in kinds /\ ~recordedCheckoutSessionRefusal
  /\ Begin(t, what, name, tm, "enter")
  /\ UNCHANGED <<fixed, disk, external, tmux, checkout, trouble>>
OpenCheckoutAgent(t, name, tm) ==
  /\ name = Feature => ~tm /\ ~MutationPending
  /\ OpenCheckout(t, "agent", name, tm)
OpenCheckoutCommand(t, name, tm) ==
  /\ ~MutationPending
  /\ name = Feature => ~tm
  /\ name # Feature => ~dirty /\ (tm => ~Exists(name))
  /\ OpenCheckout(t, "command", name, tm)

\* A dead owner's intent is replaced; a directory without an owner file is
\* "initializing or invalid", for good if its creator was killed.
DeadIntent == intent.owned /\ ~processAlive(intent.token)
removeCheckoutSessionIntentSnapshot(k) ==
  intent' = IF intent = [token |-> k, owned |-> TRUE] THEN NoIntent ELSE intent
MakeIntent(t) ==
  /\ At(t, "enter")
  /\ IF intent = NoIntent \/ DeadIntent
     THEN intent' = [token |-> job[t].token, owned |-> FALSE] /\ To(t, "made")
     ELSE Quit(t) /\ UNCHANGED intent
  /\ UNCHANGED <<fixed, disk, external, tmux, active, head, link, dirty, bounds>>
OwnIntent(t) ==
  /\ At(t, "made") /\ intent' = [intent EXCEPT !.owned = TRUE] /\ To(t, "intended")
  /\ UNCHANGED <<fixed, disk, external, tmux, active, head, link, dirty, bounds>>

Session(j) == [token |-> j.token, what |-> j.what, name |-> j.name, tmux |-> j.tmux, orig |-> head]
\* A feature directory needs no branch, only that no session is recorded.
CheckoutSessionPreconditions == ~MutationPending /\ ~dirty /\ PlanCheckoutSessionLinks
CheckoutFeatureDirSessionPreconditions == ~MutationPending /\ ~recordedCheckoutSessionRefusal
WithCheckoutSessionLaunchIntent(t) ==
  /\ At(t, "intended") /\ job[t].name = Feature
  /\ job' = [job EXCEPT ![t].pc = IF CheckoutFeatureDirSessionPreconditions THEN "running" ELSE "release",
                        ![t].of = Session(job[t])]
  /\ UNCHANGED <<fixed, disk, external, tmux, checkout, bounds>>
CheckSession(t) ==
  LET j == job[t]
      refused == ~CheckoutSessionPreconditions \/ (j.what = "command" /\ j.tmux /\ Exists(j.name)) IN
  /\ At(t, "intended") /\ j.name # Feature
  /\ job' = [job EXCEPT ![t].pc = IF refused THEN "release" ELSE IF j.what = "agent" THEN "switch" ELSE "publish",
                        ![t].of = Session(j)]
  /\ UNCHANGED <<fixed, disk, external, tmux, checkout, bounds>>

\* A command records its session before it touches anything; if a record has
\* appeared meanwhile, the evidence stays as it is.
createCheckoutCommandState(t) ==
  /\ At(t, "publish")
  /\ IF active = NoSession THEN active' = job[t].of /\ To(t, "switch")
                           ELSE Quit(t) /\ UNCHANGED active
  /\ UNCHANGED <<fixed, disk, external, tmux, intent, head, link, dirty, bounds>>

\* failBeforeLaunch: a command undoes through its record, an agent directly.
Undo(t) == job' = [job EXCEPT ![t].pc = IF job[t].what = "command" THEN "unlink" ELSE "release",
                              ![t].unstarted = TRUE]
SwitchTo(t) ==
  /\ At(t, "switch")
  /\ \/ /\ job[t].what = "command" => ~MutationPending
        /\ head' = job[t].name /\ To(t, "link")
     \/ /\ (job[t].what = "command" /\ MutationPending) \/ dirty
        /\ Undo(t) /\ UNCHANGED head
  /\ UNCHANGED <<fixed, disk, external, tmux, intent, active, link, dirty, bounds>>

ApplyCheckoutSessionLinks(t) ==
  LET j == job[t] IN
  /\ At(t, "link")
  /\ IF link = "none" /\ ~(j.what = "command" /\ MutationPending)
     THEN /\ link' = "ours" /\ UNCHANGED head
          /\ To(t, IF j.tmux THEN "spawn" ELSE IF j.what = "agent" THEN "save" ELSE "running")
     ELSE /\ link' = IF link = "none" /\ j.what = "command" THEN "ours" ELSE link
          /\ head' = IF j.what = "agent" THEN j.of.orig ELSE head
          /\ Undo(t)
  /\ UNCHANGED <<fixed, disk, external, tmux, intent, active, dirty, bounds>>

CleanupCheckoutSessionLinks == link' = IF link = "ours" THEN "none" ELSE link
\* A name that is taken: an agent undoes what it did, a command that finds
\* it only now leaves everything, for that session may write here.
OpenCheckoutTmux(t) ==
  /\ At(t, "spawn") /\ job[t].what = "agent"
  /\ IF Exists(job[t].name)
     THEN To(t, "release") /\ head' = job[t].of.orig /\ CleanupCheckoutSessionLinks /\ UNCHANGED tmux
     ELSE To(t, "save") /\ NewSession(t) /\ UNCHANGED <<head, link>>
  /\ UNCHANGED <<fixed, disk, external, intent, active, dirty, bounds>>
runCheckoutTmuxCommand(t) ==
  /\ At(t, "spawn") /\ job[t].what = "command"
  /\ IF Exists(job[t].name) THEN Quit(t) /\ UNCHANGED tmux ELSE To(t, "running") /\ NewSession(t)
  /\ UNCHANGED <<fixed, disk, external, checkout, bounds>>

\* An agent's record replaces whatever is there.
SaveCheckoutAgentSession(t) ==
  /\ At(t, "save") /\ active' = job[t].of /\ To(t, "running")
  /\ UNCHANGED <<fixed, disk, external, tmux, intent, head, link, dirty, bounds>>

\* A tmux session outlives its launcher: then the record stays for tws close.
EndSession(t) ==
  LET j == job[t] IN
  /\ mode = "checkout" /\ At(t, "running")
  /\ \/ j.name = Feature /\ To(t, "release")
     \/ j.name # Feature /\ (j.tmux => <<j.name, j.token>> \notin tmux) /\ To(t, "unlink")
     \/ j.tmux /\ (j.what = "command" => <<j.name, j.token>> \in tmux) /\ Quit(t)
  /\ UNCHANGED <<fixed, disk, external, tmux, checkout, bounds>>

\* verify: the record and the intent are still those of this session.
verify(s) == active = s /\ intent = [token |-> s.token, owned |-> TRUE]

\* tws close of the recorded session, by any terminal, once it has started or
\* its launcher is gone.
Close(t, gone) ==
  /\ mode = "checkout" /\ At(t, "idle") /\ active # NoSession
  /\ \A u \in Terminals : job[u].token = active.token => active.tmux /\ At(u, "running")
  /\ tmux' = tmux \ gone
  /\ job' = [job EXCEPT ![t] = [Idle EXCEPT !.pc = "unlink", !.what = active.what,
                                            !.name = active.name, !.of = active]]
  /\ UNCHANGED <<fixed, disk, external, checkout, bounds>>
CloseCheckoutSession(t) ==
  active.what = "agent" /\ Close(t, IF active.tmux THEN {s \in tmux : s[1] = active.name} ELSE {})
closeCheckoutCommandSession(t) ==
  active.what = "command" /\ verify(active) /\ Close(t, {<<active.name, active.token>>})

restoreCheckoutSession(j) == ~dirty /\ head = j.of.name /\ link # "foreign"
finishCheckoutCommandSession(j) ==
  /\ verify(j.of) /\ ~MutationPending /\ ~dirty
  /\ head = j.of.name \/ (j.unstarted /\ head = j.of.orig)
  /\ link = "ours" \/ (j.unstarted /\ link = "none")
Unlink(t) ==
  /\ At(t, "unlink")
  /\ IF IF job[t].what = "agent" THEN restoreCheckoutSession(job[t]) ELSE finishCheckoutCommandSession(job[t])
     THEN link' = "none" /\ To(t, "back") ELSE Quit(t) /\ UNCHANGED link
  /\ UNCHANGED <<fixed, disk, external, tmux, intent, active, head, dirty, bounds>>

SwitchBack(t) ==
  /\ At(t, "back")
  /\ \/ head' = job[t].of.orig /\ To(t, "forget")
     \/ dirty /\ Quit(t) /\ UNCHANGED head
  /\ UNCHANGED <<fixed, disk, external, tmux, intent, active, link, dirty, bounds>>

\* Comparing and removing the record is one step here.
ForgetUnverified(t) ==
  /\ At(t, "forget") /\ active' = NoSession /\ To(t, "release")
  /\ UNCHANGED <<fixed, disk, external, tmux, intent, head, link, dirty, bounds>>
finishCheckoutSession(t) ==
  /\ At(t, "forget")
  /\ IF job[t].what = "agent" \/ verify(job[t].of)
     THEN active' = NoSession /\ To(t, "release") ELSE Quit(t) /\ UNCHANGED active
  /\ UNCHANGED <<fixed, disk, external, tmux, intent, head, link, dirty, bounds>>

releaseAgentSessionLock(t) ==
  /\ At(t, "release") /\ Quit(t) /\ removeCheckoutSessionIntentSnapshot(job[t].of.token)
  /\ UNCHANGED <<fixed, disk, external, tmux, active, head, link, dirty, bounds>>
-----------------------------------------------------------------------------
(* A mutation that must not run beside a session.                            *)

acquireReparentModeLock(t, what) ==
  /\ guard = 0 \/ ~processAlive(guard)
  /\ ~run /\ Begin(t, what, Feature, FALSE, "reserved") /\ guard' = tokens + 1
  /\ UNCHANGED <<fixed, run, external, tmux, checkout, trouble>>
\* --continue and --abort of a recorded reparent, once its owner is dead.
openReparentRecovery(t) ==
  /\ guard = 0 \/ ~processAlive(guard)
  /\ run /\ Begin(t, "reparent", Feature, FALSE, "reserved") /\ guard' = tokens + 1
  /\ UNCHANGED <<fixed, run, external, tmux, checkout, trouble>>

Stale(S) == {x \in S : ~processAlive(x[1]) /\ applies(x[2])}
\* Only a reparent clears what dead launchers left, and only then; a checkout
\* intent that cannot be read, or beside a recorded session, is not cleared.
SessionIntentCleanup(t) ==
  /\ mode = "external" /\ At(t, "reserved") /\ job[t].what = "reparent" /\ To(t, "probe")
  /\ records' = records \ Stale(records) /\ intents' = intents \ Stale(intents)
  /\ UNCHANGED <<fixed, disk, tmux, checkout, bounds>>
CleanupStaleCheckoutSessionIntent(t) ==
  /\ mode = "checkout" /\ At(t, "reserved") /\ job[t].what = "reparent"
  /\ To(t, IF intent # NoIntent /\ (~intent.owned \/ (DeadIntent /\ recordedCheckoutSessionRefusal))
           THEN "unlock" ELSE "probe")
  /\ IF DeadIntent /\ ~recordedCheckoutSessionRefusal
     THEN removeCheckoutSessionIntentSnapshot(intent.token) ELSE UNCHANGED intent
  /\ UNCHANGED <<fixed, disk, external, tmux, active, head, link, dirty, bounds>>
NoCleanup(t) ==
  /\ At(t, "reserved") /\ job[t].what = "template" /\ To(t, "probe")
  /\ UNCHANGED <<fixed, disk, external, tmux, checkout, bounds>>

\* Records, then intents, then tmux: whoever replaces its intent with a tmux
\* session meanwhile is seen as one or as the other.
Blocking(S) == \E x \in S : processAlive(x[1]) /\ applies(x[2])
SessionProbe(t, pc, next, live) ==
  At(t, pc) /\ To(t, IF live THEN "unlock" ELSE next)
    /\ UNCHANGED <<fixed, disk, external, tmux, checkout, bounds>>
\* A mutant's order: tmux, which a launcher has not reached yet, first.
ProbeTmuxFirst(t) ==
  /\ mode = "external"
  /\ \/ SessionProbe(t, "probe", "probe2", \E s \in tmux : applies(s[1]))
     \/ SessionProbe(t, "probe2", "probe3", Blocking(intents))
     \/ SessionProbe(t, "probe3", "admitted", Blocking(records))
ProbeExternal(t) ==
  /\ mode = "external"
  /\ \/ SessionProbe(t, "probe", "probe2", Blocking(records))
     \/ SessionProbe(t, "probe2", "probe3", Blocking(intents))
     \/ SessionProbe(t, "probe3", "admitted", \E s \in tmux : applies(s[1]))
CheckoutSessionIntent == intent # NoIntent /\ ~DeadIntent
ProbeCheckout(t) ==
  /\ mode = "checkout"
  /\ \/ SessionProbe(t, "probe", "probe2", CheckoutSessionIntent)
     \/ SessionProbe(t, "probe2", "admitted", recordedCheckoutSessionRefusal)

Mutate(t) ==
  /\ At(t, "admitted") /\ To(t, "working") /\ run' = (run \/ job[t].what = "reparent")
  /\ UNCHANGED <<fixed, guard, external, tmux, checkout, bounds>>
FinishMutation(t) ==
  /\ At(t, "working") /\ To(t, "unlock") /\ run' = FALSE
  /\ UNCHANGED <<fixed, guard, external, tmux, checkout, bounds>>
releaseReparentModeLock(t) ==
  /\ At(t, "unlock") /\ guard' = 0 /\ Quit(t)
  /\ UNCHANGED <<fixed, run, external, tmux, checkout, bounds>>
-----------------------------------------------------------------------------
Kill(t) ==
  /\ ~At(t, "idle") /\ trouble < MaxTrouble /\ trouble' = trouble + 1 /\ Quit(t)
  /\ UNCHANGED <<fixed, disk, external, tmux, checkout, tokens>>
\* A person edits, cleans up, or puts a file where the context link was.
Person ==
  /\ mode = "checkout" /\ trouble < MaxTrouble /\ trouble' = trouble + 1
  /\ \/ dirty' = ~dirty /\ UNCHANGED link
     \/ link # "foreign" /\ link' = "foreign" /\ UNCHANGED dirty
     \/ link # "none" /\ link' = "none" /\ UNCHANGED dirty
  /\ UNCHANGED <<fixed, disk, external, tmux, intent, active, head, job, tokens>>

Next ==
  \/ \E t \in Terminals :
       \/ \E name \in Names, tm \in BOOLEAN :
            \/ OpenAgent(t, name, tm) \/ OpenCommand(t, name, tm)
            \/ OpenCheckoutAgent(t, name, tm) \/ OpenCheckoutCommand(t, name, tm)
       \/ FinalGuard(t) \/ RecordCommand(t) \/ LaunchGuard(t)
       \/ Start(t) \/ openWithTmux(t) \/ RunExternalTmuxCommand(t) \/ Leave(t)
       \/ RemoveOwnedExternalSessionIntent(t)
       \/ MakeIntent(t) \/ OwnIntent(t) \/ WithCheckoutSessionLaunchIntent(t) \/ CheckSession(t)
       \/ createCheckoutCommandState(t) \/ SwitchTo(t) \/ ApplyCheckoutSessionLinks(t)
       \/ OpenCheckoutTmux(t) \/ runCheckoutTmuxCommand(t)
       \/ SaveCheckoutAgentSession(t) \/ EndSession(t)
       \/ CloseCheckoutSession(t) \/ closeCheckoutCommandSession(t)
       \/ Unlink(t) \/ SwitchBack(t) \/ finishCheckoutSession(t) \/ releaseAgentSessionLock(t)
       \/ \E what \in {"reparent", "template"} : acquireReparentModeLock(t, what)
       \/ openReparentRecovery(t)
       \/ SessionIntentCleanup(t) \/ CleanupStaleCheckoutSessionIntent(t) \/ NoCleanup(t)
       \/ ProbeExternal(t) \/ ProbeCheckout(t)
       \/ Mutate(t) \/ FinishMutation(t) \/ releaseReparentModeLock(t)
       \/ Kill(t)
  \/ \E name \in Branches : runExternalClose(name)
  \/ \E s \in tmux : TmuxEnds(s)
  \/ Person
Spec == Init /\ [][Next]_vars
-----------------------------------------------------------------------------
\* Sessions that have passed their last look for a mutation; what a launcher
\* attached to is over when its tmux session is.
Tenants == {t \in Terminals :
  \/ job[t].pc \in {"launch", "publish", "switch", "link", "spawn", "save"}
  \/ At(t, "running") /\ (job[t].tmux => <<job[t].name, job[t].token>> \in tmux)}

\* Nothing is rewritten beneath a session: while a reparent or a template
\* update works, no live launcher is inside a session it applies to, no tmux
\* session of an affected branch runs, and no checkout session is recorded,
\* whoever was killed and recovered before.
NoSessionUnderMutation ==
  \A t \in Terminals : job[t].pc = "working" =>
    IF mode = "external"
    THEN /\ \A u \in Tenants : ~applies(job[u].name)
         /\ \A s \in tmux : ~applies(s[1])
    ELSE Tenants = {} /\ active = NoSession

\* A command session can always be found again: where only commands are
\* opened, a working tree that was moved or linked by one has its record on
\* disk, with the branch to go back to, at every moment a kill can strike.
CommandRecorded ==
  mode = "checkout" /\ kinds = {"command"} /\ (head # Home \/ link = "ours") =>
    active # NoSession /\ active.orig = Home /\ head \in {active.name, Home}
=============================================================================
