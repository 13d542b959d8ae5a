---------------------------- MODULE Sessions_proofs ----------------------------
(* A session that announces itself and then looks for a mutation, and a     *)
(* mutation that reserves and then looks for sessions, never miss each      *)
(* other, for any number of terminals and of processes killed; and what a   *)
(* command session did to the working tree can always be undone.            *)
EXTENDS Sessions, TLAPS


ExternalLabels == {"announced", "record", "recorded", "launch", "running", "leave"}
CheckoutLabels == {"enter", "made", "intended", "publish", "switch", "link", "spawn",
  "save", "running", "unlink", "back", "forget", "release"}
MutationLabels == {"reserved", "probe", "probe2", "probe3", "admitted", "working", "unlock"}
Labels == {"idle"} \cup ExternalLabels \cup CheckoutLabels \cup MutationLabels
Kinds == {"none", "agent", "command", "reparent", "template"}
SessionType == [token : Nat, what : Kinds, name : Names, tmux : BOOLEAN, orig : Names]
JobType == [pc : Labels, token : Nat, what : Kinds, name : Names, tmux : BOOLEAN,
            of : SessionType, unstarted : BOOLEAN]

TypeOK ==
  /\ mode \in {"external", "checkout"} /\ kinds \subseteq {"agent", "command"}
  /\ guard \in Nat /\ run \in BOOLEAN /\ tokens \in Nat
  /\ records \in SUBSET (Nat \X Names) /\ intents \in SUBSET (Nat \X Names)
  /\ tmux \in SUBSET (Names \X Nat)
  /\ intent \in [token : Nat, owned : BOOLEAN] /\ active \in SessionType
  /\ head \in Names /\ link \in {"none", "ours", "foreign"} /\ dirty \in BOOLEAN
  /\ job \in [Terminals -> JobType]

\* A token is of one process, and was given out.
UniqueOK == \A t, u \in Terminals :
  job[t].token # 0 /\ job[t].token = job[u].token => t = u
GivenOK ==
  /\ \A t \in Terminals : job[t].token =< tokens /\ job[t].of.token =< tokens
  /\ active.token =< tokens /\ intent.token =< tokens /\ guard =< tokens
TokensOK == UniqueOK /\ GivenOK

\* Who has a token: a launcher or a mutation, which holds the guard; whoever
\* closes another's session has none.
LabelsOK == \A t \in Terminals :
  /\ job[t].pc = "idle" => job[t].token = 0
  /\ job[t].pc \in MutationLabels => job[t].token # 0 /\ guard = job[t].token
  /\ mode = "external" => job[t].pc \in {"idle"} \cup ExternalLabels \cup MutationLabels
  /\ mode = "checkout" => job[t].pc \in {"idle"} \cup CheckoutLabels \cup MutationLabels
  /\ job[t].pc \in ExternalLabels \cup {"enter", "made", "intended", "publish", "switch",
       "link", "spawn", "save"} => job[t].token # 0
  /\ job[t].pc = "publish" => job[t].what # "agent"
  /\ job[t].pc = "save" => job[t].what = "agent"

\* External: a session is announced from before its last look for a mutation
\* until it has left.
AnnouncedOK == \A t \in Terminals :
  mode = "external" /\ job[t].pc \in ExternalLabels \ {"leave"} =>
    IF OnlyRecorded(job[t]) THEN <<job[t].token, job[t].name>> \in records
                            ELSE <<job[t].token, job[t].name>> \in intents
Inside == {t \in Terminals : job[t].pc \in ExternalLabels \ {"announced", "leave"}}

\* A mutation that has looked at one kind of announcement has met none, and
\* nobody has come in since.
ProbedOK == \A t \in Terminals : mode = "external" =>
  /\ job[t].pc \in {"probe2", "probe3", "admitted", "working"} =>
       \A u \in Inside : OnlyRecorded(job[u]) => ~applies(job[u].name)
  /\ job[t].pc \in {"probe3", "admitted", "working"} =>
       \A u \in Inside : ~applies(job[u].name)
  /\ job[t].pc \in {"admitted", "working"} => \A s \in tmux : ~applies(s[1])

\* Checkout: who has made the launch intent keeps it while it needs it.
IntentOK == \A t \in Terminals : mode = "checkout" =>
  /\ job[t].pc = "made" => intent = [token |-> job[t].token, owned |-> FALSE]
  /\ job[t].pc = "intended" \/ t \in Tenants =>
       intent = [token |-> job[t].token, owned |-> TRUE]

\* The session a command knows as its own is; the recorded session is that of
\* the launcher with its token; who closes one has found its launcher past its
\* launch, and its tmux session is gone.
Closing == {"unlink", "back", "forget", "release"}
OwnOK == \A t \in Terminals :
  job[t].token # 0 /\ mode = "checkout"
    /\ job[t].pc \in {"publish", "switch", "link", "spawn", "save", "running"} \cup Closing
    => /\ job[t].of.token = job[t].token /\ job[t].of.what = job[t].what
       /\ job[t].of.name = job[t].name /\ job[t].of.tmux = job[t].tmux
Launched == {"running"} \cup Closing
ActiveOK ==
  /\ mode = "external" => active = NoSession
  /\ active # NoSession => active.token # 0
  /\ \A t \in Terminals : job[t].token # 0 /\ job[t].token = active.token =>
       /\ active = job[t].of
       /\ job[t].pc \in Launched \/ (job[t].what # "agent"
            /\ job[t].pc \in {"switch", "link", "spawn"})
Over(u) ==
  \/ job[u].pc \in Closing
  \/ job[u].pc = "running" /\ job[u].tmux /\ <<job[u].name, job[u].token>> \notin tmux
CloserOK == \A t, u \in Terminals :
  job[t].pc \in Closing /\ t # u /\ job[u].token # 0
    /\ job[u].token = job[t].of.token => Over(u)

\* A mutation that has met no intent meets no session, and then no record.
AloneOK == \A t \in Terminals : mode = "checkout" =>
  /\ job[t].pc # "probe3"
  /\ job[t].pc \in {"probe2", "admitted", "working"} => Tenants = {}
  /\ job[t].pc \in {"admitted", "working"} => active = NoSession

\* Where only commands are opened: whose record it is, where it goes back to.
CommandsOnly == mode = "checkout" /\ kinds = {"command"}
CommandsOK ==
  /\ active # NoSession => active.what = "command"
  /\ \A t \in Terminals : job[t].pc \in CheckoutLabels => job[t].what = "command"
OrigOK ==
  /\ active # NoSession => active.orig = Home
  /\ \A t \in Terminals :
       /\ job[t].pc = "publish" /\ active = NoSession => job[t].of.orig = Home
       /\ job[t].pc \in {"switch", "link", "spawn"} => active = job[t].of
       /\ job[t].pc = "running" /\ job[t].name # Feature => job[t].of.orig = Home
       /\ job[t].pc \in {"unlink", "back", "forget"} => job[t].of.orig = Home
       /\ job[t].pc \in {"back", "forget"} /\ active = job[t].of => link # "ours"
       /\ job[t].pc = "forget" /\ active = job[t].of => head = Home

SessionsInv ==
  /\ TypeOK /\ TokensOK /\ LabelsOK /\ AnnouncedOK /\ ProbedOK
  /\ IntentOK /\ OwnOK /\ ActiveOK /\ CloserOK /\ AloneOK
  /\ CommandsOnly => CommandsOK /\ OrigOK /\ CommandRecorded
-----------------------------------------------------------------------------
(* What a step does to the jobs.                                            *)

Others(t) == \A u \in Terminals : u # t => job'[u] = job[u]
Same(t) ==
  /\ job'[t].token = job[t].token /\ job'[t].what = job[t].what
  /\ job'[t].name = job[t].name /\ job'[t].tmux = job[t].tmux
Moved(t, p) == /\ job'[t].pc = p /\ Same(t) /\ job'[t].of = job[t].of
               /\ job'[t].unstarted = job[t].unstarted
Gone(t) == job'[t] = Idle
Begun(t, what, name, tm, p) ==
  /\ job[t].pc = "idle" /\ tokens' = tokens + 1
  /\ job'[t].pc = p /\ job'[t].token = tokens' /\ job'[t].what = what
  /\ job'[t].name = name /\ job'[t].tmux = tm /\ job'[t].of = NoSession
\* A launcher takes note of the session it is about to record.
Noted(t, p) ==
  /\ job'[t].pc = p /\ Same(t) /\ job'[t].unstarted = job[t].unstarted
  /\ job'[t].of.token = job[t].token /\ job'[t].of.what = job[t].what
  /\ job'[t].of.name = job[t].name /\ job'[t].of.tmux = job[t].tmux
  /\ job'[t].of.orig = head

\* What the empty job, session and intent are.
LEMMA IdleIs ==
  /\ Idle \in JobType /\ NoSession \in SessionType
  /\ Idle.pc = "idle" /\ Idle.token = 0 /\ Idle.of = NoSession /\ NoSession.token = 0
  /\ NoIntent.token = 0 /\ NoIntent.owned = FALSE /\ NoSession.orig = Home
  BY SessionsAssumption DEF Idle, NoIntent, NoSession, JobType, SessionType, Labels,
    Kinds, Names

\* What a job is made of.
LEMMA JobHas ==
  ASSUME TypeOK, NEW t \in Terminals
  PROVE  /\ job[t] \in JobType /\ job[t].pc \in Labels /\ job[t].token \in Nat
         /\ job[t].what \in Kinds /\ job[t].name \in Names /\ job[t].tmux \in BOOLEAN
         /\ job[t].of \in SessionType /\ job[t].of.token \in Nat
         /\ job[t].of.name \in Names /\ job[t].of.orig \in Names
  BY DEF TypeOK, JobType, SessionType

\* Only the label of one job changes.
LEMMA Moves ==
  ASSUME TypeOK, NEW t \in Terminals, NEW p \in Labels, To(t, p)
  PROVE  job' \in [Terminals -> JobType] /\ Moved(t, p) /\ Others(t)
<1>1. [job[t] EXCEPT !.pc = p] \in JobType
  BY DEF TypeOK, JobType
<1>2. job' = [job EXCEPT ![t] = [job[t] EXCEPT !.pc = p]]
  BY DEF To
<1>3. job'[t] = [job[t] EXCEPT !.pc = p] /\ job[t] \in JobType
  BY <1>2 DEF TypeOK
<1>4. job' \in [Terminals -> JobType] /\ Others(t)
  BY <1>1, <1>2 DEF TypeOK, Others
<1> QED
  BY <1>3, <1>4 DEF Moved, Same, JobType

\* A job ends.
LEMMA Quits ==
  ASSUME TypeOK, NEW t \in Terminals, Quit(t)
  PROVE  job' \in [Terminals -> JobType] /\ Gone(t) /\ Others(t)
  BY IdleIs DEF TypeOK, Quit, Gone, Others

\* A job begins, with a token of its own.
LEMMA Begins ==
  ASSUME TypeOK, NEW t \in Terminals, NEW what \in Kinds, NEW name \in Names,
         NEW tm \in BOOLEAN, NEW p \in Labels, Begin(t, what, name, tm, p)
  PROVE  /\ job' \in [Terminals -> JobType] /\ Begun(t, what, name, tm, p) /\ Others(t)
         /\ tokens' \in Nat
<1> DEFINE new == [Idle EXCEPT !.pc = p, !.token = tokens + 1, !.what = what,
                               !.name = name, !.tmux = tm]
<1>0. tokens + 1 \in Nat
  BY DEF TypeOK
<1>1. /\ new \in JobType /\ new.pc = p /\ new.token = tokens + 1 /\ new.what = what
      /\ new.name = name /\ new.tmux = tm /\ new.of = NoSession
  BY <1>0, IdleIs DEF JobType
<1>2. job' = [job EXCEPT ![t] = new] /\ tokens' = tokens + 1 /\ job[t].pc = "idle"
  BY DEF Begin, At
<1> HIDE DEF new
<1>3. job'[t] = new /\ job' \in [Terminals -> JobType] /\ Others(t)
  BY <1>1, <1>2 DEF TypeOK, Others
<1>4. tokens' \in Nat
  BY <1>2 DEF TypeOK
<1> QED
  BY <1>1, <1>2, <1>3, <1>4 DEF Begun

\* A launcher notes its session.
LEMMA Notes ==
  ASSUME TypeOK, NEW t \in Terminals, NEW p \in Labels,
         job' = [job EXCEPT ![t].pc = p, ![t].of = Session(job[t])]
  PROVE  job' \in [Terminals -> JobType] /\ Noted(t, p) /\ Others(t)
<1>1. /\ Session(job[t]) \in SessionType
      /\ Session(job[t]).token = job[t].token /\ Session(job[t]).what = job[t].what
      /\ Session(job[t]).name = job[t].name /\ Session(job[t]).tmux = job[t].tmux
      /\ Session(job[t]).orig = head
  BY JobHas DEF TypeOK, Session, SessionType
<1> DEFINE s == Session(job[t])
           new == [job[t] EXCEPT !.pc = p, !.of = s]
<1> HIDE DEF s
<1>2. /\ new \in JobType /\ new.pc = p /\ new.of = s /\ new.token = job[t].token
      /\ new.what = job[t].what /\ new.name = job[t].name /\ new.tmux = job[t].tmux
      /\ new.unstarted = job[t].unstarted
  BY <1>1, JobHas DEF JobType, s
<1>3. job' = [job EXCEPT ![t] = new]
  BY DEF s, TypeOK
<1> HIDE DEF new
<1>4. job'[t] = new /\ job' \in [Terminals -> JobType] /\ Others(t)
  BY <1>2, <1>3, ZenonT(60) DEF TypeOK, Others
<1> QED
  BY <1>1, <1>2, <1>4 DEF Noted, Same, s

\* A launch is undone.
Undone(t) ==
  /\ job'[t].pc = (IF job[t].what = "command" THEN "unlink" ELSE "release")
  /\ Same(t) /\ job'[t].of = job[t].of

\* A launch is undone through its record or directly.
LEMMA Undoes ==
  ASSUME TypeOK, NEW t \in Terminals, Undo(t)
  PROVE  job' \in [Terminals -> JobType] /\ Undone(t) /\ Others(t)
<1> DEFINE p == IF job[t].what = "command" THEN "unlink" ELSE "release"
           new == [job[t] EXCEPT !.pc = p, !.unstarted = TRUE]
<1>1. p \in Labels
  BY DEF Labels, CheckoutLabels
<1>2. p = IF job[t].what = "command" THEN "unlink" ELSE "release"
  OBVIOUS
<1>3. job' = [job EXCEPT ![t] = new]
  BY DEF Undo
<1> HIDE DEF p
<1>4. /\ new \in JobType /\ new.pc = p /\ new.of = job[t].of /\ new.token = job[t].token
      /\ new.what = job[t].what /\ new.name = job[t].name /\ new.tmux = job[t].tmux
  BY <1>1, JobHas DEF JobType
<1> HIDE DEF new
<1>5. job'[t] = new /\ job' \in [Terminals -> JobType] /\ Others(t)
  BY <1>3, <1>4 DEF TypeOK, Others
<1> QED
  BY <1>2, <1>4, <1>5 DEF Undone, Same

\* A job that closes the recorded session of another terminal.
Closes(t) == /\ job[t].pc = "idle" /\ job'[t].pc = "unlink" /\ job'[t].token = 0
             /\ job'[t].what = active.what /\ job'[t].of = active

\* Another terminal closes the recorded session.
LEMMA Closed ==
  ASSUME TypeOK, NEW t \in Terminals, NEW gone, Close(t, gone)
  PROVE  /\ job' \in [Terminals -> JobType] /\ Closes(t) /\ Others(t)
         /\ UNCHANGED <<fixed, disk, external, checkout, bounds>> /\ tmux' = tmux \ gone
         /\ mode = "checkout" /\ active # NoSession
         /\ \A u \in Terminals : job[u].token = active.token =>
              active.tmux /\ job[u].pc = "running"
<1> DEFINE new == [Idle EXCEPT !.pc = "unlink", !.what = active.what, !.name = active.name,
                               !.of = active]
<1>1. active \in SessionType /\ active.what \in Kinds /\ active.name \in Names
  BY DEF TypeOK, SessionType
<1>2. new \in JobType /\ new.pc = "unlink" /\ new.token = 0
      /\ new.what = active.what /\ new.of = active
  BY <1>1, IdleIs DEF JobType, Labels, CheckoutLabels
<1>3. job' = [job EXCEPT ![t] = new] /\ job[t].pc = "idle"
  BY DEF Close, At
<1> HIDE DEF new
<1>4. job'[t] = new /\ job' \in [Terminals -> JobType] /\ Others(t)
  BY <1>2, <1>3 DEF TypeOK, Others
<1>5. /\ UNCHANGED <<fixed, disk, external, checkout, bounds>> /\ tmux' = tmux \ gone
      /\ mode = "checkout" /\ active # NoSession
      /\ \A u \in Terminals : job[u].token = active.token =>
           active.tmux /\ job[u].pc = "running"
  BY DEF Close, At
<1> QED
  BY <1>2, <1>3, <1>4, <1>5 DEF Closes

\* What the files are made of.
LEMMA DiskHas ==
  ASSUME TypeOK
  PROVE  /\ mode \in {"external", "checkout"} /\ head \in Names
         /\ guard \in Nat /\ tokens \in Nat /\ active \in SessionType /\ active.token \in Nat
         /\ active.name \in Names /\ active.orig \in Names /\ active.what \in Kinds
         /\ intent.token \in Nat /\ intent.owned \in BOOLEAN
         /\ intent \in [token : Nat, owned : BOOLEAN]
  BY DEF TypeOK, SessionType

\* The next token is nobody's.
LEMMA NextIsNew ==
  ASSUME TypeOK, TokensOK, tokens' = tokens + 1
  PROVE  /\ tokens' \in Nat /\ tokens' # 0 /\ tokens' # guard
         /\ tokens' # active.token /\ tokens' # intent.token
         /\ \A t \in Terminals : job[t].token # tokens' /\ job[t].of.token # tokens'
  BY JobHas, DiskHas DEF TokensOK, GivenOK

\* An agent session announces itself, by a record or by an intent, when it has seen
\* no mutation.
LEMMA OpenAgentIs ==
  ASSUME TypeOK, NEW t \in Terminals, NEW name \in Names, NEW tm \in BOOLEAN,
         OpenAgent(t, name, tm)
  PROVE  /\ UNCHANGED <<mode, kinds, guard, run, tmux, intent, active, head, link, dirty>>
         /\ job' \in [Terminals -> JobType] /\ Others(t)
         /\ tokens' \in Nat
         /\ mode = "external" /\ guard = 0 /\ Begun(t, "agent", name, tm, "announced")
         /\ IF OnlyRecorded(job'[t])
              THEN records' = records \cup {<<tokens', name>>} /\ UNCHANGED intents
            ELSE intents' = intents \cup {<<tokens', name>>} /\ UNCHANGED records
<1>1. Begin(t, "agent", name, tm, "announced") /\ mode = "external"
      /\ ~MutationPending
  BY DEF OpenAgent
<1>2. /\ tokens' \in Nat /\ job' \in [Terminals -> JobType] /\ Others(t)
      /\ Begun(t, "agent", name, tm, "announced")
  BY <1>1, Begins DEF Labels, ExternalLabels, Kinds, Names
<1>3. job'[t].token = tokens' /\ job'[t].name = name
  BY <1>2 DEF Begun
<1>4. guard = 0
  BY <1>1 DEF MutationPending
<1> QED
  BY <1>1, <1>2, <1>3, <1>4 DEF OpenAgent, CreateDirectSession, CreateExternalSessionIntent,
    fixed, disk, checkout

\* A command session announces itself by an intent.
LEMMA OpenCommandIs ==
  ASSUME TypeOK, NEW t \in Terminals, NEW name \in Names, NEW tm \in BOOLEAN,
         OpenCommand(t, name, tm)
  PROVE  /\ UNCHANGED <<mode, kinds, guard, run, records, tmux, intent, active, head,
                        link, dirty>>
         /\ job' \in [Terminals -> JobType] /\ Others(t)
         /\ tokens' \in Nat
         /\ mode = "external" /\ guard = 0 /\ Begun(t, "command", name, tm, "announced")
         /\ intents' = intents \cup {<<tokens', name>>}
<1>1. Begin(t, "command", name, tm, "announced") /\ mode = "external"
      /\ ~MutationPending
  BY DEF OpenCommand
<1>2. /\ tokens' \in Nat /\ job' \in [Terminals -> JobType] /\ Others(t)
      /\ Begun(t, "command", name, tm, "announced")
  BY <1>1, Begins DEF Labels, ExternalLabels, Kinds, Names
<1>3. job'[t].token = tokens' /\ job'[t].name = name
  BY <1>2 DEF Begun
<1>4. guard = 0
  BY <1>1 DEF MutationPending
<1> QED
  BY <1>1, <1>2, <1>3, <1>4 DEF OpenCommand, CreateExternalSessionIntent, fixed, disk, checkout

\* The last look for a mutation comes after the announcement.
LEMMA FinalGuardIs ==
  ASSUME TypeOK, NEW t \in Terminals, FinalGuard(t)
  PROVE  /\ UNCHANGED <<mode, kinds, guard, run, intents, tmux, intent, active, head,
                        link, dirty, tokens>>
         /\ job' \in [Terminals -> JobType] /\ Others(t)
         /\ mode = "external" /\ job[t].pc = "announced"
         /\ \/ Moved(t, "leave") /\ records' = {r \in records : r[1] # job[t].token}
            \/ guard = 0 /\ UNCHANGED records /\ Moved(t, IF RecordedToo(job[t])
                 THEN "record" ELSE "launch")
  BY Moves DEF FinalGuard, RemoveOwnedDirectSession, MutationPending, fixed, disk,
    external, checkout, bounds, At, Labels, ExternalLabels, CheckoutLabels,
    MutationLabels

\* A direct command is recorded beside its intent.
LEMMA RecordCommandIs ==
  ASSUME TypeOK, NEW t \in Terminals, RecordCommand(t)
  PROVE  /\ UNCHANGED <<mode, kinds, guard, run, intents, tmux, intent, active, head,
                        link, dirty, tokens>>
         /\ job' \in [Terminals -> JobType] /\ Others(t)
         /\ job[t].pc = "record" /\ Moved(t, "recorded")
         /\ records' = records \cup {<<job[t].token, job[t].name>>}
  BY Moves DEF RecordCommand, CreateDirectSession, Moved, Same, fixed, disk, checkout,
    bounds, At, Labels, ExternalLabels, CheckoutLabels, MutationLabels

\* A recorded command looks once more.
LEMMA LaunchGuardIs ==
  ASSUME TypeOK, NEW t \in Terminals, LaunchGuard(t)
  PROVE  /\ UNCHANGED <<mode, kinds, guard, run, intents, tmux, intent, active, head,
                        link, dirty, tokens>>
         /\ job' \in [Terminals -> JobType] /\ Others(t)
         /\ job[t].pc = "recorded"
         /\ \/ Moved(t, "leave") /\ records' = {r \in records : r[1] # job[t].token}
            \/ Moved(t, "launch") /\ UNCHANGED records
  BY Moves DEF LaunchGuard, RemoveOwnedDirectSession, fixed, disk, checkout, bounds,
    At, Labels, ExternalLabels, CheckoutLabels, MutationLabels

\* A direct session starts.
LEMMA StartIs ==
  ASSUME TypeOK, NEW t \in Terminals, Start(t)
  PROVE  /\ UNCHANGED <<mode, kinds, guard, run, records, intents, tmux, intent, active,
                        head, link, dirty, tokens>>
         /\ job' \in [Terminals -> JobType] /\ Others(t)
         /\ job[t].pc = "launch" /\ Moved(t, "running")
  BY Moves DEF Start, fixed, disk, external, checkout, bounds, At, Labels,
    ExternalLabels, CheckoutLabels, MutationLabels

\* An agent starts in a tmux session, or attaches to one.
LEMMA openWithTmuxIs ==
  ASSUME TypeOK, NEW t \in Terminals, openWithTmux(t)
  PROVE  /\ UNCHANGED <<mode, kinds, guard, run, records, intents, intent, active, head,
                        link, dirty, tokens>>
         /\ job' \in [Terminals -> JobType] /\ Others(t)
         /\ job[t].pc = "launch" /\ Moved(t, "running")
         /\ tmux' = tmux \/ tmux' = tmux \cup {<<job[t].name, job[t].token>>}
  BY Moves DEF openWithTmux, NewSession, fixed, disk, external, checkout, bounds, At,
    Labels, ExternalLabels, CheckoutLabels, MutationLabels

\* A command starts in a tmux session of its own.
LEMMA RunExternalTmuxCommandIs ==
  ASSUME TypeOK, NEW t \in Terminals, RunExternalTmuxCommand(t)
  PROVE  /\ UNCHANGED <<mode, kinds, guard, run, records, intents, intent, active, head,
                        link, dirty, tokens>>
         /\ job' \in [Terminals -> JobType] /\ Others(t)
         /\ job[t].pc = "launch"
         /\ \/ Moved(t, "leave") /\ UNCHANGED tmux
            \/ Moved(t, "running") /\ tmux' = tmux \cup {<<job[t].name, job[t].token>>}
  BY Moves DEF RunExternalTmuxCommand, NewSession, fixed, disk, external, checkout,
    bounds, At, Labels, ExternalLabels, CheckoutLabels, MutationLabels

\* A session that ended takes its own record away.
LEMMA LeaveIs ==
  ASSUME TypeOK, NEW t \in Terminals, Leave(t)
  PROVE  /\ UNCHANGED <<mode, kinds, guard, run, intents, tmux, intent, active, head,
                        link, dirty, tokens>>
         /\ job' \in [Terminals -> JobType] /\ Others(t)
         /\ mode = "external" /\ job[t].pc = "running" /\ Moved(t, "leave")
         /\ records' = {r \in records : r[1] # job[t].token}
  BY Moves DEF Leave, RemoveOwnedDirectSession, fixed, disk, external, checkout,
    bounds, At, Labels, ExternalLabels, CheckoutLabels, MutationLabels

\* And its own intent.
LEMMA RemoveOwnedExternalSessionIntentIs ==
  ASSUME TypeOK, NEW t \in Terminals, RemoveOwnedExternalSessionIntent(t)
  PROVE  /\ UNCHANGED <<mode, kinds, guard, run, records, tmux, intent, active, head,
                        link, dirty, tokens>>
         /\ job' \in [Terminals -> JobType] /\ Others(t)
         /\ job[t].pc = "leave" /\ Gone(t)
         /\ intents' = {i \in intents : i[1] # job[t].token}
  BY Quits DEF RemoveOwnedExternalSessionIntent, fixed, disk, checkout, bounds, At

\* The one launch intent is made where there is none, or a dead one.
LEMMA MakeIntentIs ==
  ASSUME TypeOK, NEW t \in Terminals, MakeIntent(t)
  PROVE  /\ UNCHANGED <<mode, kinds, guard, run, records, intents, tmux, active, head,
                        link, dirty, tokens>>
         /\ job' \in [Terminals -> JobType] /\ Others(t)
         /\ job[t].pc = "enter"
         /\ \/ Gone(t) /\ UNCHANGED intent
            \/ /\ intent = NoIntent \/ DeadIntent
               /\ intent' = [token |-> job[t].token, owned |-> FALSE] /\ Moved(t, "made")
  BY Moves, Quits DEF MakeIntent, fixed, disk, external, bounds, At, Labels,
    ExternalLabels, CheckoutLabels, MutationLabels

\* The intent gets its owner file.
LEMMA OwnIntentIs ==
  ASSUME TypeOK, NEW t \in Terminals, OwnIntent(t)
  PROVE  /\ UNCHANGED <<mode, kinds, guard, run, records, intents, tmux, active, head,
                        link, dirty, tokens>>
         /\ job' \in [Terminals -> JobType] /\ Others(t)
         /\ job[t].pc = "made" /\ Moved(t, "intended")
         /\ intent' = [intent EXCEPT !.owned = TRUE]
  BY Moves DEF OwnIntent, fixed, disk, external, bounds, At, Labels, ExternalLabels,
    CheckoutLabels, MutationLabels

\* A session of the feature directory starts unless a mutation is seen.
LEMMA WithCheckoutSessionLaunchIntentIs ==
  ASSUME TypeOK, NEW t \in Terminals, WithCheckoutSessionLaunchIntent(t)
  PROVE  /\ UNCHANGED <<mode, kinds, guard, run, records, intents, tmux, intent, active,
                        head, link, dirty, tokens>>
         /\ job' \in [Terminals -> JobType] /\ Others(t)
         /\ job[t].pc = "intended" /\ job[t].name = Feature
         /\ \/ Noted(t, "running") /\ guard = 0
            \/ Noted(t, "release")
  BY Notes DEF WithCheckoutSessionLaunchIntent,
    CheckoutFeatureDirSessionPreconditions, MutationPending, fixed, disk, external,
    checkout, bounds, At, Labels, ExternalLabels, CheckoutLabels, MutationLabels

\* A session of a branch looks for a mutation after its intent is made.
LEMMA CheckSessionIs ==
  ASSUME TypeOK, NEW t \in Terminals, CheckSession(t)
  PROVE  /\ UNCHANGED <<mode, kinds, guard, run, records, intents, tmux, intent, active,
                        head, link, dirty, tokens>>
         /\ job' \in [Terminals -> JobType] /\ Others(t)
         /\ job[t].pc = "intended"
         /\ \/ Noted(t, "switch") /\ guard = 0 /\ job[t].what = "agent"
            \/ Noted(t, "publish") /\ guard = 0 /\ link = "none" /\ job[t].what # "agent"
            \/ Noted(t, "release")
  BY Notes DEF CheckSession, CheckoutSessionPreconditions, PlanCheckoutSessionLinks,
    MutationPending, fixed, disk, external, checkout, bounds, At, Labels,
    ExternalLabels, CheckoutLabels, MutationLabels

\* A command is recorded before it touches anything.
LEMMA createCheckoutCommandStateIs ==
  ASSUME TypeOK, NEW t \in Terminals, createCheckoutCommandState(t)
  PROVE  /\ UNCHANGED <<mode, kinds, guard, run, records, intents, tmux, intent, head,
                        link, dirty, tokens>>
         /\ job' \in [Terminals -> JobType] /\ Others(t)
         /\ job[t].pc = "publish"
         /\ \/ active = NoSession /\ active' = job[t].of /\ Moved(t, "switch")
            \/ Gone(t) /\ UNCHANGED active
  BY Moves, Quits DEF createCheckoutCommandState, fixed, disk, external, bounds, At,
    Labels, ExternalLabels, CheckoutLabels, MutationLabels

\* The working tree is switched, or the launch undone.
LEMMA SwitchToIs ==
  ASSUME TypeOK, NEW t \in Terminals, SwitchTo(t)
  PROVE  /\ UNCHANGED <<mode, kinds, guard, run, records, intents, tmux, intent, active,
                        link, dirty, tokens>>
         /\ job' \in [Terminals -> JobType] /\ Others(t)
         /\ job[t].pc = "switch"
         /\ \/ head' = job[t].name /\ Moved(t, "link")
            \/ UNCHANGED head /\ Undone(t)
  BY Moves, Undoes DEF SwitchTo, fixed, disk, external, bounds, At, Labels,
    ExternalLabels, CheckoutLabels, MutationLabels

\* The context link is made, or the launch undone.
LEMMA ApplyCheckoutSessionLinksIs ==
  ASSUME TypeOK, NEW t \in Terminals, ApplyCheckoutSessionLinks(t)
  PROVE  /\ UNCHANGED <<mode, kinds, guard, run, records, intents, tmux, intent, active,
                        dirty, tokens>>
         /\ job' \in [Terminals -> JobType] /\ Others(t)
         /\ job[t].pc = "link" /\ link' \in {link, "ours"}
         /\ \/ /\ UNCHANGED head
               /\ Moved(t, IF job[t].tmux THEN "spawn"
                    ELSE IF job[t].what = "agent" THEN "save" ELSE "running")
            \/ head' = (IF job[t].what = "agent" THEN job[t].of.orig ELSE head) /\ Undone(t)
  BY Moves, Undoes DEF ApplyCheckoutSessionLinks, fixed, disk, external, bounds, At,
    Labels, ExternalLabels, CheckoutLabels, MutationLabels

\* An agent starts in a tmux session of its own, or undoes its launch.
LEMMA OpenCheckoutTmuxIs ==
  ASSUME TypeOK, NEW t \in Terminals, OpenCheckoutTmux(t)
  PROVE  /\ UNCHANGED <<mode, kinds, guard, run, records, intents, intent, active,
                        dirty, tokens>>
         /\ job' \in [Terminals -> JobType] /\ Others(t)
         /\ job[t].pc = "spawn" /\ job[t].what = "agent" /\ link' \in {link, "none"}
         /\ \/ Moved(t, "release") /\ head' = job[t].of.orig /\ UNCHANGED tmux
            \/ Moved(t, "save") /\ UNCHANGED head
                 /\ tmux' = tmux \cup {<<job[t].name, job[t].token>>}
  BY Moves DEF OpenCheckoutTmux, NewSession, CleanupCheckoutSessionLinks, fixed, disk,
    external, bounds, At, Labels, ExternalLabels, CheckoutLabels, MutationLabels

\* A command starts in a tmux session of its own, or leaves everything.
LEMMA runCheckoutTmuxCommandIs ==
  ASSUME TypeOK, NEW t \in Terminals, runCheckoutTmuxCommand(t)
  PROVE  /\ UNCHANGED <<mode, kinds, guard, run, records, intents, intent, active, head,
                        link, dirty, tokens>>
         /\ job' \in [Terminals -> JobType] /\ Others(t)
         /\ job[t].pc = "spawn"
         /\ \/ Gone(t) /\ UNCHANGED tmux
            \/ Moved(t, "running") /\ tmux' = tmux \cup {<<job[t].name, job[t].token>>}
  BY Moves, Quits DEF runCheckoutTmuxCommand, NewSession, fixed, disk, external,
    checkout, bounds, At, Labels, ExternalLabels, CheckoutLabels, MutationLabels

\* An agent is recorded once it runs.
LEMMA SaveCheckoutAgentSessionIs ==
  ASSUME TypeOK, NEW t \in Terminals, SaveCheckoutAgentSession(t)
  PROVE  /\ UNCHANGED <<mode, kinds, guard, run, records, intents, tmux, intent, head,
                        link, dirty, tokens>>
         /\ job' \in [Terminals -> JobType] /\ Others(t)
         /\ job[t].pc = "save" /\ Moved(t, "running") /\ active' = job[t].of
  BY Moves DEF SaveCheckoutAgentSession, fixed, disk, external, bounds, At, Labels,
    ExternalLabels, CheckoutLabels, MutationLabels

\* A session ends, or its launcher leaves the tmux session.
LEMMA EndSessionIs ==
  ASSUME TypeOK, NEW t \in Terminals, EndSession(t)
  PROVE  /\ UNCHANGED <<mode, kinds, guard, run, records, intents, tmux, intent, active,
                        head, link, dirty, tokens>>
         /\ job' \in [Terminals -> JobType] /\ Others(t)
         /\ mode = "checkout" /\ job[t].pc = "running"
         /\ \/ job[t].name = Feature /\ Moved(t, "release")
            \/ /\ job[t].name # Feature /\ Moved(t, "unlink")
            \/ Gone(t)
  BY Moves, Quits DEF EndSession, fixed, disk, external, checkout, bounds, At, Labels,
    ExternalLabels, CheckoutLabels, MutationLabels

\* Another terminal closes a recorded agent session.
LEMMA CloseCheckoutSessionIs ==
  ASSUME TypeOK, NEW t \in Terminals, CloseCheckoutSession(t)
  PROVE  /\ UNCHANGED <<mode, kinds, guard, run, records, intents, intent, active, head,
                        link, dirty, tokens>>
         /\ job' \in [Terminals -> JobType] /\ Others(t)
         /\ mode = "checkout" /\ active # NoSession
         /\ \A u \in Terminals : job[u].token = active.token => active.tmux
              /\ job[u].pc = "running"
         /\ Closes(t)
         /\ active.what = "agent"
         /\ tmux' = (IF active.tmux THEN {s \in tmux : s[1] # active.name} ELSE tmux)
  BY Closed DEF CloseCheckoutSession, fixed, disk, external, checkout, bounds

\* Another terminal closes a recorded command session.
LEMMA closeCheckoutCommandSessionIs ==
  ASSUME TypeOK, NEW t \in Terminals, closeCheckoutCommandSession(t)
  PROVE  /\ UNCHANGED <<mode, kinds, guard, run, records, intents, intent, active, head,
                        link, dirty, tokens>>
         /\ job' \in [Terminals -> JobType] /\ Others(t)
         /\ mode = "checkout" /\ active # NoSession
         /\ \A u \in Terminals : job[u].token = active.token => active.tmux
              /\ job[u].pc = "running"
         /\ Closes(t)
         /\ active.what = "command" /\ tmux' = tmux \ {<<active.name, active.token>>}
  BY Closed DEF closeCheckoutCommandSession, fixed, disk, external, checkout, bounds

\* The context link goes first.
LEMMA UnlinkIs ==
  ASSUME TypeOK, NEW t \in Terminals, Unlink(t)
  PROVE  /\ UNCHANGED <<mode, kinds, guard, run, records, intents, tmux, intent, active,
                        head, dirty, tokens>>
         /\ job' \in [Terminals -> JobType] /\ Others(t)
         /\ job[t].pc = "unlink"
         /\ \/ link' = "none" /\ Moved(t, "back")
            \/ Gone(t) /\ UNCHANGED link
  BY Moves, Quits DEF Unlink, fixed, disk, external, bounds, At, Labels,
    ExternalLabels, CheckoutLabels, MutationLabels

\* Then the working tree goes back.
LEMMA SwitchBackIs ==
  ASSUME TypeOK, NEW t \in Terminals, SwitchBack(t)
  PROVE  /\ UNCHANGED <<mode, kinds, guard, run, records, intents, tmux, intent, active,
                        link, dirty, tokens>>
         /\ job' \in [Terminals -> JobType] /\ Others(t)
         /\ job[t].pc = "back"
         /\ \/ head' = job[t].of.orig /\ Moved(t, "forget")
            \/ Gone(t) /\ UNCHANGED head
  BY Moves, Quits DEF SwitchBack, fixed, disk, external, bounds, At, Labels,
    ExternalLabels, CheckoutLabels, MutationLabels

\* Then the record, if it is still that session's.
LEMMA finishCheckoutSessionIs ==
  ASSUME TypeOK, NEW t \in Terminals, finishCheckoutSession(t)
  PROVE  /\ UNCHANGED <<mode, kinds, guard, run, records, intents, tmux, intent, head,
                        link, dirty, tokens>>
         /\ job' \in [Terminals -> JobType] /\ Others(t)
         /\ job[t].pc = "forget"
         /\ \/ /\ job[t].what = "agent" \/ verify(job[t].of)
               /\ active' = NoSession /\ Moved(t, "release")
            \/ Gone(t) /\ UNCHANGED active
  BY Moves, Quits DEF finishCheckoutSession, fixed, disk, external, bounds, At,
    Labels, ExternalLabels, CheckoutLabels, MutationLabels

\* And at last the intent, if it is.
LEMMA releaseAgentSessionLockIs ==
  ASSUME TypeOK, NEW t \in Terminals, releaseAgentSessionLock(t)
  PROVE  /\ UNCHANGED <<mode, kinds, guard, run, records, intents, tmux, active, head,
                        link, dirty, tokens>>
         /\ job' \in [Terminals -> JobType] /\ Others(t)
         /\ job[t].pc = "release" /\ Gone(t)
         /\ intent' = IF intent = [token |-> job[t].of.token, owned |-> TRUE]
                     THEN NoIntent ELSE intent
  BY Quits DEF releaseAgentSessionLock, removeCheckoutSessionIntentSnapshot, fixed,
    disk, external, bounds, At

\* A mutation takes the guard where nobody alive has it.
LEMMA acquireReparentModeLockIs ==
  ASSUME TypeOK, NEW t \in Terminals, NEW what \in {"reparent", "template"},
         acquireReparentModeLock(t, what)
  PROVE  /\ UNCHANGED <<mode, kinds, run, records, intents, tmux, intent, active, head,
                        link, dirty>>
         /\ job' \in [Terminals -> JobType] /\ Others(t)
         /\ tokens' \in Nat
         /\ guard # 0 => \A u \in Terminals : job[u].token # guard
         /\ guard' = tokens' /\ Begun(t, what, Feature, FALSE, "reserved")
<1>1. UNCHANGED <<mode, kinds, run, records, intents, tmux, intent, active, head, link,
                  dirty>>
  BY DEF acquireReparentModeLock, fixed, external, checkout
<1>2. guard # 0 => \A u \in Terminals : job[u].token # guard
  BY DEF acquireReparentModeLock, processAlive
<1>3. /\ job' \in [Terminals -> JobType] /\ Others(t) /\ tokens' \in Nat
      /\ Begun(t, what, Feature, FALSE, "reserved")
  BY Begins DEF acquireReparentModeLock, Labels, MutationLabels, Kinds, Names
<1>4. guard' = tokens + 1
  BY DEF acquireReparentModeLock
<1> QED
  BY <1>1, <1>2, <1>3, <1>4 DEF Begun

\* A recovery takes over the guard of a dead mutation.
LEMMA openReparentRecoveryIs ==
  ASSUME TypeOK, NEW t \in Terminals, openReparentRecovery(t)
  PROVE  /\ UNCHANGED <<mode, kinds, run, records, intents, tmux, intent, active, head,
                        link, dirty>>
         /\ job' \in [Terminals -> JobType] /\ Others(t)
         /\ tokens' \in Nat
         /\ guard # 0 => \A u \in Terminals : job[u].token # guard
         /\ guard' = tokens' /\ Begun(t, "reparent", Feature, FALSE, "reserved")
<1>1. UNCHANGED <<mode, kinds, run, records, intents, tmux, intent, active, head, link,
                  dirty>>
  BY DEF openReparentRecovery, fixed, external, checkout
<1>2. guard # 0 => \A u \in Terminals : job[u].token # guard
  BY DEF openReparentRecovery, processAlive
<1>3. /\ job' \in [Terminals -> JobType] /\ Others(t) /\ tokens' \in Nat
      /\ Begun(t, "reparent", Feature, FALSE, "reserved")
  BY Begins DEF openReparentRecovery, Labels, MutationLabels, Kinds, Names
<1>4. guard' = tokens + 1
  BY DEF openReparentRecovery
<1> QED
  BY <1>1, <1>2, <1>3, <1>4 DEF Begun

\* What dead launchers left is cleared.
LEMMA SessionIntentCleanupIs ==
  ASSUME TypeOK, NEW t \in Terminals, SessionIntentCleanup(t)
  PROVE  /\ UNCHANGED <<mode, kinds, guard, run, tmux, intent, active, head, link,
                        dirty, tokens>>
         /\ job' \in [Terminals -> JobType] /\ Others(t)
         /\ mode = "external" /\ job[t].pc = "reserved" /\ Moved(t, "probe")
         /\ records' = records \ Stale(records) /\ intents' = intents \ Stale(intents)
  BY Moves DEF SessionIntentCleanup, fixed, disk, external, checkout, bounds, At,
    Labels, ExternalLabels, CheckoutLabels, MutationLabels

\* A dead intent is cleared.
LEMMA CleanupStaleCheckoutSessionIntentIs ==
  ASSUME TypeOK, NEW t \in Terminals, CleanupStaleCheckoutSessionIntent(t)
  PROVE  /\ UNCHANGED <<mode, kinds, guard, run, records, intents, tmux, active, head,
                        link, dirty, tokens>>
         /\ job' \in [Terminals -> JobType] /\ Others(t)
         /\ mode = "checkout" /\ job[t].pc = "reserved"
         /\ Moved(t, "unlock") \/ Moved(t, "probe")
         /\ intent' = intent \/ (DeadIntent /\ intent' = NoIntent)
  BY Moves DEF CleanupStaleCheckoutSessionIntent, removeCheckoutSessionIntentSnapshot,
    fixed, disk, external, checkout, bounds, At, Labels, ExternalLabels,
    CheckoutLabels, MutationLabels

\* A template update clears nothing.
LEMMA NoCleanupIs ==
  ASSUME TypeOK, NEW t \in Terminals, NoCleanup(t)
  PROVE  /\ UNCHANGED <<mode, kinds, guard, run, records, intents, tmux, intent, active,
                        head, link, dirty, tokens>>
         /\ job' \in [Terminals -> JobType] /\ Others(t)
         /\ job[t].pc = "reserved" /\ Moved(t, "probe")
  BY Moves DEF NoCleanup, fixed, disk, external, checkout, bounds, At, Labels,
    ExternalLabels, CheckoutLabels, MutationLabels

\* Records, then intents, then tmux sessions are looked for.
LEMMA ProbeExternalIs ==
  ASSUME TypeOK, NEW t \in Terminals, ProbeExternal(t)
  PROVE  /\ UNCHANGED <<mode, kinds, guard, run, records, intents, tmux, intent, active,
                        head, link, dirty, tokens>>
         /\ job' \in [Terminals -> JobType] /\ Others(t)
         /\ mode = "external"
         /\ \/ job[t].pc = "probe" /\ (Moved(t, "unlock") \/ (~Blocking(records)
                 /\ Moved(t, "probe2")))
            \/ job[t].pc = "probe2" /\ (Moved(t, "unlock") \/ (~Blocking(intents)
                 /\ Moved(t, "probe3")))
            \/ /\ job[t].pc = "probe3"
               /\ Moved(t, "unlock") \/ ((\A s \in tmux : ~applies(s[1]))
                    /\ Moved(t, "admitted"))
  BY Moves DEF ProbeExternal, SessionProbe, fixed, disk, external, checkout, bounds,
    At, Labels, ExternalLabels, CheckoutLabels, MutationLabels

\* The intent and then the record are looked for.
LEMMA ProbeCheckoutIs ==
  ASSUME TypeOK, NEW t \in Terminals, ProbeCheckout(t)
  PROVE  /\ UNCHANGED <<mode, kinds, guard, run, records, intents, tmux, intent, active,
                        head, link, dirty, tokens>>
         /\ job' \in [Terminals -> JobType] /\ Others(t)
         /\ mode = "checkout"
         /\ \/ job[t].pc = "probe" /\ (Moved(t, "unlock")
                 \/ (~CheckoutSessionIntent /\ Moved(t, "probe2")))
            \/ job[t].pc = "probe2" /\ (Moved(t, "unlock") \/ (active = NoSession
                 /\ Moved(t, "admitted")))
  BY Moves DEF ProbeCheckout, SessionProbe, recordedCheckoutSessionRefusal, fixed,
    disk, external, checkout, bounds, At, Labels, ExternalLabels, CheckoutLabels,
    MutationLabels

\* The mutation works.
LEMMA MutateIs ==
  ASSUME TypeOK, NEW t \in Terminals, Mutate(t)
  PROVE  /\ UNCHANGED <<mode, kinds, guard, records, intents, tmux, intent, active,
                        head, link, dirty, tokens>>
         /\ job' \in [Terminals -> JobType] /\ Others(t)
         /\ job[t].pc = "admitted" /\ Moved(t, "working") /\ run' \in BOOLEAN
  BY Moves DEF Mutate, fixed, external, checkout, bounds, At, Labels, ExternalLabels,
    CheckoutLabels, MutationLabels, TypeOK

\* It ends.
LEMMA FinishMutationIs ==
  ASSUME TypeOK, NEW t \in Terminals, FinishMutation(t)
  PROVE  /\ UNCHANGED <<mode, kinds, guard, records, intents, tmux, intent, active,
                        head, link, dirty, tokens>>
         /\ job' \in [Terminals -> JobType] /\ Others(t)
         /\ job[t].pc = "working" /\ Moved(t, "unlock") /\ ~run'
  BY Moves DEF FinishMutation, fixed, external, checkout, bounds, At, Labels,
    ExternalLabels, CheckoutLabels, MutationLabels

\* The guard is released.
LEMMA releaseReparentModeLockIs ==
  ASSUME TypeOK, NEW t \in Terminals, releaseReparentModeLock(t)
  PROVE  /\ UNCHANGED <<mode, kinds, run, records, intents, tmux, intent, active, head,
                        link, dirty, tokens>>
         /\ job' \in [Terminals -> JobType] /\ Others(t)
         /\ job[t].pc = "unlock" /\ Gone(t) /\ guard' = 0
  BY Quits DEF releaseReparentModeLock, fixed, external, checkout, bounds, At

\* A killed process leaves everything as it is.
LEMMA KillIs ==
  ASSUME TypeOK, NEW t \in Terminals, Kill(t)
  PROVE  /\ UNCHANGED <<mode, kinds, guard, run, records, intents, tmux, intent, active,
                        head, link, dirty, tokens>>
         /\ job' \in [Terminals -> JobType] /\ Others(t)
         /\ job[t].pc # "idle" /\ Gone(t)
  BY Quits DEF Kill, fixed, disk, external, checkout, At

\* A session is opened where none is recorded.
LEMMA OpenCheckoutAgentIs ==
  ASSUME TypeOK, NEW t \in Terminals, NEW name \in Names, NEW tm \in BOOLEAN,
         OpenCheckoutAgent(t, name, tm)
  PROVE  /\ UNCHANGED <<mode, kinds, guard, run, records, intents, tmux, intent, active,
                        head, link, dirty>>
         /\ job' \in [Terminals -> JobType] /\ Others(t)
         /\ tokens' \in Nat
         /\ mode = "checkout" /\ "agent" \in kinds /\ active = NoSession
         /\ Begun(t, "agent", name, tm, "enter")
  BY Begins DEF OpenCheckoutAgent, OpenCheckout, recordedCheckoutSessionRefusal,
    fixed, disk, external, checkout, Labels, ExternalLabels, CheckoutLabels,
    MutationLabels, Kinds, Names

\* A session is opened where none is recorded.
LEMMA OpenCheckoutCommandIs ==
  ASSUME TypeOK, NEW t \in Terminals, NEW name \in Names, NEW tm \in BOOLEAN,
         OpenCheckoutCommand(t, name, tm)
  PROVE  /\ UNCHANGED <<mode, kinds, guard, run, records, intents, tmux, intent, active,
                        head, link, dirty>>
         /\ job' \in [Terminals -> JobType] /\ Others(t)
         /\ tokens' \in Nat
         /\ mode = "checkout" /\ "command" \in kinds /\ active = NoSession
         /\ Begun(t, "command", name, tm, "enter")
  BY Begins DEF OpenCheckoutCommand, OpenCheckout, recordedCheckoutSessionRefusal,
    fixed, disk, external, checkout, Labels, ExternalLabels, CheckoutLabels,
    MutationLabels, Kinds, Names

\* A close of an external session is refused by a live record.
LEMMA runExternalCloseIs ==
  ASSUME TypeOK, NEW name \in Names, runExternalClose(name)
  PROVE  /\ UNCHANGED <<mode, kinds, guard, run, intents, intent, active, head, link,
                        dirty, job, tokens>>
         /\ mode = "external" /\ tmux' \subseteq tmux
         /\ \A r \in records : r[2] = name => ~processAlive(r[1])
         /\ records' = {r \in records : r[2] # name}
  BY DEF runExternalClose, fixed, disk, external, checkout, bounds

\* A tmux session ends.
LEMMA TmuxEndsIs ==
  ASSUME TypeOK, NEW s \in tmux, TmuxEnds(s)
  PROVE  /\ UNCHANGED <<mode, kinds, guard, run, records, intents, intent, active, head,
                        link, dirty, job, tokens>>
         /\ tmux' \subseteq tmux
  BY DEF TmuxEnds, fixed, disk, external, checkout, bounds

\* A person edits, or replaces or removes the context link.
LEMMA PersonIs ==
  ASSUME TypeOK, Person
  PROVE  /\ UNCHANGED <<mode, kinds, guard, run, records, intents, tmux, intent, active,
                        head, job, tokens>>
         /\ mode = "checkout" /\ link' \in {link, "foreign", "none"} /\ dirty' \in BOOLEAN
  BY DEF Person, fixed, disk, external, checkout, TypeOK


-----------------------------------------------------------------------------
\* Every step keeps the types, and a workspace its mode.
LEMMA TypeOKStep ==
  ASSUME SessionsInv, Next
  PROVE  TypeOK' /\ UNCHANGED <<mode, kinds>>
<1>0. TypeOK
  BY DEF SessionsInv
<1>1. ASSUME NEW t \in Terminals, NEW name \in Names, NEW tm \in BOOLEAN, OpenAgent(t,
  name, tm) PROVE TypeOK' /\ UNCHANGED <<mode, kinds>>
  <2>1. /\ UNCHANGED <<mode, kinds, guard, run, tmux, intent, active, head, link, dirty>>
        /\ job' \in [Terminals -> JobType]
        /\ tokens' \in Nat
        /\ records' \in {records, records \cup {<<tokens', name>>}}
        /\ intents' \in {intents, intents \cup {<<tokens', name>>}}
    BY <1>0, <1>1, OpenAgentIs DEF Begun
  <2> QED
    BY <1>0, <2>1 DEF TypeOK, Names
<1>2. ASSUME NEW t \in Terminals, NEW name \in Names, NEW tm \in BOOLEAN, OpenCommand(t,
  name, tm) PROVE TypeOK' /\ UNCHANGED <<mode, kinds>>
  <2>1. /\ UNCHANGED <<mode, kinds, guard, run, records, tmux, intent, active, head,
                       link, dirty>>
        /\ job' \in [Terminals -> JobType]
        /\ tokens' \in Nat
        /\ intents' = intents \cup {<<tokens', name>>}
    BY <1>0, <1>2, OpenCommandIs DEF Begun
  <2> QED
    BY <1>0, <2>1 DEF TypeOK, Names
<1>3. ASSUME NEW t \in Terminals, NEW name \in Names, NEW tm \in BOOLEAN,
  OpenCheckoutAgent(t, name, tm) PROVE TypeOK' /\ UNCHANGED <<mode, kinds>>
  <2>1. /\ UNCHANGED <<mode, kinds, guard, run, records, intents, tmux, intent, active,
                       head, link, dirty>>
        /\ job' \in [Terminals -> JobType]
        /\ tokens' \in Nat
    BY <1>0, <1>3, OpenCheckoutAgentIs DEF Begun
  <2> QED
    BY <1>0, <2>1 DEF TypeOK
<1>4. ASSUME NEW t \in Terminals, NEW name \in Names, NEW tm \in BOOLEAN,
  OpenCheckoutCommand(t, name, tm) PROVE TypeOK' /\ UNCHANGED <<mode, kinds>>
  <2>1. /\ UNCHANGED <<mode, kinds, guard, run, records, intents, tmux, intent, active,
                       head, link, dirty>>
        /\ job' \in [Terminals -> JobType]
        /\ tokens' \in Nat
    BY <1>0, <1>4, OpenCheckoutCommandIs DEF Begun
  <2> QED
    BY <1>0, <2>1 DEF TypeOK
<1>5. ASSUME NEW t \in Terminals, FinalGuard(t) PROVE TypeOK' /\ UNCHANGED <<mode,
  kinds>>
  <2>1. /\ UNCHANGED <<mode, kinds, guard, run, intents, tmux, intent, active, head,
                       link, dirty, tokens>>
        /\ job' \in [Terminals -> JobType]
        /\ records' \subseteq records
    BY <1>0, <1>5, FinalGuardIs
  <2> QED
    BY <1>0, <2>1 DEF TypeOK
<1>6. ASSUME NEW t \in Terminals, RecordCommand(t) PROVE TypeOK' /\ UNCHANGED <<mode,
  kinds>>
  <2>1. /\ UNCHANGED <<mode, kinds, guard, run, intents, tmux, intent, active, head,
                       link, dirty, tokens>>
        /\ job' \in [Terminals -> JobType]
        /\ records' = records \cup {<<job[t].token, job[t].name>>}
    BY <1>0, <1>6, RecordCommandIs
  <2> QED
    BY <1>0, <2>1, JobHas DEF TypeOK, Names
<1>7. ASSUME NEW t \in Terminals, LaunchGuard(t) PROVE TypeOK' /\ UNCHANGED <<mode,
  kinds>>
  <2>1. /\ UNCHANGED <<mode, kinds, guard, run, intents, tmux, intent, active, head,
                       link, dirty, tokens>>
        /\ job' \in [Terminals -> JobType]
        /\ records' \subseteq records
    BY <1>0, <1>7, LaunchGuardIs
  <2> QED
    BY <1>0, <2>1 DEF TypeOK
<1>8. ASSUME NEW t \in Terminals, Start(t) PROVE TypeOK' /\ UNCHANGED <<mode, kinds>>
  <2>1. /\ UNCHANGED <<mode, kinds, guard, run, records, intents, tmux, intent, active,
                       head, link, dirty, tokens>>
        /\ job' \in [Terminals -> JobType]
    BY <1>0, <1>8, StartIs
  <2> QED
    BY <1>0, <2>1 DEF TypeOK
<1>9. ASSUME NEW t \in Terminals, openWithTmux(t) PROVE TypeOK' /\ UNCHANGED <<mode,
  kinds>>
  <2>1. /\ UNCHANGED <<mode, kinds, guard, run, records, intents, intent, active, head,
                       link, dirty, tokens>>
        /\ job' \in [Terminals -> JobType]
        /\ tmux' \in {tmux, tmux \cup {<<job[t].name, job[t].token>>}}
    BY <1>0, <1>9, openWithTmuxIs
  <2> QED
    BY <1>0, <2>1, JobHas DEF TypeOK
<1>10. ASSUME NEW t \in Terminals, RunExternalTmuxCommand(t) PROVE TypeOK' /\ UNCHANGED
  <<mode, kinds>>
  <2>1. /\ UNCHANGED <<mode, kinds, guard, run, records, intents, intent, active, head,
                       link, dirty, tokens>>
        /\ job' \in [Terminals -> JobType]
        /\ tmux' \in {tmux, tmux \cup {<<job[t].name, job[t].token>>}}
    BY <1>0, <1>10, RunExternalTmuxCommandIs
  <2> QED
    BY <1>0, <2>1, JobHas DEF TypeOK
<1>11. ASSUME NEW t \in Terminals, Leave(t) PROVE TypeOK' /\ UNCHANGED <<mode, kinds>>
  <2>1. /\ UNCHANGED <<mode, kinds, guard, run, intents, tmux, intent, active, head,
                       link, dirty, tokens>>
        /\ job' \in [Terminals -> JobType]
        /\ records' \subseteq records
    BY <1>0, <1>11, LeaveIs
  <2> QED
    BY <1>0, <2>1 DEF TypeOK
<1>12. ASSUME NEW t \in Terminals, RemoveOwnedExternalSessionIntent(t)
      PROVE TypeOK' /\ UNCHANGED <<mode, kinds>>
  <2>1. /\ UNCHANGED <<mode, kinds, guard, run, records, tmux, intent, active, head,
                       link, dirty, tokens>>
        /\ job' \in [Terminals -> JobType]
        /\ intents' \subseteq intents
    BY <1>0, <1>12, RemoveOwnedExternalSessionIntentIs
  <2> QED
    BY <1>0, <2>1 DEF TypeOK
<1>13. ASSUME NEW t \in Terminals, MakeIntent(t) PROVE TypeOK' /\ UNCHANGED <<mode,
  kinds>>
  <2>1. /\ UNCHANGED <<mode, kinds, guard, run, records, intents, tmux, active, head,
                       link, dirty, tokens>>
        /\ job' \in [Terminals -> JobType]
        /\ intent' = intent \/ intent' = [token |-> job[t].token, owned |-> FALSE]
    BY <1>0, <1>13, MakeIntentIs
  <2>2. CASE intent' = intent
    BY <1>0, <2>1, <2>2 DEF TypeOK
  <2>3. CASE intent' = [token |-> job[t].token, owned |-> FALSE]
    BY <1>0, <2>1, <2>3, JobHas DEF TypeOK
  <2> QED
    BY <2>1, <2>2, <2>3
<1>14. ASSUME NEW t \in Terminals, OwnIntent(t) PROVE TypeOK' /\ UNCHANGED <<mode,
  kinds>>
  <2>1. /\ UNCHANGED <<mode, kinds, guard, run, records, intents, tmux, active, head,
                       link, dirty, tokens>>
        /\ job' \in [Terminals -> JobType]
        /\ intent' = [intent EXCEPT !.owned = TRUE]
    BY <1>0, <1>14, OwnIntentIs
  <2> QED
    BY <1>0, <2>1 DEF TypeOK
<1>15. ASSUME NEW t \in Terminals, WithCheckoutSessionLaunchIntent(t)
      PROVE TypeOK' /\ UNCHANGED <<mode, kinds>>
  <2>1. /\ UNCHANGED <<mode, kinds, guard, run, records, intents, tmux, intent, active,
                       head, link, dirty, tokens>>
        /\ job' \in [Terminals -> JobType]
    BY <1>0, <1>15, WithCheckoutSessionLaunchIntentIs
  <2> QED
    BY <1>0, <2>1 DEF TypeOK
<1>16. ASSUME NEW t \in Terminals, CheckSession(t) PROVE TypeOK' /\ UNCHANGED <<mode,
  kinds>>
  <2>1. /\ UNCHANGED <<mode, kinds, guard, run, records, intents, tmux, intent, active,
                       head, link, dirty, tokens>>
        /\ job' \in [Terminals -> JobType]
    BY <1>0, <1>16, CheckSessionIs
  <2> QED
    BY <1>0, <2>1 DEF TypeOK
<1>17. ASSUME NEW t \in Terminals, createCheckoutCommandState(t)
      PROVE TypeOK' /\ UNCHANGED <<mode, kinds>>
  <2>1. /\ UNCHANGED <<mode, kinds, guard, run, records, intents, tmux, intent, head,
                       link, dirty, tokens>>
        /\ job' \in [Terminals -> JobType]
        /\ active' \in {active, job[t].of}
    BY <1>0, <1>17, createCheckoutCommandStateIs
  <2> QED
    BY <1>0, <2>1, JobHas DEF TypeOK
<1>18. ASSUME NEW t \in Terminals, SwitchTo(t) PROVE TypeOK' /\ UNCHANGED <<mode,
  kinds>>
  <2>1. /\ UNCHANGED <<mode, kinds, guard, run, records, intents, tmux, intent, active,
                       link, dirty, tokens>>
        /\ job' \in [Terminals -> JobType]
        /\ head' \in {head, job[t].name}
    BY <1>0, <1>18, SwitchToIs
  <2> QED
    BY <1>0, <2>1, JobHas DEF TypeOK
<1>19. ASSUME NEW t \in Terminals, ApplyCheckoutSessionLinks(t)
      PROVE TypeOK' /\ UNCHANGED <<mode, kinds>>
  <2>1. /\ UNCHANGED <<mode, kinds, guard, run, records, intents, tmux, intent, active,
                       dirty, tokens>>
        /\ job' \in [Terminals -> JobType]
        /\ link' \in {link, "ours"} /\ head' \in {head, job[t].of.orig}
    BY <1>0, <1>19, ApplyCheckoutSessionLinksIs
  <2> QED
    BY <1>0, <2>1, JobHas DEF TypeOK
<1>20. ASSUME NEW t \in Terminals, OpenCheckoutTmux(t) PROVE TypeOK' /\ UNCHANGED
  <<mode, kinds>>
  <2>1. /\ UNCHANGED <<mode, kinds, guard, run, records, intents, intent, active, dirty,
                       tokens>>
        /\ job' \in [Terminals -> JobType]
        /\ tmux' \in {tmux, tmux \cup {<<job[t].name, job[t].token>>}}
        /\ head' \in {head, job[t].of.orig} /\ link' \in {link, "none"}
    BY <1>0, <1>20, OpenCheckoutTmuxIs
  <2> QED
    BY <1>0, <2>1, JobHas DEF TypeOK
<1>21. ASSUME NEW t \in Terminals, runCheckoutTmuxCommand(t) PROVE TypeOK' /\ UNCHANGED
  <<mode, kinds>>
  <2>1. /\ UNCHANGED <<mode, kinds, guard, run, records, intents, intent, active, head,
                       link, dirty, tokens>>
        /\ job' \in [Terminals -> JobType]
        /\ tmux' \in {tmux, tmux \cup {<<job[t].name, job[t].token>>}}
    BY <1>0, <1>21, runCheckoutTmuxCommandIs
  <2> QED
    BY <1>0, <2>1, JobHas DEF TypeOK
<1>22. ASSUME NEW t \in Terminals, SaveCheckoutAgentSession(t)
      PROVE TypeOK' /\ UNCHANGED <<mode, kinds>>
  <2>1. /\ UNCHANGED <<mode, kinds, guard, run, records, intents, tmux, intent, head,
                       link, dirty, tokens>>
        /\ job' \in [Terminals -> JobType]
        /\ active' = job[t].of
    BY <1>0, <1>22, SaveCheckoutAgentSessionIs
  <2> QED
    BY <1>0, <2>1, JobHas DEF TypeOK
<1>23. ASSUME NEW t \in Terminals, EndSession(t) PROVE TypeOK' /\ UNCHANGED <<mode,
  kinds>>
  <2>1. /\ UNCHANGED <<mode, kinds, guard, run, records, intents, tmux, intent, active,
                       head, link, dirty, tokens>>
        /\ job' \in [Terminals -> JobType]
    BY <1>0, <1>23, EndSessionIs
  <2> QED
    BY <1>0, <2>1 DEF TypeOK
<1>24. ASSUME NEW t \in Terminals, CloseCheckoutSession(t) PROVE TypeOK' /\ UNCHANGED
  <<mode, kinds>>
  <2>1. /\ UNCHANGED <<mode, kinds, guard, run, records, intents, intent, active, head,
                       link, dirty, tokens>>
        /\ job' \in [Terminals -> JobType]
        /\ tmux' \subseteq tmux
    BY <1>0, <1>24, CloseCheckoutSessionIs
  <2> QED
    BY <1>0, <2>1 DEF TypeOK
<1>25. ASSUME NEW t \in Terminals, closeCheckoutCommandSession(t)
      PROVE TypeOK' /\ UNCHANGED <<mode, kinds>>
  <2>1. /\ UNCHANGED <<mode, kinds, guard, run, records, intents, intent, active, head,
                       link, dirty, tokens>>
        /\ job' \in [Terminals -> JobType]
        /\ tmux' \subseteq tmux
    BY <1>0, <1>25, closeCheckoutCommandSessionIs
  <2> QED
    BY <1>0, <2>1 DEF TypeOK
<1>26. ASSUME NEW t \in Terminals, Unlink(t) PROVE TypeOK' /\ UNCHANGED <<mode, kinds>>
  <2>1. /\ UNCHANGED <<mode, kinds, guard, run, records, intents, tmux, intent, active,
                       head, dirty, tokens>>
        /\ job' \in [Terminals -> JobType]
        /\ link' \in {link, "none"}
    BY <1>0, <1>26, UnlinkIs
  <2> QED
    BY <1>0, <2>1 DEF TypeOK
<1>27. ASSUME NEW t \in Terminals, SwitchBack(t) PROVE TypeOK' /\ UNCHANGED <<mode,
  kinds>>
  <2>1. /\ UNCHANGED <<mode, kinds, guard, run, records, intents, tmux, intent, active,
                       link, dirty, tokens>>
        /\ job' \in [Terminals -> JobType]
        /\ head' \in {head, job[t].of.orig}
    BY <1>0, <1>27, SwitchBackIs
  <2> QED
    BY <1>0, <2>1, JobHas DEF TypeOK
<1>28. ASSUME NEW t \in Terminals, finishCheckoutSession(t) PROVE TypeOK' /\ UNCHANGED
  <<mode, kinds>>
  <2>1. /\ UNCHANGED <<mode, kinds, guard, run, records, intents, tmux, intent, head,
                       link, dirty, tokens>>
        /\ job' \in [Terminals -> JobType]
        /\ active' \in {active, NoSession}
    BY <1>0, <1>28, finishCheckoutSessionIs
  <2> QED
    BY <1>0, <2>1, IdleIs DEF TypeOK
<1>29. ASSUME NEW t \in Terminals, releaseAgentSessionLock(t) PROVE TypeOK' /\ UNCHANGED
  <<mode, kinds>>
  <2>1. /\ UNCHANGED <<mode, kinds, guard, run, records, intents, tmux, active, head,
                       link, dirty, tokens>>
        /\ job' \in [Terminals -> JobType]
        /\ intent' = intent \/ intent' = NoIntent
    BY <1>0, <1>29, releaseAgentSessionLockIs
  <2>2. CASE intent' = intent
    BY <1>0, <2>1, <2>2 DEF TypeOK
  <2>3. CASE intent' = NoIntent
    BY <1>0, <2>1, <2>3, JobHas DEF TypeOK, NoIntent
  <2> QED
    BY <2>1, <2>2, <2>3
<1>30. ASSUME NEW t \in Terminals, NEW what \in {"reparent", "template"},
  acquireReparentModeLock(t, what) PROVE TypeOK' /\ UNCHANGED <<mode, kinds>>
  <2>1. /\ UNCHANGED <<mode, kinds, run, records, intents, tmux, intent, active, head,
                       link, dirty>>
        /\ job' \in [Terminals -> JobType]
        /\ tokens' \in Nat
        /\ guard' = tokens'
    BY <1>0, <1>30, acquireReparentModeLockIs DEF Begun
  <2> QED
    BY <1>0, <2>1 DEF TypeOK
<1>31. ASSUME NEW t \in Terminals, openReparentRecovery(t) PROVE TypeOK' /\ UNCHANGED
  <<mode, kinds>>
  <2>1. /\ UNCHANGED <<mode, kinds, run, records, intents, tmux, intent, active, head,
                       link, dirty>>
        /\ job' \in [Terminals -> JobType]
        /\ tokens' \in Nat
        /\ guard' = tokens'
    BY <1>0, <1>31, openReparentRecoveryIs DEF Begun
  <2> QED
    BY <1>0, <2>1 DEF TypeOK
<1>32. ASSUME NEW t \in Terminals, SessionIntentCleanup(t) PROVE TypeOK' /\ UNCHANGED
  <<mode, kinds>>
  <2>1. /\ UNCHANGED <<mode, kinds, guard, run, tmux, intent, active, head, link, dirty,
                       tokens>>
        /\ job' \in [Terminals -> JobType]
        /\ records' \subseteq records /\ intents' \subseteq intents
    BY <1>0, <1>32, SessionIntentCleanupIs
  <2> QED
    BY <1>0, <2>1 DEF TypeOK
<1>33. ASSUME NEW t \in Terminals, CleanupStaleCheckoutSessionIntent(t)
      PROVE TypeOK' /\ UNCHANGED <<mode, kinds>>
  <2>1. /\ UNCHANGED <<mode, kinds, guard, run, records, intents, tmux, active, head,
                       link, dirty, tokens>>
        /\ job' \in [Terminals -> JobType]
        /\ intent' = intent \/ intent' = NoIntent
    BY <1>0, <1>33, CleanupStaleCheckoutSessionIntentIs
  <2>2. CASE intent' = intent
    BY <1>0, <2>1, <2>2 DEF TypeOK
  <2>3. CASE intent' = NoIntent
    BY <1>0, <2>1, <2>3, JobHas DEF TypeOK, NoIntent
  <2> QED
    BY <2>1, <2>2, <2>3
<1>34. ASSUME NEW t \in Terminals, NoCleanup(t) PROVE TypeOK' /\ UNCHANGED <<mode,
  kinds>>
  <2>1. /\ UNCHANGED <<mode, kinds, guard, run, records, intents, tmux, intent, active,
                       head, link, dirty, tokens>>
        /\ job' \in [Terminals -> JobType]
    BY <1>0, <1>34, NoCleanupIs
  <2> QED
    BY <1>0, <2>1 DEF TypeOK
<1>35. ASSUME NEW t \in Terminals, ProbeExternal(t) PROVE TypeOK' /\ UNCHANGED <<mode,
  kinds>>
  <2>1. /\ UNCHANGED <<mode, kinds, guard, run, records, intents, tmux, intent, active,
                       head, link, dirty, tokens>>
        /\ job' \in [Terminals -> JobType]
    BY <1>0, <1>35, ProbeExternalIs
  <2> QED
    BY <1>0, <2>1 DEF TypeOK
<1>36. ASSUME NEW t \in Terminals, ProbeCheckout(t) PROVE TypeOK' /\ UNCHANGED <<mode,
  kinds>>
  <2>1. /\ UNCHANGED <<mode, kinds, guard, run, records, intents, tmux, intent, active,
                       head, link, dirty, tokens>>
        /\ job' \in [Terminals -> JobType]
    BY <1>0, <1>36, ProbeCheckoutIs
  <2> QED
    BY <1>0, <2>1 DEF TypeOK
<1>37. ASSUME NEW t \in Terminals, Mutate(t) PROVE TypeOK' /\ UNCHANGED <<mode, kinds>>
  <2>1. /\ UNCHANGED <<mode, kinds, guard, records, intents, tmux, intent, active, head,
                       link, dirty, tokens>>
        /\ job' \in [Terminals -> JobType]
        /\ run' \in BOOLEAN
    BY <1>0, <1>37, MutateIs
  <2> QED
    BY <1>0, <2>1 DEF TypeOK
<1>38. ASSUME NEW t \in Terminals, FinishMutation(t) PROVE TypeOK' /\ UNCHANGED <<mode,
  kinds>>
  <2>1. /\ UNCHANGED <<mode, kinds, guard, records, intents, tmux, intent, active, head,
                       link, dirty, tokens>>
        /\ job' \in [Terminals -> JobType]
        /\ run' = FALSE
    BY <1>0, <1>38, FinishMutationIs
  <2> QED
    BY <1>0, <2>1 DEF TypeOK
<1>39. ASSUME NEW t \in Terminals, releaseReparentModeLock(t) PROVE TypeOK' /\ UNCHANGED
  <<mode, kinds>>
  <2>1. /\ UNCHANGED <<mode, kinds, run, records, intents, tmux, intent, active, head,
                       link, dirty, tokens>>
        /\ job' \in [Terminals -> JobType]
        /\ guard' = 0
    BY <1>0, <1>39, releaseReparentModeLockIs
  <2> QED
    BY <1>0, <2>1 DEF TypeOK
<1>40. ASSUME NEW t \in Terminals, Kill(t) PROVE TypeOK' /\ UNCHANGED <<mode, kinds>>
  <2>1. /\ UNCHANGED <<mode, kinds, guard, run, records, intents, tmux, intent, active,
                       head, link, dirty, tokens>>
        /\ job' \in [Terminals -> JobType]
    BY <1>0, <1>40, KillIs
  <2> QED
    BY <1>0, <2>1 DEF TypeOK
<1>41. ASSUME NEW name \in Branches, runExternalClose(name) PROVE TypeOK' /\ UNCHANGED
  <<mode, kinds>>
  <2>1. /\ UNCHANGED <<mode, kinds, guard, run, intents, intent, active, head, link,
                       dirty, job, tokens>>
        /\ tmux' \subseteq tmux /\ records' \subseteq records
    BY <1>0, <1>41, runExternalCloseIs DEF Names
  <2> QED
    BY <1>0, <2>1 DEF TypeOK
<1>42. ASSUME NEW s \in tmux, TmuxEnds(s) PROVE TypeOK' /\ UNCHANGED <<mode, kinds>>
  <2>1. /\ UNCHANGED <<mode, kinds, guard, run, records, intents, intent, active, head,
                       link, dirty, job, tokens>>
        /\ tmux' \subseteq tmux
    BY <1>0, <1>42, TmuxEndsIs
  <2> QED
    BY <1>0, <2>1 DEF TypeOK
<1>43. ASSUME Person PROVE TypeOK' /\ UNCHANGED <<mode, kinds>>
  <2>1. /\ UNCHANGED <<mode, kinds, guard, run, records, intents, tmux, intent, active,
                       head, job, tokens>>
        /\ link' \in {link, "foreign", "none"} /\ dirty' \in BOOLEAN
    BY <1>0, <1>43, PersonIs
  <2> QED
    BY <1>0, <2>1 DEF TypeOK
<1> QED
  BY <1>1, <1>2, <1>3, <1>4, <1>5, <1>6, <1>7, <1>8, <1>9, <1>10, <1>11, <1>12, <1>13,
    <1>14, <1>15, <1>16, <1>17, <1>18, <1>19, <1>20, <1>21, <1>22, <1>23, <1>24, <1>25,
    <1>26, <1>27, <1>28, <1>29, <1>30, <1>31, <1>32, <1>33, <1>34, <1>35, <1>36, <1>37,
    <1>38, <1>39, <1>40, <1>41, <1>42, <1>43 DEF Next, Names

\* A token is given out once.
LEMMA UniqueOKStep ==
  ASSUME SessionsInv, Next
  PROVE  UniqueOK'
<1>0. TypeOK /\ UniqueOK /\ GivenOK /\ TokensOK
  BY DEF SessionsInv, TokensOK
<1>1. ASSUME NEW t \in Terminals, NEW name \in Names, NEW tm \in BOOLEAN, OpenAgent(t,
  name, tm) PROVE UniqueOK'
  BY <1>0, <1>1, OpenAgentIs, IdleIs, JobHas, NextIsNew DEF Begun, Others, UniqueOK
<1>2. ASSUME NEW t \in Terminals, NEW name \in Names, NEW tm \in BOOLEAN, OpenCommand(t,
  name, tm) PROVE UniqueOK'
  BY <1>0, <1>2, OpenCommandIs, IdleIs, JobHas, NextIsNew DEF Begun, Others, UniqueOK
<1>3. ASSUME NEW t \in Terminals, NEW name \in Names, NEW tm \in BOOLEAN,
  OpenCheckoutAgent(t, name, tm) PROVE UniqueOK'
  BY <1>0, <1>3, OpenCheckoutAgentIs, IdleIs, JobHas, NextIsNew DEF Begun, Others,
    UniqueOK
<1>4. ASSUME NEW t \in Terminals, NEW name \in Names, NEW tm \in BOOLEAN,
  OpenCheckoutCommand(t, name, tm) PROVE UniqueOK'
  BY <1>0, <1>4, OpenCheckoutCommandIs, IdleIs, JobHas, NextIsNew DEF Begun, Others,
    UniqueOK
<1>5. ASSUME NEW t \in Terminals, FinalGuard(t) PROVE UniqueOK'
  BY <1>0, <1>5, FinalGuardIs, IdleIs, JobHas DEF Moved, Same, Others, UniqueOK
<1>6. ASSUME NEW t \in Terminals, RecordCommand(t) PROVE UniqueOK'
  BY <1>0, <1>6, RecordCommandIs, IdleIs, JobHas DEF Moved, Same, Others, UniqueOK
<1>7. ASSUME NEW t \in Terminals, LaunchGuard(t) PROVE UniqueOK'
  BY <1>0, <1>7, LaunchGuardIs, IdleIs, JobHas DEF Moved, Same, Others, UniqueOK
<1>8. ASSUME NEW t \in Terminals, Start(t) PROVE UniqueOK'
  BY <1>0, <1>8, StartIs, IdleIs, JobHas DEF Moved, Same, Others, UniqueOK
<1>9. ASSUME NEW t \in Terminals, openWithTmux(t) PROVE UniqueOK'
  BY <1>0, <1>9, openWithTmuxIs, IdleIs, JobHas DEF Moved, Same, Others, UniqueOK
<1>10. ASSUME NEW t \in Terminals, RunExternalTmuxCommand(t) PROVE UniqueOK'
  BY <1>0, <1>10, RunExternalTmuxCommandIs, IdleIs, JobHas DEF Moved, Same, Others,
    UniqueOK
<1>11. ASSUME NEW t \in Terminals, Leave(t) PROVE UniqueOK'
  BY <1>0, <1>11, LeaveIs, IdleIs, JobHas DEF Moved, Same, Others, UniqueOK
<1>12. ASSUME NEW t \in Terminals, RemoveOwnedExternalSessionIntent(t) PROVE UniqueOK'
  BY <1>0, <1>12, RemoveOwnedExternalSessionIntentIs, IdleIs, JobHas DEF Gone, Others,
    UniqueOK
<1>13. ASSUME NEW t \in Terminals, MakeIntent(t) PROVE UniqueOK'
  BY <1>0, <1>13, MakeIntentIs, IdleIs, JobHas DEF Moved, Same, Gone, Others, UniqueOK
<1>14. ASSUME NEW t \in Terminals, OwnIntent(t) PROVE UniqueOK'
  BY <1>0, <1>14, OwnIntentIs, IdleIs, JobHas DEF Moved, Same, Others, UniqueOK
<1>15. ASSUME NEW t \in Terminals, WithCheckoutSessionLaunchIntent(t) PROVE UniqueOK'
  BY <1>0, <1>15, WithCheckoutSessionLaunchIntentIs, IdleIs, JobHas DEF Noted, Same,
    Others, UniqueOK
<1>16. ASSUME NEW t \in Terminals, CheckSession(t) PROVE UniqueOK'
  BY <1>0, <1>16, CheckSessionIs, IdleIs, JobHas DEF Noted, Same, Others, UniqueOK
<1>17. ASSUME NEW t \in Terminals, createCheckoutCommandState(t) PROVE UniqueOK'
  BY <1>0, <1>17, createCheckoutCommandStateIs, IdleIs, JobHas DEF Moved, Same, Gone,
    Others, UniqueOK
<1>18. ASSUME NEW t \in Terminals, SwitchTo(t) PROVE UniqueOK'
  BY <1>0, <1>18, SwitchToIs, IdleIs, JobHas DEF Moved, Same, Undone, Others, UniqueOK
<1>19. ASSUME NEW t \in Terminals, ApplyCheckoutSessionLinks(t) PROVE UniqueOK'
  BY <1>0, <1>19, ApplyCheckoutSessionLinksIs, IdleIs, JobHas DEF Moved, Same, Undone,
    Others, UniqueOK
<1>20. ASSUME NEW t \in Terminals, OpenCheckoutTmux(t) PROVE UniqueOK'
  BY <1>0, <1>20, OpenCheckoutTmuxIs, IdleIs, JobHas DEF Moved, Same, Others, UniqueOK
<1>21. ASSUME NEW t \in Terminals, runCheckoutTmuxCommand(t) PROVE UniqueOK'
  BY <1>0, <1>21, runCheckoutTmuxCommandIs, IdleIs, JobHas DEF Moved, Same, Gone,
    Others, UniqueOK
<1>22. ASSUME NEW t \in Terminals, SaveCheckoutAgentSession(t) PROVE UniqueOK'
  BY <1>0, <1>22, SaveCheckoutAgentSessionIs, IdleIs, JobHas DEF Moved, Same, Others,
    UniqueOK
<1>23. ASSUME NEW t \in Terminals, EndSession(t) PROVE UniqueOK'
  BY <1>0, <1>23, EndSessionIs, IdleIs, JobHas DEF Moved, Same, Gone, Others, UniqueOK
<1>24. ASSUME NEW t \in Terminals, CloseCheckoutSession(t) PROVE UniqueOK'
  BY <1>0, <1>24, CloseCheckoutSessionIs, IdleIs, JobHas DEF Closes, Others, UniqueOK
<1>25. ASSUME NEW t \in Terminals, closeCheckoutCommandSession(t) PROVE UniqueOK'
  BY <1>0, <1>25, closeCheckoutCommandSessionIs, IdleIs, JobHas DEF Closes, Others,
    UniqueOK
<1>26. ASSUME NEW t \in Terminals, Unlink(t) PROVE UniqueOK'
  BY <1>0, <1>26, UnlinkIs, IdleIs, JobHas DEF Moved, Same, Gone, Others, UniqueOK
<1>27. ASSUME NEW t \in Terminals, SwitchBack(t) PROVE UniqueOK'
  BY <1>0, <1>27, SwitchBackIs, IdleIs, JobHas DEF Moved, Same, Gone, Others, UniqueOK
<1>28. ASSUME NEW t \in Terminals, finishCheckoutSession(t) PROVE UniqueOK'
  BY <1>0, <1>28, finishCheckoutSessionIs, IdleIs, JobHas DEF Moved, Same, Gone, Others,
    UniqueOK
<1>29. ASSUME NEW t \in Terminals, releaseAgentSessionLock(t) PROVE UniqueOK'
  BY <1>0, <1>29, releaseAgentSessionLockIs, IdleIs, JobHas DEF Gone, Others, UniqueOK
<1>30. ASSUME NEW t \in Terminals, NEW what \in {"reparent", "template"},
  acquireReparentModeLock(t, what) PROVE UniqueOK'
  <2>1. /\ UNCHANGED <<mode, kinds, run, records, intents, tmux, intent, active, head,
                       link, dirty>>
        /\ job' \in [Terminals -> JobType] /\ Others(t) /\ guard' = tokens'
        /\ guard # 0 => \A u \in Terminals : job[u].token # guard
        /\ Begun(t, what, Feature, FALSE, "reserved")
    BY <1>0, <1>30, acquireReparentModeLockIs
  <2>2. /\ tokens' # 0 /\ tokens' # guard /\ tokens' # active.token /\ tokens' # intent.token
        /\ \A u \in Terminals : job[u].token # tokens' /\ job[u].of.token # tokens'
    BY <1>0, <2>1, NextIsNew DEF Begun
  <2> QED
    BY <1>0, <2>1, <2>2, IdleIs, JobHas DEF Begun, Others, UniqueOK
<1>31. ASSUME NEW t \in Terminals, openReparentRecovery(t) PROVE UniqueOK'
  <2>1. /\ UNCHANGED <<mode, kinds, run, records, intents, tmux, intent, active, head,
                       link, dirty>>
        /\ job' \in [Terminals -> JobType] /\ Others(t) /\ guard' = tokens'
        /\ guard # 0 => \A u \in Terminals : job[u].token # guard
        /\ Begun(t, "reparent", Feature, FALSE, "reserved")
    BY <1>0, <1>31, openReparentRecoveryIs
  <2>2. /\ tokens' # 0 /\ tokens' # guard /\ tokens' # active.token /\ tokens' # intent.token
        /\ \A u \in Terminals : job[u].token # tokens' /\ job[u].of.token # tokens'
    BY <1>0, <2>1, NextIsNew DEF Begun
  <2> QED
    BY <1>0, <2>1, <2>2, IdleIs, JobHas DEF Begun, Others, UniqueOK
<1>32. ASSUME NEW t \in Terminals, SessionIntentCleanup(t) PROVE UniqueOK'
  BY <1>0, <1>32, SessionIntentCleanupIs, IdleIs, JobHas DEF Moved, Same, Others,
    UniqueOK
<1>33. ASSUME NEW t \in Terminals, CleanupStaleCheckoutSessionIntent(t) PROVE UniqueOK'
  BY <1>0, <1>33, CleanupStaleCheckoutSessionIntentIs, IdleIs, JobHas DEF Moved, Same,
    Others, UniqueOK
<1>34. ASSUME NEW t \in Terminals, NoCleanup(t) PROVE UniqueOK'
  BY <1>0, <1>34, NoCleanupIs, IdleIs, JobHas DEF Moved, Same, Others, UniqueOK
<1>35. ASSUME NEW t \in Terminals, ProbeExternal(t) PROVE UniqueOK'
  BY <1>0, <1>35, ProbeExternalIs, IdleIs, JobHas DEF Moved, Same, Others, UniqueOK
<1>36. ASSUME NEW t \in Terminals, ProbeCheckout(t) PROVE UniqueOK'
  BY <1>0, <1>36, ProbeCheckoutIs, IdleIs, JobHas DEF Moved, Same, Others, UniqueOK
<1>37. ASSUME NEW t \in Terminals, Mutate(t) PROVE UniqueOK'
  BY <1>0, <1>37, MutateIs, IdleIs, JobHas DEF Moved, Same, Others, UniqueOK
<1>38. ASSUME NEW t \in Terminals, FinishMutation(t) PROVE UniqueOK'
  BY <1>0, <1>38, FinishMutationIs, IdleIs, JobHas DEF Moved, Same, Others, UniqueOK
<1>39. ASSUME NEW t \in Terminals, releaseReparentModeLock(t) PROVE UniqueOK'
  BY <1>0, <1>39, releaseReparentModeLockIs, IdleIs, JobHas DEF Gone, Others, UniqueOK
<1>40. ASSUME NEW t \in Terminals, Kill(t) PROVE UniqueOK'
  BY <1>0, <1>40, KillIs, IdleIs, JobHas DEF Gone, Others, UniqueOK
<1>41. ASSUME NEW name \in Branches, runExternalClose(name) PROVE UniqueOK'
  BY <1>0, <1>41, runExternalCloseIs, IdleIs, JobHas DEF UniqueOK, Names
<1>42. ASSUME NEW s \in tmux, TmuxEnds(s) PROVE UniqueOK'
  BY <1>0, <1>42, TmuxEndsIs, IdleIs, JobHas DEF UniqueOK
<1>43. ASSUME Person PROVE UniqueOK'
  BY <1>0, <1>43, PersonIs, IdleIs, JobHas DEF UniqueOK
<1> QED
  BY <1>1, <1>2, <1>3, <1>4, <1>5, <1>6, <1>7, <1>8, <1>9, <1>10, <1>11, <1>12, <1>13,
    <1>14, <1>15, <1>16, <1>17, <1>18, <1>19, <1>20, <1>21, <1>22, <1>23, <1>24, <1>25,
    <1>26, <1>27, <1>28, <1>29, <1>30, <1>31, <1>32, <1>33, <1>34, <1>35, <1>36, <1>37,
    <1>38, <1>39, <1>40, <1>41, <1>42, <1>43 DEF Next, Names

\* Every token on disk was given out.
LEMMA GivenOKStep ==
  ASSUME SessionsInv, Next
  PROVE  GivenOK'
<1>0. TypeOK /\ GivenOK /\ UniqueOK /\ TokensOK
  BY DEF SessionsInv, TokensOK
<1>1. ASSUME NEW t \in Terminals, NEW name \in Names, NEW tm \in BOOLEAN, OpenAgent(t,
  name, tm) PROVE GivenOK'
  BY <1>0, <1>1, OpenAgentIs, IdleIs, JobHas, DiskHas, NextIsNew DEF Begun, Others,
    GivenOK
<1>2. ASSUME NEW t \in Terminals, NEW name \in Names, NEW tm \in BOOLEAN, OpenCommand(t,
  name, tm) PROVE GivenOK'
  BY <1>0, <1>2, OpenCommandIs, IdleIs, JobHas, DiskHas, NextIsNew DEF Begun, Others,
    GivenOK
<1>3. ASSUME NEW t \in Terminals, NEW name \in Names, NEW tm \in BOOLEAN,
  OpenCheckoutAgent(t, name, tm) PROVE GivenOK'
  BY <1>0, <1>3, OpenCheckoutAgentIs, IdleIs, JobHas, DiskHas, NextIsNew DEF Begun,
    Others, GivenOK
<1>4. ASSUME NEW t \in Terminals, NEW name \in Names, NEW tm \in BOOLEAN,
  OpenCheckoutCommand(t, name, tm) PROVE GivenOK'
  BY <1>0, <1>4, OpenCheckoutCommandIs, IdleIs, JobHas, DiskHas, NextIsNew DEF Begun,
    Others, GivenOK
<1>5. ASSUME NEW t \in Terminals, FinalGuard(t) PROVE GivenOK'
  BY <1>0, <1>5, FinalGuardIs, IdleIs, JobHas, DiskHas DEF Moved, Same, Others, GivenOK
<1>6. ASSUME NEW t \in Terminals, RecordCommand(t) PROVE GivenOK'
  BY <1>0, <1>6, RecordCommandIs, IdleIs, JobHas, DiskHas DEF Moved, Same, Others,
    GivenOK
<1>7. ASSUME NEW t \in Terminals, LaunchGuard(t) PROVE GivenOK'
  BY <1>0, <1>7, LaunchGuardIs, IdleIs, JobHas, DiskHas DEF Moved, Same, Others, GivenOK
<1>8. ASSUME NEW t \in Terminals, Start(t) PROVE GivenOK'
  BY <1>0, <1>8, StartIs, IdleIs, JobHas, DiskHas DEF Moved, Same, Others, GivenOK
<1>9. ASSUME NEW t \in Terminals, openWithTmux(t) PROVE GivenOK'
  BY <1>0, <1>9, openWithTmuxIs, IdleIs, JobHas, DiskHas DEF Moved, Same, Others,
    GivenOK
<1>10. ASSUME NEW t \in Terminals, RunExternalTmuxCommand(t) PROVE GivenOK'
  BY <1>0, <1>10, RunExternalTmuxCommandIs, IdleIs, JobHas, DiskHas DEF Moved, Same,
    Others, GivenOK
<1>11. ASSUME NEW t \in Terminals, Leave(t) PROVE GivenOK'
  BY <1>0, <1>11, LeaveIs, IdleIs, JobHas, DiskHas DEF Moved, Same, Others, GivenOK
<1>12. ASSUME NEW t \in Terminals, RemoveOwnedExternalSessionIntent(t) PROVE GivenOK'
  BY <1>0, <1>12, RemoveOwnedExternalSessionIntentIs, IdleIs, JobHas, DiskHas DEF Gone,
    Others, GivenOK
<1>13. ASSUME NEW t \in Terminals, MakeIntent(t) PROVE GivenOK'
  BY <1>0, <1>13, MakeIntentIs, IdleIs, JobHas, DiskHas DEF Moved, Same, Gone, Others,
    GivenOK
<1>14. ASSUME NEW t \in Terminals, OwnIntent(t) PROVE GivenOK'
  BY <1>0, <1>14, OwnIntentIs, IdleIs, JobHas, DiskHas DEF Moved, Same, Others, GivenOK
<1>15. ASSUME NEW t \in Terminals, WithCheckoutSessionLaunchIntent(t) PROVE GivenOK'
  BY <1>0, <1>15, WithCheckoutSessionLaunchIntentIs, IdleIs, JobHas, DiskHas DEF Noted,
    Same, Others, GivenOK
<1>16. ASSUME NEW t \in Terminals, CheckSession(t) PROVE GivenOK'
  BY <1>0, <1>16, CheckSessionIs, IdleIs, JobHas, DiskHas DEF Noted, Same, Others,
    GivenOK
<1>17. ASSUME NEW t \in Terminals, createCheckoutCommandState(t) PROVE GivenOK'
  BY <1>0, <1>17, createCheckoutCommandStateIs, IdleIs, JobHas, DiskHas DEF Moved, Same,
    Gone, Others, GivenOK
<1>18. ASSUME NEW t \in Terminals, SwitchTo(t) PROVE GivenOK'
  BY <1>0, <1>18, SwitchToIs, IdleIs, JobHas, DiskHas DEF Moved, Same, Undone, Others,
    GivenOK
<1>19. ASSUME NEW t \in Terminals, ApplyCheckoutSessionLinks(t) PROVE GivenOK'
  BY <1>0, <1>19, ApplyCheckoutSessionLinksIs, IdleIs, JobHas, DiskHas DEF Moved, Same,
    Undone, Others, GivenOK
<1>20. ASSUME NEW t \in Terminals, OpenCheckoutTmux(t) PROVE GivenOK'
  BY <1>0, <1>20, OpenCheckoutTmuxIs, IdleIs, JobHas, DiskHas DEF Moved, Same, Others,
    GivenOK
<1>21. ASSUME NEW t \in Terminals, runCheckoutTmuxCommand(t) PROVE GivenOK'
  BY <1>0, <1>21, runCheckoutTmuxCommandIs, IdleIs, JobHas, DiskHas DEF Moved, Same,
    Gone, Others, GivenOK
<1>22. ASSUME NEW t \in Terminals, SaveCheckoutAgentSession(t) PROVE GivenOK'
  BY <1>0, <1>22, SaveCheckoutAgentSessionIs, IdleIs, JobHas, DiskHas DEF Moved, Same,
    Others, GivenOK
<1>23. ASSUME NEW t \in Terminals, EndSession(t) PROVE GivenOK'
  BY <1>0, <1>23, EndSessionIs, IdleIs, JobHas, DiskHas DEF Moved, Same, Gone, Others,
    GivenOK
<1>24. ASSUME NEW t \in Terminals, CloseCheckoutSession(t) PROVE GivenOK'
  BY <1>0, <1>24, CloseCheckoutSessionIs, IdleIs, JobHas, DiskHas DEF Closes, Others,
    GivenOK
<1>25. ASSUME NEW t \in Terminals, closeCheckoutCommandSession(t) PROVE GivenOK'
  BY <1>0, <1>25, closeCheckoutCommandSessionIs, IdleIs, JobHas, DiskHas DEF Closes,
    Others, GivenOK
<1>26. ASSUME NEW t \in Terminals, Unlink(t) PROVE GivenOK'
  BY <1>0, <1>26, UnlinkIs, IdleIs, JobHas, DiskHas DEF Moved, Same, Gone, Others,
    GivenOK
<1>27. ASSUME NEW t \in Terminals, SwitchBack(t) PROVE GivenOK'
  BY <1>0, <1>27, SwitchBackIs, IdleIs, JobHas, DiskHas DEF Moved, Same, Gone, Others,
    GivenOK
<1>28. ASSUME NEW t \in Terminals, finishCheckoutSession(t) PROVE GivenOK'
  BY <1>0, <1>28, finishCheckoutSessionIs, IdleIs, JobHas, DiskHas DEF Moved, Same,
    Gone, Others, GivenOK
<1>29. ASSUME NEW t \in Terminals, releaseAgentSessionLock(t) PROVE GivenOK'
  BY <1>0, <1>29, releaseAgentSessionLockIs, IdleIs, JobHas, DiskHas DEF Gone, Others,
    GivenOK
<1>30. ASSUME NEW t \in Terminals, NEW what \in {"reparent", "template"},
  acquireReparentModeLock(t, what) PROVE GivenOK'
  <2>1. /\ UNCHANGED <<mode, kinds, run, records, intents, tmux, intent, active, head,
                       link, dirty>>
        /\ job' \in [Terminals -> JobType] /\ Others(t) /\ guard' = tokens'
        /\ guard # 0 => \A u \in Terminals : job[u].token # guard
        /\ Begun(t, what, Feature, FALSE, "reserved")
    BY <1>0, <1>30, acquireReparentModeLockIs
  <2>2. /\ tokens' # 0 /\ tokens' # guard /\ tokens' # active.token /\ tokens' # intent.token
        /\ \A u \in Terminals : job[u].token # tokens' /\ job[u].of.token # tokens'
    BY <1>0, <2>1, NextIsNew DEF Begun
  <2> QED
    BY <1>0, <2>1, <2>2, IdleIs, JobHas, DiskHas DEF Begun, Others, GivenOK
<1>31. ASSUME NEW t \in Terminals, openReparentRecovery(t) PROVE GivenOK'
  <2>1. /\ UNCHANGED <<mode, kinds, run, records, intents, tmux, intent, active, head,
                       link, dirty>>
        /\ job' \in [Terminals -> JobType] /\ Others(t) /\ guard' = tokens'
        /\ guard # 0 => \A u \in Terminals : job[u].token # guard
        /\ Begun(t, "reparent", Feature, FALSE, "reserved")
    BY <1>0, <1>31, openReparentRecoveryIs
  <2>2. /\ tokens' # 0 /\ tokens' # guard /\ tokens' # active.token /\ tokens' # intent.token
        /\ \A u \in Terminals : job[u].token # tokens' /\ job[u].of.token # tokens'
    BY <1>0, <2>1, NextIsNew DEF Begun
  <2> QED
    BY <1>0, <2>1, <2>2, IdleIs, JobHas, DiskHas DEF Begun, Others, GivenOK
<1>32. ASSUME NEW t \in Terminals, SessionIntentCleanup(t) PROVE GivenOK'
  BY <1>0, <1>32, SessionIntentCleanupIs, IdleIs, JobHas, DiskHas DEF Moved, Same,
    Others, GivenOK
<1>33. ASSUME NEW t \in Terminals, CleanupStaleCheckoutSessionIntent(t) PROVE GivenOK'
  BY <1>0, <1>33, CleanupStaleCheckoutSessionIntentIs, IdleIs, JobHas, DiskHas DEF
    Moved, Same, Others, GivenOK
<1>34. ASSUME NEW t \in Terminals, NoCleanup(t) PROVE GivenOK'
  BY <1>0, <1>34, NoCleanupIs, IdleIs, JobHas, DiskHas DEF Moved, Same, Others, GivenOK
<1>35. ASSUME NEW t \in Terminals, ProbeExternal(t) PROVE GivenOK'
  BY <1>0, <1>35, ProbeExternalIs, IdleIs, JobHas, DiskHas DEF Moved, Same, Others,
    GivenOK
<1>36. ASSUME NEW t \in Terminals, ProbeCheckout(t) PROVE GivenOK'
  BY <1>0, <1>36, ProbeCheckoutIs, IdleIs, JobHas, DiskHas DEF Moved, Same, Others,
    GivenOK
<1>37. ASSUME NEW t \in Terminals, Mutate(t) PROVE GivenOK'
  BY <1>0, <1>37, MutateIs, IdleIs, JobHas, DiskHas DEF Moved, Same, Others, GivenOK
<1>38. ASSUME NEW t \in Terminals, FinishMutation(t) PROVE GivenOK'
  BY <1>0, <1>38, FinishMutationIs, IdleIs, JobHas, DiskHas DEF Moved, Same, Others,
    GivenOK
<1>39. ASSUME NEW t \in Terminals, releaseReparentModeLock(t) PROVE GivenOK'
  BY <1>0, <1>39, releaseReparentModeLockIs, IdleIs, JobHas, DiskHas DEF Gone, Others,
    GivenOK
<1>40. ASSUME NEW t \in Terminals, Kill(t) PROVE GivenOK'
  BY <1>0, <1>40, KillIs, IdleIs, JobHas, DiskHas DEF Gone, Others, GivenOK
<1>41. ASSUME NEW name \in Branches, runExternalClose(name) PROVE GivenOK'
  BY <1>0, <1>41, runExternalCloseIs, IdleIs, JobHas, DiskHas DEF GivenOK, Names
<1>42. ASSUME NEW s \in tmux, TmuxEnds(s) PROVE GivenOK'
  BY <1>0, <1>42, TmuxEndsIs, IdleIs, JobHas, DiskHas DEF GivenOK
<1>43. ASSUME Person PROVE GivenOK'
  BY <1>0, <1>43, PersonIs, IdleIs, JobHas, DiskHas DEF GivenOK
<1> QED
  BY <1>1, <1>2, <1>3, <1>4, <1>5, <1>6, <1>7, <1>8, <1>9, <1>10, <1>11, <1>12, <1>13,
    <1>14, <1>15, <1>16, <1>17, <1>18, <1>19, <1>20, <1>21, <1>22, <1>23, <1>24, <1>25,
    <1>26, <1>27, <1>28, <1>29, <1>30, <1>31, <1>32, <1>33, <1>34, <1>35, <1>36, <1>37,
    <1>38, <1>39, <1>40, <1>41, <1>42, <1>43 DEF Next, Names

\* A mutation keeps its guard to the end.
LEMMA LabelsOKStep ==
  ASSUME SessionsInv, Next
  PROVE  LabelsOK'
<1>0. TypeOK /\ TokensOK /\ LabelsOK /\ UniqueOK
  BY DEF SessionsInv, TokensOK
<1>1. ASSUME NEW t \in Terminals, NEW name \in Names, NEW tm \in BOOLEAN, OpenAgent(t,
  name, tm) PROVE LabelsOK'
  BY <1>0, <1>1, OpenAgentIs, IdleIs, JobHas, NextIsNew DEF Begun, Others, LabelsOK,
    UniqueOK, ExternalLabels, CheckoutLabels, MutationLabels
<1>2. ASSUME NEW t \in Terminals, NEW name \in Names, NEW tm \in BOOLEAN, OpenCommand(t,
  name, tm) PROVE LabelsOK'
  BY <1>0, <1>2, OpenCommandIs, IdleIs, JobHas, NextIsNew DEF Begun, Others, LabelsOK,
    UniqueOK, ExternalLabels, CheckoutLabels, MutationLabels
<1>3. ASSUME NEW t \in Terminals, NEW name \in Names, NEW tm \in BOOLEAN,
  OpenCheckoutAgent(t, name, tm) PROVE LabelsOK'
  BY <1>0, <1>3, OpenCheckoutAgentIs, IdleIs, JobHas, NextIsNew DEF Begun, Others,
    LabelsOK, UniqueOK, ExternalLabels, CheckoutLabels, MutationLabels
<1>4. ASSUME NEW t \in Terminals, NEW name \in Names, NEW tm \in BOOLEAN,
  OpenCheckoutCommand(t, name, tm) PROVE LabelsOK'
  BY <1>0, <1>4, OpenCheckoutCommandIs, IdleIs, JobHas, NextIsNew DEF Begun, Others,
    LabelsOK, UniqueOK, ExternalLabels, CheckoutLabels, MutationLabels
<1>5. ASSUME NEW t \in Terminals, FinalGuard(t) PROVE LabelsOK'
  BY <1>0, <1>5, FinalGuardIs, IdleIs, JobHas DEF Moved, Same, Others, LabelsOK,
    UniqueOK, ExternalLabels, CheckoutLabels, MutationLabels
<1>6. ASSUME NEW t \in Terminals, RecordCommand(t) PROVE LabelsOK'
  BY <1>0, <1>6, RecordCommandIs, IdleIs, JobHas DEF Moved, Same, Others, LabelsOK,
    UniqueOK, ExternalLabels, CheckoutLabels, MutationLabels
<1>7. ASSUME NEW t \in Terminals, LaunchGuard(t) PROVE LabelsOK'
  BY <1>0, <1>7, LaunchGuardIs, IdleIs, JobHas DEF Moved, Same, Others, LabelsOK,
    UniqueOK, ExternalLabels, CheckoutLabels, MutationLabels
<1>8. ASSUME NEW t \in Terminals, Start(t) PROVE LabelsOK'
  BY <1>0, <1>8, StartIs, IdleIs, JobHas DEF Moved, Same, Others, LabelsOK, UniqueOK,
    ExternalLabels, CheckoutLabels, MutationLabels
<1>9. ASSUME NEW t \in Terminals, openWithTmux(t) PROVE LabelsOK'
  BY <1>0, <1>9, openWithTmuxIs, IdleIs, JobHas DEF Moved, Same, Others, LabelsOK,
    UniqueOK, ExternalLabels, CheckoutLabels, MutationLabels
<1>10. ASSUME NEW t \in Terminals, RunExternalTmuxCommand(t) PROVE LabelsOK'
  BY <1>0, <1>10, RunExternalTmuxCommandIs, IdleIs, JobHas DEF Moved, Same, Others,
    LabelsOK, UniqueOK, ExternalLabels, CheckoutLabels, MutationLabels
<1>11. ASSUME NEW t \in Terminals, Leave(t) PROVE LabelsOK'
  BY <1>0, <1>11, LeaveIs, IdleIs, JobHas DEF Moved, Same, Others, LabelsOK, UniqueOK,
    ExternalLabels, CheckoutLabels, MutationLabels
<1>12. ASSUME NEW t \in Terminals, RemoveOwnedExternalSessionIntent(t) PROVE LabelsOK'
  BY <1>0, <1>12, RemoveOwnedExternalSessionIntentIs, IdleIs, JobHas DEF Gone, Others,
    LabelsOK, UniqueOK, ExternalLabels, CheckoutLabels, MutationLabels
<1>13. ASSUME NEW t \in Terminals, MakeIntent(t) PROVE LabelsOK'
  BY <1>0, <1>13, MakeIntentIs, IdleIs, JobHas DEF Moved, Same, Gone, Others, LabelsOK,
    UniqueOK, ExternalLabels, CheckoutLabels, MutationLabels
<1>14. ASSUME NEW t \in Terminals, OwnIntent(t) PROVE LabelsOK'
  BY <1>0, <1>14, OwnIntentIs, IdleIs, JobHas DEF Moved, Same, Others, LabelsOK,
    UniqueOK, ExternalLabels, CheckoutLabels, MutationLabels
<1>15. ASSUME NEW t \in Terminals, WithCheckoutSessionLaunchIntent(t) PROVE LabelsOK'
  BY <1>0, <1>15, WithCheckoutSessionLaunchIntentIs, IdleIs, JobHas DEF Noted, Same,
    Others, LabelsOK, UniqueOK, ExternalLabels, CheckoutLabels, MutationLabels
<1>16. ASSUME NEW t \in Terminals, CheckSession(t) PROVE LabelsOK'
  BY <1>0, <1>16, CheckSessionIs, IdleIs, JobHas DEF Noted, Same, Others, LabelsOK,
    UniqueOK, ExternalLabels, CheckoutLabels, MutationLabels
<1>17. ASSUME NEW t \in Terminals, createCheckoutCommandState(t) PROVE LabelsOK'
  BY <1>0, <1>17, createCheckoutCommandStateIs, IdleIs, JobHas DEF Moved, Same, Gone,
    Others, LabelsOK, UniqueOK, ExternalLabels, CheckoutLabels, MutationLabels
<1>18. ASSUME NEW t \in Terminals, SwitchTo(t) PROVE LabelsOK'
  BY <1>0, <1>18, SwitchToIs, IdleIs, JobHas DEF Moved, Same, Undone, Others, LabelsOK,
    UniqueOK, ExternalLabels, CheckoutLabels, MutationLabels
<1>19. ASSUME NEW t \in Terminals, ApplyCheckoutSessionLinks(t) PROVE LabelsOK'
  BY <1>0, <1>19, ApplyCheckoutSessionLinksIs, IdleIs, JobHas DEF Moved, Same, Undone,
    Others, LabelsOK, UniqueOK, ExternalLabels, CheckoutLabels, MutationLabels
<1>20. ASSUME NEW t \in Terminals, OpenCheckoutTmux(t) PROVE LabelsOK'
  BY <1>0, <1>20, OpenCheckoutTmuxIs, IdleIs, JobHas DEF Moved, Same, Others, LabelsOK,
    UniqueOK, ExternalLabels, CheckoutLabels, MutationLabels
<1>21. ASSUME NEW t \in Terminals, runCheckoutTmuxCommand(t) PROVE LabelsOK'
  BY <1>0, <1>21, runCheckoutTmuxCommandIs, IdleIs, JobHas DEF Moved, Same, Gone,
    Others, LabelsOK, UniqueOK, ExternalLabels, CheckoutLabels, MutationLabels
<1>22. ASSUME NEW t \in Terminals, SaveCheckoutAgentSession(t) PROVE LabelsOK'
  BY <1>0, <1>22, SaveCheckoutAgentSessionIs, IdleIs, JobHas DEF Moved, Same, Others,
    LabelsOK, UniqueOK, ExternalLabels, CheckoutLabels, MutationLabels
<1>23. ASSUME NEW t \in Terminals, EndSession(t) PROVE LabelsOK'
  BY <1>0, <1>23, EndSessionIs, IdleIs, JobHas DEF Moved, Same, Gone, Others, LabelsOK,
    UniqueOK, ExternalLabels, CheckoutLabels, MutationLabels
<1>24. ASSUME NEW t \in Terminals, CloseCheckoutSession(t) PROVE LabelsOK'
  BY <1>0, <1>24, CloseCheckoutSessionIs, IdleIs, JobHas DEF Closes, Others, LabelsOK,
    UniqueOK, ExternalLabels, CheckoutLabels, MutationLabels
<1>25. ASSUME NEW t \in Terminals, closeCheckoutCommandSession(t) PROVE LabelsOK'
  BY <1>0, <1>25, closeCheckoutCommandSessionIs, IdleIs, JobHas DEF Closes, Others,
    LabelsOK, UniqueOK, ExternalLabels, CheckoutLabels, MutationLabels
<1>26. ASSUME NEW t \in Terminals, Unlink(t) PROVE LabelsOK'
  BY <1>0, <1>26, UnlinkIs, IdleIs, JobHas DEF Moved, Same, Gone, Others, LabelsOK,
    UniqueOK, ExternalLabels, CheckoutLabels, MutationLabels
<1>27. ASSUME NEW t \in Terminals, SwitchBack(t) PROVE LabelsOK'
  BY <1>0, <1>27, SwitchBackIs, IdleIs, JobHas DEF Moved, Same, Gone, Others, LabelsOK,
    UniqueOK, ExternalLabels, CheckoutLabels, MutationLabels
<1>28. ASSUME NEW t \in Terminals, finishCheckoutSession(t) PROVE LabelsOK'
  BY <1>0, <1>28, finishCheckoutSessionIs, IdleIs, JobHas DEF Moved, Same, Gone, Others,
    LabelsOK, UniqueOK, ExternalLabels, CheckoutLabels, MutationLabels
<1>29. ASSUME NEW t \in Terminals, releaseAgentSessionLock(t) PROVE LabelsOK'
  BY <1>0, <1>29, releaseAgentSessionLockIs, IdleIs, JobHas DEF Gone, Others, LabelsOK,
    UniqueOK, ExternalLabels, CheckoutLabels, MutationLabels
<1>30. ASSUME NEW t \in Terminals, NEW what \in {"reparent", "template"},
  acquireReparentModeLock(t, what) PROVE LabelsOK'
  <2>1. /\ UNCHANGED <<mode, kinds, run, records, intents, tmux, intent, active, head,
                       link, dirty>>
        /\ job' \in [Terminals -> JobType] /\ Others(t) /\ guard' = tokens'
        /\ guard # 0 => \A u \in Terminals : job[u].token # guard
        /\ Begun(t, what, Feature, FALSE, "reserved")
    BY <1>0, <1>30, acquireReparentModeLockIs
  <2>2. /\ tokens' # 0 /\ tokens' # guard /\ tokens' # active.token /\ tokens' # intent.token
        /\ \A u \in Terminals : job[u].token # tokens' /\ job[u].of.token # tokens'
    BY <1>0, <2>1, NextIsNew DEF Begun
  <2> QED
    BY <1>0, <2>1, <2>2, IdleIs, JobHas DEF Begun, Others, LabelsOK, UniqueOK,
      ExternalLabels, CheckoutLabels, MutationLabels
<1>31. ASSUME NEW t \in Terminals, openReparentRecovery(t) PROVE LabelsOK'
  <2>1. /\ UNCHANGED <<mode, kinds, run, records, intents, tmux, intent, active, head,
                       link, dirty>>
        /\ job' \in [Terminals -> JobType] /\ Others(t) /\ guard' = tokens'
        /\ guard # 0 => \A u \in Terminals : job[u].token # guard
        /\ Begun(t, "reparent", Feature, FALSE, "reserved")
    BY <1>0, <1>31, openReparentRecoveryIs
  <2>2. /\ tokens' # 0 /\ tokens' # guard /\ tokens' # active.token /\ tokens' # intent.token
        /\ \A u \in Terminals : job[u].token # tokens' /\ job[u].of.token # tokens'
    BY <1>0, <2>1, NextIsNew DEF Begun
  <2> QED
    BY <1>0, <2>1, <2>2, IdleIs, JobHas DEF Begun, Others, LabelsOK, UniqueOK,
      ExternalLabels, CheckoutLabels, MutationLabels
<1>32. ASSUME NEW t \in Terminals, SessionIntentCleanup(t) PROVE LabelsOK'
  BY <1>0, <1>32, SessionIntentCleanupIs, IdleIs, JobHas DEF Moved, Same, Others,
    LabelsOK, UniqueOK, ExternalLabels, CheckoutLabels, MutationLabels
<1>33. ASSUME NEW t \in Terminals, CleanupStaleCheckoutSessionIntent(t) PROVE LabelsOK'
  BY <1>0, <1>33, CleanupStaleCheckoutSessionIntentIs, IdleIs, JobHas DEF Moved, Same,
    Others, LabelsOK, UniqueOK, ExternalLabels, CheckoutLabels, MutationLabels
<1>34. ASSUME NEW t \in Terminals, NoCleanup(t) PROVE LabelsOK'
  BY <1>0, <1>34, NoCleanupIs, IdleIs, JobHas DEF Moved, Same, Others, LabelsOK,
    UniqueOK, ExternalLabels, CheckoutLabels, MutationLabels
<1>35. ASSUME NEW t \in Terminals, ProbeExternal(t) PROVE LabelsOK'
  BY <1>0, <1>35, ProbeExternalIs, IdleIs, JobHas DEF Moved, Same, Others, LabelsOK,
    UniqueOK, ExternalLabels, CheckoutLabels, MutationLabels
<1>36. ASSUME NEW t \in Terminals, ProbeCheckout(t) PROVE LabelsOK'
  BY <1>0, <1>36, ProbeCheckoutIs, IdleIs, JobHas DEF Moved, Same, Others, LabelsOK,
    UniqueOK, ExternalLabels, CheckoutLabels, MutationLabels
<1>37. ASSUME NEW t \in Terminals, Mutate(t) PROVE LabelsOK'
  BY <1>0, <1>37, MutateIs, IdleIs, JobHas DEF Moved, Same, Others, LabelsOK, UniqueOK,
    ExternalLabels, CheckoutLabels, MutationLabels
<1>38. ASSUME NEW t \in Terminals, FinishMutation(t) PROVE LabelsOK'
  BY <1>0, <1>38, FinishMutationIs, IdleIs, JobHas DEF Moved, Same, Others, LabelsOK,
    UniqueOK, ExternalLabels, CheckoutLabels, MutationLabels
<1>39. ASSUME NEW t \in Terminals, releaseReparentModeLock(t) PROVE LabelsOK'
  BY <1>0, <1>39, releaseReparentModeLockIs, IdleIs, JobHas DEF Gone, Others, LabelsOK,
    UniqueOK, ExternalLabels, CheckoutLabels, MutationLabels
<1>40. ASSUME NEW t \in Terminals, Kill(t) PROVE LabelsOK'
  BY <1>0, <1>40, KillIs, IdleIs, JobHas DEF Gone, Others, LabelsOK, UniqueOK,
    ExternalLabels, CheckoutLabels, MutationLabels
<1>41. ASSUME NEW name \in Branches, runExternalClose(name) PROVE LabelsOK'
  BY <1>0, <1>41, runExternalCloseIs, IdleIs, JobHas DEF LabelsOK, UniqueOK,
    ExternalLabels, CheckoutLabels, MutationLabels, Names
<1>42. ASSUME NEW s \in tmux, TmuxEnds(s) PROVE LabelsOK'
  BY <1>0, <1>42, TmuxEndsIs, IdleIs, JobHas DEF LabelsOK, UniqueOK, ExternalLabels,
    CheckoutLabels, MutationLabels
<1>43. ASSUME Person PROVE LabelsOK'
  BY <1>0, <1>43, PersonIs, IdleIs, JobHas DEF LabelsOK, UniqueOK, ExternalLabels,
    CheckoutLabels, MutationLabels
<1> QED
  BY <1>1, <1>2, <1>3, <1>4, <1>5, <1>6, <1>7, <1>8, <1>9, <1>10, <1>11, <1>12, <1>13,
    <1>14, <1>15, <1>16, <1>17, <1>18, <1>19, <1>20, <1>21, <1>22, <1>23, <1>24, <1>25,
    <1>26, <1>27, <1>28, <1>29, <1>30, <1>31, <1>32, <1>33, <1>34, <1>35, <1>36, <1>37,
    <1>38, <1>39, <1>40, <1>41, <1>42, <1>43 DEF Next, Names

\* Nobody but its owner takes an announcement away while its owner lives.
LEMMA AnnouncedOKStep ==
  ASSUME SessionsInv, Next
  PROVE  AnnouncedOK'
<1>0. TypeOK /\ TokensOK /\ LabelsOK /\ AnnouncedOK /\ UniqueOK
  BY DEF SessionsInv, TokensOK
<1>1. ASSUME NEW t \in Terminals, NEW name \in Names, NEW tm \in BOOLEAN, OpenAgent(t,
  name, tm) PROVE AnnouncedOK'
  BY <1>0, <1>1, OpenAgentIs, IdleIs, JobHas, NextIsNew DEF Begun, Others, LabelsOK,
    UniqueOK, AnnouncedOK, OnlyRecorded, RecordedToo, processAlive, ExternalLabels,
    CheckoutLabels, MutationLabels
<1>2. ASSUME NEW t \in Terminals, NEW name \in Names, NEW tm \in BOOLEAN, OpenCommand(t,
  name, tm) PROVE AnnouncedOK'
  BY <1>0, <1>2, OpenCommandIs, IdleIs, JobHas, NextIsNew DEF Begun, Others, LabelsOK,
    UniqueOK, AnnouncedOK, OnlyRecorded, RecordedToo, processAlive, ExternalLabels,
    CheckoutLabels, MutationLabels
<1>3. ASSUME NEW t \in Terminals, NEW name \in Names, NEW tm \in BOOLEAN,
  OpenCheckoutAgent(t, name, tm) PROVE AnnouncedOK'
  BY <1>0, <1>3, OpenCheckoutAgentIs, IdleIs, JobHas, NextIsNew DEF Begun, Others,
    LabelsOK, UniqueOK, AnnouncedOK, OnlyRecorded, RecordedToo, processAlive,
    ExternalLabels, CheckoutLabels, MutationLabels
<1>4. ASSUME NEW t \in Terminals, NEW name \in Names, NEW tm \in BOOLEAN,
  OpenCheckoutCommand(t, name, tm) PROVE AnnouncedOK'
  BY <1>0, <1>4, OpenCheckoutCommandIs, IdleIs, JobHas, NextIsNew DEF Begun, Others,
    LabelsOK, UniqueOK, AnnouncedOK, OnlyRecorded, RecordedToo, processAlive,
    ExternalLabels, CheckoutLabels, MutationLabels
<1>5. ASSUME NEW t \in Terminals, FinalGuard(t) PROVE AnnouncedOK'
  BY <1>0, <1>5, FinalGuardIs, IdleIs, JobHas DEF Moved, Same, Others, LabelsOK,
    UniqueOK, AnnouncedOK, OnlyRecorded, RecordedToo, processAlive, ExternalLabels,
    CheckoutLabels, MutationLabels
<1>6. ASSUME NEW t \in Terminals, RecordCommand(t) PROVE AnnouncedOK'
  BY <1>0, <1>6, RecordCommandIs, IdleIs, JobHas DEF Moved, Same, Others, LabelsOK,
    UniqueOK, AnnouncedOK, OnlyRecorded, RecordedToo, processAlive, ExternalLabels,
    CheckoutLabels, MutationLabels
<1>7. ASSUME NEW t \in Terminals, LaunchGuard(t) PROVE AnnouncedOK'
  BY <1>0, <1>7, LaunchGuardIs, IdleIs, JobHas DEF Moved, Same, Others, LabelsOK,
    UniqueOK, AnnouncedOK, OnlyRecorded, RecordedToo, processAlive, ExternalLabels,
    CheckoutLabels, MutationLabels
<1>8. ASSUME NEW t \in Terminals, Start(t) PROVE AnnouncedOK'
  BY <1>0, <1>8, StartIs, IdleIs, JobHas DEF Moved, Same, Others, LabelsOK, UniqueOK,
    AnnouncedOK, OnlyRecorded, RecordedToo, processAlive, ExternalLabels,
    CheckoutLabels, MutationLabels
<1>9. ASSUME NEW t \in Terminals, openWithTmux(t) PROVE AnnouncedOK'
  BY <1>0, <1>9, openWithTmuxIs, IdleIs, JobHas DEF Moved, Same, Others, LabelsOK,
    UniqueOK, AnnouncedOK, OnlyRecorded, RecordedToo, processAlive, ExternalLabels,
    CheckoutLabels, MutationLabels
<1>10. ASSUME NEW t \in Terminals, RunExternalTmuxCommand(t) PROVE AnnouncedOK'
  BY <1>0, <1>10, RunExternalTmuxCommandIs, IdleIs, JobHas DEF Moved, Same, Others,
    LabelsOK, UniqueOK, AnnouncedOK, OnlyRecorded, RecordedToo, processAlive,
    ExternalLabels, CheckoutLabels, MutationLabels
<1>11. ASSUME NEW t \in Terminals, Leave(t) PROVE AnnouncedOK'
  BY <1>0, <1>11, LeaveIs, IdleIs, JobHas DEF Moved, Same, Others, LabelsOK, UniqueOK,
    AnnouncedOK, OnlyRecorded, RecordedToo, processAlive, ExternalLabels,
    CheckoutLabels, MutationLabels
<1>12. ASSUME NEW t \in Terminals, RemoveOwnedExternalSessionIntent(t) PROVE
  AnnouncedOK'
  BY <1>0, <1>12, RemoveOwnedExternalSessionIntentIs, IdleIs, JobHas DEF Gone, Others,
    LabelsOK, UniqueOK, AnnouncedOK, OnlyRecorded, RecordedToo, processAlive,
    ExternalLabels, CheckoutLabels, MutationLabels
<1>13. ASSUME NEW t \in Terminals, MakeIntent(t) PROVE AnnouncedOK'
  BY <1>0, <1>13, MakeIntentIs, IdleIs, JobHas DEF Moved, Same, Gone, Others, LabelsOK,
    UniqueOK, AnnouncedOK, OnlyRecorded, RecordedToo, processAlive, ExternalLabels,
    CheckoutLabels, MutationLabels
<1>14. ASSUME NEW t \in Terminals, OwnIntent(t) PROVE AnnouncedOK'
  BY <1>0, <1>14, OwnIntentIs, IdleIs, JobHas DEF Moved, Same, Others, LabelsOK,
    UniqueOK, AnnouncedOK, OnlyRecorded, RecordedToo, processAlive, ExternalLabels,
    CheckoutLabels, MutationLabels
<1>15. ASSUME NEW t \in Terminals, WithCheckoutSessionLaunchIntent(t) PROVE AnnouncedOK'
  BY <1>0, <1>15, WithCheckoutSessionLaunchIntentIs, IdleIs, JobHas DEF Noted, Same,
    Others, LabelsOK, UniqueOK, AnnouncedOK, OnlyRecorded, RecordedToo, processAlive,
    ExternalLabels, CheckoutLabels, MutationLabels
<1>16. ASSUME NEW t \in Terminals, CheckSession(t) PROVE AnnouncedOK'
  BY <1>0, <1>16, CheckSessionIs, IdleIs, JobHas DEF Noted, Same, Others, LabelsOK,
    UniqueOK, AnnouncedOK, OnlyRecorded, RecordedToo, processAlive, ExternalLabels,
    CheckoutLabels, MutationLabels
<1>17. ASSUME NEW t \in Terminals, createCheckoutCommandState(t) PROVE AnnouncedOK'
  BY <1>0, <1>17, createCheckoutCommandStateIs, IdleIs, JobHas DEF Moved, Same, Gone,
    Others, LabelsOK, UniqueOK, AnnouncedOK, OnlyRecorded, RecordedToo, processAlive,
    ExternalLabels, CheckoutLabels, MutationLabels
<1>18. ASSUME NEW t \in Terminals, SwitchTo(t) PROVE AnnouncedOK'
  BY <1>0, <1>18, SwitchToIs, IdleIs, JobHas DEF Moved, Same, Undone, Others, LabelsOK,
    UniqueOK, AnnouncedOK, OnlyRecorded, RecordedToo, processAlive, ExternalLabels,
    CheckoutLabels, MutationLabels
<1>19. ASSUME NEW t \in Terminals, ApplyCheckoutSessionLinks(t) PROVE AnnouncedOK'
  BY <1>0, <1>19, ApplyCheckoutSessionLinksIs, IdleIs, JobHas DEF Moved, Same, Undone,
    Others, LabelsOK, UniqueOK, AnnouncedOK, OnlyRecorded, RecordedToo, processAlive,
    ExternalLabels, CheckoutLabels, MutationLabels
<1>20. ASSUME NEW t \in Terminals, OpenCheckoutTmux(t) PROVE AnnouncedOK'
  BY <1>0, <1>20, OpenCheckoutTmuxIs, IdleIs, JobHas DEF Moved, Same, Others, LabelsOK,
    UniqueOK, AnnouncedOK, OnlyRecorded, RecordedToo, processAlive, ExternalLabels,
    CheckoutLabels, MutationLabels
<1>21. ASSUME NEW t \in Terminals, runCheckoutTmuxCommand(t) PROVE AnnouncedOK'
  BY <1>0, <1>21, runCheckoutTmuxCommandIs, IdleIs, JobHas DEF Moved, Same, Gone,
    Others, LabelsOK, UniqueOK, AnnouncedOK, OnlyRecorded, RecordedToo, processAlive,
    ExternalLabels, CheckoutLabels, MutationLabels
<1>22. ASSUME NEW t \in Terminals, SaveCheckoutAgentSession(t) PROVE AnnouncedOK'
  BY <1>0, <1>22, SaveCheckoutAgentSessionIs, IdleIs, JobHas DEF Moved, Same, Others,
    LabelsOK, UniqueOK, AnnouncedOK, OnlyRecorded, RecordedToo, processAlive,
    ExternalLabels, CheckoutLabels, MutationLabels
<1>23. ASSUME NEW t \in Terminals, EndSession(t) PROVE AnnouncedOK'
  BY <1>0, <1>23, EndSessionIs, IdleIs, JobHas DEF Moved, Same, Gone, Others, LabelsOK,
    UniqueOK, AnnouncedOK, OnlyRecorded, RecordedToo, processAlive, ExternalLabels,
    CheckoutLabels, MutationLabels
<1>24. ASSUME NEW t \in Terminals, CloseCheckoutSession(t) PROVE AnnouncedOK'
  BY <1>0, <1>24, CloseCheckoutSessionIs, IdleIs, JobHas DEF Closes, Others, LabelsOK,
    UniqueOK, AnnouncedOK, OnlyRecorded, RecordedToo, processAlive, ExternalLabels,
    CheckoutLabels, MutationLabels
<1>25. ASSUME NEW t \in Terminals, closeCheckoutCommandSession(t) PROVE AnnouncedOK'
  BY <1>0, <1>25, closeCheckoutCommandSessionIs, IdleIs, JobHas DEF Closes, Others,
    LabelsOK, UniqueOK, AnnouncedOK, OnlyRecorded, RecordedToo, processAlive,
    ExternalLabels, CheckoutLabels, MutationLabels
<1>26. ASSUME NEW t \in Terminals, Unlink(t) PROVE AnnouncedOK'
  BY <1>0, <1>26, UnlinkIs, IdleIs, JobHas DEF Moved, Same, Gone, Others, LabelsOK,
    UniqueOK, AnnouncedOK, OnlyRecorded, RecordedToo, processAlive, ExternalLabels,
    CheckoutLabels, MutationLabels
<1>27. ASSUME NEW t \in Terminals, SwitchBack(t) PROVE AnnouncedOK'
  BY <1>0, <1>27, SwitchBackIs, IdleIs, JobHas DEF Moved, Same, Gone, Others, LabelsOK,
    UniqueOK, AnnouncedOK, OnlyRecorded, RecordedToo, processAlive, ExternalLabels,
    CheckoutLabels, MutationLabels
<1>28. ASSUME NEW t \in Terminals, finishCheckoutSession(t) PROVE AnnouncedOK'
  BY <1>0, <1>28, finishCheckoutSessionIs, IdleIs, JobHas DEF Moved, Same, Gone, Others,
    LabelsOK, UniqueOK, AnnouncedOK, OnlyRecorded, RecordedToo, processAlive,
    ExternalLabels, CheckoutLabels, MutationLabels
<1>29. ASSUME NEW t \in Terminals, releaseAgentSessionLock(t) PROVE AnnouncedOK'
  BY <1>0, <1>29, releaseAgentSessionLockIs, IdleIs, JobHas DEF Gone, Others, LabelsOK,
    UniqueOK, AnnouncedOK, OnlyRecorded, RecordedToo, processAlive, ExternalLabels,
    CheckoutLabels, MutationLabels
<1>30. ASSUME NEW t \in Terminals, NEW what \in {"reparent", "template"},
  acquireReparentModeLock(t, what) PROVE AnnouncedOK'
  <2>1. /\ UNCHANGED <<mode, kinds, run, records, intents, tmux, intent, active, head,
                       link, dirty>>
        /\ job' \in [Terminals -> JobType] /\ Others(t) /\ guard' = tokens'
        /\ guard # 0 => \A u \in Terminals : job[u].token # guard
        /\ Begun(t, what, Feature, FALSE, "reserved")
    BY <1>0, <1>30, acquireReparentModeLockIs
  <2>2. /\ tokens' # 0 /\ tokens' # guard /\ tokens' # active.token /\ tokens' # intent.token
        /\ \A u \in Terminals : job[u].token # tokens' /\ job[u].of.token # tokens'
    BY <1>0, <2>1, NextIsNew DEF Begun
  <2> QED
    BY <1>0, <2>1, <2>2, IdleIs, JobHas DEF Begun, Others, LabelsOK, UniqueOK,
      AnnouncedOK, OnlyRecorded, RecordedToo, processAlive, ExternalLabels,
      CheckoutLabels, MutationLabels
<1>31. ASSUME NEW t \in Terminals, openReparentRecovery(t) PROVE AnnouncedOK'
  <2>1. /\ UNCHANGED <<mode, kinds, run, records, intents, tmux, intent, active, head,
                       link, dirty>>
        /\ job' \in [Terminals -> JobType] /\ Others(t) /\ guard' = tokens'
        /\ guard # 0 => \A u \in Terminals : job[u].token # guard
        /\ Begun(t, "reparent", Feature, FALSE, "reserved")
    BY <1>0, <1>31, openReparentRecoveryIs
  <2>2. /\ tokens' # 0 /\ tokens' # guard /\ tokens' # active.token /\ tokens' # intent.token
        /\ \A u \in Terminals : job[u].token # tokens' /\ job[u].of.token # tokens'
    BY <1>0, <2>1, NextIsNew DEF Begun
  <2> QED
    BY <1>0, <2>1, <2>2, IdleIs, JobHas DEF Begun, Others, LabelsOK, UniqueOK,
      AnnouncedOK, OnlyRecorded, RecordedToo, processAlive, ExternalLabels,
      CheckoutLabels, MutationLabels
<1>32. ASSUME NEW t \in Terminals, SessionIntentCleanup(t) PROVE AnnouncedOK'
  BY <1>0, <1>32, SessionIntentCleanupIs, IdleIs, JobHas DEF Moved, Same, Others,
    LabelsOK, UniqueOK, AnnouncedOK, OnlyRecorded, RecordedToo, processAlive,
    ExternalLabels, CheckoutLabels, MutationLabels, Stale
<1>33. ASSUME NEW t \in Terminals, CleanupStaleCheckoutSessionIntent(t) PROVE
  AnnouncedOK'
  BY <1>0, <1>33, CleanupStaleCheckoutSessionIntentIs, IdleIs, JobHas DEF Moved, Same,
    Others, LabelsOK, UniqueOK, AnnouncedOK, OnlyRecorded, RecordedToo, processAlive,
    ExternalLabels, CheckoutLabels, MutationLabels
<1>34. ASSUME NEW t \in Terminals, NoCleanup(t) PROVE AnnouncedOK'
  BY <1>0, <1>34, NoCleanupIs, IdleIs, JobHas DEF Moved, Same, Others, LabelsOK,
    UniqueOK, AnnouncedOK, OnlyRecorded, RecordedToo, processAlive, ExternalLabels,
    CheckoutLabels, MutationLabels
<1>35. ASSUME NEW t \in Terminals, ProbeExternal(t) PROVE AnnouncedOK'
  BY <1>0, <1>35, ProbeExternalIs, IdleIs, JobHas DEF Moved, Same, Others, LabelsOK,
    UniqueOK, AnnouncedOK, OnlyRecorded, RecordedToo, processAlive, ExternalLabels,
    CheckoutLabels, MutationLabels
<1>36. ASSUME NEW t \in Terminals, ProbeCheckout(t) PROVE AnnouncedOK'
  BY <1>0, <1>36, ProbeCheckoutIs, IdleIs, JobHas DEF Moved, Same, Others, LabelsOK,
    UniqueOK, AnnouncedOK, OnlyRecorded, RecordedToo, processAlive, ExternalLabels,
    CheckoutLabels, MutationLabels
<1>37. ASSUME NEW t \in Terminals, Mutate(t) PROVE AnnouncedOK'
  BY <1>0, <1>37, MutateIs, IdleIs, JobHas DEF Moved, Same, Others, LabelsOK, UniqueOK,
    AnnouncedOK, OnlyRecorded, RecordedToo, processAlive, ExternalLabels,
    CheckoutLabels, MutationLabels
<1>38. ASSUME NEW t \in Terminals, FinishMutation(t) PROVE AnnouncedOK'
  BY <1>0, <1>38, FinishMutationIs, IdleIs, JobHas DEF Moved, Same, Others, LabelsOK,
    UniqueOK, AnnouncedOK, OnlyRecorded, RecordedToo, processAlive, ExternalLabels,
    CheckoutLabels, MutationLabels
<1>39. ASSUME NEW t \in Terminals, releaseReparentModeLock(t) PROVE AnnouncedOK'
  BY <1>0, <1>39, releaseReparentModeLockIs, IdleIs, JobHas DEF Gone, Others, LabelsOK,
    UniqueOK, AnnouncedOK, OnlyRecorded, RecordedToo, processAlive, ExternalLabels,
    CheckoutLabels, MutationLabels
<1>40. ASSUME NEW t \in Terminals, Kill(t) PROVE AnnouncedOK'
  BY <1>0, <1>40, KillIs, IdleIs, JobHas DEF Gone, Others, LabelsOK, UniqueOK,
    AnnouncedOK, OnlyRecorded, RecordedToo, processAlive, ExternalLabels,
    CheckoutLabels, MutationLabels
<1>41. ASSUME NEW name \in Branches, runExternalClose(name) PROVE AnnouncedOK'
  BY <1>0, <1>41, runExternalCloseIs, IdleIs, JobHas DEF LabelsOK, UniqueOK,
    AnnouncedOK, OnlyRecorded, RecordedToo, processAlive, ExternalLabels,
    CheckoutLabels, MutationLabels, Names
<1>42. ASSUME NEW s \in tmux, TmuxEnds(s) PROVE AnnouncedOK'
  BY <1>0, <1>42, TmuxEndsIs, IdleIs, JobHas DEF LabelsOK, UniqueOK, AnnouncedOK,
    OnlyRecorded, RecordedToo, processAlive, ExternalLabels, CheckoutLabels,
    MutationLabels
<1>43. ASSUME Person PROVE AnnouncedOK'
  BY <1>0, <1>43, PersonIs, IdleIs, JobHas DEF LabelsOK, UniqueOK, AnnouncedOK,
    OnlyRecorded, RecordedToo, processAlive, ExternalLabels, CheckoutLabels,
    MutationLabels
<1> QED
  BY <1>1, <1>2, <1>3, <1>4, <1>5, <1>6, <1>7, <1>8, <1>9, <1>10, <1>11, <1>12, <1>13,
    <1>14, <1>15, <1>16, <1>17, <1>18, <1>19, <1>20, <1>21, <1>22, <1>23, <1>24, <1>25,
    <1>26, <1>27, <1>28, <1>29, <1>30, <1>31, <1>32, <1>33, <1>34, <1>35, <1>36, <1>37,
    <1>38, <1>39, <1>40, <1>41, <1>42, <1>43 DEF Next, Names

\* Nobody comes in behind the look of a mutation.
LEMMA ProbedOKStep ==
  ASSUME SessionsInv, Next
  PROVE  ProbedOK'
<1>0. TypeOK /\ TokensOK /\ LabelsOK /\ AnnouncedOK /\ ProbedOK /\ UniqueOK
  BY DEF SessionsInv, TokensOK
<1>1. ASSUME NEW t \in Terminals, NEW name \in Names, NEW tm \in BOOLEAN, OpenAgent(t,
  name, tm) PROVE ProbedOK'
  BY <1>0, <1>1, OpenAgentIs, IdleIs, JobHas, NextIsNew DEF Begun, Others, LabelsOK,
    UniqueOK, AnnouncedOK, ProbedOK, Inside, OnlyRecorded, RecordedToo, processAlive,
    ExternalLabels, CheckoutLabels, MutationLabels
<1>2. ASSUME NEW t \in Terminals, NEW name \in Names, NEW tm \in BOOLEAN, OpenCommand(t,
  name, tm) PROVE ProbedOK'
  BY <1>0, <1>2, OpenCommandIs, IdleIs, JobHas, NextIsNew DEF Begun, Others, LabelsOK,
    UniqueOK, AnnouncedOK, ProbedOK, Inside, OnlyRecorded, RecordedToo, processAlive,
    ExternalLabels, CheckoutLabels, MutationLabels
<1>3. ASSUME NEW t \in Terminals, NEW name \in Names, NEW tm \in BOOLEAN,
  OpenCheckoutAgent(t, name, tm) PROVE ProbedOK'
  BY <1>0, <1>3, OpenCheckoutAgentIs, IdleIs, JobHas, NextIsNew DEF Begun, Others,
    LabelsOK, UniqueOK, AnnouncedOK, ProbedOK, Inside, OnlyRecorded, RecordedToo,
    processAlive, ExternalLabels, CheckoutLabels, MutationLabels
<1>4. ASSUME NEW t \in Terminals, NEW name \in Names, NEW tm \in BOOLEAN,
  OpenCheckoutCommand(t, name, tm) PROVE ProbedOK'
  BY <1>0, <1>4, OpenCheckoutCommandIs, IdleIs, JobHas, NextIsNew DEF Begun, Others,
    LabelsOK, UniqueOK, AnnouncedOK, ProbedOK, Inside, OnlyRecorded, RecordedToo,
    processAlive, ExternalLabels, CheckoutLabels, MutationLabels
<1>5. ASSUME NEW t \in Terminals, FinalGuard(t) PROVE ProbedOK'
  BY <1>0, <1>5, FinalGuardIs, IdleIs, JobHas DEF Moved, Same, Others, LabelsOK,
    UniqueOK, AnnouncedOK, ProbedOK, Inside, OnlyRecorded, RecordedToo, processAlive,
    ExternalLabels, CheckoutLabels, MutationLabels
<1>6. ASSUME NEW t \in Terminals, RecordCommand(t) PROVE ProbedOK'
  BY <1>0, <1>6, RecordCommandIs, IdleIs, JobHas DEF Moved, Same, Others, LabelsOK,
    UniqueOK, AnnouncedOK, ProbedOK, Inside, OnlyRecorded, RecordedToo, processAlive,
    ExternalLabels, CheckoutLabels, MutationLabels
<1>7. ASSUME NEW t \in Terminals, LaunchGuard(t) PROVE ProbedOK'
  BY <1>0, <1>7, LaunchGuardIs, IdleIs, JobHas DEF Moved, Same, Others, LabelsOK,
    UniqueOK, AnnouncedOK, ProbedOK, Inside, OnlyRecorded, RecordedToo, processAlive,
    ExternalLabels, CheckoutLabels, MutationLabels
<1>8. ASSUME NEW t \in Terminals, Start(t) PROVE ProbedOK'
  BY <1>0, <1>8, StartIs, IdleIs, JobHas DEF Moved, Same, Others, LabelsOK, UniqueOK,
    AnnouncedOK, ProbedOK, Inside, OnlyRecorded, RecordedToo, processAlive,
    ExternalLabels, CheckoutLabels, MutationLabels
<1>9. ASSUME NEW t \in Terminals, openWithTmux(t) PROVE ProbedOK'
  BY <1>0, <1>9, openWithTmuxIs, IdleIs, JobHas DEF Moved, Same, Others, LabelsOK,
    UniqueOK, AnnouncedOK, ProbedOK, Inside, OnlyRecorded, RecordedToo, processAlive,
    ExternalLabels, CheckoutLabels, MutationLabels
<1>10. ASSUME NEW t \in Terminals, RunExternalTmuxCommand(t) PROVE ProbedOK'
  BY <1>0, <1>10, RunExternalTmuxCommandIs, IdleIs, JobHas DEF Moved, Same, Others,
    LabelsOK, UniqueOK, AnnouncedOK, ProbedOK, Inside, OnlyRecorded, RecordedToo,
    processAlive, ExternalLabels, CheckoutLabels, MutationLabels
<1>11. ASSUME NEW t \in Terminals, Leave(t) PROVE ProbedOK'
  BY <1>0, <1>11, LeaveIs, IdleIs, JobHas DEF Moved, Same, Others, LabelsOK, UniqueOK,
    AnnouncedOK, ProbedOK, Inside, OnlyRecorded, RecordedToo, processAlive,
    ExternalLabels, CheckoutLabels, MutationLabels
<1>12. ASSUME NEW t \in Terminals, RemoveOwnedExternalSessionIntent(t) PROVE ProbedOK'
  BY <1>0, <1>12, RemoveOwnedExternalSessionIntentIs, IdleIs, JobHas DEF Gone, Others,
    LabelsOK, UniqueOK, AnnouncedOK, ProbedOK, Inside, OnlyRecorded, RecordedToo,
    processAlive, ExternalLabels, CheckoutLabels, MutationLabels
<1>13. ASSUME NEW t \in Terminals, MakeIntent(t) PROVE ProbedOK'
  BY <1>0, <1>13, MakeIntentIs, IdleIs, JobHas DEF Moved, Same, Gone, Others, LabelsOK,
    UniqueOK, AnnouncedOK, ProbedOK, Inside, OnlyRecorded, RecordedToo, processAlive,
    ExternalLabels, CheckoutLabels, MutationLabels
<1>14. ASSUME NEW t \in Terminals, OwnIntent(t) PROVE ProbedOK'
  BY <1>0, <1>14, OwnIntentIs, IdleIs, JobHas DEF Moved, Same, Others, LabelsOK,
    UniqueOK, AnnouncedOK, ProbedOK, Inside, OnlyRecorded, RecordedToo, processAlive,
    ExternalLabels, CheckoutLabels, MutationLabels
<1>15. ASSUME NEW t \in Terminals, WithCheckoutSessionLaunchIntent(t) PROVE ProbedOK'
  BY <1>0, <1>15, WithCheckoutSessionLaunchIntentIs, IdleIs, JobHas DEF Noted, Same,
    Others, LabelsOK, UniqueOK, AnnouncedOK, ProbedOK, Inside, OnlyRecorded,
    RecordedToo, processAlive, ExternalLabels, CheckoutLabels, MutationLabels
<1>16. ASSUME NEW t \in Terminals, CheckSession(t) PROVE ProbedOK'
  BY <1>0, <1>16, CheckSessionIs, IdleIs, JobHas DEF Noted, Same, Others, LabelsOK,
    UniqueOK, AnnouncedOK, ProbedOK, Inside, OnlyRecorded, RecordedToo, processAlive,
    ExternalLabels, CheckoutLabels, MutationLabels
<1>17. ASSUME NEW t \in Terminals, createCheckoutCommandState(t) PROVE ProbedOK'
  BY <1>0, <1>17, createCheckoutCommandStateIs, IdleIs, JobHas DEF Moved, Same, Gone,
    Others, LabelsOK, UniqueOK, AnnouncedOK, ProbedOK, Inside, OnlyRecorded,
    RecordedToo, processAlive, ExternalLabels, CheckoutLabels, MutationLabels
<1>18. ASSUME NEW t \in Terminals, SwitchTo(t) PROVE ProbedOK'
  BY <1>0, <1>18, SwitchToIs, IdleIs, JobHas DEF Moved, Same, Undone, Others, LabelsOK,
    UniqueOK, AnnouncedOK, ProbedOK, Inside, OnlyRecorded, RecordedToo, processAlive,
    ExternalLabels, CheckoutLabels, MutationLabels
<1>19. ASSUME NEW t \in Terminals, ApplyCheckoutSessionLinks(t) PROVE ProbedOK'
  BY <1>0, <1>19, ApplyCheckoutSessionLinksIs, IdleIs, JobHas DEF Moved, Same, Undone,
    Others, LabelsOK, UniqueOK, AnnouncedOK, ProbedOK, Inside, OnlyRecorded,
    RecordedToo, processAlive, ExternalLabels, CheckoutLabels, MutationLabels
<1>20. ASSUME NEW t \in Terminals, OpenCheckoutTmux(t) PROVE ProbedOK'
  BY <1>0, <1>20, OpenCheckoutTmuxIs, IdleIs, JobHas DEF Moved, Same, Others, LabelsOK,
    UniqueOK, AnnouncedOK, ProbedOK, Inside, OnlyRecorded, RecordedToo, processAlive,
    ExternalLabels, CheckoutLabels, MutationLabels
<1>21. ASSUME NEW t \in Terminals, runCheckoutTmuxCommand(t) PROVE ProbedOK'
  BY <1>0, <1>21, runCheckoutTmuxCommandIs, IdleIs, JobHas DEF Moved, Same, Gone,
    Others, LabelsOK, UniqueOK, AnnouncedOK, ProbedOK, Inside, OnlyRecorded,
    RecordedToo, processAlive, ExternalLabels, CheckoutLabels, MutationLabels
<1>22. ASSUME NEW t \in Terminals, SaveCheckoutAgentSession(t) PROVE ProbedOK'
  BY <1>0, <1>22, SaveCheckoutAgentSessionIs, IdleIs, JobHas DEF Moved, Same, Others,
    LabelsOK, UniqueOK, AnnouncedOK, ProbedOK, Inside, OnlyRecorded, RecordedToo,
    processAlive, ExternalLabels, CheckoutLabels, MutationLabels
<1>23. ASSUME NEW t \in Terminals, EndSession(t) PROVE ProbedOK'
  BY <1>0, <1>23, EndSessionIs, IdleIs, JobHas DEF Moved, Same, Gone, Others, LabelsOK,
    UniqueOK, AnnouncedOK, ProbedOK, Inside, OnlyRecorded, RecordedToo, processAlive,
    ExternalLabels, CheckoutLabels, MutationLabels
<1>24. ASSUME NEW t \in Terminals, CloseCheckoutSession(t) PROVE ProbedOK'
  BY <1>0, <1>24, CloseCheckoutSessionIs, IdleIs, JobHas DEF Closes, Others, LabelsOK,
    UniqueOK, AnnouncedOK, ProbedOK, Inside, OnlyRecorded, RecordedToo, processAlive,
    ExternalLabels, CheckoutLabels, MutationLabels
<1>25. ASSUME NEW t \in Terminals, closeCheckoutCommandSession(t) PROVE ProbedOK'
  BY <1>0, <1>25, closeCheckoutCommandSessionIs, IdleIs, JobHas DEF Closes, Others,
    LabelsOK, UniqueOK, AnnouncedOK, ProbedOK, Inside, OnlyRecorded, RecordedToo,
    processAlive, ExternalLabels, CheckoutLabels, MutationLabels
<1>26. ASSUME NEW t \in Terminals, Unlink(t) PROVE ProbedOK'
  BY <1>0, <1>26, UnlinkIs, IdleIs, JobHas DEF Moved, Same, Gone, Others, LabelsOK,
    UniqueOK, AnnouncedOK, ProbedOK, Inside, OnlyRecorded, RecordedToo, processAlive,
    ExternalLabels, CheckoutLabels, MutationLabels
<1>27. ASSUME NEW t \in Terminals, SwitchBack(t) PROVE ProbedOK'
  BY <1>0, <1>27, SwitchBackIs, IdleIs, JobHas DEF Moved, Same, Gone, Others, LabelsOK,
    UniqueOK, AnnouncedOK, ProbedOK, Inside, OnlyRecorded, RecordedToo, processAlive,
    ExternalLabels, CheckoutLabels, MutationLabels
<1>28. ASSUME NEW t \in Terminals, finishCheckoutSession(t) PROVE ProbedOK'
  BY <1>0, <1>28, finishCheckoutSessionIs, IdleIs, JobHas DEF Moved, Same, Gone, Others,
    LabelsOK, UniqueOK, AnnouncedOK, ProbedOK, Inside, OnlyRecorded, RecordedToo,
    processAlive, ExternalLabels, CheckoutLabels, MutationLabels
<1>29. ASSUME NEW t \in Terminals, releaseAgentSessionLock(t) PROVE ProbedOK'
  BY <1>0, <1>29, releaseAgentSessionLockIs, IdleIs, JobHas DEF Gone, Others, LabelsOK,
    UniqueOK, AnnouncedOK, ProbedOK, Inside, OnlyRecorded, RecordedToo, processAlive,
    ExternalLabels, CheckoutLabels, MutationLabels
<1>30. ASSUME NEW t \in Terminals, NEW what \in {"reparent", "template"},
  acquireReparentModeLock(t, what) PROVE ProbedOK'
  <2>1. /\ UNCHANGED <<mode, kinds, run, records, intents, tmux, intent, active, head,
                       link, dirty>>
        /\ job' \in [Terminals -> JobType] /\ Others(t) /\ guard' = tokens'
        /\ guard # 0 => \A u \in Terminals : job[u].token # guard
        /\ Begun(t, what, Feature, FALSE, "reserved")
    BY <1>0, <1>30, acquireReparentModeLockIs
  <2>2. /\ tokens' # 0 /\ tokens' # guard /\ tokens' # active.token /\ tokens' # intent.token
        /\ \A u \in Terminals : job[u].token # tokens' /\ job[u].of.token # tokens'
    BY <1>0, <2>1, NextIsNew DEF Begun
  <2> QED
    BY <1>0, <2>1, <2>2, IdleIs, JobHas DEF Begun, Others, LabelsOK, UniqueOK,
      AnnouncedOK, ProbedOK, Inside, OnlyRecorded, RecordedToo, processAlive,
      ExternalLabels, CheckoutLabels, MutationLabels
<1>31. ASSUME NEW t \in Terminals, openReparentRecovery(t) PROVE ProbedOK'
  <2>1. /\ UNCHANGED <<mode, kinds, run, records, intents, tmux, intent, active, head,
                       link, dirty>>
        /\ job' \in [Terminals -> JobType] /\ Others(t) /\ guard' = tokens'
        /\ guard # 0 => \A u \in Terminals : job[u].token # guard
        /\ Begun(t, "reparent", Feature, FALSE, "reserved")
    BY <1>0, <1>31, openReparentRecoveryIs
  <2>2. /\ tokens' # 0 /\ tokens' # guard /\ tokens' # active.token /\ tokens' # intent.token
        /\ \A u \in Terminals : job[u].token # tokens' /\ job[u].of.token # tokens'
    BY <1>0, <2>1, NextIsNew DEF Begun
  <2> QED
    BY <1>0, <2>1, <2>2, IdleIs, JobHas DEF Begun, Others, LabelsOK, UniqueOK,
      AnnouncedOK, ProbedOK, Inside, OnlyRecorded, RecordedToo, processAlive,
      ExternalLabels, CheckoutLabels, MutationLabels
<1>32. ASSUME NEW t \in Terminals, SessionIntentCleanup(t) PROVE ProbedOK'
  BY <1>0, <1>32, SessionIntentCleanupIs, IdleIs, JobHas DEF Moved, Same, Others,
    LabelsOK, UniqueOK, AnnouncedOK, ProbedOK, Inside, OnlyRecorded, RecordedToo,
    processAlive, ExternalLabels, CheckoutLabels, MutationLabels
<1>33. ASSUME NEW t \in Terminals, CleanupStaleCheckoutSessionIntent(t) PROVE ProbedOK'
  BY <1>0, <1>33, CleanupStaleCheckoutSessionIntentIs, IdleIs, JobHas DEF Moved, Same,
    Others, LabelsOK, UniqueOK, AnnouncedOK, ProbedOK, Inside, OnlyRecorded,
    RecordedToo, processAlive, ExternalLabels, CheckoutLabels, MutationLabels
<1>34. ASSUME NEW t \in Terminals, NoCleanup(t) PROVE ProbedOK'
  BY <1>0, <1>34, NoCleanupIs, IdleIs, JobHas DEF Moved, Same, Others, LabelsOK,
    UniqueOK, AnnouncedOK, ProbedOK, Inside, OnlyRecorded, RecordedToo, processAlive,
    ExternalLabels, CheckoutLabels, MutationLabels
<1>35. ASSUME NEW t \in Terminals, ProbeExternal(t) PROVE ProbedOK'
  <2>1. /\ UNCHANGED <<mode, kinds, guard, run, records, intents, tmux, intent, active,
                       head, link, dirty, tokens>>
        /\ job' \in [Terminals -> JobType] /\ Others(t)
        /\ mode = "external"
        /\ \/ job[t].pc = "probe" /\ (Moved(t, "unlock") \/ (~Blocking(records)
                /\ Moved(t, "probe2")))
           \/ job[t].pc = "probe2" /\ (Moved(t, "unlock") \/ (~Blocking(intents)
                /\ Moved(t, "probe3")))
           \/ /\ job[t].pc = "probe3"
              /\ Moved(t, "unlock") \/ ((\A s \in tmux : ~applies(s[1]))
                   /\ Moved(t, "admitted"))
    BY <1>0, <1>35, ProbeExternalIs
  <2>2. \A u \in Inside' : u \in Inside /\ job'[u] = job[u] /\ u # t
    BY <1>0, <2>1 DEF Inside, Moved, Others, ExternalLabels
  <2>3. \A u \in Inside : <<job[u].token, job[u].name>> \in
          (IF OnlyRecorded(job[u]) THEN records ELSE intents)
    BY <1>0, <2>1 DEF Inside, AnnouncedOK, ExternalLabels
  <2>4. CASE ~Blocking(records) /\ Moved(t, "probe2")
    <3>1. \A u \in Inside : OnlyRecorded(job[u]) => ~applies(job[u].name)
      BY <2>3, <2>4 DEF Blocking, processAlive, Inside
    <3> QED
      BY <1>0, <2>1, <2>2, <2>4, <3>1 DEF ProbedOK, Moved, Others, LabelsOK, UniqueOK,
        MutationLabels
  <2>5. CASE job[t].pc = "probe2" /\ ~Blocking(intents) /\ Moved(t, "probe3")
    <3>1. \A u \in Inside : ~OnlyRecorded(job[u]) => ~applies(job[u].name)
      BY <2>3, <2>5 DEF Blocking, processAlive, Inside
    <3> QED
      BY <1>0, <2>1, <2>2, <2>5, <3>1 DEF ProbedOK, Moved, Others, LabelsOK, UniqueOK,
        MutationLabels
  <2>6. CASE job[t].pc = "probe3" /\ (\A s \in tmux : ~applies(s[1])) /\ Moved(t, "admitted")
    BY <1>0, <2>1, <2>2, <2>6 DEF ProbedOK, Moved, Others, LabelsOK, UniqueOK,
      MutationLabels
  <2>7. CASE Moved(t, "unlock")
    BY <1>0, <2>1, <2>2, <2>7 DEF ProbedOK, Moved, Others
  <2> QED
    BY <2>1, <2>4, <2>5, <2>6, <2>7
<1>36. ASSUME NEW t \in Terminals, ProbeCheckout(t) PROVE ProbedOK'
  BY <1>0, <1>36, ProbeCheckoutIs, IdleIs, JobHas DEF Moved, Same, Others, LabelsOK,
    UniqueOK, AnnouncedOK, ProbedOK, Inside, OnlyRecorded, RecordedToo, processAlive,
    ExternalLabels, CheckoutLabels, MutationLabels
<1>37. ASSUME NEW t \in Terminals, Mutate(t) PROVE ProbedOK'
  BY <1>0, <1>37, MutateIs, IdleIs, JobHas DEF Moved, Same, Others, LabelsOK, UniqueOK,
    AnnouncedOK, ProbedOK, Inside, OnlyRecorded, RecordedToo, processAlive,
    ExternalLabels, CheckoutLabels, MutationLabels
<1>38. ASSUME NEW t \in Terminals, FinishMutation(t) PROVE ProbedOK'
  BY <1>0, <1>38, FinishMutationIs, IdleIs, JobHas DEF Moved, Same, Others, LabelsOK,
    UniqueOK, AnnouncedOK, ProbedOK, Inside, OnlyRecorded, RecordedToo, processAlive,
    ExternalLabels, CheckoutLabels, MutationLabels
<1>39. ASSUME NEW t \in Terminals, releaseReparentModeLock(t) PROVE ProbedOK'
  BY <1>0, <1>39, releaseReparentModeLockIs, IdleIs, JobHas DEF Gone, Others, LabelsOK,
    UniqueOK, AnnouncedOK, ProbedOK, Inside, OnlyRecorded, RecordedToo, processAlive,
    ExternalLabels, CheckoutLabels, MutationLabels
<1>40. ASSUME NEW t \in Terminals, Kill(t) PROVE ProbedOK'
  BY <1>0, <1>40, KillIs, IdleIs, JobHas DEF Gone, Others, LabelsOK, UniqueOK,
    AnnouncedOK, ProbedOK, Inside, OnlyRecorded, RecordedToo, processAlive,
    ExternalLabels, CheckoutLabels, MutationLabels
<1>41. ASSUME NEW name \in Branches, runExternalClose(name) PROVE ProbedOK'
  BY <1>0, <1>41, runExternalCloseIs, IdleIs, JobHas DEF LabelsOK, UniqueOK,
    AnnouncedOK, ProbedOK, Inside, OnlyRecorded, RecordedToo, processAlive,
    ExternalLabels, CheckoutLabels, MutationLabels, Names
<1>42. ASSUME NEW s \in tmux, TmuxEnds(s) PROVE ProbedOK'
  BY <1>0, <1>42, TmuxEndsIs, IdleIs, JobHas DEF LabelsOK, UniqueOK, AnnouncedOK,
    ProbedOK, Inside, OnlyRecorded, RecordedToo, processAlive, ExternalLabels,
    CheckoutLabels, MutationLabels
<1>43. ASSUME Person PROVE ProbedOK'
  BY <1>0, <1>43, PersonIs, IdleIs, JobHas DEF LabelsOK, UniqueOK, AnnouncedOK,
    ProbedOK, Inside, OnlyRecorded, RecordedToo, processAlive, ExternalLabels,
    CheckoutLabels, MutationLabels
<1> QED
  BY <1>1, <1>2, <1>3, <1>4, <1>5, <1>6, <1>7, <1>8, <1>9, <1>10, <1>11, <1>12, <1>13,
    <1>14, <1>15, <1>16, <1>17, <1>18, <1>19, <1>20, <1>21, <1>22, <1>23, <1>24, <1>25,
    <1>26, <1>27, <1>28, <1>29, <1>30, <1>31, <1>32, <1>33, <1>34, <1>35, <1>36, <1>37,
    <1>38, <1>39, <1>40, <1>41, <1>42, <1>43 DEF Next, Names

\* Nobody takes the intent of a launcher that needs it.
LEMMA IntentOKStep ==
  ASSUME SessionsInv, Next
  PROVE  IntentOK'
<1>0. TypeOK /\ TokensOK /\ LabelsOK /\ IntentOK /\ OwnOK /\ CloserOK /\ UniqueOK
  BY DEF SessionsInv, TokensOK
<1>1. ASSUME NEW t \in Terminals, NEW name \in Names, NEW tm \in BOOLEAN, OpenAgent(t,
  name, tm) PROVE IntentOK'
  BY <1>0, <1>1, OpenAgentIs, IdleIs, JobHas, NextIsNew DEF Begun, Others, LabelsOK,
    UniqueOK, IntentOK, OwnOK, CloserOK, Over, Tenants, At, Closing, processAlive,
    DeadIntent, ExternalLabels, CheckoutLabels, MutationLabels
<1>2. ASSUME NEW t \in Terminals, NEW name \in Names, NEW tm \in BOOLEAN, OpenCommand(t,
  name, tm) PROVE IntentOK'
  BY <1>0, <1>2, OpenCommandIs, IdleIs, JobHas, NextIsNew DEF Begun, Others, LabelsOK,
    UniqueOK, IntentOK, OwnOK, CloserOK, Over, Tenants, At, Closing, processAlive,
    DeadIntent, ExternalLabels, CheckoutLabels, MutationLabels
<1>3. ASSUME NEW t \in Terminals, NEW name \in Names, NEW tm \in BOOLEAN,
  OpenCheckoutAgent(t, name, tm) PROVE IntentOK'
  BY <1>0, <1>3, OpenCheckoutAgentIs, IdleIs, JobHas, NextIsNew DEF Begun, Others,
    LabelsOK, UniqueOK, IntentOK, OwnOK, CloserOK, Over, Tenants, At, Closing,
    processAlive, DeadIntent, ExternalLabels, CheckoutLabels, MutationLabels
<1>4. ASSUME NEW t \in Terminals, NEW name \in Names, NEW tm \in BOOLEAN,
  OpenCheckoutCommand(t, name, tm) PROVE IntentOK'
  BY <1>0, <1>4, OpenCheckoutCommandIs, IdleIs, JobHas, NextIsNew DEF Begun, Others,
    LabelsOK, UniqueOK, IntentOK, OwnOK, CloserOK, Over, Tenants, At, Closing,
    processAlive, DeadIntent, ExternalLabels, CheckoutLabels, MutationLabels
<1>5. ASSUME NEW t \in Terminals, FinalGuard(t) PROVE IntentOK'
  BY <1>0, <1>5, FinalGuardIs, IdleIs, JobHas DEF Moved, Same, Others, LabelsOK,
    UniqueOK, IntentOK, OwnOK, CloserOK, Over, Tenants, At, Closing, processAlive,
    DeadIntent, ExternalLabels, CheckoutLabels, MutationLabels
<1>6. ASSUME NEW t \in Terminals, RecordCommand(t) PROVE IntentOK'
  BY <1>0, <1>6, RecordCommandIs, IdleIs, JobHas DEF Moved, Same, Others, LabelsOK,
    UniqueOK, IntentOK, OwnOK, CloserOK, Over, Tenants, At, Closing, processAlive,
    DeadIntent, ExternalLabels, CheckoutLabels, MutationLabels
<1>7. ASSUME NEW t \in Terminals, LaunchGuard(t) PROVE IntentOK'
  BY <1>0, <1>7, LaunchGuardIs, IdleIs, JobHas DEF Moved, Same, Others, LabelsOK,
    UniqueOK, IntentOK, OwnOK, CloserOK, Over, Tenants, At, Closing, processAlive,
    DeadIntent, ExternalLabels, CheckoutLabels, MutationLabels
<1>8. ASSUME NEW t \in Terminals, Start(t) PROVE IntentOK'
  BY <1>0, <1>8, StartIs, IdleIs, JobHas DEF Moved, Same, Others, LabelsOK, UniqueOK,
    IntentOK, OwnOK, CloserOK, Over, Tenants, At, Closing, processAlive, DeadIntent,
    ExternalLabels, CheckoutLabels, MutationLabels
<1>9. ASSUME NEW t \in Terminals, openWithTmux(t) PROVE IntentOK'
  BY <1>0, <1>9, openWithTmuxIs, IdleIs, JobHas DEF Moved, Same, Others, LabelsOK,
    UniqueOK, IntentOK, OwnOK, CloserOK, Over, Tenants, At, Closing, processAlive,
    DeadIntent, ExternalLabels, CheckoutLabels, MutationLabels
<1>10. ASSUME NEW t \in Terminals, RunExternalTmuxCommand(t) PROVE IntentOK'
  BY <1>0, <1>10, RunExternalTmuxCommandIs, IdleIs, JobHas DEF Moved, Same, Others,
    LabelsOK, UniqueOK, IntentOK, OwnOK, CloserOK, Over, Tenants, At, Closing,
    processAlive, DeadIntent, ExternalLabels, CheckoutLabels, MutationLabels
<1>11. ASSUME NEW t \in Terminals, Leave(t) PROVE IntentOK'
  BY <1>0, <1>11, LeaveIs, IdleIs, JobHas DEF Moved, Same, Others, LabelsOK, UniqueOK,
    IntentOK, OwnOK, CloserOK, Over, Tenants, At, Closing, processAlive, DeadIntent,
    ExternalLabels, CheckoutLabels, MutationLabels
<1>12. ASSUME NEW t \in Terminals, RemoveOwnedExternalSessionIntent(t) PROVE IntentOK'
  BY <1>0, <1>12, RemoveOwnedExternalSessionIntentIs, IdleIs, JobHas DEF Gone, Others,
    LabelsOK, UniqueOK, IntentOK, OwnOK, CloserOK, Over, Tenants, At, Closing,
    processAlive, DeadIntent, ExternalLabels, CheckoutLabels, MutationLabels
<1>13. ASSUME NEW t \in Terminals, MakeIntent(t) PROVE IntentOK'
  BY <1>0, <1>13, MakeIntentIs, IdleIs, JobHas DEF Moved, Same, Gone, Others, LabelsOK,
    UniqueOK, IntentOK, OwnOK, CloserOK, Over, Tenants, At, Closing, processAlive,
    DeadIntent, ExternalLabels, CheckoutLabels, MutationLabels
<1>14. ASSUME NEW t \in Terminals, OwnIntent(t) PROVE IntentOK'
  <2>1. /\ UNCHANGED <<mode, kinds, guard, run, records, intents, tmux, active, head,
                       link, dirty, tokens>>
        /\ job' \in [Terminals -> JobType] /\ Others(t)
        /\ job[t].pc = "made" /\ Moved(t, "intended")
        /\ intent' = [intent EXCEPT !.owned = TRUE]
    BY <1>0, <1>14, OwnIntentIs
  <2>2. mode = "checkout"
    BY <1>0, <2>1, DiskHas DEF LabelsOK, ExternalLabels, MutationLabels
  <2>3. intent = [token |-> job[t].token, owned |-> FALSE]
    BY <1>0, <2>1, <2>2 DEF IntentOK
  <2>4. intent' = [token |-> job[t].token, owned |-> TRUE]
    BY <2>1, <2>3
  <2>5. \A u \in Terminals : u # t /\ mode = "checkout" => job[u].pc \notin {"made",
        "intended"} /\ u \notin Tenants
    <3> SUFFICES ASSUME NEW u \in Terminals, u # t, mode = "checkout",
                        job[u].pc \in {"made", "intended"} \/ u \in Tenants
                 PROVE  FALSE
      OBVIOUS
    <3>1. intent.token = job[u].token /\ intent.token = job[t].token /\ intent.owned = FALSE
      BY <1>0, <2>3 DEF IntentOK
    <3>2. job[t].token # 0
      BY <1>0, <2>1 DEF LabelsOK
    <3> QED
      BY <1>0, <3>1, <3>2 DEF UniqueOK
  <2> QED
    BY <1>0, <2>1, <2>4, <2>5 DEF Moved, Same, Others, IntentOK, Tenants, At
<1>15. ASSUME NEW t \in Terminals, WithCheckoutSessionLaunchIntent(t) PROVE IntentOK'
  BY <1>0, <1>15, WithCheckoutSessionLaunchIntentIs, IdleIs, JobHas DEF Noted, Same,
    Others, LabelsOK, UniqueOK, IntentOK, OwnOK, CloserOK, Over, Tenants, At, Closing,
    processAlive, DeadIntent, ExternalLabels, CheckoutLabels, MutationLabels
<1>16. ASSUME NEW t \in Terminals, CheckSession(t) PROVE IntentOK'
  BY <1>0, <1>16, CheckSessionIs, IdleIs, JobHas DEF Noted, Same, Others, LabelsOK,
    UniqueOK, IntentOK, OwnOK, CloserOK, Over, Tenants, At, Closing, processAlive,
    DeadIntent, ExternalLabels, CheckoutLabels, MutationLabels
<1>17. ASSUME NEW t \in Terminals, createCheckoutCommandState(t) PROVE IntentOK'
  BY <1>0, <1>17, createCheckoutCommandStateIs, IdleIs, JobHas DEF Moved, Same, Gone,
    Others, LabelsOK, UniqueOK, IntentOK, OwnOK, CloserOK, Over, Tenants, At, Closing,
    processAlive, DeadIntent, ExternalLabels, CheckoutLabels, MutationLabels
<1>18. ASSUME NEW t \in Terminals, SwitchTo(t) PROVE IntentOK'
  BY <1>0, <1>18, SwitchToIs, IdleIs, JobHas DEF Moved, Same, Undone, Others, LabelsOK,
    UniqueOK, IntentOK, OwnOK, CloserOK, Over, Tenants, At, Closing, processAlive,
    DeadIntent, ExternalLabels, CheckoutLabels, MutationLabels
<1>19. ASSUME NEW t \in Terminals, ApplyCheckoutSessionLinks(t) PROVE IntentOK'
  BY <1>0, <1>19, ApplyCheckoutSessionLinksIs, IdleIs, JobHas DEF Moved, Same, Undone,
    Others, LabelsOK, UniqueOK, IntentOK, OwnOK, CloserOK, Over, Tenants, At, Closing,
    processAlive, DeadIntent, ExternalLabels, CheckoutLabels, MutationLabels
<1>20. ASSUME NEW t \in Terminals, OpenCheckoutTmux(t) PROVE IntentOK'
  BY <1>0, <1>20, OpenCheckoutTmuxIs, IdleIs, JobHas DEF Moved, Same, Others, LabelsOK,
    UniqueOK, IntentOK, OwnOK, CloserOK, Over, Tenants, At, Closing, processAlive,
    DeadIntent, ExternalLabels, CheckoutLabels, MutationLabels
<1>21. ASSUME NEW t \in Terminals, runCheckoutTmuxCommand(t) PROVE IntentOK'
  BY <1>0, <1>21, runCheckoutTmuxCommandIs, IdleIs, JobHas DEF Moved, Same, Gone,
    Others, LabelsOK, UniqueOK, IntentOK, OwnOK, CloserOK, Over, Tenants, At, Closing,
    processAlive, DeadIntent, ExternalLabels, CheckoutLabels, MutationLabels
<1>22. ASSUME NEW t \in Terminals, SaveCheckoutAgentSession(t) PROVE IntentOK'
  BY <1>0, <1>22, SaveCheckoutAgentSessionIs, IdleIs, JobHas DEF Moved, Same, Others,
    LabelsOK, UniqueOK, IntentOK, OwnOK, CloserOK, Over, Tenants, At, Closing,
    processAlive, DeadIntent, ExternalLabels, CheckoutLabels, MutationLabels
<1>23. ASSUME NEW t \in Terminals, EndSession(t) PROVE IntentOK'
  BY <1>0, <1>23, EndSessionIs, IdleIs, JobHas DEF Moved, Same, Gone, Others, LabelsOK,
    UniqueOK, IntentOK, OwnOK, CloserOK, Over, Tenants, At, Closing, processAlive,
    DeadIntent, ExternalLabels, CheckoutLabels, MutationLabels
<1>24. ASSUME NEW t \in Terminals, CloseCheckoutSession(t) PROVE IntentOK'
  BY <1>0, <1>24, CloseCheckoutSessionIs, IdleIs, JobHas DEF Closes, Others, LabelsOK,
    UniqueOK, IntentOK, OwnOK, CloserOK, Over, Tenants, At, Closing, processAlive,
    DeadIntent, ExternalLabels, CheckoutLabels, MutationLabels
<1>25. ASSUME NEW t \in Terminals, closeCheckoutCommandSession(t) PROVE IntentOK'
  BY <1>0, <1>25, closeCheckoutCommandSessionIs, IdleIs, JobHas DEF Closes, Others,
    LabelsOK, UniqueOK, IntentOK, OwnOK, CloserOK, Over, Tenants, At, Closing,
    processAlive, DeadIntent, ExternalLabels, CheckoutLabels, MutationLabels
<1>26. ASSUME NEW t \in Terminals, Unlink(t) PROVE IntentOK'
  BY <1>0, <1>26, UnlinkIs, IdleIs, JobHas DEF Moved, Same, Gone, Others, LabelsOK,
    UniqueOK, IntentOK, OwnOK, CloserOK, Over, Tenants, At, Closing, processAlive,
    DeadIntent, ExternalLabels, CheckoutLabels, MutationLabels
<1>27. ASSUME NEW t \in Terminals, SwitchBack(t) PROVE IntentOK'
  BY <1>0, <1>27, SwitchBackIs, IdleIs, JobHas DEF Moved, Same, Gone, Others, LabelsOK,
    UniqueOK, IntentOK, OwnOK, CloserOK, Over, Tenants, At, Closing, processAlive,
    DeadIntent, ExternalLabels, CheckoutLabels, MutationLabels
<1>28. ASSUME NEW t \in Terminals, finishCheckoutSession(t) PROVE IntentOK'
  BY <1>0, <1>28, finishCheckoutSessionIs, IdleIs, JobHas DEF Moved, Same, Gone, Others,
    LabelsOK, UniqueOK, IntentOK, OwnOK, CloserOK, Over, Tenants, At, Closing,
    processAlive, DeadIntent, ExternalLabels, CheckoutLabels, MutationLabels
<1>29. ASSUME NEW t \in Terminals, releaseAgentSessionLock(t) PROVE IntentOK'
  BY <1>0, <1>29, releaseAgentSessionLockIs, IdleIs, JobHas DEF Gone, Others, LabelsOK,
    UniqueOK, IntentOK, OwnOK, CloserOK, Over, Tenants, At, Closing, processAlive,
    DeadIntent, ExternalLabels, CheckoutLabels, MutationLabels
<1>30. ASSUME NEW t \in Terminals, NEW what \in {"reparent", "template"},
  acquireReparentModeLock(t, what) PROVE IntentOK'
  <2>1. /\ UNCHANGED <<mode, kinds, run, records, intents, tmux, intent, active, head,
                       link, dirty>>
        /\ job' \in [Terminals -> JobType] /\ Others(t) /\ guard' = tokens'
        /\ guard # 0 => \A u \in Terminals : job[u].token # guard
        /\ Begun(t, what, Feature, FALSE, "reserved")
    BY <1>0, <1>30, acquireReparentModeLockIs
  <2>2. /\ tokens' # 0 /\ tokens' # guard /\ tokens' # active.token /\ tokens' # intent.token
        /\ \A u \in Terminals : job[u].token # tokens' /\ job[u].of.token # tokens'
    BY <1>0, <2>1, NextIsNew DEF Begun
  <2> QED
    BY <1>0, <2>1, <2>2, IdleIs, JobHas DEF Begun, Others, LabelsOK, UniqueOK, IntentOK,
      OwnOK, CloserOK, Over, Tenants, At, Closing, processAlive, DeadIntent,
      ExternalLabels, CheckoutLabels, MutationLabels
<1>31. ASSUME NEW t \in Terminals, openReparentRecovery(t) PROVE IntentOK'
  <2>1. /\ UNCHANGED <<mode, kinds, run, records, intents, tmux, intent, active, head,
                       link, dirty>>
        /\ job' \in [Terminals -> JobType] /\ Others(t) /\ guard' = tokens'
        /\ guard # 0 => \A u \in Terminals : job[u].token # guard
        /\ Begun(t, "reparent", Feature, FALSE, "reserved")
    BY <1>0, <1>31, openReparentRecoveryIs
  <2>2. /\ tokens' # 0 /\ tokens' # guard /\ tokens' # active.token /\ tokens' # intent.token
        /\ \A u \in Terminals : job[u].token # tokens' /\ job[u].of.token # tokens'
    BY <1>0, <2>1, NextIsNew DEF Begun
  <2> QED
    BY <1>0, <2>1, <2>2, IdleIs, JobHas DEF Begun, Others, LabelsOK, UniqueOK, IntentOK,
      OwnOK, CloserOK, Over, Tenants, At, Closing, processAlive, DeadIntent,
      ExternalLabels, CheckoutLabels, MutationLabels
<1>32. ASSUME NEW t \in Terminals, SessionIntentCleanup(t) PROVE IntentOK'
  BY <1>0, <1>32, SessionIntentCleanupIs, IdleIs, JobHas DEF Moved, Same, Others,
    LabelsOK, UniqueOK, IntentOK, OwnOK, CloserOK, Over, Tenants, At, Closing,
    processAlive, DeadIntent, ExternalLabels, CheckoutLabels, MutationLabels
<1>33. ASSUME NEW t \in Terminals, CleanupStaleCheckoutSessionIntent(t) PROVE IntentOK'
  BY <1>0, <1>33, CleanupStaleCheckoutSessionIntentIs, IdleIs, JobHas DEF Moved, Same,
    Others, LabelsOK, UniqueOK, IntentOK, OwnOK, CloserOK, Over, Tenants, At, Closing,
    processAlive, DeadIntent, ExternalLabels, CheckoutLabels, MutationLabels
<1>34. ASSUME NEW t \in Terminals, NoCleanup(t) PROVE IntentOK'
  BY <1>0, <1>34, NoCleanupIs, IdleIs, JobHas DEF Moved, Same, Others, LabelsOK,
    UniqueOK, IntentOK, OwnOK, CloserOK, Over, Tenants, At, Closing, processAlive,
    DeadIntent, ExternalLabels, CheckoutLabels, MutationLabels
<1>35. ASSUME NEW t \in Terminals, ProbeExternal(t) PROVE IntentOK'
  BY <1>0, <1>35, ProbeExternalIs, IdleIs, JobHas DEF Moved, Same, Others, LabelsOK,
    UniqueOK, IntentOK, OwnOK, CloserOK, Over, Tenants, At, Closing, processAlive,
    DeadIntent, ExternalLabels, CheckoutLabels, MutationLabels
<1>36. ASSUME NEW t \in Terminals, ProbeCheckout(t) PROVE IntentOK'
  BY <1>0, <1>36, ProbeCheckoutIs, IdleIs, JobHas DEF Moved, Same, Others, LabelsOK,
    UniqueOK, IntentOK, OwnOK, CloserOK, Over, Tenants, At, Closing, processAlive,
    DeadIntent, ExternalLabels, CheckoutLabels, MutationLabels
<1>37. ASSUME NEW t \in Terminals, Mutate(t) PROVE IntentOK'
  BY <1>0, <1>37, MutateIs, IdleIs, JobHas DEF Moved, Same, Others, LabelsOK, UniqueOK,
    IntentOK, OwnOK, CloserOK, Over, Tenants, At, Closing, processAlive, DeadIntent,
    ExternalLabels, CheckoutLabels, MutationLabels
<1>38. ASSUME NEW t \in Terminals, FinishMutation(t) PROVE IntentOK'
  BY <1>0, <1>38, FinishMutationIs, IdleIs, JobHas DEF Moved, Same, Others, LabelsOK,
    UniqueOK, IntentOK, OwnOK, CloserOK, Over, Tenants, At, Closing, processAlive,
    DeadIntent, ExternalLabels, CheckoutLabels, MutationLabels
<1>39. ASSUME NEW t \in Terminals, releaseReparentModeLock(t) PROVE IntentOK'
  BY <1>0, <1>39, releaseReparentModeLockIs, IdleIs, JobHas DEF Gone, Others, LabelsOK,
    UniqueOK, IntentOK, OwnOK, CloserOK, Over, Tenants, At, Closing, processAlive,
    DeadIntent, ExternalLabels, CheckoutLabels, MutationLabels
<1>40. ASSUME NEW t \in Terminals, Kill(t) PROVE IntentOK'
  BY <1>0, <1>40, KillIs, IdleIs, JobHas DEF Gone, Others, LabelsOK, UniqueOK, IntentOK,
    OwnOK, CloserOK, Over, Tenants, At, Closing, processAlive, DeadIntent,
    ExternalLabels, CheckoutLabels, MutationLabels
<1>41. ASSUME NEW name \in Branches, runExternalClose(name) PROVE IntentOK'
  BY <1>0, <1>41, runExternalCloseIs, IdleIs, JobHas DEF LabelsOK, UniqueOK, IntentOK,
    OwnOK, CloserOK, Over, Tenants, At, Closing, processAlive, DeadIntent,
    ExternalLabels, CheckoutLabels, MutationLabels, Names
<1>42. ASSUME NEW s \in tmux, TmuxEnds(s) PROVE IntentOK'
  BY <1>0, <1>42, TmuxEndsIs, IdleIs, JobHas DEF LabelsOK, UniqueOK, IntentOK, OwnOK,
    CloserOK, Over, Tenants, At, Closing, processAlive, DeadIntent, ExternalLabels,
    CheckoutLabels, MutationLabels
<1>43. ASSUME Person PROVE IntentOK'
  BY <1>0, <1>43, PersonIs, IdleIs, JobHas DEF LabelsOK, UniqueOK, IntentOK, OwnOK,
    CloserOK, Over, Tenants, At, Closing, processAlive, DeadIntent, ExternalLabels,
    CheckoutLabels, MutationLabels
<1> QED
  BY <1>1, <1>2, <1>3, <1>4, <1>5, <1>6, <1>7, <1>8, <1>9, <1>10, <1>11, <1>12, <1>13,
    <1>14, <1>15, <1>16, <1>17, <1>18, <1>19, <1>20, <1>21, <1>22, <1>23, <1>24, <1>25,
    <1>26, <1>27, <1>28, <1>29, <1>30, <1>31, <1>32, <1>33, <1>34, <1>35, <1>36, <1>37,
    <1>38, <1>39, <1>40, <1>41, <1>42, <1>43 DEF Next, Names

\* A launcher closes its own session.
LEMMA OwnOKStep ==
  ASSUME SessionsInv, Next
  PROVE  OwnOK'
<1>0. TypeOK /\ TokensOK /\ LabelsOK /\ OwnOK /\ UniqueOK
  BY DEF SessionsInv, TokensOK
<1>1. ASSUME NEW t \in Terminals, NEW name \in Names, NEW tm \in BOOLEAN, OpenAgent(t,
  name, tm) PROVE OwnOK'
  BY <1>0, <1>1, OpenAgentIs, IdleIs, JobHas, NextIsNew DEF Begun, Others, LabelsOK,
    UniqueOK, OwnOK, Closing, Session, ExternalLabels, CheckoutLabels, MutationLabels
<1>2. ASSUME NEW t \in Terminals, NEW name \in Names, NEW tm \in BOOLEAN, OpenCommand(t,
  name, tm) PROVE OwnOK'
  BY <1>0, <1>2, OpenCommandIs, IdleIs, JobHas, NextIsNew DEF Begun, Others, LabelsOK,
    UniqueOK, OwnOK, Closing, Session, ExternalLabels, CheckoutLabels, MutationLabels
<1>3. ASSUME NEW t \in Terminals, NEW name \in Names, NEW tm \in BOOLEAN,
  OpenCheckoutAgent(t, name, tm) PROVE OwnOK'
  BY <1>0, <1>3, OpenCheckoutAgentIs, IdleIs, JobHas, NextIsNew DEF Begun, Others,
    LabelsOK, UniqueOK, OwnOK, Closing, Session, ExternalLabels, CheckoutLabels,
    MutationLabels
<1>4. ASSUME NEW t \in Terminals, NEW name \in Names, NEW tm \in BOOLEAN,
  OpenCheckoutCommand(t, name, tm) PROVE OwnOK'
  BY <1>0, <1>4, OpenCheckoutCommandIs, IdleIs, JobHas, NextIsNew DEF Begun, Others,
    LabelsOK, UniqueOK, OwnOK, Closing, Session, ExternalLabels, CheckoutLabels,
    MutationLabels
<1>5. ASSUME NEW t \in Terminals, FinalGuard(t) PROVE OwnOK'
  BY <1>0, <1>5, FinalGuardIs, IdleIs, JobHas DEF Moved, Same, Others, LabelsOK,
    UniqueOK, OwnOK, Closing, Session, ExternalLabels, CheckoutLabels, MutationLabels
<1>6. ASSUME NEW t \in Terminals, RecordCommand(t) PROVE OwnOK'
  BY <1>0, <1>6, RecordCommandIs, IdleIs, JobHas DEF Moved, Same, Others, LabelsOK,
    UniqueOK, OwnOK, Closing, Session, ExternalLabels, CheckoutLabels, MutationLabels
<1>7. ASSUME NEW t \in Terminals, LaunchGuard(t) PROVE OwnOK'
  BY <1>0, <1>7, LaunchGuardIs, IdleIs, JobHas DEF Moved, Same, Others, LabelsOK,
    UniqueOK, OwnOK, Closing, Session, ExternalLabels, CheckoutLabels, MutationLabels
<1>8. ASSUME NEW t \in Terminals, Start(t) PROVE OwnOK'
  BY <1>0, <1>8, StartIs, IdleIs, JobHas DEF Moved, Same, Others, LabelsOK, UniqueOK,
    OwnOK, Closing, Session, ExternalLabels, CheckoutLabels, MutationLabels
<1>9. ASSUME NEW t \in Terminals, openWithTmux(t) PROVE OwnOK'
  BY <1>0, <1>9, openWithTmuxIs, IdleIs, JobHas DEF Moved, Same, Others, LabelsOK,
    UniqueOK, OwnOK, Closing, Session, ExternalLabels, CheckoutLabels, MutationLabels
<1>10. ASSUME NEW t \in Terminals, RunExternalTmuxCommand(t) PROVE OwnOK'
  BY <1>0, <1>10, RunExternalTmuxCommandIs, IdleIs, JobHas DEF Moved, Same, Others,
    LabelsOK, UniqueOK, OwnOK, Closing, Session, ExternalLabels, CheckoutLabels,
    MutationLabels
<1>11. ASSUME NEW t \in Terminals, Leave(t) PROVE OwnOK'
  BY <1>0, <1>11, LeaveIs, IdleIs, JobHas DEF Moved, Same, Others, LabelsOK, UniqueOK,
    OwnOK, Closing, Session, ExternalLabels, CheckoutLabels, MutationLabels
<1>12. ASSUME NEW t \in Terminals, RemoveOwnedExternalSessionIntent(t) PROVE OwnOK'
  BY <1>0, <1>12, RemoveOwnedExternalSessionIntentIs, IdleIs, JobHas DEF Gone, Others,
    LabelsOK, UniqueOK, OwnOK, Closing, Session, ExternalLabels, CheckoutLabels,
    MutationLabels
<1>13. ASSUME NEW t \in Terminals, MakeIntent(t) PROVE OwnOK'
  BY <1>0, <1>13, MakeIntentIs, IdleIs, JobHas DEF Moved, Same, Gone, Others, LabelsOK,
    UniqueOK, OwnOK, Closing, Session, ExternalLabels, CheckoutLabels, MutationLabels
<1>14. ASSUME NEW t \in Terminals, OwnIntent(t) PROVE OwnOK'
  BY <1>0, <1>14, OwnIntentIs, IdleIs, JobHas DEF Moved, Same, Others, LabelsOK,
    UniqueOK, OwnOK, Closing, Session, ExternalLabels, CheckoutLabels, MutationLabels
<1>15. ASSUME NEW t \in Terminals, WithCheckoutSessionLaunchIntent(t) PROVE OwnOK'
  BY <1>0, <1>15, WithCheckoutSessionLaunchIntentIs, IdleIs, JobHas DEF Noted, Same,
    Others, LabelsOK, UniqueOK, OwnOK, Closing, Session, ExternalLabels, CheckoutLabels,
    MutationLabels
<1>16. ASSUME NEW t \in Terminals, CheckSession(t) PROVE OwnOK'
  BY <1>0, <1>16, CheckSessionIs, IdleIs, JobHas DEF Noted, Same, Others, LabelsOK,
    UniqueOK, OwnOK, Closing, Session, ExternalLabels, CheckoutLabels, MutationLabels
<1>17. ASSUME NEW t \in Terminals, createCheckoutCommandState(t) PROVE OwnOK'
  BY <1>0, <1>17, createCheckoutCommandStateIs, IdleIs, JobHas DEF Moved, Same, Gone,
    Others, LabelsOK, UniqueOK, OwnOK, Closing, Session, ExternalLabels, CheckoutLabels,
    MutationLabels
<1>18. ASSUME NEW t \in Terminals, SwitchTo(t) PROVE OwnOK'
  BY <1>0, <1>18, SwitchToIs, IdleIs, JobHas DEF Moved, Same, Undone, Others, LabelsOK,
    UniqueOK, OwnOK, Closing, Session, ExternalLabels, CheckoutLabels, MutationLabels
<1>19. ASSUME NEW t \in Terminals, ApplyCheckoutSessionLinks(t) PROVE OwnOK'
  BY <1>0, <1>19, ApplyCheckoutSessionLinksIs, IdleIs, JobHas DEF Moved, Same, Undone,
    Others, LabelsOK, UniqueOK, OwnOK, Closing, Session, ExternalLabels, CheckoutLabels,
    MutationLabels
<1>20. ASSUME NEW t \in Terminals, OpenCheckoutTmux(t) PROVE OwnOK'
  BY <1>0, <1>20, OpenCheckoutTmuxIs, IdleIs, JobHas DEF Moved, Same, Others, LabelsOK,
    UniqueOK, OwnOK, Closing, Session, ExternalLabels, CheckoutLabels, MutationLabels
<1>21. ASSUME NEW t \in Terminals, runCheckoutTmuxCommand(t) PROVE OwnOK'
  BY <1>0, <1>21, runCheckoutTmuxCommandIs, IdleIs, JobHas DEF Moved, Same, Gone,
    Others, LabelsOK, UniqueOK, OwnOK, Closing, Session, ExternalLabels, CheckoutLabels,
    MutationLabels
<1>22. ASSUME NEW t \in Terminals, SaveCheckoutAgentSession(t) PROVE OwnOK'
  BY <1>0, <1>22, SaveCheckoutAgentSessionIs, IdleIs, JobHas DEF Moved, Same, Others,
    LabelsOK, UniqueOK, OwnOK, Closing, Session, ExternalLabels, CheckoutLabels,
    MutationLabels
<1>23. ASSUME NEW t \in Terminals, EndSession(t) PROVE OwnOK'
  BY <1>0, <1>23, EndSessionIs, IdleIs, JobHas DEF Moved, Same, Gone, Others, LabelsOK,
    UniqueOK, OwnOK, Closing, Session, ExternalLabels, CheckoutLabels, MutationLabels
<1>24. ASSUME NEW t \in Terminals, CloseCheckoutSession(t) PROVE OwnOK'
  BY <1>0, <1>24, CloseCheckoutSessionIs, IdleIs, JobHas DEF Closes, Others, LabelsOK,
    UniqueOK, OwnOK, Closing, Session, ExternalLabels, CheckoutLabels, MutationLabels
<1>25. ASSUME NEW t \in Terminals, closeCheckoutCommandSession(t) PROVE OwnOK'
  BY <1>0, <1>25, closeCheckoutCommandSessionIs, IdleIs, JobHas DEF Closes, Others,
    LabelsOK, UniqueOK, OwnOK, Closing, Session, ExternalLabels, CheckoutLabels,
    MutationLabels
<1>26. ASSUME NEW t \in Terminals, Unlink(t) PROVE OwnOK'
  BY <1>0, <1>26, UnlinkIs, IdleIs, JobHas DEF Moved, Same, Gone, Others, LabelsOK,
    UniqueOK, OwnOK, Closing, Session, ExternalLabels, CheckoutLabels, MutationLabels
<1>27. ASSUME NEW t \in Terminals, SwitchBack(t) PROVE OwnOK'
  BY <1>0, <1>27, SwitchBackIs, IdleIs, JobHas DEF Moved, Same, Gone, Others, LabelsOK,
    UniqueOK, OwnOK, Closing, Session, ExternalLabels, CheckoutLabels, MutationLabels
<1>28. ASSUME NEW t \in Terminals, finishCheckoutSession(t) PROVE OwnOK'
  BY <1>0, <1>28, finishCheckoutSessionIs, IdleIs, JobHas DEF Moved, Same, Gone, Others,
    LabelsOK, UniqueOK, OwnOK, Closing, Session, ExternalLabels, CheckoutLabels,
    MutationLabels
<1>29. ASSUME NEW t \in Terminals, releaseAgentSessionLock(t) PROVE OwnOK'
  BY <1>0, <1>29, releaseAgentSessionLockIs, IdleIs, JobHas DEF Gone, Others, LabelsOK,
    UniqueOK, OwnOK, Closing, Session, ExternalLabels, CheckoutLabels, MutationLabels
<1>30. ASSUME NEW t \in Terminals, NEW what \in {"reparent", "template"},
  acquireReparentModeLock(t, what) PROVE OwnOK'
  <2>1. /\ UNCHANGED <<mode, kinds, run, records, intents, tmux, intent, active, head,
                       link, dirty>>
        /\ job' \in [Terminals -> JobType] /\ Others(t) /\ guard' = tokens'
        /\ guard # 0 => \A u \in Terminals : job[u].token # guard
        /\ Begun(t, what, Feature, FALSE, "reserved")
    BY <1>0, <1>30, acquireReparentModeLockIs
  <2>2. /\ tokens' # 0 /\ tokens' # guard /\ tokens' # active.token /\ tokens' # intent.token
        /\ \A u \in Terminals : job[u].token # tokens' /\ job[u].of.token # tokens'
    BY <1>0, <2>1, NextIsNew DEF Begun
  <2> QED
    BY <1>0, <2>1, <2>2, IdleIs, JobHas DEF Begun, Others, LabelsOK, UniqueOK, OwnOK,
      Closing, Session, ExternalLabels, CheckoutLabels, MutationLabels
<1>31. ASSUME NEW t \in Terminals, openReparentRecovery(t) PROVE OwnOK'
  <2>1. /\ UNCHANGED <<mode, kinds, run, records, intents, tmux, intent, active, head,
                       link, dirty>>
        /\ job' \in [Terminals -> JobType] /\ Others(t) /\ guard' = tokens'
        /\ guard # 0 => \A u \in Terminals : job[u].token # guard
        /\ Begun(t, "reparent", Feature, FALSE, "reserved")
    BY <1>0, <1>31, openReparentRecoveryIs
  <2>2. /\ tokens' # 0 /\ tokens' # guard /\ tokens' # active.token /\ tokens' # intent.token
        /\ \A u \in Terminals : job[u].token # tokens' /\ job[u].of.token # tokens'
    BY <1>0, <2>1, NextIsNew DEF Begun
  <2> QED
    BY <1>0, <2>1, <2>2, IdleIs, JobHas DEF Begun, Others, LabelsOK, UniqueOK, OwnOK,
      Closing, Session, ExternalLabels, CheckoutLabels, MutationLabels
<1>32. ASSUME NEW t \in Terminals, SessionIntentCleanup(t) PROVE OwnOK'
  BY <1>0, <1>32, SessionIntentCleanupIs, IdleIs, JobHas DEF Moved, Same, Others,
    LabelsOK, UniqueOK, OwnOK, Closing, Session, ExternalLabels, CheckoutLabels,
    MutationLabels
<1>33. ASSUME NEW t \in Terminals, CleanupStaleCheckoutSessionIntent(t) PROVE OwnOK'
  BY <1>0, <1>33, CleanupStaleCheckoutSessionIntentIs, IdleIs, JobHas DEF Moved, Same,
    Others, LabelsOK, UniqueOK, OwnOK, Closing, Session, ExternalLabels, CheckoutLabels,
    MutationLabels
<1>34. ASSUME NEW t \in Terminals, NoCleanup(t) PROVE OwnOK'
  BY <1>0, <1>34, NoCleanupIs, IdleIs, JobHas DEF Moved, Same, Others, LabelsOK,
    UniqueOK, OwnOK, Closing, Session, ExternalLabels, CheckoutLabels, MutationLabels
<1>35. ASSUME NEW t \in Terminals, ProbeExternal(t) PROVE OwnOK'
  BY <1>0, <1>35, ProbeExternalIs, IdleIs, JobHas DEF Moved, Same, Others, LabelsOK,
    UniqueOK, OwnOK, Closing, Session, ExternalLabels, CheckoutLabels, MutationLabels
<1>36. ASSUME NEW t \in Terminals, ProbeCheckout(t) PROVE OwnOK'
  BY <1>0, <1>36, ProbeCheckoutIs, IdleIs, JobHas DEF Moved, Same, Others, LabelsOK,
    UniqueOK, OwnOK, Closing, Session, ExternalLabels, CheckoutLabels, MutationLabels
<1>37. ASSUME NEW t \in Terminals, Mutate(t) PROVE OwnOK'
  BY <1>0, <1>37, MutateIs, IdleIs, JobHas DEF Moved, Same, Others, LabelsOK, UniqueOK,
    OwnOK, Closing, Session, ExternalLabels, CheckoutLabels, MutationLabels
<1>38. ASSUME NEW t \in Terminals, FinishMutation(t) PROVE OwnOK'
  BY <1>0, <1>38, FinishMutationIs, IdleIs, JobHas DEF Moved, Same, Others, LabelsOK,
    UniqueOK, OwnOK, Closing, Session, ExternalLabels, CheckoutLabels, MutationLabels
<1>39. ASSUME NEW t \in Terminals, releaseReparentModeLock(t) PROVE OwnOK'
  BY <1>0, <1>39, releaseReparentModeLockIs, IdleIs, JobHas DEF Gone, Others, LabelsOK,
    UniqueOK, OwnOK, Closing, Session, ExternalLabels, CheckoutLabels, MutationLabels
<1>40. ASSUME NEW t \in Terminals, Kill(t) PROVE OwnOK'
  BY <1>0, <1>40, KillIs, IdleIs, JobHas DEF Gone, Others, LabelsOK, UniqueOK, OwnOK,
    Closing, Session, ExternalLabels, CheckoutLabels, MutationLabels
<1>41. ASSUME NEW name \in Branches, runExternalClose(name) PROVE OwnOK'
  BY <1>0, <1>41, runExternalCloseIs, IdleIs, JobHas DEF LabelsOK, UniqueOK, OwnOK,
    Closing, Session, ExternalLabels, CheckoutLabels, MutationLabels, Names
<1>42. ASSUME NEW s \in tmux, TmuxEnds(s) PROVE OwnOK'
  BY <1>0, <1>42, TmuxEndsIs, IdleIs, JobHas DEF LabelsOK, UniqueOK, OwnOK, Closing,
    Session, ExternalLabels, CheckoutLabels, MutationLabels
<1>43. ASSUME Person PROVE OwnOK'
  BY <1>0, <1>43, PersonIs, IdleIs, JobHas DEF LabelsOK, UniqueOK, OwnOK, Closing,
    Session, ExternalLabels, CheckoutLabels, MutationLabels
<1> QED
  BY <1>1, <1>2, <1>3, <1>4, <1>5, <1>6, <1>7, <1>8, <1>9, <1>10, <1>11, <1>12, <1>13,
    <1>14, <1>15, <1>16, <1>17, <1>18, <1>19, <1>20, <1>21, <1>22, <1>23, <1>24, <1>25,
    <1>26, <1>27, <1>28, <1>29, <1>30, <1>31, <1>32, <1>33, <1>34, <1>35, <1>36, <1>37,
    <1>38, <1>39, <1>40, <1>41, <1>42, <1>43 DEF Next, Names

\* The record is of its launcher.
LEMMA ActiveOKStep ==
  ASSUME SessionsInv, Next
  PROVE  ActiveOK'
<1>0. TypeOK /\ TokensOK /\ LabelsOK /\ OwnOK /\ ActiveOK /\ CloserOK /\ UniqueOK
  BY DEF SessionsInv, TokensOK
<1>1. ASSUME NEW t \in Terminals, NEW name \in Names, NEW tm \in BOOLEAN, OpenAgent(t,
  name, tm) PROVE ActiveOK'
  BY <1>0, <1>1, OpenAgentIs, IdleIs, JobHas, NextIsNew DEF Begun, Others, LabelsOK,
    UniqueOK, OwnOK, ActiveOK, CloserOK, Closing, Launched, ExternalLabels,
    CheckoutLabels, MutationLabels
<1>2. ASSUME NEW t \in Terminals, NEW name \in Names, NEW tm \in BOOLEAN, OpenCommand(t,
  name, tm) PROVE ActiveOK'
  BY <1>0, <1>2, OpenCommandIs, IdleIs, JobHas, NextIsNew DEF Begun, Others, LabelsOK,
    UniqueOK, OwnOK, ActiveOK, CloserOK, Closing, Launched, ExternalLabels,
    CheckoutLabels, MutationLabels
<1>3. ASSUME NEW t \in Terminals, NEW name \in Names, NEW tm \in BOOLEAN,
  OpenCheckoutAgent(t, name, tm) PROVE ActiveOK'
  BY <1>0, <1>3, OpenCheckoutAgentIs, IdleIs, JobHas, NextIsNew DEF Begun, Others,
    LabelsOK, UniqueOK, OwnOK, ActiveOK, CloserOK, Closing, Launched, ExternalLabels,
    CheckoutLabels, MutationLabels
<1>4. ASSUME NEW t \in Terminals, NEW name \in Names, NEW tm \in BOOLEAN,
  OpenCheckoutCommand(t, name, tm) PROVE ActiveOK'
  BY <1>0, <1>4, OpenCheckoutCommandIs, IdleIs, JobHas, NextIsNew DEF Begun, Others,
    LabelsOK, UniqueOK, OwnOK, ActiveOK, CloserOK, Closing, Launched, ExternalLabels,
    CheckoutLabels, MutationLabels
<1>5. ASSUME NEW t \in Terminals, FinalGuard(t) PROVE ActiveOK'
  BY <1>0, <1>5, FinalGuardIs, IdleIs, JobHas DEF Moved, Same, Others, LabelsOK,
    UniqueOK, OwnOK, ActiveOK, CloserOK, Closing, Launched, ExternalLabels,
    CheckoutLabels, MutationLabels
<1>6. ASSUME NEW t \in Terminals, RecordCommand(t) PROVE ActiveOK'
  BY <1>0, <1>6, RecordCommandIs, IdleIs, JobHas DEF Moved, Same, Others, LabelsOK,
    UniqueOK, OwnOK, ActiveOK, CloserOK, Closing, Launched, ExternalLabels,
    CheckoutLabels, MutationLabels
<1>7. ASSUME NEW t \in Terminals, LaunchGuard(t) PROVE ActiveOK'
  BY <1>0, <1>7, LaunchGuardIs, IdleIs, JobHas DEF Moved, Same, Others, LabelsOK,
    UniqueOK, OwnOK, ActiveOK, CloserOK, Closing, Launched, ExternalLabels,
    CheckoutLabels, MutationLabels
<1>8. ASSUME NEW t \in Terminals, Start(t) PROVE ActiveOK'
  BY <1>0, <1>8, StartIs, IdleIs, JobHas DEF Moved, Same, Others, LabelsOK, UniqueOK,
    OwnOK, ActiveOK, CloserOK, Closing, Launched, ExternalLabels, CheckoutLabels,
    MutationLabels
<1>9. ASSUME NEW t \in Terminals, openWithTmux(t) PROVE ActiveOK'
  BY <1>0, <1>9, openWithTmuxIs, IdleIs, JobHas DEF Moved, Same, Others, LabelsOK,
    UniqueOK, OwnOK, ActiveOK, CloserOK, Closing, Launched, ExternalLabels,
    CheckoutLabels, MutationLabels
<1>10. ASSUME NEW t \in Terminals, RunExternalTmuxCommand(t) PROVE ActiveOK'
  BY <1>0, <1>10, RunExternalTmuxCommandIs, IdleIs, JobHas DEF Moved, Same, Others,
    LabelsOK, UniqueOK, OwnOK, ActiveOK, CloserOK, Closing, Launched, ExternalLabels,
    CheckoutLabels, MutationLabels
<1>11. ASSUME NEW t \in Terminals, Leave(t) PROVE ActiveOK'
  BY <1>0, <1>11, LeaveIs, IdleIs, JobHas DEF Moved, Same, Others, LabelsOK, UniqueOK,
    OwnOK, ActiveOK, CloserOK, Closing, Launched, ExternalLabels, CheckoutLabels,
    MutationLabels
<1>12. ASSUME NEW t \in Terminals, RemoveOwnedExternalSessionIntent(t) PROVE ActiveOK'
  BY <1>0, <1>12, RemoveOwnedExternalSessionIntentIs, IdleIs, JobHas DEF Gone, Others,
    LabelsOK, UniqueOK, OwnOK, ActiveOK, CloserOK, Closing, Launched, ExternalLabels,
    CheckoutLabels, MutationLabels
<1>13. ASSUME NEW t \in Terminals, MakeIntent(t) PROVE ActiveOK'
  BY <1>0, <1>13, MakeIntentIs, IdleIs, JobHas DEF Moved, Same, Gone, Others, LabelsOK,
    UniqueOK, OwnOK, ActiveOK, CloserOK, Closing, Launched, ExternalLabels,
    CheckoutLabels, MutationLabels
<1>14. ASSUME NEW t \in Terminals, OwnIntent(t) PROVE ActiveOK'
  BY <1>0, <1>14, OwnIntentIs, IdleIs, JobHas DEF Moved, Same, Others, LabelsOK,
    UniqueOK, OwnOK, ActiveOK, CloserOK, Closing, Launched, ExternalLabels,
    CheckoutLabels, MutationLabels
<1>15. ASSUME NEW t \in Terminals, WithCheckoutSessionLaunchIntent(t) PROVE ActiveOK'
  BY <1>0, <1>15, WithCheckoutSessionLaunchIntentIs, IdleIs, JobHas DEF Noted, Same,
    Others, LabelsOK, UniqueOK, OwnOK, ActiveOK, CloserOK, Closing, Launched,
    ExternalLabels, CheckoutLabels, MutationLabels
<1>16. ASSUME NEW t \in Terminals, CheckSession(t) PROVE ActiveOK'
  BY <1>0, <1>16, CheckSessionIs, IdleIs, JobHas DEF Noted, Same, Others, LabelsOK,
    UniqueOK, OwnOK, ActiveOK, CloserOK, Closing, Launched, ExternalLabels,
    CheckoutLabels, MutationLabels
<1>17. ASSUME NEW t \in Terminals, createCheckoutCommandState(t) PROVE ActiveOK'
  <2>1. /\ UNCHANGED <<mode, kinds, guard, run, records, intents, tmux, intent, head,
                       link, dirty, tokens>>
        /\ job' \in [Terminals -> JobType] /\ Others(t)
        /\ job[t].pc = "publish"
        /\ \/ active = NoSession /\ active' = job[t].of /\ Moved(t, "switch")
           \/ Gone(t) /\ UNCHANGED active
    BY <1>0, <1>17, createCheckoutCommandStateIs
  <2>2. job[t].token # 0 /\ mode = "checkout"
    BY <1>0, <2>1, DiskHas DEF LabelsOK, ExternalLabels, CheckoutLabels, MutationLabels
  <2>3. job[t].of.token = job[t].token
    BY <1>0, <2>1, <2>2 DEF OwnOK
  <2>4. job[t].what # "agent"
    BY <1>0, <2>1 DEF LabelsOK
  <2> DEFINE s == job[t].of
  <2>5. s.token = job[t].token /\ (Moved(t, "switch") => job'[t].of = s)
    BY <2>3 DEF Moved
  <2> HIDE DEF s
  <2>6. CASE active' = s /\ Moved(t, "switch")
    <3>1. \A u \in Terminals : job'[u].token # 0 /\ job'[u].token = s.token => u = t
      BY <1>0, <2>1, <2>5, <2>6 DEF UniqueOK, Others, Moved, Same
    <3> QED
      BY <1>0, <2>1, <2>2, <2>5, <2>6, <3>1, IdleIs, <2>4 DEF ActiveOK, Moved, Same,
        Launched
  <2>7. CASE Gone(t) /\ UNCHANGED active
    BY <1>0, <2>1, <2>7, IdleIs DEF ActiveOK, Others, Gone, Launched
  <2> QED
    BY <2>1, <2>6, <2>7 DEF s
<1>18. ASSUME NEW t \in Terminals, SwitchTo(t) PROVE ActiveOK'
  BY <1>0, <1>18, SwitchToIs, IdleIs, JobHas DEF Moved, Same, Undone, Others, LabelsOK,
    UniqueOK, OwnOK, ActiveOK, CloserOK, Closing, Launched, ExternalLabels,
    CheckoutLabels, MutationLabels
<1>19. ASSUME NEW t \in Terminals, ApplyCheckoutSessionLinks(t) PROVE ActiveOK'
  BY <1>0, <1>19, ApplyCheckoutSessionLinksIs, IdleIs, JobHas DEF Moved, Same, Undone,
    Others, LabelsOK, UniqueOK, OwnOK, ActiveOK, CloserOK, Closing, Launched,
    ExternalLabels, CheckoutLabels, MutationLabels
<1>20. ASSUME NEW t \in Terminals, OpenCheckoutTmux(t) PROVE ActiveOK'
  BY <1>0, <1>20, OpenCheckoutTmuxIs, IdleIs, JobHas DEF Moved, Same, Others, LabelsOK,
    UniqueOK, OwnOK, ActiveOK, CloserOK, Closing, Launched, ExternalLabels,
    CheckoutLabels, MutationLabels
<1>21. ASSUME NEW t \in Terminals, runCheckoutTmuxCommand(t) PROVE ActiveOK'
  BY <1>0, <1>21, runCheckoutTmuxCommandIs, IdleIs, JobHas DEF Moved, Same, Gone,
    Others, LabelsOK, UniqueOK, OwnOK, ActiveOK, CloserOK, Closing, Launched,
    ExternalLabels, CheckoutLabels, MutationLabels
<1>22. ASSUME NEW t \in Terminals, SaveCheckoutAgentSession(t) PROVE ActiveOK'
  <2>1. /\ UNCHANGED <<mode, kinds, guard, run, records, intents, tmux, intent, head,
                       link, dirty, tokens>>
        /\ job' \in [Terminals -> JobType] /\ Others(t)
        /\ job[t].pc = "save" /\ Moved(t, "running") /\ active' = job[t].of
    BY <1>0, <1>22, SaveCheckoutAgentSessionIs
  <2>2. job[t].token # 0 /\ mode = "checkout"
    BY <1>0, <2>1, DiskHas DEF LabelsOK, ExternalLabels, CheckoutLabels, MutationLabels
  <2>3. job[t].of.token = job[t].token
    BY <1>0, <2>1, <2>2 DEF OwnOK
  <2> DEFINE s == job[t].of
  <2>4. s.token = job[t].token /\ job'[t].of = s
    BY <2>1, <2>3 DEF Moved
  <2> HIDE DEF s
  <2>5. CASE active' = s /\ Moved(t, "running")
    <3>1. \A u \in Terminals : job'[u].token # 0 /\ job'[u].token = s.token => u = t
      BY <1>0, <2>1, <2>4, <2>5 DEF UniqueOK, Others, Moved, Same
    <3> QED
      BY <1>0, <2>1, <2>2, <2>4, <2>5, <3>1, IdleIs DEF ActiveOK, Moved, Same, Launched
  <2> QED
    BY <2>1, <2>5 DEF s
<1>23. ASSUME NEW t \in Terminals, EndSession(t) PROVE ActiveOK'
  BY <1>0, <1>23, EndSessionIs, IdleIs, JobHas DEF Moved, Same, Gone, Others, LabelsOK,
    UniqueOK, OwnOK, ActiveOK, CloserOK, Closing, Launched, ExternalLabels,
    CheckoutLabels, MutationLabels
<1>24. ASSUME NEW t \in Terminals, CloseCheckoutSession(t) PROVE ActiveOK'
  BY <1>0, <1>24, CloseCheckoutSessionIs, IdleIs, JobHas DEF Closes, Others, LabelsOK,
    UniqueOK, OwnOK, ActiveOK, CloserOK, Closing, Launched, ExternalLabels,
    CheckoutLabels, MutationLabels
<1>25. ASSUME NEW t \in Terminals, closeCheckoutCommandSession(t) PROVE ActiveOK'
  BY <1>0, <1>25, closeCheckoutCommandSessionIs, IdleIs, JobHas DEF Closes, Others,
    LabelsOK, UniqueOK, OwnOK, ActiveOK, CloserOK, Closing, Launched, ExternalLabels,
    CheckoutLabels, MutationLabels
<1>26. ASSUME NEW t \in Terminals, Unlink(t) PROVE ActiveOK'
  BY <1>0, <1>26, UnlinkIs, IdleIs, JobHas DEF Moved, Same, Gone, Others, LabelsOK,
    UniqueOK, OwnOK, ActiveOK, CloserOK, Closing, Launched, ExternalLabels,
    CheckoutLabels, MutationLabels
<1>27. ASSUME NEW t \in Terminals, SwitchBack(t) PROVE ActiveOK'
  BY <1>0, <1>27, SwitchBackIs, IdleIs, JobHas DEF Moved, Same, Gone, Others, LabelsOK,
    UniqueOK, OwnOK, ActiveOK, CloserOK, Closing, Launched, ExternalLabels,
    CheckoutLabels, MutationLabels
<1>28. ASSUME NEW t \in Terminals, finishCheckoutSession(t) PROVE ActiveOK'
  BY <1>0, <1>28, finishCheckoutSessionIs, IdleIs, JobHas DEF Moved, Same, Gone, Others,
    LabelsOK, UniqueOK, OwnOK, ActiveOK, CloserOK, Closing, Launched, ExternalLabels,
    CheckoutLabels, MutationLabels
<1>29. ASSUME NEW t \in Terminals, releaseAgentSessionLock(t) PROVE ActiveOK'
  BY <1>0, <1>29, releaseAgentSessionLockIs, IdleIs, JobHas DEF Gone, Others, LabelsOK,
    UniqueOK, OwnOK, ActiveOK, CloserOK, Closing, Launched, ExternalLabels,
    CheckoutLabels, MutationLabels
<1>30. ASSUME NEW t \in Terminals, NEW what \in {"reparent", "template"},
  acquireReparentModeLock(t, what) PROVE ActiveOK'
  <2>1. /\ UNCHANGED <<mode, kinds, run, records, intents, tmux, intent, active, head,
                       link, dirty>>
        /\ job' \in [Terminals -> JobType] /\ Others(t) /\ guard' = tokens'
        /\ guard # 0 => \A u \in Terminals : job[u].token # guard
        /\ Begun(t, what, Feature, FALSE, "reserved")
    BY <1>0, <1>30, acquireReparentModeLockIs
  <2>2. /\ tokens' # 0 /\ tokens' # guard /\ tokens' # active.token /\ tokens' # intent.token
        /\ \A u \in Terminals : job[u].token # tokens' /\ job[u].of.token # tokens'
    BY <1>0, <2>1, NextIsNew DEF Begun
  <2> QED
    BY <1>0, <2>1, <2>2, IdleIs, JobHas DEF Begun, Others, LabelsOK, UniqueOK, OwnOK,
      ActiveOK, CloserOK, Closing, Launched, ExternalLabels, CheckoutLabels,
      MutationLabels
<1>31. ASSUME NEW t \in Terminals, openReparentRecovery(t) PROVE ActiveOK'
  <2>1. /\ UNCHANGED <<mode, kinds, run, records, intents, tmux, intent, active, head,
                       link, dirty>>
        /\ job' \in [Terminals -> JobType] /\ Others(t) /\ guard' = tokens'
        /\ guard # 0 => \A u \in Terminals : job[u].token # guard
        /\ Begun(t, "reparent", Feature, FALSE, "reserved")
    BY <1>0, <1>31, openReparentRecoveryIs
  <2>2. /\ tokens' # 0 /\ tokens' # guard /\ tokens' # active.token /\ tokens' # intent.token
        /\ \A u \in Terminals : job[u].token # tokens' /\ job[u].of.token # tokens'
    BY <1>0, <2>1, NextIsNew DEF Begun
  <2> QED
    BY <1>0, <2>1, <2>2, IdleIs, JobHas DEF Begun, Others, LabelsOK, UniqueOK, OwnOK,
      ActiveOK, CloserOK, Closing, Launched, ExternalLabels, CheckoutLabels,
      MutationLabels
<1>32. ASSUME NEW t \in Terminals, SessionIntentCleanup(t) PROVE ActiveOK'
  BY <1>0, <1>32, SessionIntentCleanupIs, IdleIs, JobHas DEF Moved, Same, Others,
    LabelsOK, UniqueOK, OwnOK, ActiveOK, CloserOK, Closing, Launched, ExternalLabels,
    CheckoutLabels, MutationLabels
<1>33. ASSUME NEW t \in Terminals, CleanupStaleCheckoutSessionIntent(t) PROVE ActiveOK'
  BY <1>0, <1>33, CleanupStaleCheckoutSessionIntentIs, IdleIs, JobHas DEF Moved, Same,
    Others, LabelsOK, UniqueOK, OwnOK, ActiveOK, CloserOK, Closing, Launched,
    ExternalLabels, CheckoutLabels, MutationLabels
<1>34. ASSUME NEW t \in Terminals, NoCleanup(t) PROVE ActiveOK'
  BY <1>0, <1>34, NoCleanupIs, IdleIs, JobHas DEF Moved, Same, Others, LabelsOK,
    UniqueOK, OwnOK, ActiveOK, CloserOK, Closing, Launched, ExternalLabels,
    CheckoutLabels, MutationLabels
<1>35. ASSUME NEW t \in Terminals, ProbeExternal(t) PROVE ActiveOK'
  BY <1>0, <1>35, ProbeExternalIs, IdleIs, JobHas DEF Moved, Same, Others, LabelsOK,
    UniqueOK, OwnOK, ActiveOK, CloserOK, Closing, Launched, ExternalLabels,
    CheckoutLabels, MutationLabels
<1>36. ASSUME NEW t \in Terminals, ProbeCheckout(t) PROVE ActiveOK'
  BY <1>0, <1>36, ProbeCheckoutIs, IdleIs, JobHas DEF Moved, Same, Others, LabelsOK,
    UniqueOK, OwnOK, ActiveOK, CloserOK, Closing, Launched, ExternalLabels,
    CheckoutLabels, MutationLabels
<1>37. ASSUME NEW t \in Terminals, Mutate(t) PROVE ActiveOK'
  BY <1>0, <1>37, MutateIs, IdleIs, JobHas DEF Moved, Same, Others, LabelsOK, UniqueOK,
    OwnOK, ActiveOK, CloserOK, Closing, Launched, ExternalLabels, CheckoutLabels,
    MutationLabels
<1>38. ASSUME NEW t \in Terminals, FinishMutation(t) PROVE ActiveOK'
  BY <1>0, <1>38, FinishMutationIs, IdleIs, JobHas DEF Moved, Same, Others, LabelsOK,
    UniqueOK, OwnOK, ActiveOK, CloserOK, Closing, Launched, ExternalLabels,
    CheckoutLabels, MutationLabels
<1>39. ASSUME NEW t \in Terminals, releaseReparentModeLock(t) PROVE ActiveOK'
  BY <1>0, <1>39, releaseReparentModeLockIs, IdleIs, JobHas DEF Gone, Others, LabelsOK,
    UniqueOK, OwnOK, ActiveOK, CloserOK, Closing, Launched, ExternalLabels,
    CheckoutLabels, MutationLabels
<1>40. ASSUME NEW t \in Terminals, Kill(t) PROVE ActiveOK'
  BY <1>0, <1>40, KillIs, IdleIs, JobHas DEF Gone, Others, LabelsOK, UniqueOK, OwnOK,
    ActiveOK, CloserOK, Closing, Launched, ExternalLabels, CheckoutLabels,
    MutationLabels
<1>41. ASSUME NEW name \in Branches, runExternalClose(name) PROVE ActiveOK'
  BY <1>0, <1>41, runExternalCloseIs, IdleIs, JobHas DEF LabelsOK, UniqueOK, OwnOK,
    ActiveOK, CloserOK, Closing, Launched, ExternalLabels, CheckoutLabels,
    MutationLabels, Names
<1>42. ASSUME NEW s \in tmux, TmuxEnds(s) PROVE ActiveOK'
  BY <1>0, <1>42, TmuxEndsIs, IdleIs, JobHas DEF LabelsOK, UniqueOK, OwnOK, ActiveOK,
    CloserOK, Closing, Launched, ExternalLabels, CheckoutLabels, MutationLabels
<1>43. ASSUME Person PROVE ActiveOK'
  BY <1>0, <1>43, PersonIs, IdleIs, JobHas DEF LabelsOK, UniqueOK, OwnOK, ActiveOK,
    CloserOK, Closing, Launched, ExternalLabels, CheckoutLabels, MutationLabels
<1> QED
  BY <1>1, <1>2, <1>3, <1>4, <1>5, <1>6, <1>7, <1>8, <1>9, <1>10, <1>11, <1>12, <1>13,
    <1>14, <1>15, <1>16, <1>17, <1>18, <1>19, <1>20, <1>21, <1>22, <1>23, <1>24, <1>25,
    <1>26, <1>27, <1>28, <1>29, <1>30, <1>31, <1>32, <1>33, <1>34, <1>35, <1>36, <1>37,
    <1>38, <1>39, <1>40, <1>41, <1>42, <1>43 DEF Next, Names

\* Who closes a session of another has found it over.
LEMMA CloserOKStep ==
  ASSUME SessionsInv, Next
  PROVE  CloserOK'
<1>0. TypeOK /\ TokensOK /\ LabelsOK /\ OwnOK /\ ActiveOK /\ CloserOK /\ UniqueOK
  BY DEF SessionsInv, TokensOK
<1>1. ASSUME NEW t \in Terminals, NEW name \in Names, NEW tm \in BOOLEAN, OpenAgent(t,
  name, tm) PROVE CloserOK'
  <2>1. /\ UNCHANGED <<mode, kinds, guard, run, tmux, intent, active, head, link, dirty>>
        /\ job' \in [Terminals -> JobType] /\ Others(t)
        /\ mode = "external" /\ guard = 0 /\ Begun(t, "agent", name, tm, "announced")
        /\ IF OnlyRecorded(job'[t])
             THEN records' = records \cup {<<tokens', name>>} /\ UNCHANGED intents
           ELSE intents' = intents \cup {<<tokens', name>>} /\ UNCHANGED records
    BY <1>0, <1>1, OpenAgentIs
  <2>2. SUFFICES ASSUME NEW a \in Terminals, NEW b \in Terminals,
             job'[a].pc \in Closing, a # b, job'[b].token # 0, job'[b].token =
             job'[a].of.token
           PROVE  Over(b)'
    BY DEF CloserOK
  <2>3. \A u \in Terminals : job[u].of.token # tokens'
    BY <1>0, <2>1, NextIsNew DEF Begun
  <2>4. CASE a # t /\ b # t
    BY <1>0, <2>1, <2>2, <2>4 DEF Others, CloserOK, Over
  <2>5. CASE a = t
    BY <1>0, <2>1, <2>2, <2>5, <2>3, IdleIs, JobHas DEF Begun, Closing
  <2>6. CASE b = t
    BY <1>0, <2>1, <2>2, <2>6, <2>3 DEF Begun, Others
  <2> QED
    BY <2>4, <2>5, <2>6
<1>2. ASSUME NEW t \in Terminals, NEW name \in Names, NEW tm \in BOOLEAN, OpenCommand(t,
  name, tm) PROVE CloserOK'
  <2>1. /\ UNCHANGED <<mode, kinds, guard, run, records, tmux, intent, active, head,
                       link, dirty>>
        /\ job' \in [Terminals -> JobType] /\ Others(t)
        /\ mode = "external" /\ guard = 0 /\ Begun(t, "command", name, tm, "announced")
        /\ intents' = intents \cup {<<tokens', name>>}
    BY <1>0, <1>2, OpenCommandIs
  <2>2. SUFFICES ASSUME NEW a \in Terminals, NEW b \in Terminals,
             job'[a].pc \in Closing, a # b, job'[b].token # 0, job'[b].token =
             job'[a].of.token
           PROVE  Over(b)'
    BY DEF CloserOK
  <2>3. \A u \in Terminals : job[u].of.token # tokens'
    BY <1>0, <2>1, NextIsNew DEF Begun
  <2>4. CASE a # t /\ b # t
    BY <1>0, <2>1, <2>2, <2>4 DEF Others, CloserOK, Over
  <2>5. CASE a = t
    BY <1>0, <2>1, <2>2, <2>5, <2>3, IdleIs, JobHas DEF Begun, Closing
  <2>6. CASE b = t
    BY <1>0, <2>1, <2>2, <2>6, <2>3 DEF Begun, Others
  <2> QED
    BY <2>4, <2>5, <2>6
<1>3. ASSUME NEW t \in Terminals, NEW name \in Names, NEW tm \in BOOLEAN,
  OpenCheckoutAgent(t, name, tm) PROVE CloserOK'
  <2>1. /\ UNCHANGED <<mode, kinds, guard, run, records, intents, tmux, intent, active,
                       head, link, dirty>>
        /\ job' \in [Terminals -> JobType] /\ Others(t)
        /\ mode = "checkout" /\ "agent" \in kinds /\ active = NoSession
        /\ Begun(t, "agent", name, tm, "enter")
    BY <1>0, <1>3, OpenCheckoutAgentIs
  <2>2. SUFFICES ASSUME NEW a \in Terminals, NEW b \in Terminals,
             job'[a].pc \in Closing, a # b, job'[b].token # 0, job'[b].token =
             job'[a].of.token
           PROVE  Over(b)'
    BY DEF CloserOK
  <2>3. \A u \in Terminals : job[u].of.token # tokens'
    BY <1>0, <2>1, NextIsNew DEF Begun
  <2>4. CASE a # t /\ b # t
    BY <1>0, <2>1, <2>2, <2>4 DEF Others, CloserOK, Over
  <2>5. CASE a = t
    BY <1>0, <2>1, <2>2, <2>5, <2>3, IdleIs, JobHas DEF Begun, Closing
  <2>6. CASE b = t
    BY <1>0, <2>1, <2>2, <2>6, <2>3 DEF Begun, Others
  <2> QED
    BY <2>4, <2>5, <2>6
<1>4. ASSUME NEW t \in Terminals, NEW name \in Names, NEW tm \in BOOLEAN,
  OpenCheckoutCommand(t, name, tm) PROVE CloserOK'
  <2>1. /\ UNCHANGED <<mode, kinds, guard, run, records, intents, tmux, intent, active,
                       head, link, dirty>>
        /\ job' \in [Terminals -> JobType] /\ Others(t)
        /\ mode = "checkout" /\ "command" \in kinds /\ active = NoSession
        /\ Begun(t, "command", name, tm, "enter")
    BY <1>0, <1>4, OpenCheckoutCommandIs
  <2>2. SUFFICES ASSUME NEW a \in Terminals, NEW b \in Terminals,
             job'[a].pc \in Closing, a # b, job'[b].token # 0, job'[b].token =
             job'[a].of.token
           PROVE  Over(b)'
    BY DEF CloserOK
  <2>3. \A u \in Terminals : job[u].of.token # tokens'
    BY <1>0, <2>1, NextIsNew DEF Begun
  <2>4. CASE a # t /\ b # t
    BY <1>0, <2>1, <2>2, <2>4 DEF Others, CloserOK, Over
  <2>5. CASE a = t
    BY <1>0, <2>1, <2>2, <2>5, <2>3, IdleIs, JobHas DEF Begun, Closing
  <2>6. CASE b = t
    BY <1>0, <2>1, <2>2, <2>6, <2>3 DEF Begun, Others
  <2> QED
    BY <2>4, <2>5, <2>6
<1>5. ASSUME NEW t \in Terminals, FinalGuard(t) PROVE CloserOK'
  <2>1. /\ UNCHANGED <<mode, kinds, guard, run, intents, tmux, intent, active, head,
                       link, dirty, tokens>>
        /\ job' \in [Terminals -> JobType] /\ Others(t)
        /\ mode = "external" /\ job[t].pc = "announced"
        /\ \/ Moved(t, "leave") /\ records' = {r \in records : r[1] # job[t].token}
           \/ guard = 0 /\ UNCHANGED records /\ Moved(t, IF RecordedToo(job[t])
                THEN "record" ELSE "launch")
    BY <1>0, <1>5, FinalGuardIs
  <2>2. SUFFICES ASSUME NEW a \in Terminals, NEW b \in Terminals,
             job'[a].pc \in Closing, a # b, job'[b].token # 0, job'[b].token =
             job'[a].of.token
           PROVE  Over(b)'
    BY DEF CloserOK
  <2>3. CASE a # t /\ b # t
    BY <1>0, <2>1, <2>2, <2>3 DEF Others, CloserOK, Over
  <2>4. CASE a = t
    BY <1>0, <2>1, <2>2, <2>4, IdleIs, JobHas DEF Moved, Same, Others, CloserOK, Over,
      Closing, OwnOK, UniqueOK
  <2>5. CASE b = t
    BY <1>0, <2>1, <2>2, <2>5, IdleIs, JobHas DEF Moved, Same, Others, CloserOK, Over,
      Closing
  <2> QED
    BY <2>3, <2>4, <2>5
<1>6. ASSUME NEW t \in Terminals, RecordCommand(t) PROVE CloserOK'
  <2>1. /\ UNCHANGED <<mode, kinds, guard, run, intents, tmux, intent, active, head,
                       link, dirty, tokens>>
        /\ job' \in [Terminals -> JobType] /\ Others(t)
        /\ job[t].pc = "record" /\ Moved(t, "recorded")
        /\ records' = records \cup {<<job[t].token, job[t].name>>}
    BY <1>0, <1>6, RecordCommandIs
  <2>2. SUFFICES ASSUME NEW a \in Terminals, NEW b \in Terminals,
             job'[a].pc \in Closing, a # b, job'[b].token # 0, job'[b].token =
             job'[a].of.token
           PROVE  Over(b)'
    BY DEF CloserOK
  <2>3. CASE a # t /\ b # t
    BY <1>0, <2>1, <2>2, <2>3 DEF Others, CloserOK, Over
  <2>4. CASE a = t
    BY <1>0, <2>1, <2>2, <2>4, IdleIs, JobHas DEF Moved, Same, Others, CloserOK, Over,
      Closing, OwnOK, UniqueOK
  <2>5. CASE b = t
    BY <1>0, <2>1, <2>2, <2>5, IdleIs, JobHas DEF Moved, Same, Others, CloserOK, Over,
      Closing
  <2> QED
    BY <2>3, <2>4, <2>5
<1>7. ASSUME NEW t \in Terminals, LaunchGuard(t) PROVE CloserOK'
  <2>1. /\ UNCHANGED <<mode, kinds, guard, run, intents, tmux, intent, active, head,
                       link, dirty, tokens>>
        /\ job' \in [Terminals -> JobType] /\ Others(t)
        /\ job[t].pc = "recorded"
        /\ \/ Moved(t, "leave") /\ records' = {r \in records : r[1] # job[t].token}
           \/ Moved(t, "launch") /\ UNCHANGED records
    BY <1>0, <1>7, LaunchGuardIs
  <2>2. SUFFICES ASSUME NEW a \in Terminals, NEW b \in Terminals,
             job'[a].pc \in Closing, a # b, job'[b].token # 0, job'[b].token =
             job'[a].of.token
           PROVE  Over(b)'
    BY DEF CloserOK
  <2>3. CASE a # t /\ b # t
    BY <1>0, <2>1, <2>2, <2>3 DEF Others, CloserOK, Over
  <2>4. CASE a = t
    BY <1>0, <2>1, <2>2, <2>4, IdleIs, JobHas DEF Moved, Same, Others, CloserOK, Over,
      Closing, OwnOK, UniqueOK
  <2>5. CASE b = t
    BY <1>0, <2>1, <2>2, <2>5, IdleIs, JobHas DEF Moved, Same, Others, CloserOK, Over,
      Closing
  <2> QED
    BY <2>3, <2>4, <2>5
<1>8. ASSUME NEW t \in Terminals, Start(t) PROVE CloserOK'
  <2>1. /\ UNCHANGED <<mode, kinds, guard, run, records, intents, tmux, intent, active,
                       head, link, dirty, tokens>>
        /\ job' \in [Terminals -> JobType] /\ Others(t)
        /\ job[t].pc = "launch" /\ Moved(t, "running")
    BY <1>0, <1>8, StartIs
  <2>2. SUFFICES ASSUME NEW a \in Terminals, NEW b \in Terminals,
             job'[a].pc \in Closing, a # b, job'[b].token # 0, job'[b].token =
             job'[a].of.token
           PROVE  Over(b)'
    BY DEF CloserOK
  <2>3. CASE a # t /\ b # t
    BY <1>0, <2>1, <2>2, <2>3 DEF Others, CloserOK, Over
  <2>4. CASE a = t
    BY <1>0, <2>1, <2>2, <2>4, IdleIs, JobHas DEF Moved, Same, Others, CloserOK, Over,
      Closing, OwnOK, UniqueOK
  <2>5. CASE b = t
    BY <1>0, <2>1, <2>2, <2>5, IdleIs, JobHas DEF Moved, Same, Others, CloserOK, Over,
      Closing
  <2> QED
    BY <2>3, <2>4, <2>5
<1>9. ASSUME NEW t \in Terminals, openWithTmux(t) PROVE CloserOK'
  <2>1. /\ UNCHANGED <<mode, kinds, guard, run, records, intents, intent, active, head,
                       link, dirty, tokens>>
        /\ job' \in [Terminals -> JobType] /\ Others(t)
        /\ job[t].pc = "launch" /\ Moved(t, "running")
        /\ tmux' = tmux \/ tmux' = tmux \cup {<<job[t].name, job[t].token>>}
    BY <1>0, <1>9, openWithTmuxIs
  <2>2. SUFFICES ASSUME NEW a \in Terminals, NEW b \in Terminals,
             job'[a].pc \in Closing, a # b, job'[b].token # 0, job'[b].token =
             job'[a].of.token
           PROVE  Over(b)'
    BY DEF CloserOK
  <2>3. CASE a # t /\ b # t
    BY <1>0, <2>1, <2>2, <2>3 DEF Others, CloserOK, Over, UniqueOK
  <2>4. CASE a = t
    BY <1>0, <2>1, <2>2, <2>4, IdleIs, JobHas DEF Moved, Same, Others, CloserOK, Over,
      Closing, OwnOK, UniqueOK
  <2>5. CASE b = t
    BY <1>0, <2>1, <2>2, <2>5, IdleIs, JobHas DEF Moved, Same, Others, CloserOK, Over,
      Closing
  <2> QED
    BY <2>3, <2>4, <2>5
<1>10. ASSUME NEW t \in Terminals, RunExternalTmuxCommand(t) PROVE CloserOK'
  <2>1. /\ UNCHANGED <<mode, kinds, guard, run, records, intents, intent, active, head,
                       link, dirty, tokens>>
        /\ job' \in [Terminals -> JobType] /\ Others(t)
        /\ job[t].pc = "launch"
        /\ \/ Moved(t, "leave") /\ UNCHANGED tmux
           \/ Moved(t, "running") /\ tmux' = tmux \cup {<<job[t].name, job[t].token>>}
    BY <1>0, <1>10, RunExternalTmuxCommandIs
  <2>2. SUFFICES ASSUME NEW a \in Terminals, NEW b \in Terminals,
             job'[a].pc \in Closing, a # b, job'[b].token # 0, job'[b].token =
             job'[a].of.token
           PROVE  Over(b)'
    BY DEF CloserOK
  <2>3. CASE a # t /\ b # t
    BY <1>0, <2>1, <2>2, <2>3 DEF Others, CloserOK, Over, UniqueOK
  <2>4. CASE a = t
    BY <1>0, <2>1, <2>2, <2>4, IdleIs, JobHas DEF Moved, Same, Others, CloserOK, Over,
      Closing, OwnOK, UniqueOK
  <2>5. CASE b = t
    BY <1>0, <2>1, <2>2, <2>5, IdleIs, JobHas DEF Moved, Same, Others, CloserOK, Over,
      Closing
  <2> QED
    BY <2>3, <2>4, <2>5
<1>11. ASSUME NEW t \in Terminals, Leave(t) PROVE CloserOK'
  <2>1. /\ UNCHANGED <<mode, kinds, guard, run, intents, tmux, intent, active, head,
                       link, dirty, tokens>>
        /\ job' \in [Terminals -> JobType] /\ Others(t)
        /\ mode = "external" /\ job[t].pc = "running" /\ Moved(t, "leave")
        /\ records' = {r \in records : r[1] # job[t].token}
    BY <1>0, <1>11, LeaveIs
  <2>2. SUFFICES ASSUME NEW a \in Terminals, NEW b \in Terminals,
             job'[a].pc \in Closing, a # b, job'[b].token # 0, job'[b].token =
             job'[a].of.token
           PROVE  Over(b)'
    BY DEF CloserOK
  <2>3. CASE a # t /\ b # t
    BY <1>0, <2>1, <2>2, <2>3 DEF Others, CloserOK, Over
  <2>4. CASE a = t
    BY <1>0, <2>1, <2>2, <2>4, IdleIs, JobHas DEF Moved, Same, Others, CloserOK, Over,
      Closing, OwnOK, UniqueOK
  <2>5. CASE b = t
    BY <1>0, <2>1, <2>2, <2>5, IdleIs, JobHas DEF Moved, Same, Others, CloserOK, Over,
      Closing, LabelsOK, ExternalLabels, CheckoutLabels, MutationLabels
  <2> QED
    BY <2>3, <2>4, <2>5
<1>12. ASSUME NEW t \in Terminals, RemoveOwnedExternalSessionIntent(t) PROVE CloserOK'
  <2>1. /\ UNCHANGED <<mode, kinds, guard, run, records, tmux, intent, active, head,
                       link, dirty, tokens>>
        /\ job' \in [Terminals -> JobType] /\ Others(t)
        /\ job[t].pc = "leave" /\ Gone(t)
        /\ intents' = {i \in intents : i[1] # job[t].token}
    BY <1>0, <1>12, RemoveOwnedExternalSessionIntentIs
  <2>2. SUFFICES ASSUME NEW a \in Terminals, NEW b \in Terminals,
             job'[a].pc \in Closing, a # b, job'[b].token # 0, job'[b].token =
             job'[a].of.token
           PROVE  Over(b)'
    BY DEF CloserOK
  <2>3. CASE a # t /\ b # t
    BY <1>0, <2>1, <2>2, <2>3 DEF Others, CloserOK, Over
  <2>4. CASE a = t
    BY <1>0, <2>1, <2>2, <2>4, IdleIs, JobHas DEF Gone, Others, CloserOK, Over, Closing,
      OwnOK, UniqueOK
  <2>5. CASE b = t
    BY <1>0, <2>1, <2>2, <2>5, IdleIs, JobHas DEF Gone, Others, CloserOK, Over, Closing
  <2> QED
    BY <2>3, <2>4, <2>5
<1>13. ASSUME NEW t \in Terminals, MakeIntent(t) PROVE CloserOK'
  <2>1. /\ UNCHANGED <<mode, kinds, guard, run, records, intents, tmux, active, head,
                       link, dirty, tokens>>
        /\ job' \in [Terminals -> JobType] /\ Others(t)
        /\ job[t].pc = "enter"
        /\ \/ Gone(t) /\ UNCHANGED intent
           \/ /\ intent = NoIntent \/ DeadIntent
              /\ intent' = [token |-> job[t].token, owned |-> FALSE] /\ Moved(t, "made")
    BY <1>0, <1>13, MakeIntentIs
  <2>2. SUFFICES ASSUME NEW a \in Terminals, NEW b \in Terminals,
             job'[a].pc \in Closing, a # b, job'[b].token # 0, job'[b].token =
             job'[a].of.token
           PROVE  Over(b)'
    BY DEF CloserOK
  <2>3. CASE a # t /\ b # t
    BY <1>0, <2>1, <2>2, <2>3 DEF Others, CloserOK, Over
  <2>4. CASE a = t
    BY <1>0, <2>1, <2>2, <2>4, IdleIs, JobHas DEF Moved, Same, Gone, Others, CloserOK,
      Over, Closing, OwnOK, UniqueOK
  <2>5. CASE b = t
    BY <1>0, <2>1, <2>2, <2>5, IdleIs, JobHas DEF Moved, Same, Gone, Others, CloserOK,
      Over, Closing
  <2> QED
    BY <2>3, <2>4, <2>5
<1>14. ASSUME NEW t \in Terminals, OwnIntent(t) PROVE CloserOK'
  <2>1. /\ UNCHANGED <<mode, kinds, guard, run, records, intents, tmux, active, head,
                       link, dirty, tokens>>
        /\ job' \in [Terminals -> JobType] /\ Others(t)
        /\ job[t].pc = "made" /\ Moved(t, "intended")
        /\ intent' = [intent EXCEPT !.owned = TRUE]
    BY <1>0, <1>14, OwnIntentIs
  <2>2. SUFFICES ASSUME NEW a \in Terminals, NEW b \in Terminals,
             job'[a].pc \in Closing, a # b, job'[b].token # 0, job'[b].token =
             job'[a].of.token
           PROVE  Over(b)'
    BY DEF CloserOK
  <2>3. CASE a # t /\ b # t
    BY <1>0, <2>1, <2>2, <2>3 DEF Others, CloserOK, Over
  <2>4. CASE a = t
    BY <1>0, <2>1, <2>2, <2>4, IdleIs, JobHas DEF Moved, Same, Others, CloserOK, Over,
      Closing, OwnOK, UniqueOK
  <2>5. CASE b = t
    BY <1>0, <2>1, <2>2, <2>5, IdleIs, JobHas DEF Moved, Same, Others, CloserOK, Over,
      Closing
  <2> QED
    BY <2>3, <2>4, <2>5
<1>15. ASSUME NEW t \in Terminals, WithCheckoutSessionLaunchIntent(t) PROVE CloserOK'
  <2>1. /\ UNCHANGED <<mode, kinds, guard, run, records, intents, tmux, intent, active,
                       head, link, dirty, tokens>>
        /\ job' \in [Terminals -> JobType] /\ Others(t)
        /\ job[t].pc = "intended" /\ job[t].name = Feature
        /\ \/ Noted(t, "running") /\ guard = 0
           \/ Noted(t, "release")
    BY <1>0, <1>15, WithCheckoutSessionLaunchIntentIs
  <2>2. SUFFICES ASSUME NEW a \in Terminals, NEW b \in Terminals,
             job'[a].pc \in Closing, a # b, job'[b].token # 0, job'[b].token =
             job'[a].of.token
           PROVE  Over(b)'
    BY DEF CloserOK
  <2>3. job[t].token # 0 /\ mode = "checkout"
    BY <1>0, <2>1, DiskHas DEF LabelsOK, ExternalLabels, CheckoutLabels, MutationLabels
  <2>4. CASE a # t /\ b # t
    BY <1>0, <2>1, <2>2, <2>4 DEF Others, CloserOK, Over
  <2>5. CASE a = t
    BY <1>0, <2>1, <2>2, <2>5, <2>3, IdleIs, JobHas DEF Noted, Same, Others, CloserOK,
      Over, Closing, OwnOK, UniqueOK
  <2>6. CASE b = t
    BY <1>0, <2>1, <2>2, <2>6, <2>3, IdleIs, JobHas DEF Noted, Same, Others, CloserOK,
      Over, Closing
  <2> QED
    BY <2>4, <2>5, <2>6
<1>16. ASSUME NEW t \in Terminals, CheckSession(t) PROVE CloserOK'
  <2>1. /\ UNCHANGED <<mode, kinds, guard, run, records, intents, tmux, intent, active,
                       head, link, dirty, tokens>>
        /\ job' \in [Terminals -> JobType] /\ Others(t)
        /\ job[t].pc = "intended"
        /\ \/ Noted(t, "switch") /\ guard = 0 /\ job[t].what = "agent"
           \/ Noted(t, "publish") /\ guard = 0 /\ link = "none" /\ job[t].what # "agent"
           \/ Noted(t, "release")
    BY <1>0, <1>16, CheckSessionIs
  <2>2. SUFFICES ASSUME NEW a \in Terminals, NEW b \in Terminals,
             job'[a].pc \in Closing, a # b, job'[b].token # 0, job'[b].token =
             job'[a].of.token
           PROVE  Over(b)'
    BY DEF CloserOK
  <2>3. job[t].token # 0 /\ mode = "checkout"
    BY <1>0, <2>1, DiskHas DEF LabelsOK, ExternalLabels, CheckoutLabels, MutationLabels
  <2>4. CASE a # t /\ b # t
    BY <1>0, <2>1, <2>2, <2>4 DEF Others, CloserOK, Over
  <2>5. CASE a = t
    BY <1>0, <2>1, <2>2, <2>5, <2>3, IdleIs, JobHas DEF Noted, Same, Others, CloserOK,
      Over, Closing, OwnOK, UniqueOK
  <2>6. CASE b = t
    BY <1>0, <2>1, <2>2, <2>6, <2>3, IdleIs, JobHas DEF Noted, Same, Others, CloserOK,
      Over, Closing
  <2> QED
    BY <2>4, <2>5, <2>6
<1>17. ASSUME NEW t \in Terminals, createCheckoutCommandState(t) PROVE CloserOK'
  <2>1. /\ UNCHANGED <<mode, kinds, guard, run, records, intents, tmux, intent, head,
                       link, dirty, tokens>>
        /\ job' \in [Terminals -> JobType] /\ Others(t)
        /\ job[t].pc = "publish"
        /\ \/ active = NoSession /\ active' = job[t].of /\ Moved(t, "switch")
           \/ Gone(t) /\ UNCHANGED active
    BY <1>0, <1>17, createCheckoutCommandStateIs
  <2>2. SUFFICES ASSUME NEW a \in Terminals, NEW b \in Terminals,
             job'[a].pc \in Closing, a # b, job'[b].token # 0, job'[b].token =
             job'[a].of.token
           PROVE  Over(b)'
    BY DEF CloserOK
  <2>3. CASE a # t /\ b # t
    BY <1>0, <2>1, <2>2, <2>3 DEF Others, CloserOK, Over
  <2>4. CASE a = t
    BY <1>0, <2>1, <2>2, <2>4, IdleIs, JobHas DEF Moved, Same, Gone, Others, CloserOK,
      Over, Closing, OwnOK, UniqueOK
  <2>5. CASE b = t
    BY <1>0, <2>1, <2>2, <2>5, IdleIs, JobHas DEF Moved, Same, Gone, Others, CloserOK,
      Over, Closing
  <2> QED
    BY <2>3, <2>4, <2>5
<1>18. ASSUME NEW t \in Terminals, SwitchTo(t) PROVE CloserOK'
  <2>1. /\ UNCHANGED <<mode, kinds, guard, run, records, intents, tmux, intent, active,
                       link, dirty, tokens>>
        /\ job' \in [Terminals -> JobType] /\ Others(t)
        /\ job[t].pc = "switch"
        /\ \/ head' = job[t].name /\ Moved(t, "link")
           \/ UNCHANGED head /\ Undone(t)
    BY <1>0, <1>18, SwitchToIs
  <2>2. SUFFICES ASSUME NEW a \in Terminals, NEW b \in Terminals,
             job'[a].pc \in Closing, a # b, job'[b].token # 0, job'[b].token =
             job'[a].of.token
           PROVE  Over(b)'
    BY DEF CloserOK
  <2>3. job[t].token # 0 /\ mode = "checkout"
    BY <1>0, <2>1, DiskHas DEF LabelsOK, ExternalLabels, CheckoutLabels, MutationLabels
  <2>4. CASE a # t /\ b # t
    BY <1>0, <2>1, <2>2, <2>4 DEF Others, CloserOK, Over
  <2>5. CASE a = t
    BY <1>0, <2>1, <2>2, <2>5, <2>3, IdleIs, JobHas DEF Moved, Same, Undone, Others,
      CloserOK, Over, Closing, OwnOK, UniqueOK
  <2>6. CASE b = t
    BY <1>0, <2>1, <2>2, <2>6, <2>3, IdleIs, JobHas DEF Moved, Same, Undone, Others,
      CloserOK, Over, Closing
  <2> QED
    BY <2>4, <2>5, <2>6
<1>19. ASSUME NEW t \in Terminals, ApplyCheckoutSessionLinks(t) PROVE CloserOK'
  <2>1. /\ UNCHANGED <<mode, kinds, guard, run, records, intents, tmux, intent, active,
                       dirty, tokens>>
        /\ job' \in [Terminals -> JobType] /\ Others(t)
        /\ job[t].pc = "link" /\ link' \in {link, "ours"}
        /\ \/ /\ UNCHANGED head
              /\ Moved(t, IF job[t].tmux THEN "spawn"
                   ELSE IF job[t].what = "agent" THEN "save" ELSE "running")
           \/ head' = (IF job[t].what = "agent" THEN job[t].of.orig ELSE head) /\ Undone(t)
    BY <1>0, <1>19, ApplyCheckoutSessionLinksIs
  <2>2. SUFFICES ASSUME NEW a \in Terminals, NEW b \in Terminals,
             job'[a].pc \in Closing, a # b, job'[b].token # 0, job'[b].token =
             job'[a].of.token
           PROVE  Over(b)'
    BY DEF CloserOK
  <2>3. job[t].token # 0 /\ mode = "checkout"
    BY <1>0, <2>1, DiskHas DEF LabelsOK, ExternalLabels, CheckoutLabels, MutationLabels
  <2>4. CASE a # t /\ b # t
    BY <1>0, <2>1, <2>2, <2>4 DEF Others, CloserOK, Over
  <2>5. CASE a = t
    BY <1>0, <2>1, <2>2, <2>5, <2>3, IdleIs, JobHas DEF Moved, Same, Undone, Others,
      CloserOK, Over, Closing, OwnOK, UniqueOK
  <2>6. CASE b = t
    BY <1>0, <2>1, <2>2, <2>6, <2>3, IdleIs, JobHas DEF Moved, Same, Undone, Others,
      CloserOK, Over, Closing
  <2> QED
    BY <2>4, <2>5, <2>6
<1>20. ASSUME NEW t \in Terminals, OpenCheckoutTmux(t) PROVE CloserOK'
  <2>1. /\ UNCHANGED <<mode, kinds, guard, run, records, intents, intent, active, dirty,
                       tokens>>
        /\ job' \in [Terminals -> JobType] /\ Others(t)
        /\ job[t].pc = "spawn" /\ job[t].what = "agent" /\ link' \in {link, "none"}
        /\ \/ Moved(t, "release") /\ head' = job[t].of.orig /\ UNCHANGED tmux
           \/ Moved(t, "save") /\ UNCHANGED head
                /\ tmux' = tmux \cup {<<job[t].name, job[t].token>>}
    BY <1>0, <1>20, OpenCheckoutTmuxIs
  <2>2. SUFFICES ASSUME NEW a \in Terminals, NEW b \in Terminals,
             job'[a].pc \in Closing, a # b, job'[b].token # 0, job'[b].token =
             job'[a].of.token
           PROVE  Over(b)'
    BY DEF CloserOK
  <2>3. job[t].token # 0 /\ mode = "checkout"
    BY <1>0, <2>1, DiskHas DEF LabelsOK, ExternalLabels, CheckoutLabels, MutationLabels
  <2>4. CASE a # t /\ b # t
    BY <1>0, <2>1, <2>2, <2>4 DEF Others, CloserOK, Over, UniqueOK
  <2>5. CASE a = t
    BY <1>0, <2>1, <2>2, <2>5, <2>3, IdleIs, JobHas DEF Moved, Same, Others, CloserOK,
      Over, Closing, OwnOK, UniqueOK
  <2>6. CASE b = t
    BY <1>0, <2>1, <2>2, <2>6, <2>3, IdleIs, JobHas DEF Moved, Same, Others, CloserOK,
      Over, Closing
  <2> QED
    BY <2>4, <2>5, <2>6
<1>21. ASSUME NEW t \in Terminals, runCheckoutTmuxCommand(t) PROVE CloserOK'
  <2>1. /\ UNCHANGED <<mode, kinds, guard, run, records, intents, intent, active, head,
                       link, dirty, tokens>>
        /\ job' \in [Terminals -> JobType] /\ Others(t)
        /\ job[t].pc = "spawn"
        /\ \/ Gone(t) /\ UNCHANGED tmux
           \/ Moved(t, "running") /\ tmux' = tmux \cup {<<job[t].name, job[t].token>>}
    BY <1>0, <1>21, runCheckoutTmuxCommandIs
  <2>2. SUFFICES ASSUME NEW a \in Terminals, NEW b \in Terminals,
             job'[a].pc \in Closing, a # b, job'[b].token # 0, job'[b].token =
             job'[a].of.token
           PROVE  Over(b)'
    BY DEF CloserOK
  <2>3. job[t].token # 0 /\ mode = "checkout"
    BY <1>0, <2>1, DiskHas DEF LabelsOK, ExternalLabels, CheckoutLabels, MutationLabels
  <2>4. CASE a # t /\ b # t
    BY <1>0, <2>1, <2>2, <2>4 DEF Others, CloserOK, Over, UniqueOK
  <2>5. CASE a = t
    BY <1>0, <2>1, <2>2, <2>5, <2>3, IdleIs, JobHas DEF Moved, Same, Gone, Others,
      CloserOK, Over, Closing, OwnOK, UniqueOK
  <2>6. CASE b = t
    BY <1>0, <2>1, <2>2, <2>6, <2>3, IdleIs, JobHas DEF Moved, Same, Gone, Others,
      CloserOK, Over, Closing
  <2> QED
    BY <2>4, <2>5, <2>6
<1>22. ASSUME NEW t \in Terminals, SaveCheckoutAgentSession(t) PROVE CloserOK'
  <2>1. /\ UNCHANGED <<mode, kinds, guard, run, records, intents, tmux, intent, head,
                       link, dirty, tokens>>
        /\ job' \in [Terminals -> JobType] /\ Others(t)
        /\ job[t].pc = "save" /\ Moved(t, "running") /\ active' = job[t].of
    BY <1>0, <1>22, SaveCheckoutAgentSessionIs
  <2>2. SUFFICES ASSUME NEW a \in Terminals, NEW b \in Terminals,
             job'[a].pc \in Closing, a # b, job'[b].token # 0, job'[b].token =
             job'[a].of.token
           PROVE  Over(b)'
    BY DEF CloserOK
  <2>3. CASE a # t /\ b # t
    BY <1>0, <2>1, <2>2, <2>3 DEF Others, CloserOK, Over
  <2>4. CASE a = t
    BY <1>0, <2>1, <2>2, <2>4, IdleIs, JobHas DEF Moved, Same, Others, CloserOK, Over,
      Closing, OwnOK, UniqueOK
  <2>5. CASE b = t
    BY <1>0, <2>1, <2>2, <2>5, IdleIs, JobHas DEF Moved, Same, Others, CloserOK, Over,
      Closing
  <2> QED
    BY <2>3, <2>4, <2>5
<1>23. ASSUME NEW t \in Terminals, EndSession(t) PROVE CloserOK'
  <2>1. /\ UNCHANGED <<mode, kinds, guard, run, records, intents, tmux, intent, active,
                       head, link, dirty, tokens>>
        /\ job' \in [Terminals -> JobType] /\ Others(t)
        /\ mode = "checkout" /\ job[t].pc = "running"
        /\ \/ job[t].name = Feature /\ Moved(t, "release")
           \/ /\ job[t].name # Feature /\ Moved(t, "unlink")
           \/ Gone(t)
    BY <1>0, <1>23, EndSessionIs
  <2>2. SUFFICES ASSUME NEW a \in Terminals, NEW b \in Terminals,
             job'[a].pc \in Closing, a # b, job'[b].token # 0, job'[b].token =
             job'[a].of.token
           PROVE  Over(b)'
    BY DEF CloserOK
  <2>3. job[t].token # 0 /\ mode = "checkout"
    BY <1>0, <2>1, DiskHas DEF LabelsOK, ExternalLabels, CheckoutLabels, MutationLabels
  <2>4. CASE a # t /\ b # t
    BY <1>0, <2>1, <2>2, <2>4 DEF Others, CloserOK, Over
  <2>5. CASE a = t
    BY <1>0, <2>1, <2>2, <2>5, <2>3, IdleIs, JobHas DEF Moved, Same, Gone, Others,
      CloserOK, Over, Closing, OwnOK, UniqueOK
  <2>6. CASE b = t
    BY <1>0, <2>1, <2>2, <2>6, <2>3, IdleIs, JobHas DEF Moved, Same, Gone, Others,
      CloserOK, Over, Closing
  <2> QED
    BY <2>4, <2>5, <2>6
<1>24. ASSUME NEW t \in Terminals, CloseCheckoutSession(t) PROVE CloserOK'
  <2>1. /\ UNCHANGED <<mode, kinds, guard, run, records, intents, intent, active, head,
                       link, dirty, tokens>>
        /\ job' \in [Terminals -> JobType] /\ Others(t)
        /\ mode = "checkout" /\ active # NoSession
        /\ \A u \in Terminals : job[u].token = active.token => active.tmux
             /\ job[u].pc = "running"
        /\ Closes(t)
        /\ active.what = "agent"
        /\ tmux' = (IF active.tmux THEN {s \in tmux : s[1] # active.name} ELSE tmux)
    BY <1>0, <1>24, CloseCheckoutSessionIs
  <2>2. SUFFICES ASSUME NEW a \in Terminals, NEW b \in Terminals,
             job'[a].pc \in Closing, a # b, job'[b].token # 0, job'[b].token =
             job'[a].of.token
           PROVE  Over(b)'
    BY DEF CloserOK
  <2>3. CASE a # t /\ b # t
    BY <1>0, <2>1, <2>2, <2>3 DEF Others, CloserOK, Over
  <2>4. CASE a = t
    BY <1>0, <2>1, <2>2, <2>4, IdleIs, JobHas DEF Closes, Others, CloserOK, Over,
      Closing, OwnOK, UniqueOK, ActiveOK, Launched
  <2>5. CASE b = t
    BY <1>0, <2>1, <2>2, <2>5, IdleIs, JobHas DEF Closes, Others, CloserOK, Over,
      Closing
  <2> QED
    BY <2>3, <2>4, <2>5
<1>25. ASSUME NEW t \in Terminals, closeCheckoutCommandSession(t) PROVE CloserOK'
  <2>1. /\ UNCHANGED <<mode, kinds, guard, run, records, intents, intent, active, head,
                       link, dirty, tokens>>
        /\ job' \in [Terminals -> JobType] /\ Others(t)
        /\ mode = "checkout" /\ active # NoSession
        /\ \A u \in Terminals : job[u].token = active.token => active.tmux
             /\ job[u].pc = "running"
        /\ Closes(t)
        /\ active.what = "command" /\ tmux' = tmux \ {<<active.name, active.token>>}
    BY <1>0, <1>25, closeCheckoutCommandSessionIs
  <2>2. SUFFICES ASSUME NEW a \in Terminals, NEW b \in Terminals,
             job'[a].pc \in Closing, a # b, job'[b].token # 0, job'[b].token =
             job'[a].of.token
           PROVE  Over(b)'
    BY DEF CloserOK
  <2>3. CASE a # t /\ b # t
    BY <1>0, <2>1, <2>2, <2>3 DEF Others, CloserOK, Over
  <2>4. CASE a = t
    BY <1>0, <2>1, <2>2, <2>4, IdleIs, JobHas DEF Closes, Others, CloserOK, Over,
      Closing, OwnOK, UniqueOK, ActiveOK, Launched
  <2>5. CASE b = t
    BY <1>0, <2>1, <2>2, <2>5, IdleIs, JobHas DEF Closes, Others, CloserOK, Over,
      Closing
  <2> QED
    BY <2>3, <2>4, <2>5
<1>26. ASSUME NEW t \in Terminals, Unlink(t) PROVE CloserOK'
  <2>1. /\ UNCHANGED <<mode, kinds, guard, run, records, intents, tmux, intent, active,
                       head, dirty, tokens>>
        /\ job' \in [Terminals -> JobType] /\ Others(t)
        /\ job[t].pc = "unlink"
        /\ \/ link' = "none" /\ Moved(t, "back")
           \/ Gone(t) /\ UNCHANGED link
    BY <1>0, <1>26, UnlinkIs
  <2>2. SUFFICES ASSUME NEW a \in Terminals, NEW b \in Terminals,
             job'[a].pc \in Closing, a # b, job'[b].token # 0, job'[b].token =
             job'[a].of.token
           PROVE  Over(b)'
    BY DEF CloserOK
  <2>3. CASE a # t /\ b # t
    BY <1>0, <2>1, <2>2, <2>3 DEF Others, CloserOK, Over
  <2>4. CASE a = t
    BY <1>0, <2>1, <2>2, <2>4, IdleIs DEF Moved, Same, Gone, Others, CloserOK, Over,
      Closing
  <2>5. CASE b = t
    BY <1>0, <2>1, <2>2, <2>5, IdleIs, JobHas DEF Moved, Same, Gone, Others, CloserOK,
      Over, Closing
  <2> QED
    BY <2>3, <2>4, <2>5
<1>27. ASSUME NEW t \in Terminals, SwitchBack(t) PROVE CloserOK'
  <2>1. /\ UNCHANGED <<mode, kinds, guard, run, records, intents, tmux, intent, active,
                       link, dirty, tokens>>
        /\ job' \in [Terminals -> JobType] /\ Others(t)
        /\ job[t].pc = "back"
        /\ \/ head' = job[t].of.orig /\ Moved(t, "forget")
           \/ Gone(t) /\ UNCHANGED head
    BY <1>0, <1>27, SwitchBackIs
  <2>2. SUFFICES ASSUME NEW a \in Terminals, NEW b \in Terminals,
             job'[a].pc \in Closing, a # b, job'[b].token # 0, job'[b].token =
             job'[a].of.token
           PROVE  Over(b)'
    BY DEF CloserOK
  <2>3. CASE a # t /\ b # t
    BY <1>0, <2>1, <2>2, <2>3 DEF Others, CloserOK, Over
  <2>4. CASE a = t
    BY <1>0, <2>1, <2>2, <2>4, IdleIs DEF Moved, Same, Gone, Others, CloserOK, Over,
      Closing
  <2>5. CASE b = t
    BY <1>0, <2>1, <2>2, <2>5, IdleIs, JobHas DEF Moved, Same, Gone, Others, CloserOK,
      Over, Closing
  <2> QED
    BY <2>3, <2>4, <2>5
<1>28. ASSUME NEW t \in Terminals, finishCheckoutSession(t) PROVE CloserOK'
  <2>1. /\ UNCHANGED <<mode, kinds, guard, run, records, intents, tmux, intent, head,
                       link, dirty, tokens>>
        /\ job' \in [Terminals -> JobType] /\ Others(t)
        /\ job[t].pc = "forget"
        /\ \/ /\ job[t].what = "agent" \/ verify(job[t].of)
              /\ active' = NoSession /\ Moved(t, "release")
           \/ Gone(t) /\ UNCHANGED active
    BY <1>0, <1>28, finishCheckoutSessionIs
  <2>2. SUFFICES ASSUME NEW a \in Terminals, NEW b \in Terminals,
             job'[a].pc \in Closing, a # b, job'[b].token # 0, job'[b].token =
             job'[a].of.token
           PROVE  Over(b)'
    BY DEF CloserOK
  <2>3. CASE a # t /\ b # t
    BY <1>0, <2>1, <2>2, <2>3 DEF Others, CloserOK, Over
  <2>4. CASE a = t
    BY <1>0, <2>1, <2>2, <2>4, IdleIs DEF Moved, Same, Gone, Others, CloserOK, Over,
      Closing
  <2>5. CASE b = t
    BY <1>0, <2>1, <2>2, <2>5, IdleIs, JobHas DEF Moved, Same, Gone, Others, CloserOK,
      Over, Closing
  <2> QED
    BY <2>3, <2>4, <2>5
<1>29. ASSUME NEW t \in Terminals, releaseAgentSessionLock(t) PROVE CloserOK'
  <2>1. /\ UNCHANGED <<mode, kinds, guard, run, records, intents, tmux, active, head,
                       link, dirty, tokens>>
        /\ job' \in [Terminals -> JobType] /\ Others(t)
        /\ job[t].pc = "release" /\ Gone(t)
        /\ intent' = IF intent = [token |-> job[t].of.token, owned |-> TRUE]
             THEN NoIntent ELSE intent
    BY <1>0, <1>29, releaseAgentSessionLockIs
  <2>2. SUFFICES ASSUME NEW a \in Terminals, NEW b \in Terminals,
             job'[a].pc \in Closing, a # b, job'[b].token # 0, job'[b].token =
             job'[a].of.token
           PROVE  Over(b)'
    BY DEF CloserOK
  <2>3. CASE a # t /\ b # t
    BY <1>0, <2>1, <2>2, <2>3 DEF Others, CloserOK, Over
  <2>4. CASE a = t
    BY <1>0, <2>1, <2>2, <2>4, IdleIs, JobHas DEF Gone, Others, CloserOK, Over, Closing,
      OwnOK, UniqueOK
  <2>5. CASE b = t
    BY <1>0, <2>1, <2>2, <2>5, IdleIs, JobHas DEF Gone, Others, CloserOK, Over, Closing
  <2> QED
    BY <2>3, <2>4, <2>5
<1>30. ASSUME NEW t \in Terminals, NEW what \in {"reparent", "template"},
  acquireReparentModeLock(t, what) PROVE CloserOK'
  <2>1. /\ UNCHANGED <<mode, kinds, run, records, intents, tmux, intent, active, head,
                       link, dirty>>
        /\ job' \in [Terminals -> JobType] /\ Others(t)
        /\ guard # 0 => \A u \in Terminals : job[u].token # guard
        /\ guard' = tokens' /\ Begun(t, what, Feature, FALSE, "reserved")
    BY <1>0, <1>30, acquireReparentModeLockIs
  <2>2. SUFFICES ASSUME NEW a \in Terminals, NEW b \in Terminals,
             job'[a].pc \in Closing, a # b, job'[b].token # 0, job'[b].token =
             job'[a].of.token
           PROVE  Over(b)'
    BY DEF CloserOK
  <2>3. \A u \in Terminals : job[u].of.token # tokens'
    BY <1>0, <2>1, NextIsNew DEF Begun
  <2>4. CASE a # t /\ b # t
    BY <1>0, <2>1, <2>2, <2>4 DEF Others, CloserOK, Over
  <2>5. CASE a = t
    BY <1>0, <2>1, <2>2, <2>5, <2>3, IdleIs, JobHas DEF Begun, Closing
  <2>6. CASE b = t
    BY <1>0, <2>1, <2>2, <2>6, <2>3 DEF Begun, Others
  <2> QED
    BY <2>4, <2>5, <2>6
<1>31. ASSUME NEW t \in Terminals, openReparentRecovery(t) PROVE CloserOK'
  <2>1. /\ UNCHANGED <<mode, kinds, run, records, intents, tmux, intent, active, head,
                       link, dirty>>
        /\ job' \in [Terminals -> JobType] /\ Others(t)
        /\ guard # 0 => \A u \in Terminals : job[u].token # guard
        /\ guard' = tokens' /\ Begun(t, "reparent", Feature, FALSE, "reserved")
    BY <1>0, <1>31, openReparentRecoveryIs
  <2>2. SUFFICES ASSUME NEW a \in Terminals, NEW b \in Terminals,
             job'[a].pc \in Closing, a # b, job'[b].token # 0, job'[b].token =
             job'[a].of.token
           PROVE  Over(b)'
    BY DEF CloserOK
  <2>3. \A u \in Terminals : job[u].of.token # tokens'
    BY <1>0, <2>1, NextIsNew DEF Begun
  <2>4. CASE a # t /\ b # t
    BY <1>0, <2>1, <2>2, <2>4 DEF Others, CloserOK, Over
  <2>5. CASE a = t
    BY <1>0, <2>1, <2>2, <2>5, <2>3, IdleIs, JobHas DEF Begun, Closing
  <2>6. CASE b = t
    BY <1>0, <2>1, <2>2, <2>6, <2>3 DEF Begun, Others
  <2> QED
    BY <2>4, <2>5, <2>6
<1>32. ASSUME NEW t \in Terminals, SessionIntentCleanup(t) PROVE CloserOK'
  <2>1. /\ UNCHANGED <<mode, kinds, guard, run, tmux, intent, active, head, link, dirty,
                       tokens>>
        /\ job' \in [Terminals -> JobType] /\ Others(t)
        /\ mode = "external" /\ job[t].pc = "reserved" /\ Moved(t, "probe")
        /\ records' = records \ Stale(records) /\ intents' = intents \ Stale(intents)
    BY <1>0, <1>32, SessionIntentCleanupIs
  <2>2. SUFFICES ASSUME NEW a \in Terminals, NEW b \in Terminals,
             job'[a].pc \in Closing, a # b, job'[b].token # 0, job'[b].token =
             job'[a].of.token
           PROVE  Over(b)'
    BY DEF CloserOK
  <2>3. CASE a # t /\ b # t
    BY <1>0, <2>1, <2>2, <2>3 DEF Others, CloserOK, Over
  <2>4. CASE a = t
    BY <1>0, <2>1, <2>2, <2>4, IdleIs, JobHas DEF Moved, Same, Others, CloserOK, Over,
      Closing, OwnOK, UniqueOK
  <2>5. CASE b = t
    BY <1>0, <2>1, <2>2, <2>5, IdleIs, JobHas DEF Moved, Same, Others, CloserOK, Over,
      Closing
  <2> QED
    BY <2>3, <2>4, <2>5
<1>33. ASSUME NEW t \in Terminals, CleanupStaleCheckoutSessionIntent(t) PROVE CloserOK'
  <2>1. /\ UNCHANGED <<mode, kinds, guard, run, records, intents, tmux, active, head,
                       link, dirty, tokens>>
        /\ job' \in [Terminals -> JobType] /\ Others(t)
        /\ mode = "checkout" /\ job[t].pc = "reserved"
        /\ Moved(t, "unlock") \/ Moved(t, "probe")
        /\ intent' = intent \/ (DeadIntent /\ intent' = NoIntent)
    BY <1>0, <1>33, CleanupStaleCheckoutSessionIntentIs
  <2>2. SUFFICES ASSUME NEW a \in Terminals, NEW b \in Terminals,
             job'[a].pc \in Closing, a # b, job'[b].token # 0, job'[b].token =
             job'[a].of.token
           PROVE  Over(b)'
    BY DEF CloserOK
  <2>3. CASE a # t /\ b # t
    BY <1>0, <2>1, <2>2, <2>3 DEF Others, CloserOK, Over
  <2>4. CASE a = t
    BY <1>0, <2>1, <2>2, <2>4, IdleIs, JobHas DEF Moved, Same, Others, CloserOK, Over,
      Closing, OwnOK, UniqueOK
  <2>5. CASE b = t
    BY <1>0, <2>1, <2>2, <2>5, IdleIs, JobHas DEF Moved, Same, Others, CloserOK, Over,
      Closing
  <2> QED
    BY <2>3, <2>4, <2>5
<1>34. ASSUME NEW t \in Terminals, NoCleanup(t) PROVE CloserOK'
  <2>1. /\ UNCHANGED <<mode, kinds, guard, run, records, intents, tmux, intent, active,
                       head, link, dirty, tokens>>
        /\ job' \in [Terminals -> JobType] /\ Others(t)
        /\ job[t].pc = "reserved" /\ Moved(t, "probe")
    BY <1>0, <1>34, NoCleanupIs
  <2>2. SUFFICES ASSUME NEW a \in Terminals, NEW b \in Terminals,
             job'[a].pc \in Closing, a # b, job'[b].token # 0, job'[b].token =
             job'[a].of.token
           PROVE  Over(b)'
    BY DEF CloserOK
  <2>3. CASE a # t /\ b # t
    BY <1>0, <2>1, <2>2, <2>3 DEF Others, CloserOK, Over
  <2>4. CASE a = t
    BY <1>0, <2>1, <2>2, <2>4, IdleIs, JobHas DEF Moved, Same, Others, CloserOK, Over,
      Closing, OwnOK, UniqueOK
  <2>5. CASE b = t
    BY <1>0, <2>1, <2>2, <2>5, IdleIs, JobHas DEF Moved, Same, Others, CloserOK, Over,
      Closing
  <2> QED
    BY <2>3, <2>4, <2>5
<1>35. ASSUME NEW t \in Terminals, ProbeExternal(t) PROVE CloserOK'
  <2>1. /\ UNCHANGED <<mode, kinds, guard, run, records, intents, tmux, intent, active,
                       head, link, dirty, tokens>>
        /\ job' \in [Terminals -> JobType] /\ Others(t)
        /\ mode = "external"
        /\ \/ job[t].pc = "probe" /\ (Moved(t, "unlock") \/ (~Blocking(records)
                /\ Moved(t, "probe2")))
           \/ job[t].pc = "probe2" /\ (Moved(t, "unlock") \/ (~Blocking(intents)
                /\ Moved(t, "probe3")))
           \/ /\ job[t].pc = "probe3"
              /\ Moved(t, "unlock") \/ ((\A s \in tmux : ~applies(s[1]))
                   /\ Moved(t, "admitted"))
    BY <1>0, <1>35, ProbeExternalIs
  <2>2. SUFFICES ASSUME NEW a \in Terminals, NEW b \in Terminals,
             job'[a].pc \in Closing, a # b, job'[b].token # 0, job'[b].token =
             job'[a].of.token
           PROVE  Over(b)'
    BY DEF CloserOK
  <2>3. CASE a # t /\ b # t
    BY <1>0, <2>1, <2>2, <2>3 DEF Others, CloserOK, Over
  <2>4. CASE a = t
    BY <1>0, <2>1, <2>2, <2>4, IdleIs, JobHas DEF Moved, Same, Others, CloserOK, Over,
      Closing, OwnOK, UniqueOK
  <2>5. CASE b = t
    BY <1>0, <2>1, <2>2, <2>5, IdleIs, JobHas DEF Moved, Same, Others, CloserOK, Over,
      Closing
  <2> QED
    BY <2>3, <2>4, <2>5
<1>36. ASSUME NEW t \in Terminals, ProbeCheckout(t) PROVE CloserOK'
  <2>1. /\ UNCHANGED <<mode, kinds, guard, run, records, intents, tmux, intent, active,
                       head, link, dirty, tokens>>
        /\ job' \in [Terminals -> JobType] /\ Others(t)
        /\ mode = "checkout"
        /\ \/ job[t].pc = "probe" /\ (Moved(t, "unlock")
                \/ (~CheckoutSessionIntent /\ Moved(t, "probe2")))
           \/ job[t].pc = "probe2" /\ (Moved(t, "unlock") \/ (active = NoSession
                /\ Moved(t, "admitted")))
    BY <1>0, <1>36, ProbeCheckoutIs
  <2>2. SUFFICES ASSUME NEW a \in Terminals, NEW b \in Terminals,
             job'[a].pc \in Closing, a # b, job'[b].token # 0, job'[b].token =
             job'[a].of.token
           PROVE  Over(b)'
    BY DEF CloserOK
  <2>3. CASE a # t /\ b # t
    BY <1>0, <2>1, <2>2, <2>3 DEF Others, CloserOK, Over
  <2>4. CASE a = t
    BY <1>0, <2>1, <2>2, <2>4, IdleIs, JobHas DEF Moved, Same, Others, CloserOK, Over,
      Closing, OwnOK, UniqueOK
  <2>5. CASE b = t
    BY <1>0, <2>1, <2>2, <2>5, IdleIs, JobHas DEF Moved, Same, Others, CloserOK, Over,
      Closing
  <2> QED
    BY <2>3, <2>4, <2>5
<1>37. ASSUME NEW t \in Terminals, Mutate(t) PROVE CloserOK'
  <2>1. /\ UNCHANGED <<mode, kinds, guard, records, intents, tmux, intent, active, head,
                       link, dirty, tokens>>
        /\ job' \in [Terminals -> JobType] /\ Others(t)
        /\ job[t].pc = "admitted" /\ Moved(t, "working") /\ run' \in BOOLEAN
    BY <1>0, <1>37, MutateIs
  <2>2. SUFFICES ASSUME NEW a \in Terminals, NEW b \in Terminals,
             job'[a].pc \in Closing, a # b, job'[b].token # 0, job'[b].token =
             job'[a].of.token
           PROVE  Over(b)'
    BY DEF CloserOK
  <2>3. CASE a # t /\ b # t
    BY <1>0, <2>1, <2>2, <2>3 DEF Others, CloserOK, Over
  <2>4. CASE a = t
    BY <1>0, <2>1, <2>2, <2>4, IdleIs, JobHas DEF Moved, Same, Others, CloserOK, Over,
      Closing, OwnOK, UniqueOK
  <2>5. CASE b = t
    BY <1>0, <2>1, <2>2, <2>5, IdleIs, JobHas DEF Moved, Same, Others, CloserOK, Over,
      Closing
  <2> QED
    BY <2>3, <2>4, <2>5
<1>38. ASSUME NEW t \in Terminals, FinishMutation(t) PROVE CloserOK'
  <2>1. /\ UNCHANGED <<mode, kinds, guard, records, intents, tmux, intent, active, head,
                       link, dirty, tokens>>
        /\ job' \in [Terminals -> JobType] /\ Others(t)
        /\ job[t].pc = "working" /\ Moved(t, "unlock") /\ ~run'
    BY <1>0, <1>38, FinishMutationIs
  <2>2. SUFFICES ASSUME NEW a \in Terminals, NEW b \in Terminals,
             job'[a].pc \in Closing, a # b, job'[b].token # 0, job'[b].token =
             job'[a].of.token
           PROVE  Over(b)'
    BY DEF CloserOK
  <2>3. CASE a # t /\ b # t
    BY <1>0, <2>1, <2>2, <2>3 DEF Others, CloserOK, Over
  <2>4. CASE a = t
    BY <1>0, <2>1, <2>2, <2>4, IdleIs, JobHas DEF Moved, Same, Others, CloserOK, Over,
      Closing, OwnOK, UniqueOK
  <2>5. CASE b = t
    BY <1>0, <2>1, <2>2, <2>5, IdleIs, JobHas DEF Moved, Same, Others, CloserOK, Over,
      Closing
  <2> QED
    BY <2>3, <2>4, <2>5
<1>39. ASSUME NEW t \in Terminals, releaseReparentModeLock(t) PROVE CloserOK'
  <2>1. /\ UNCHANGED <<mode, kinds, run, records, intents, tmux, intent, active, head,
                       link, dirty, tokens>>
        /\ job' \in [Terminals -> JobType] /\ Others(t)
        /\ job[t].pc = "unlock" /\ Gone(t) /\ guard' = 0
    BY <1>0, <1>39, releaseReparentModeLockIs
  <2>2. SUFFICES ASSUME NEW a \in Terminals, NEW b \in Terminals,
             job'[a].pc \in Closing, a # b, job'[b].token # 0, job'[b].token =
             job'[a].of.token
           PROVE  Over(b)'
    BY DEF CloserOK
  <2>3. CASE a # t /\ b # t
    BY <1>0, <2>1, <2>2, <2>3 DEF Others, CloserOK, Over
  <2>4. CASE a = t
    BY <1>0, <2>1, <2>2, <2>4, IdleIs, JobHas DEF Gone, Others, CloserOK, Over, Closing,
      OwnOK, UniqueOK
  <2>5. CASE b = t
    BY <1>0, <2>1, <2>2, <2>5, IdleIs, JobHas DEF Gone, Others, CloserOK, Over, Closing
  <2> QED
    BY <2>3, <2>4, <2>5
<1>40. ASSUME NEW t \in Terminals, Kill(t) PROVE CloserOK'
  <2>1. /\ UNCHANGED <<mode, kinds, guard, run, records, intents, tmux, intent, active,
                       head, link, dirty, tokens>>
        /\ job' \in [Terminals -> JobType] /\ Others(t)
        /\ job[t].pc # "idle" /\ Gone(t)
    BY <1>0, <1>40, KillIs
  <2>2. SUFFICES ASSUME NEW a \in Terminals, NEW b \in Terminals,
             job'[a].pc \in Closing, a # b, job'[b].token # 0, job'[b].token =
             job'[a].of.token
           PROVE  Over(b)'
    BY DEF CloserOK
  <2>3. CASE a # t /\ b # t
    BY <1>0, <2>1, <2>2, <2>3 DEF Others, CloserOK, Over
  <2>4. CASE a = t
    BY <1>0, <2>1, <2>2, <2>4, IdleIs, JobHas DEF Gone, Others, CloserOK, Over, Closing,
      OwnOK, UniqueOK
  <2>5. CASE b = t
    BY <1>0, <2>1, <2>2, <2>5, IdleIs, JobHas DEF Gone, Others, CloserOK, Over, Closing
  <2> QED
    BY <2>3, <2>4, <2>5
<1>41. ASSUME NEW name \in Branches, runExternalClose(name) PROVE CloserOK'
  BY <1>0, <1>41, runExternalCloseIs, IdleIs, JobHas DEF LabelsOK, UniqueOK, OwnOK,
    ActiveOK, CloserOK, Over, Closing, Launched, ExternalLabels, CheckoutLabels,
    MutationLabels, Names
<1>42. ASSUME NEW s \in tmux, TmuxEnds(s) PROVE CloserOK'
  BY <1>0, <1>42, TmuxEndsIs, IdleIs, JobHas DEF LabelsOK, UniqueOK, OwnOK, ActiveOK,
    CloserOK, Over, Closing, Launched, ExternalLabels, CheckoutLabels, MutationLabels
<1>43. ASSUME Person PROVE CloserOK'
  BY <1>0, <1>43, PersonIs, IdleIs, JobHas DEF LabelsOK, UniqueOK, OwnOK, ActiveOK,
    CloserOK, Over, Closing, Launched, ExternalLabels, CheckoutLabels, MutationLabels
<1> QED
  BY <1>1, <1>2, <1>3, <1>4, <1>5, <1>6, <1>7, <1>8, <1>9, <1>10, <1>11, <1>12, <1>13,
    <1>14, <1>15, <1>16, <1>17, <1>18, <1>19, <1>20, <1>21, <1>22, <1>23, <1>24, <1>25,
    <1>26, <1>27, <1>28, <1>29, <1>30, <1>31, <1>32, <1>33, <1>34, <1>35, <1>36, <1>37,
    <1>38, <1>39, <1>40, <1>41, <1>42, <1>43 DEF Next, Names

\* Nobody comes in behind the look of a mutation.
LEMMA AloneOKStep ==
  ASSUME SessionsInv, Next
  PROVE  AloneOK'
<1>0. TypeOK /\ TokensOK /\ LabelsOK /\ IntentOK /\ AloneOK /\ UniqueOK
  BY DEF SessionsInv, TokensOK
<1>1. ASSUME NEW t \in Terminals, NEW name \in Names, NEW tm \in BOOLEAN, OpenAgent(t,
  name, tm) PROVE AloneOK'
  BY <1>0, <1>1, OpenAgentIs, IdleIs, JobHas, NextIsNew DEF Begun, Others, LabelsOK,
    UniqueOK, IntentOK, AloneOK, Tenants, At, CheckoutSessionIntent, DeadIntent,
    processAlive, NoIntent, ExternalLabels, CheckoutLabels, MutationLabels
<1>2. ASSUME NEW t \in Terminals, NEW name \in Names, NEW tm \in BOOLEAN, OpenCommand(t,
  name, tm) PROVE AloneOK'
  BY <1>0, <1>2, OpenCommandIs, IdleIs, JobHas, NextIsNew DEF Begun, Others, LabelsOK,
    UniqueOK, IntentOK, AloneOK, Tenants, At, CheckoutSessionIntent, DeadIntent,
    processAlive, NoIntent, ExternalLabels, CheckoutLabels, MutationLabels
<1>3. ASSUME NEW t \in Terminals, NEW name \in Names, NEW tm \in BOOLEAN,
  OpenCheckoutAgent(t, name, tm) PROVE AloneOK'
  BY <1>0, <1>3, OpenCheckoutAgentIs, IdleIs, JobHas, NextIsNew DEF Begun, Others,
    LabelsOK, UniqueOK, IntentOK, AloneOK, Tenants, At, CheckoutSessionIntent,
    DeadIntent, processAlive, NoIntent, ExternalLabels, CheckoutLabels, MutationLabels
<1>4. ASSUME NEW t \in Terminals, NEW name \in Names, NEW tm \in BOOLEAN,
  OpenCheckoutCommand(t, name, tm) PROVE AloneOK'
  BY <1>0, <1>4, OpenCheckoutCommandIs, IdleIs, JobHas, NextIsNew DEF Begun, Others,
    LabelsOK, UniqueOK, IntentOK, AloneOK, Tenants, At, CheckoutSessionIntent,
    DeadIntent, processAlive, NoIntent, ExternalLabels, CheckoutLabels, MutationLabels
<1>5. ASSUME NEW t \in Terminals, FinalGuard(t) PROVE AloneOK'
  BY <1>0, <1>5, FinalGuardIs, IdleIs, JobHas DEF Moved, Same, Others, LabelsOK,
    UniqueOK, IntentOK, AloneOK, Tenants, At, CheckoutSessionIntent, DeadIntent,
    processAlive, NoIntent, ExternalLabels, CheckoutLabels, MutationLabels
<1>6. ASSUME NEW t \in Terminals, RecordCommand(t) PROVE AloneOK'
  BY <1>0, <1>6, RecordCommandIs, IdleIs, JobHas DEF Moved, Same, Others, LabelsOK,
    UniqueOK, IntentOK, AloneOK, Tenants, At, CheckoutSessionIntent, DeadIntent,
    processAlive, NoIntent, ExternalLabels, CheckoutLabels, MutationLabels
<1>7. ASSUME NEW t \in Terminals, LaunchGuard(t) PROVE AloneOK'
  BY <1>0, <1>7, LaunchGuardIs, IdleIs, JobHas DEF Moved, Same, Others, LabelsOK,
    UniqueOK, IntentOK, AloneOK, Tenants, At, CheckoutSessionIntent, DeadIntent,
    processAlive, NoIntent, ExternalLabels, CheckoutLabels, MutationLabels
<1>8. ASSUME NEW t \in Terminals, Start(t) PROVE AloneOK'
  BY <1>0, <1>8, StartIs, IdleIs, JobHas DEF Moved, Same, Others, LabelsOK, UniqueOK,
    IntentOK, AloneOK, Tenants, At, CheckoutSessionIntent, DeadIntent, processAlive,
    NoIntent, ExternalLabels, CheckoutLabels, MutationLabels
<1>9. ASSUME NEW t \in Terminals, openWithTmux(t) PROVE AloneOK'
  BY <1>0, <1>9, openWithTmuxIs, IdleIs, JobHas DEF Moved, Same, Others, LabelsOK,
    UniqueOK, IntentOK, AloneOK, Tenants, At, CheckoutSessionIntent, DeadIntent,
    processAlive, NoIntent, ExternalLabels, CheckoutLabels, MutationLabels
<1>10. ASSUME NEW t \in Terminals, RunExternalTmuxCommand(t) PROVE AloneOK'
  BY <1>0, <1>10, RunExternalTmuxCommandIs, IdleIs, JobHas DEF Moved, Same, Others,
    LabelsOK, UniqueOK, IntentOK, AloneOK, Tenants, At, CheckoutSessionIntent,
    DeadIntent, processAlive, NoIntent, ExternalLabels, CheckoutLabels, MutationLabels
<1>11. ASSUME NEW t \in Terminals, Leave(t) PROVE AloneOK'
  BY <1>0, <1>11, LeaveIs, IdleIs, JobHas DEF Moved, Same, Others, LabelsOK, UniqueOK,
    IntentOK, AloneOK, Tenants, At, CheckoutSessionIntent, DeadIntent, processAlive,
    NoIntent, ExternalLabels, CheckoutLabels, MutationLabels
<1>12. ASSUME NEW t \in Terminals, RemoveOwnedExternalSessionIntent(t) PROVE AloneOK'
  BY <1>0, <1>12, RemoveOwnedExternalSessionIntentIs, IdleIs, JobHas DEF Gone, Others,
    LabelsOK, UniqueOK, IntentOK, AloneOK, Tenants, At, CheckoutSessionIntent,
    DeadIntent, processAlive, NoIntent, ExternalLabels, CheckoutLabels, MutationLabels
<1>13. ASSUME NEW t \in Terminals, MakeIntent(t) PROVE AloneOK'
  BY <1>0, <1>13, MakeIntentIs, IdleIs, JobHas DEF Moved, Same, Gone, Others, LabelsOK,
    UniqueOK, IntentOK, AloneOK, Tenants, At, CheckoutSessionIntent, DeadIntent,
    processAlive, NoIntent, ExternalLabels, CheckoutLabels, MutationLabels
<1>14. ASSUME NEW t \in Terminals, OwnIntent(t) PROVE AloneOK'
  BY <1>0, <1>14, OwnIntentIs, IdleIs, JobHas DEF Moved, Same, Others, LabelsOK,
    UniqueOK, IntentOK, AloneOK, Tenants, At, CheckoutSessionIntent, DeadIntent,
    processAlive, NoIntent, ExternalLabels, CheckoutLabels, MutationLabels
<1>15. ASSUME NEW t \in Terminals, WithCheckoutSessionLaunchIntent(t) PROVE AloneOK'
  BY <1>0, <1>15, WithCheckoutSessionLaunchIntentIs, IdleIs, JobHas DEF Noted, Same,
    Others, LabelsOK, UniqueOK, IntentOK, AloneOK, Tenants, At, CheckoutSessionIntent,
    DeadIntent, processAlive, NoIntent, ExternalLabels, CheckoutLabels, MutationLabels
<1>16. ASSUME NEW t \in Terminals, CheckSession(t) PROVE AloneOK'
  BY <1>0, <1>16, CheckSessionIs, IdleIs, JobHas DEF Noted, Same, Others, LabelsOK,
    UniqueOK, IntentOK, AloneOK, Tenants, At, CheckoutSessionIntent, DeadIntent,
    processAlive, NoIntent, ExternalLabels, CheckoutLabels, MutationLabels
<1>17. ASSUME NEW t \in Terminals, createCheckoutCommandState(t) PROVE AloneOK'
  <2>1. /\ UNCHANGED <<mode, kinds, guard, run, records, intents, tmux, intent, head,
                       link, dirty, tokens>>
        /\ job' \in [Terminals -> JobType] /\ Others(t)
        /\ job[t].pc = "publish"
        /\ \/ active = NoSession /\ active' = job[t].of /\ Moved(t, "switch")
           \/ Gone(t) /\ UNCHANGED active
    BY <1>0, <1>17, createCheckoutCommandStateIs
  <2>2. t \in Tenants
    BY <2>1 DEF Tenants, At
  <2>3. mode = "checkout" =>
          \A u \in Terminals : job[u].pc \notin {"probe2", "probe3", "admitted", "working"}
    BY <1>0, <2>2 DEF AloneOK
  <2> QED
    BY <2>1, <2>3, IdleIs DEF AloneOK, Others, Moved, Gone
<1>18. ASSUME NEW t \in Terminals, SwitchTo(t) PROVE AloneOK'
  BY <1>0, <1>18, SwitchToIs, IdleIs, JobHas DEF Moved, Same, Undone, Others, LabelsOK,
    UniqueOK, IntentOK, AloneOK, Tenants, At, CheckoutSessionIntent, DeadIntent,
    processAlive, NoIntent, ExternalLabels, CheckoutLabels, MutationLabels
<1>19. ASSUME NEW t \in Terminals, ApplyCheckoutSessionLinks(t) PROVE AloneOK'
  BY <1>0, <1>19, ApplyCheckoutSessionLinksIs, IdleIs, JobHas DEF Moved, Same, Undone,
    Others, LabelsOK, UniqueOK, IntentOK, AloneOK, Tenants, At, CheckoutSessionIntent,
    DeadIntent, processAlive, NoIntent, ExternalLabels, CheckoutLabels, MutationLabels
<1>20. ASSUME NEW t \in Terminals, OpenCheckoutTmux(t) PROVE AloneOK'
  BY <1>0, <1>20, OpenCheckoutTmuxIs, IdleIs, JobHas DEF Moved, Same, Others, LabelsOK,
    UniqueOK, IntentOK, AloneOK, Tenants, At, CheckoutSessionIntent, DeadIntent,
    processAlive, NoIntent, ExternalLabels, CheckoutLabels, MutationLabels
<1>21. ASSUME NEW t \in Terminals, runCheckoutTmuxCommand(t) PROVE AloneOK'
  BY <1>0, <1>21, runCheckoutTmuxCommandIs, IdleIs, JobHas DEF Moved, Same, Gone,
    Others, LabelsOK, UniqueOK, IntentOK, AloneOK, Tenants, At, CheckoutSessionIntent,
    DeadIntent, processAlive, NoIntent, ExternalLabels, CheckoutLabels, MutationLabels
<1>22. ASSUME NEW t \in Terminals, SaveCheckoutAgentSession(t) PROVE AloneOK'
  <2>1. /\ UNCHANGED <<mode, kinds, guard, run, records, intents, tmux, intent, head,
                       link, dirty, tokens>>
        /\ job' \in [Terminals -> JobType] /\ Others(t)
        /\ job[t].pc = "save" /\ Moved(t, "running") /\ active' = job[t].of
    BY <1>0, <1>22, SaveCheckoutAgentSessionIs
  <2>2. t \in Tenants
    BY <2>1 DEF Tenants, At
  <2>3. mode = "checkout" =>
          \A u \in Terminals : job[u].pc \notin {"probe2", "probe3", "admitted", "working"}
    BY <1>0, <2>2 DEF AloneOK
  <2> QED
    BY <2>1, <2>3, IdleIs DEF AloneOK, Others, Moved
<1>23. ASSUME NEW t \in Terminals, EndSession(t) PROVE AloneOK'
  BY <1>0, <1>23, EndSessionIs, IdleIs, JobHas DEF Moved, Same, Gone, Others, LabelsOK,
    UniqueOK, IntentOK, AloneOK, Tenants, At, CheckoutSessionIntent, DeadIntent,
    processAlive, NoIntent, ExternalLabels, CheckoutLabels, MutationLabels
<1>24. ASSUME NEW t \in Terminals, CloseCheckoutSession(t) PROVE AloneOK'
  BY <1>0, <1>24, CloseCheckoutSessionIs, IdleIs, JobHas DEF Closes, Others, LabelsOK,
    UniqueOK, IntentOK, AloneOK, Tenants, At, CheckoutSessionIntent, DeadIntent,
    processAlive, NoIntent, ExternalLabels, CheckoutLabels, MutationLabels
<1>25. ASSUME NEW t \in Terminals, closeCheckoutCommandSession(t) PROVE AloneOK'
  BY <1>0, <1>25, closeCheckoutCommandSessionIs, IdleIs, JobHas DEF Closes, Others,
    LabelsOK, UniqueOK, IntentOK, AloneOK, Tenants, At, CheckoutSessionIntent,
    DeadIntent, processAlive, NoIntent, ExternalLabels, CheckoutLabels, MutationLabels
<1>26. ASSUME NEW t \in Terminals, Unlink(t) PROVE AloneOK'
  BY <1>0, <1>26, UnlinkIs, IdleIs, JobHas DEF Moved, Same, Gone, Others, LabelsOK,
    UniqueOK, IntentOK, AloneOK, Tenants, At, CheckoutSessionIntent, DeadIntent,
    processAlive, NoIntent, ExternalLabels, CheckoutLabels, MutationLabels
<1>27. ASSUME NEW t \in Terminals, SwitchBack(t) PROVE AloneOK'
  BY <1>0, <1>27, SwitchBackIs, IdleIs, JobHas DEF Moved, Same, Gone, Others, LabelsOK,
    UniqueOK, IntentOK, AloneOK, Tenants, At, CheckoutSessionIntent, DeadIntent,
    processAlive, NoIntent, ExternalLabels, CheckoutLabels, MutationLabels
<1>28. ASSUME NEW t \in Terminals, finishCheckoutSession(t) PROVE AloneOK'
  BY <1>0, <1>28, finishCheckoutSessionIs, IdleIs, JobHas DEF Moved, Same, Gone, Others,
    LabelsOK, UniqueOK, IntentOK, AloneOK, Tenants, At, CheckoutSessionIntent,
    DeadIntent, processAlive, NoIntent, ExternalLabels, CheckoutLabels, MutationLabels
<1>29. ASSUME NEW t \in Terminals, releaseAgentSessionLock(t) PROVE AloneOK'
  BY <1>0, <1>29, releaseAgentSessionLockIs, IdleIs, JobHas DEF Gone, Others, LabelsOK,
    UniqueOK, IntentOK, AloneOK, Tenants, At, CheckoutSessionIntent, DeadIntent,
    processAlive, NoIntent, ExternalLabels, CheckoutLabels, MutationLabels
<1>30. ASSUME NEW t \in Terminals, NEW what \in {"reparent", "template"},
  acquireReparentModeLock(t, what) PROVE AloneOK'
  <2>1. /\ UNCHANGED <<mode, kinds, run, records, intents, tmux, intent, active, head,
                       link, dirty>>
        /\ job' \in [Terminals -> JobType] /\ Others(t) /\ guard' = tokens'
        /\ guard # 0 => \A u \in Terminals : job[u].token # guard
        /\ Begun(t, what, Feature, FALSE, "reserved")
    BY <1>0, <1>30, acquireReparentModeLockIs
  <2>2. /\ tokens' # 0 /\ tokens' # guard /\ tokens' # active.token /\ tokens' # intent.token
        /\ \A u \in Terminals : job[u].token # tokens' /\ job[u].of.token # tokens'
    BY <1>0, <2>1, NextIsNew DEF Begun
  <2> QED
    BY <1>0, <2>1, <2>2, IdleIs, JobHas DEF Begun, Others, LabelsOK, UniqueOK, IntentOK,
      AloneOK, Tenants, At, CheckoutSessionIntent, DeadIntent, processAlive, NoIntent,
      ExternalLabels, CheckoutLabels, MutationLabels
<1>31. ASSUME NEW t \in Terminals, openReparentRecovery(t) PROVE AloneOK'
  <2>1. /\ UNCHANGED <<mode, kinds, run, records, intents, tmux, intent, active, head,
                       link, dirty>>
        /\ job' \in [Terminals -> JobType] /\ Others(t) /\ guard' = tokens'
        /\ guard # 0 => \A u \in Terminals : job[u].token # guard
        /\ Begun(t, "reparent", Feature, FALSE, "reserved")
    BY <1>0, <1>31, openReparentRecoveryIs
  <2>2. /\ tokens' # 0 /\ tokens' # guard /\ tokens' # active.token /\ tokens' # intent.token
        /\ \A u \in Terminals : job[u].token # tokens' /\ job[u].of.token # tokens'
    BY <1>0, <2>1, NextIsNew DEF Begun
  <2> QED
    BY <1>0, <2>1, <2>2, IdleIs, JobHas DEF Begun, Others, LabelsOK, UniqueOK, IntentOK,
      AloneOK, Tenants, At, CheckoutSessionIntent, DeadIntent, processAlive, NoIntent,
      ExternalLabels, CheckoutLabels, MutationLabels
<1>32. ASSUME NEW t \in Terminals, SessionIntentCleanup(t) PROVE AloneOK'
  BY <1>0, <1>32, SessionIntentCleanupIs, IdleIs, JobHas DEF Moved, Same, Others,
    LabelsOK, UniqueOK, IntentOK, AloneOK, Tenants, At, CheckoutSessionIntent,
    DeadIntent, processAlive, NoIntent, ExternalLabels, CheckoutLabels, MutationLabels
<1>33. ASSUME NEW t \in Terminals, CleanupStaleCheckoutSessionIntent(t) PROVE AloneOK'
  BY <1>0, <1>33, CleanupStaleCheckoutSessionIntentIs, IdleIs, JobHas DEF Moved, Same,
    Others, LabelsOK, UniqueOK, IntentOK, AloneOK, Tenants, At, CheckoutSessionIntent,
    DeadIntent, processAlive, NoIntent, ExternalLabels, CheckoutLabels, MutationLabels
<1>34. ASSUME NEW t \in Terminals, NoCleanup(t) PROVE AloneOK'
  BY <1>0, <1>34, NoCleanupIs, IdleIs, JobHas DEF Moved, Same, Others, LabelsOK,
    UniqueOK, IntentOK, AloneOK, Tenants, At, CheckoutSessionIntent, DeadIntent,
    processAlive, NoIntent, ExternalLabels, CheckoutLabels, MutationLabels
<1>35. ASSUME NEW t \in Terminals, ProbeExternal(t) PROVE AloneOK'
  BY <1>0, <1>35, ProbeExternalIs, IdleIs, JobHas DEF Moved, Same, Others, LabelsOK,
    UniqueOK, IntentOK, AloneOK, Tenants, At, CheckoutSessionIntent, DeadIntent,
    processAlive, NoIntent, ExternalLabels, CheckoutLabels, MutationLabels
<1>36. ASSUME NEW t \in Terminals, ProbeCheckout(t) PROVE AloneOK'
  BY <1>0, <1>36, ProbeCheckoutIs, IdleIs, JobHas DEF Moved, Same, Others, LabelsOK,
    UniqueOK, IntentOK, AloneOK, Tenants, At, CheckoutSessionIntent, DeadIntent,
    processAlive, NoIntent, ExternalLabels, CheckoutLabels, MutationLabels
<1>37. ASSUME NEW t \in Terminals, Mutate(t) PROVE AloneOK'
  BY <1>0, <1>37, MutateIs, IdleIs, JobHas DEF Moved, Same, Others, LabelsOK, UniqueOK,
    IntentOK, AloneOK, Tenants, At, CheckoutSessionIntent, DeadIntent, processAlive,
    NoIntent, ExternalLabels, CheckoutLabels, MutationLabels
<1>38. ASSUME NEW t \in Terminals, FinishMutation(t) PROVE AloneOK'
  BY <1>0, <1>38, FinishMutationIs, IdleIs, JobHas DEF Moved, Same, Others, LabelsOK,
    UniqueOK, IntentOK, AloneOK, Tenants, At, CheckoutSessionIntent, DeadIntent,
    processAlive, NoIntent, ExternalLabels, CheckoutLabels, MutationLabels
<1>39. ASSUME NEW t \in Terminals, releaseReparentModeLock(t) PROVE AloneOK'
  BY <1>0, <1>39, releaseReparentModeLockIs, IdleIs, JobHas DEF Gone, Others, LabelsOK,
    UniqueOK, IntentOK, AloneOK, Tenants, At, CheckoutSessionIntent, DeadIntent,
    processAlive, NoIntent, ExternalLabels, CheckoutLabels, MutationLabels
<1>40. ASSUME NEW t \in Terminals, Kill(t) PROVE AloneOK'
  BY <1>0, <1>40, KillIs, IdleIs, JobHas DEF Gone, Others, LabelsOK, UniqueOK, IntentOK,
    AloneOK, Tenants, At, CheckoutSessionIntent, DeadIntent, processAlive, NoIntent,
    ExternalLabels, CheckoutLabels, MutationLabels
<1>41. ASSUME NEW name \in Branches, runExternalClose(name) PROVE AloneOK'
  BY <1>0, <1>41, runExternalCloseIs, IdleIs, JobHas DEF LabelsOK, UniqueOK, IntentOK,
    AloneOK, Tenants, At, CheckoutSessionIntent, DeadIntent, processAlive, NoIntent,
    ExternalLabels, CheckoutLabels, MutationLabels, Names
<1>42. ASSUME NEW s \in tmux, TmuxEnds(s) PROVE AloneOK'
  BY <1>0, <1>42, TmuxEndsIs, IdleIs, JobHas DEF LabelsOK, UniqueOK, IntentOK, AloneOK,
    Tenants, At, CheckoutSessionIntent, DeadIntent, processAlive, NoIntent,
    ExternalLabels, CheckoutLabels, MutationLabels
<1>43. ASSUME Person PROVE AloneOK'
  BY <1>0, <1>43, PersonIs, IdleIs, JobHas DEF LabelsOK, UniqueOK, IntentOK, AloneOK,
    Tenants, At, CheckoutSessionIntent, DeadIntent, processAlive, NoIntent,
    ExternalLabels, CheckoutLabels, MutationLabels
<1> QED
  BY <1>1, <1>2, <1>3, <1>4, <1>5, <1>6, <1>7, <1>8, <1>9, <1>10, <1>11, <1>12, <1>13,
    <1>14, <1>15, <1>16, <1>17, <1>18, <1>19, <1>20, <1>21, <1>22, <1>23, <1>24, <1>25,
    <1>26, <1>27, <1>28, <1>29, <1>30, <1>31, <1>32, <1>33, <1>34, <1>35, <1>36, <1>37,
    <1>38, <1>39, <1>40, <1>41, <1>42, <1>43 DEF Next, Names

\* Only commands are opened, so only commands run.
LEMMA CommandsOKStep ==
  ASSUME SessionsInv, Next, CommandsOnly
  PROVE  CommandsOK'
<1>0. TypeOK /\ TokensOK /\ LabelsOK /\ OwnOK /\ CommandsOnly /\ CommandsOK /\ UniqueOK
  BY DEF SessionsInv, TokensOK
<1>1. ASSUME NEW t \in Terminals, NEW name \in Names, NEW tm \in BOOLEAN, OpenAgent(t,
  name, tm) PROVE CommandsOK'
  BY <1>0, <1>1, OpenAgentIs, IdleIs, JobHas, NextIsNew DEF Begun, Others, LabelsOK,
    OwnOK, CommandsOnly, CommandsOK, ExternalLabels, CheckoutLabels, MutationLabels
<1>2. ASSUME NEW t \in Terminals, NEW name \in Names, NEW tm \in BOOLEAN, OpenCommand(t,
  name, tm) PROVE CommandsOK'
  BY <1>0, <1>2, OpenCommandIs, IdleIs, JobHas, NextIsNew DEF Begun, Others, LabelsOK,
    OwnOK, CommandsOnly, CommandsOK, ExternalLabels, CheckoutLabels, MutationLabels
<1>3. ASSUME NEW t \in Terminals, NEW name \in Names, NEW tm \in BOOLEAN,
  OpenCheckoutAgent(t, name, tm) PROVE CommandsOK'
  BY <1>0, <1>3, OpenCheckoutAgentIs, IdleIs, JobHas, NextIsNew DEF Begun, Others,
    LabelsOK, OwnOK, CommandsOnly, CommandsOK, ExternalLabels, CheckoutLabels,
    MutationLabels
<1>4. ASSUME NEW t \in Terminals, NEW name \in Names, NEW tm \in BOOLEAN,
  OpenCheckoutCommand(t, name, tm) PROVE CommandsOK'
  BY <1>0, <1>4, OpenCheckoutCommandIs, IdleIs, JobHas, NextIsNew DEF Begun, Others,
    LabelsOK, OwnOK, CommandsOnly, CommandsOK, ExternalLabels, CheckoutLabels,
    MutationLabels
<1>5. ASSUME NEW t \in Terminals, FinalGuard(t) PROVE CommandsOK'
  BY <1>0, <1>5, FinalGuardIs, IdleIs, JobHas DEF Moved, Same, Others, LabelsOK, OwnOK,
    CommandsOnly, CommandsOK, ExternalLabels, CheckoutLabels, MutationLabels
<1>6. ASSUME NEW t \in Terminals, RecordCommand(t) PROVE CommandsOK'
  BY <1>0, <1>6, RecordCommandIs, IdleIs, JobHas DEF Moved, Same, Others, LabelsOK,
    OwnOK, CommandsOnly, CommandsOK, ExternalLabels, CheckoutLabels, MutationLabels
<1>7. ASSUME NEW t \in Terminals, LaunchGuard(t) PROVE CommandsOK'
  BY <1>0, <1>7, LaunchGuardIs, IdleIs, JobHas DEF Moved, Same, Others, LabelsOK, OwnOK,
    CommandsOnly, CommandsOK, ExternalLabels, CheckoutLabels, MutationLabels
<1>8. ASSUME NEW t \in Terminals, Start(t) PROVE CommandsOK'
  BY <1>0, <1>8, StartIs, IdleIs, JobHas DEF Moved, Same, Others, LabelsOK, OwnOK,
    CommandsOnly, CommandsOK, ExternalLabels, CheckoutLabels, MutationLabels
<1>9. ASSUME NEW t \in Terminals, openWithTmux(t) PROVE CommandsOK'
  BY <1>0, <1>9, openWithTmuxIs, IdleIs, JobHas DEF Moved, Same, Others, LabelsOK,
    OwnOK, CommandsOnly, CommandsOK, ExternalLabels, CheckoutLabels, MutationLabels
<1>10. ASSUME NEW t \in Terminals, RunExternalTmuxCommand(t) PROVE CommandsOK'
  BY <1>0, <1>10, RunExternalTmuxCommandIs, IdleIs, JobHas DEF Moved, Same, Others,
    LabelsOK, OwnOK, CommandsOnly, CommandsOK, ExternalLabels, CheckoutLabels,
    MutationLabels
<1>11. ASSUME NEW t \in Terminals, Leave(t) PROVE CommandsOK'
  BY <1>0, <1>11, LeaveIs, IdleIs, JobHas DEF Moved, Same, Others, LabelsOK, OwnOK,
    CommandsOnly, CommandsOK, ExternalLabels, CheckoutLabels, MutationLabels
<1>12. ASSUME NEW t \in Terminals, RemoveOwnedExternalSessionIntent(t) PROVE CommandsOK'
  BY <1>0, <1>12, RemoveOwnedExternalSessionIntentIs, IdleIs, JobHas DEF Gone, Others,
    LabelsOK, OwnOK, CommandsOnly, CommandsOK, ExternalLabels, CheckoutLabels,
    MutationLabels
<1>13. ASSUME NEW t \in Terminals, MakeIntent(t) PROVE CommandsOK'
  BY <1>0, <1>13, MakeIntentIs, IdleIs, JobHas DEF Moved, Same, Gone, Others, LabelsOK,
    OwnOK, CommandsOnly, CommandsOK, ExternalLabels, CheckoutLabels, MutationLabels
<1>14. ASSUME NEW t \in Terminals, OwnIntent(t) PROVE CommandsOK'
  BY <1>0, <1>14, OwnIntentIs, IdleIs, JobHas DEF Moved, Same, Others, LabelsOK, OwnOK,
    CommandsOnly, CommandsOK, ExternalLabels, CheckoutLabels, MutationLabels
<1>15. ASSUME NEW t \in Terminals, WithCheckoutSessionLaunchIntent(t) PROVE CommandsOK'
  BY <1>0, <1>15, WithCheckoutSessionLaunchIntentIs, IdleIs, JobHas DEF Noted, Same,
    Others, LabelsOK, OwnOK, CommandsOnly, CommandsOK, ExternalLabels, CheckoutLabels,
    MutationLabels
<1>16. ASSUME NEW t \in Terminals, CheckSession(t) PROVE CommandsOK'
  BY <1>0, <1>16, CheckSessionIs, IdleIs, JobHas DEF Noted, Same, Others, LabelsOK,
    OwnOK, CommandsOnly, CommandsOK, ExternalLabels, CheckoutLabels, MutationLabels
<1>17. ASSUME NEW t \in Terminals, createCheckoutCommandState(t) PROVE CommandsOK'
  BY <1>0, <1>17, createCheckoutCommandStateIs, IdleIs, JobHas DEF Moved, Same, Gone,
    Others, LabelsOK, OwnOK, CommandsOnly, CommandsOK, ExternalLabels, CheckoutLabels,
    MutationLabels
<1>18. ASSUME NEW t \in Terminals, SwitchTo(t) PROVE CommandsOK'
  BY <1>0, <1>18, SwitchToIs, IdleIs, JobHas DEF Moved, Same, Undone, Others, LabelsOK,
    OwnOK, CommandsOnly, CommandsOK, ExternalLabels, CheckoutLabels, MutationLabels
<1>19. ASSUME NEW t \in Terminals, ApplyCheckoutSessionLinks(t) PROVE CommandsOK'
  BY <1>0, <1>19, ApplyCheckoutSessionLinksIs, IdleIs, JobHas DEF Moved, Same, Undone,
    Others, LabelsOK, OwnOK, CommandsOnly, CommandsOK, ExternalLabels, CheckoutLabels,
    MutationLabels
<1>20. ASSUME NEW t \in Terminals, OpenCheckoutTmux(t) PROVE CommandsOK'
  BY <1>0, <1>20, OpenCheckoutTmuxIs, IdleIs, JobHas DEF Moved, Same, Others, LabelsOK,
    OwnOK, CommandsOnly, CommandsOK, ExternalLabels, CheckoutLabels, MutationLabels
<1>21. ASSUME NEW t \in Terminals, runCheckoutTmuxCommand(t) PROVE CommandsOK'
  BY <1>0, <1>21, runCheckoutTmuxCommandIs, IdleIs, JobHas DEF Moved, Same, Gone,
    Others, LabelsOK, OwnOK, CommandsOnly, CommandsOK, ExternalLabels, CheckoutLabels,
    MutationLabels
<1>22. ASSUME NEW t \in Terminals, SaveCheckoutAgentSession(t) PROVE CommandsOK'
  BY <1>0, <1>22, SaveCheckoutAgentSessionIs, IdleIs, JobHas DEF Moved, Same, Others,
    LabelsOK, OwnOK, CommandsOnly, CommandsOK, ExternalLabels, CheckoutLabels,
    MutationLabels
<1>23. ASSUME NEW t \in Terminals, EndSession(t) PROVE CommandsOK'
  BY <1>0, <1>23, EndSessionIs, IdleIs, JobHas DEF Moved, Same, Gone, Others, LabelsOK,
    OwnOK, CommandsOnly, CommandsOK, ExternalLabels, CheckoutLabels, MutationLabels
<1>24. ASSUME NEW t \in Terminals, CloseCheckoutSession(t) PROVE CommandsOK'
  BY <1>0, <1>24, CloseCheckoutSessionIs, IdleIs, JobHas DEF Closes, Others, LabelsOK,
    OwnOK, CommandsOnly, CommandsOK, ExternalLabels, CheckoutLabels, MutationLabels
<1>25. ASSUME NEW t \in Terminals, closeCheckoutCommandSession(t) PROVE CommandsOK'
  BY <1>0, <1>25, closeCheckoutCommandSessionIs, IdleIs, JobHas DEF Closes, Others,
    LabelsOK, OwnOK, CommandsOnly, CommandsOK, ExternalLabels, CheckoutLabels,
    MutationLabels
<1>26. ASSUME NEW t \in Terminals, Unlink(t) PROVE CommandsOK'
  BY <1>0, <1>26, UnlinkIs, IdleIs, JobHas DEF Moved, Same, Gone, Others, LabelsOK,
    OwnOK, CommandsOnly, CommandsOK, ExternalLabels, CheckoutLabels, MutationLabels
<1>27. ASSUME NEW t \in Terminals, SwitchBack(t) PROVE CommandsOK'
  BY <1>0, <1>27, SwitchBackIs, IdleIs, JobHas DEF Moved, Same, Gone, Others, LabelsOK,
    OwnOK, CommandsOnly, CommandsOK, ExternalLabels, CheckoutLabels, MutationLabels
<1>28. ASSUME NEW t \in Terminals, finishCheckoutSession(t) PROVE CommandsOK'
  BY <1>0, <1>28, finishCheckoutSessionIs, IdleIs, JobHas DEF Moved, Same, Gone, Others,
    LabelsOK, OwnOK, CommandsOnly, CommandsOK, ExternalLabels, CheckoutLabels,
    MutationLabels
<1>29. ASSUME NEW t \in Terminals, releaseAgentSessionLock(t) PROVE CommandsOK'
  BY <1>0, <1>29, releaseAgentSessionLockIs, IdleIs, JobHas DEF Gone, Others, LabelsOK,
    OwnOK, CommandsOnly, CommandsOK, ExternalLabels, CheckoutLabels, MutationLabels
<1>30. ASSUME NEW t \in Terminals, NEW what \in {"reparent", "template"},
  acquireReparentModeLock(t, what) PROVE CommandsOK'
  <2>1. /\ UNCHANGED <<mode, kinds, run, records, intents, tmux, intent, active, head,
                       link, dirty>>
        /\ job' \in [Terminals -> JobType] /\ Others(t) /\ guard' = tokens'
        /\ guard # 0 => \A u \in Terminals : job[u].token # guard
        /\ Begun(t, what, Feature, FALSE, "reserved")
    BY <1>0, <1>30, acquireReparentModeLockIs
  <2>2. /\ tokens' # 0 /\ tokens' # guard /\ tokens' # active.token /\ tokens' # intent.token
        /\ \A u \in Terminals : job[u].token # tokens' /\ job[u].of.token # tokens'
    BY <1>0, <2>1, NextIsNew DEF Begun
  <2> QED
    BY <1>0, <2>1, <2>2, IdleIs, JobHas DEF Begun, Others, LabelsOK, OwnOK,
      CommandsOnly, CommandsOK, ExternalLabels, CheckoutLabels, MutationLabels
<1>31. ASSUME NEW t \in Terminals, openReparentRecovery(t) PROVE CommandsOK'
  <2>1. /\ UNCHANGED <<mode, kinds, run, records, intents, tmux, intent, active, head,
                       link, dirty>>
        /\ job' \in [Terminals -> JobType] /\ Others(t) /\ guard' = tokens'
        /\ guard # 0 => \A u \in Terminals : job[u].token # guard
        /\ Begun(t, "reparent", Feature, FALSE, "reserved")
    BY <1>0, <1>31, openReparentRecoveryIs
  <2>2. /\ tokens' # 0 /\ tokens' # guard /\ tokens' # active.token /\ tokens' # intent.token
        /\ \A u \in Terminals : job[u].token # tokens' /\ job[u].of.token # tokens'
    BY <1>0, <2>1, NextIsNew DEF Begun
  <2> QED
    BY <1>0, <2>1, <2>2, IdleIs, JobHas DEF Begun, Others, LabelsOK, OwnOK,
      CommandsOnly, CommandsOK, ExternalLabels, CheckoutLabels, MutationLabels
<1>32. ASSUME NEW t \in Terminals, SessionIntentCleanup(t) PROVE CommandsOK'
  BY <1>0, <1>32, SessionIntentCleanupIs, IdleIs, JobHas DEF Moved, Same, Others,
    LabelsOK, OwnOK, CommandsOnly, CommandsOK, ExternalLabels, CheckoutLabels,
    MutationLabels
<1>33. ASSUME NEW t \in Terminals, CleanupStaleCheckoutSessionIntent(t) PROVE
  CommandsOK'
  BY <1>0, <1>33, CleanupStaleCheckoutSessionIntentIs, IdleIs, JobHas DEF Moved, Same,
    Others, LabelsOK, OwnOK, CommandsOnly, CommandsOK, ExternalLabels, CheckoutLabels,
    MutationLabels
<1>34. ASSUME NEW t \in Terminals, NoCleanup(t) PROVE CommandsOK'
  BY <1>0, <1>34, NoCleanupIs, IdleIs, JobHas DEF Moved, Same, Others, LabelsOK, OwnOK,
    CommandsOnly, CommandsOK, ExternalLabels, CheckoutLabels, MutationLabels
<1>35. ASSUME NEW t \in Terminals, ProbeExternal(t) PROVE CommandsOK'
  BY <1>0, <1>35, ProbeExternalIs, IdleIs, JobHas DEF Moved, Same, Others, LabelsOK,
    OwnOK, CommandsOnly, CommandsOK, ExternalLabels, CheckoutLabels, MutationLabels
<1>36. ASSUME NEW t \in Terminals, ProbeCheckout(t) PROVE CommandsOK'
  BY <1>0, <1>36, ProbeCheckoutIs, IdleIs, JobHas DEF Moved, Same, Others, LabelsOK,
    OwnOK, CommandsOnly, CommandsOK, ExternalLabels, CheckoutLabels, MutationLabels
<1>37. ASSUME NEW t \in Terminals, Mutate(t) PROVE CommandsOK'
  BY <1>0, <1>37, MutateIs, IdleIs, JobHas DEF Moved, Same, Others, LabelsOK, OwnOK,
    CommandsOnly, CommandsOK, ExternalLabels, CheckoutLabels, MutationLabels
<1>38. ASSUME NEW t \in Terminals, FinishMutation(t) PROVE CommandsOK'
  BY <1>0, <1>38, FinishMutationIs, IdleIs, JobHas DEF Moved, Same, Others, LabelsOK,
    OwnOK, CommandsOnly, CommandsOK, ExternalLabels, CheckoutLabels, MutationLabels
<1>39. ASSUME NEW t \in Terminals, releaseReparentModeLock(t) PROVE CommandsOK'
  BY <1>0, <1>39, releaseReparentModeLockIs, IdleIs, JobHas DEF Gone, Others, LabelsOK,
    OwnOK, CommandsOnly, CommandsOK, ExternalLabels, CheckoutLabels, MutationLabels
<1>40. ASSUME NEW t \in Terminals, Kill(t) PROVE CommandsOK'
  BY <1>0, <1>40, KillIs, IdleIs, JobHas DEF Gone, Others, LabelsOK, OwnOK,
    CommandsOnly, CommandsOK, ExternalLabels, CheckoutLabels, MutationLabels
<1>41. ASSUME NEW name \in Branches, runExternalClose(name) PROVE CommandsOK'
  BY <1>0, <1>41, runExternalCloseIs, IdleIs, JobHas DEF LabelsOK, OwnOK, CommandsOnly,
    CommandsOK, ExternalLabels, CheckoutLabels, MutationLabels, Names
<1>42. ASSUME NEW s \in tmux, TmuxEnds(s) PROVE CommandsOK'
  BY <1>0, <1>42, TmuxEndsIs, IdleIs, JobHas DEF LabelsOK, OwnOK, CommandsOnly,
    CommandsOK, ExternalLabels, CheckoutLabels, MutationLabels
<1>43. ASSUME Person PROVE CommandsOK'
  BY <1>0, <1>43, PersonIs, IdleIs, JobHas DEF LabelsOK, OwnOK, CommandsOnly,
    CommandsOK, ExternalLabels, CheckoutLabels, MutationLabels
<1> QED
  BY <1>1, <1>2, <1>3, <1>4, <1>5, <1>6, <1>7, <1>8, <1>9, <1>10, <1>11, <1>12, <1>13,
    <1>14, <1>15, <1>16, <1>17, <1>18, <1>19, <1>20, <1>21, <1>22, <1>23, <1>24, <1>25,
    <1>26, <1>27, <1>28, <1>29, <1>30, <1>31, <1>32, <1>33, <1>34, <1>35, <1>36, <1>37,
    <1>38, <1>39, <1>40, <1>41, <1>42, <1>43 DEF Next, Names

\* Where the tree goes back to.
LEMMA OrigOKStep ==
  ASSUME SessionsInv, Next, CommandsOnly
  PROVE  OrigOK'
<1>0. TypeOK /\ TokensOK /\ LabelsOK /\ IntentOK /\ OwnOK /\ ActiveOK /\ CloserOK
      /\ CommandsOnly /\ CommandsOK /\ OrigOK /\ CommandRecorded /\ UniqueOK
  BY DEF SessionsInv, TokensOK
<1>1. ASSUME NEW t \in Terminals, NEW name \in Names, NEW tm \in BOOLEAN, OpenAgent(t,
  name, tm) PROVE OrigOK'
  BY <1>0, <1>1, OpenAgentIs, IdleIs, JobHas, NextIsNew DEF Begun, Others, UniqueOK,
    LabelsOK, IntentOK, OwnOK, ActiveOK, CloserOK, Over, CommandsOnly, CommandsOK,
    OrigOK, CommandRecorded, Session, Closing, Tenants, At, verify, ExternalLabels,
    CheckoutLabels, MutationLabels
<1>2. ASSUME NEW t \in Terminals, NEW name \in Names, NEW tm \in BOOLEAN, OpenCommand(t,
  name, tm) PROVE OrigOK'
  BY <1>0, <1>2, OpenCommandIs, IdleIs, JobHas, NextIsNew DEF Begun, Others, UniqueOK,
    LabelsOK, IntentOK, OwnOK, ActiveOK, CloserOK, Over, CommandsOnly, CommandsOK,
    OrigOK, CommandRecorded, Session, Closing, Tenants, At, verify, ExternalLabels,
    CheckoutLabels, MutationLabels
<1>3. ASSUME NEW t \in Terminals, NEW name \in Names, NEW tm \in BOOLEAN,
  OpenCheckoutAgent(t, name, tm) PROVE OrigOK'
  BY <1>0, <1>3, OpenCheckoutAgentIs, IdleIs, JobHas, NextIsNew DEF Begun, Others,
    UniqueOK, LabelsOK, IntentOK, OwnOK, ActiveOK, CloserOK, Over, CommandsOnly,
    CommandsOK, OrigOK, CommandRecorded, Session, Closing, Tenants, At, verify,
    ExternalLabels, CheckoutLabels, MutationLabels
<1>4. ASSUME NEW t \in Terminals, NEW name \in Names, NEW tm \in BOOLEAN,
  OpenCheckoutCommand(t, name, tm) PROVE OrigOK'
  BY <1>0, <1>4, OpenCheckoutCommandIs, IdleIs, JobHas, NextIsNew DEF Begun, Others,
    UniqueOK, LabelsOK, IntentOK, OwnOK, ActiveOK, CloserOK, Over, CommandsOnly,
    CommandsOK, OrigOK, CommandRecorded, Session, Closing, Tenants, At, verify,
    ExternalLabels, CheckoutLabels, MutationLabels
<1>5. ASSUME NEW t \in Terminals, FinalGuard(t) PROVE OrigOK'
  BY <1>0, <1>5, FinalGuardIs, IdleIs, JobHas DEF Moved, Same, Others, UniqueOK,
    LabelsOK, IntentOK, OwnOK, ActiveOK, CloserOK, Over, CommandsOnly, CommandsOK,
    OrigOK, CommandRecorded, Session, Closing, Tenants, At, verify, ExternalLabels,
    CheckoutLabels, MutationLabels
<1>6. ASSUME NEW t \in Terminals, RecordCommand(t) PROVE OrigOK'
  BY <1>0, <1>6, RecordCommandIs, IdleIs, JobHas DEF Moved, Same, Others, UniqueOK,
    LabelsOK, IntentOK, OwnOK, ActiveOK, CloserOK, Over, CommandsOnly, CommandsOK,
    OrigOK, CommandRecorded, Session, Closing, Tenants, At, verify, ExternalLabels,
    CheckoutLabels, MutationLabels
<1>7. ASSUME NEW t \in Terminals, LaunchGuard(t) PROVE OrigOK'
  BY <1>0, <1>7, LaunchGuardIs, IdleIs, JobHas DEF Moved, Same, Others, UniqueOK,
    LabelsOK, IntentOK, OwnOK, ActiveOK, CloserOK, Over, CommandsOnly, CommandsOK,
    OrigOK, CommandRecorded, Session, Closing, Tenants, At, verify, ExternalLabels,
    CheckoutLabels, MutationLabels
<1>8. ASSUME NEW t \in Terminals, Start(t) PROVE OrigOK'
  BY <1>0, <1>8, StartIs, IdleIs, JobHas DEF Moved, Same, Others, UniqueOK, LabelsOK,
    IntentOK, OwnOK, ActiveOK, CloserOK, Over, CommandsOnly, CommandsOK, OrigOK,
    CommandRecorded, Session, Closing, Tenants, At, verify, ExternalLabels,
    CheckoutLabels, MutationLabels
<1>9. ASSUME NEW t \in Terminals, openWithTmux(t) PROVE OrigOK'
  BY <1>0, <1>9, openWithTmuxIs, IdleIs, JobHas DEF Moved, Same, Others, UniqueOK,
    LabelsOK, IntentOK, OwnOK, ActiveOK, CloserOK, Over, CommandsOnly, CommandsOK,
    OrigOK, CommandRecorded, Session, Closing, Tenants, At, verify, ExternalLabels,
    CheckoutLabels, MutationLabels
<1>10. ASSUME NEW t \in Terminals, RunExternalTmuxCommand(t) PROVE OrigOK'
  BY <1>0, <1>10, RunExternalTmuxCommandIs, IdleIs, JobHas DEF Moved, Same, Others,
    UniqueOK, LabelsOK, IntentOK, OwnOK, ActiveOK, CloserOK, Over, CommandsOnly,
    CommandsOK, OrigOK, CommandRecorded, Session, Closing, Tenants, At, verify,
    ExternalLabels, CheckoutLabels, MutationLabels
<1>11. ASSUME NEW t \in Terminals, Leave(t) PROVE OrigOK'
  BY <1>0, <1>11, LeaveIs, IdleIs, JobHas DEF Moved, Same, Others, UniqueOK, LabelsOK,
    IntentOK, OwnOK, ActiveOK, CloserOK, Over, CommandsOnly, CommandsOK, OrigOK,
    CommandRecorded, Session, Closing, Tenants, At, verify, ExternalLabels,
    CheckoutLabels, MutationLabels
<1>12. ASSUME NEW t \in Terminals, RemoveOwnedExternalSessionIntent(t) PROVE OrigOK'
  BY <1>0, <1>12, RemoveOwnedExternalSessionIntentIs, IdleIs, JobHas DEF Gone, Others,
    UniqueOK, LabelsOK, IntentOK, OwnOK, ActiveOK, CloserOK, Over, CommandsOnly,
    CommandsOK, OrigOK, CommandRecorded, Session, Closing, Tenants, At, verify,
    ExternalLabels, CheckoutLabels, MutationLabels
<1>13. ASSUME NEW t \in Terminals, MakeIntent(t) PROVE OrigOK'
  BY <1>0, <1>13, MakeIntentIs, IdleIs, JobHas DEF Moved, Same, Gone, Others, UniqueOK,
    LabelsOK, IntentOK, OwnOK, ActiveOK, CloserOK, Over, CommandsOnly, CommandsOK,
    OrigOK, CommandRecorded, Session, Closing, Tenants, At, verify, ExternalLabels,
    CheckoutLabels, MutationLabels
<1>14. ASSUME NEW t \in Terminals, OwnIntent(t) PROVE OrigOK'
  BY <1>0, <1>14, OwnIntentIs, IdleIs, JobHas DEF Moved, Same, Others, UniqueOK,
    LabelsOK, IntentOK, OwnOK, ActiveOK, CloserOK, Over, CommandsOnly, CommandsOK,
    OrigOK, CommandRecorded, Session, Closing, Tenants, At, verify, ExternalLabels,
    CheckoutLabels, MutationLabels
<1>15. ASSUME NEW t \in Terminals, WithCheckoutSessionLaunchIntent(t) PROVE OrigOK'
  BY <1>0, <1>15, WithCheckoutSessionLaunchIntentIs, IdleIs, JobHas DEF Noted, Same,
    Others, UniqueOK, LabelsOK, IntentOK, OwnOK, ActiveOK, CloserOK, Over, CommandsOnly,
    CommandsOK, OrigOK, CommandRecorded, Session, Closing, Tenants, At, verify,
    ExternalLabels, CheckoutLabels, MutationLabels
<1>16. ASSUME NEW t \in Terminals, CheckSession(t) PROVE OrigOK'
  BY <1>0, <1>16, CheckSessionIs, IdleIs, JobHas DEF Noted, Same, Others, UniqueOK,
    LabelsOK, IntentOK, OwnOK, ActiveOK, CloserOK, Over, CommandsOnly, CommandsOK,
    OrigOK, CommandRecorded, Session, Closing, Tenants, At, verify, ExternalLabels,
    CheckoutLabels, MutationLabels
<1>17. ASSUME NEW t \in Terminals, createCheckoutCommandState(t) PROVE OrigOK'
  BY <1>0, <1>17, createCheckoutCommandStateIs, IdleIs, JobHas DEF Moved, Same, Gone,
    Others, UniqueOK, LabelsOK, IntentOK, OwnOK, ActiveOK, CloserOK, Over, CommandsOnly,
    CommandsOK, OrigOK, CommandRecorded, Session, Closing, Tenants, At, verify,
    ExternalLabels, CheckoutLabels, MutationLabels
<1>18. ASSUME NEW t \in Terminals, SwitchTo(t) PROVE OrigOK'
  <2>1. /\ UNCHANGED <<mode, kinds, guard, run, records, intents, tmux, intent, active,
                       link, dirty, tokens>>
        /\ job' \in [Terminals -> JobType] /\ Others(t)
        /\ job[t].pc = "switch"
        /\ \/ head' = job[t].name /\ Moved(t, "link")
           \/ UNCHANGED head /\ Undone(t)
    BY <1>0, <1>18, SwitchToIs
  <2>2. job[t].token # 0
    BY <1>0, <2>1 DEF LabelsOK, CheckoutLabels
  <2>3. active = job[t].of /\ job[t].of.token = job[t].token /\ active.orig = Home
    BY <1>0, <2>1, <2>2, IdleIs DEF OrigOK, OwnOK, CommandsOnly
  <2>4. \A u \in Terminals : u # t /\ job[u].pc \in Closing => active # job[u].of
    BY <1>0, <2>1, <2>2, <2>3 DEF CloserOK, Over, Closing
  <2>5. \A u \in Terminals : u # t => job[u].pc \notin {"switch", "link", "spawn"}
    BY <1>0, <2>2, <2>3 DEF OrigOK, OwnOK, CommandsOnly, LabelsOK, CheckoutLabels, UniqueOK
  <2> QED
    BY <1>0, <2>1, <2>2, <2>3, <2>4, <2>5 DEF OrigOK, Others, Same, CommandsOK,
      Closing, CommandsOnly, CheckoutLabels, Moved, Undone
<1>19. ASSUME NEW t \in Terminals, ApplyCheckoutSessionLinks(t) PROVE OrigOK'
  <2>1. /\ UNCHANGED <<mode, kinds, guard, run, records, intents, tmux, intent, active,
                       dirty, tokens>>
        /\ job' \in [Terminals -> JobType] /\ Others(t)
        /\ job[t].pc = "link" /\ link' \in {link, "ours"}
        /\ \/ /\ UNCHANGED head
              /\ Moved(t, IF job[t].tmux THEN "spawn"
                   ELSE IF job[t].what = "agent" THEN "save" ELSE "running")
           \/ head' = (IF job[t].what = "agent" THEN job[t].of.orig ELSE head) /\ Undone(t)
    BY <1>0, <1>19, ApplyCheckoutSessionLinksIs
  <2>2. job[t].token # 0
    BY <1>0, <2>1 DEF LabelsOK, CheckoutLabels
  <2>3. active = job[t].of /\ job[t].of.token = job[t].token /\ active.orig = Home
    BY <1>0, <2>1, <2>2, IdleIs DEF OrigOK, OwnOK, CommandsOnly
  <2>4. \A u \in Terminals : u # t /\ job[u].pc \in Closing => active # job[u].of
    BY <1>0, <2>1, <2>2, <2>3 DEF CloserOK, Over, Closing
  <2>5. \A u \in Terminals : u # t => job[u].pc \notin {"switch", "link", "spawn"}
    BY <1>0, <2>2, <2>3 DEF OrigOK, OwnOK, CommandsOnly, LabelsOK, CheckoutLabels, UniqueOK
  <2> QED
    BY <1>0, <2>1, <2>2, <2>3, <2>4, <2>5 DEF OrigOK, Others, Same, CommandsOK,
      Closing, CommandsOnly, CheckoutLabels, Moved, Undone
<1>20. ASSUME NEW t \in Terminals, OpenCheckoutTmux(t) PROVE OrigOK'
  BY <1>0, <1>20, OpenCheckoutTmuxIs, IdleIs, JobHas DEF Moved, Same, Others, UniqueOK,
    LabelsOK, IntentOK, OwnOK, ActiveOK, CloserOK, Over, CommandsOnly, CommandsOK,
    OrigOK, CommandRecorded, Session, Closing, Tenants, At, verify, ExternalLabels,
    CheckoutLabels, MutationLabels
<1>21. ASSUME NEW t \in Terminals, runCheckoutTmuxCommand(t) PROVE OrigOK'
  BY <1>0, <1>21, runCheckoutTmuxCommandIs, IdleIs, JobHas DEF Moved, Same, Gone,
    Others, UniqueOK, LabelsOK, IntentOK, OwnOK, ActiveOK, CloserOK, Over, CommandsOnly,
    CommandsOK, OrigOK, CommandRecorded, Session, Closing, Tenants, At, verify,
    ExternalLabels, CheckoutLabels, MutationLabels
<1>22. ASSUME NEW t \in Terminals, SaveCheckoutAgentSession(t) PROVE OrigOK'
  <2>1. /\ UNCHANGED <<mode, kinds, guard, run, records, intents, tmux, intent, head,
                       link, dirty, tokens>>
        /\ job' \in [Terminals -> JobType] /\ Others(t)
        /\ job[t].pc = "save" /\ Moved(t, "running") /\ active' = job[t].of
    BY <1>0, <1>22, SaveCheckoutAgentSessionIs
  <2> QED
    BY <1>0, <2>1 DEF LabelsOK, CommandsOK, CheckoutLabels
<1>23. ASSUME NEW t \in Terminals, EndSession(t) PROVE OrigOK'
  BY <1>0, <1>23, EndSessionIs, IdleIs, JobHas DEF Moved, Same, Gone, Others, UniqueOK,
    LabelsOK, IntentOK, OwnOK, ActiveOK, CloserOK, Over, CommandsOnly, CommandsOK,
    OrigOK, CommandRecorded, Session, Closing, Tenants, At, verify, ExternalLabels,
    CheckoutLabels, MutationLabels
<1>24. ASSUME NEW t \in Terminals, CloseCheckoutSession(t) PROVE OrigOK'
  BY <1>0, <1>24, CloseCheckoutSessionIs, IdleIs, JobHas DEF Closes, Others, UniqueOK,
    LabelsOK, IntentOK, OwnOK, ActiveOK, CloserOK, Over, CommandsOnly, CommandsOK,
    OrigOK, CommandRecorded, Session, Closing, Tenants, At, verify, ExternalLabels,
    CheckoutLabels, MutationLabels
<1>25. ASSUME NEW t \in Terminals, closeCheckoutCommandSession(t) PROVE OrigOK'
  BY <1>0, <1>25, closeCheckoutCommandSessionIs, IdleIs, JobHas DEF Closes, Others,
    UniqueOK, LabelsOK, IntentOK, OwnOK, ActiveOK, CloserOK, Over, CommandsOnly,
    CommandsOK, OrigOK, CommandRecorded, Session, Closing, Tenants, At, verify,
    ExternalLabels, CheckoutLabels, MutationLabels
<1>26. ASSUME NEW t \in Terminals, Unlink(t) PROVE OrigOK'
  BY <1>0, <1>26, UnlinkIs, IdleIs, JobHas DEF Moved, Same, Gone, Others, UniqueOK,
    LabelsOK, IntentOK, OwnOK, ActiveOK, CloserOK, Over, CommandsOnly, CommandsOK,
    OrigOK, CommandRecorded, Session, Closing, Tenants, At, verify, ExternalLabels,
    CheckoutLabels, MutationLabels
<1>27. ASSUME NEW t \in Terminals, SwitchBack(t) PROVE OrigOK'
  BY <1>0, <1>27, SwitchBackIs, IdleIs, JobHas DEF Moved, Same, Gone, Others, UniqueOK,
    LabelsOK, IntentOK, OwnOK, ActiveOK, CloserOK, Over, CommandsOnly, CommandsOK,
    OrigOK, CommandRecorded, Session, Closing, Tenants, At, verify, ExternalLabels,
    CheckoutLabels, MutationLabels
<1>28. ASSUME NEW t \in Terminals, finishCheckoutSession(t) PROVE OrigOK'
  <2>1. /\ UNCHANGED <<mode, kinds, guard, run, records, intents, tmux, intent, head,
                       link, dirty, tokens>>
        /\ job' \in [Terminals -> JobType] /\ Others(t)
        /\ job[t].pc = "forget"
        /\ \/ /\ job[t].what = "agent" \/ verify(job[t].of)
              /\ active' = NoSession /\ Moved(t, "release")
           \/ Gone(t) /\ UNCHANGED active
    BY <1>0, <1>28, finishCheckoutSessionIs
  <2>2. job[t].what = "command"
    BY <1>0, <2>1 DEF CommandsOK, CheckoutLabels
  <2>3. CASE Gone(t) /\ UNCHANGED active
    BY <1>0, <2>1, <2>3, IdleIs DEF OrigOK, Others, Gone
  <2>4. CASE verify(job[t].of) /\ active' = NoSession /\ Moved(t, "release")
    <3>1. active = job[t].of /\ intent.token = job[t].of.token /\ link # "ours" /\ head = Home
      BY <1>0, <2>1, <2>4 DEF verify, OrigOK
    <3>2. \A u \in Terminals : job[u].pc \notin {"publish", "switch", "link", "spawn"}
      <4> SUFFICES ASSUME NEW u \in Terminals, job[u].pc \in {"publish", "switch",
        "link", "spawn"}
                   PROVE  FALSE
        OBVIOUS
      <4>1. job[u].token # 0 /\ u # t
        BY <1>0, <2>1 DEF LabelsOK, CheckoutLabels
      <4>2. u \in Tenants
        BY DEF Tenants
      <4>3. intent = [token |-> job[u].token, owned |-> TRUE]
        BY <1>0, <4>2 DEF IntentOK, CommandsOnly
      <4>4. job[u].token = job[t].of.token
        BY <3>1, <4>3
      <4> QED
        BY <1>0, <2>1, <4>1, <4>4 DEF CloserOK, Over, Closing
    <3> QED
      BY <1>0, <2>1, <2>4, <3>1, <3>2, IdleIs DEF OrigOK, Others, Moved, Same
  <2> QED
    BY <2>1, <2>2, <2>3, <2>4
<1>29. ASSUME NEW t \in Terminals, releaseAgentSessionLock(t) PROVE OrigOK'
  BY <1>0, <1>29, releaseAgentSessionLockIs, IdleIs, JobHas DEF Gone, Others, UniqueOK,
    LabelsOK, IntentOK, OwnOK, ActiveOK, CloserOK, Over, CommandsOnly, CommandsOK,
    OrigOK, CommandRecorded, Session, Closing, Tenants, At, verify, ExternalLabels,
    CheckoutLabels, MutationLabels
<1>30. ASSUME NEW t \in Terminals, NEW what \in {"reparent", "template"},
  acquireReparentModeLock(t, what) PROVE OrigOK'
  <2>1. /\ UNCHANGED <<mode, kinds, run, records, intents, tmux, intent, active, head,
                       link, dirty>>
        /\ job' \in [Terminals -> JobType] /\ Others(t) /\ guard' = tokens'
        /\ guard # 0 => \A u \in Terminals : job[u].token # guard
        /\ Begun(t, what, Feature, FALSE, "reserved")
    BY <1>0, <1>30, acquireReparentModeLockIs
  <2>2. /\ tokens' # 0 /\ tokens' # guard /\ tokens' # active.token /\ tokens' # intent.token
        /\ \A u \in Terminals : job[u].token # tokens' /\ job[u].of.token # tokens'
    BY <1>0, <2>1, NextIsNew DEF Begun
  <2> QED
    BY <1>0, <2>1, <2>2, IdleIs, JobHas DEF Begun, Others, UniqueOK, LabelsOK, IntentOK,
      OwnOK, ActiveOK, CloserOK, Over, CommandsOnly, CommandsOK, OrigOK,
      CommandRecorded, Session, Closing, Tenants, At, verify, ExternalLabels,
      CheckoutLabels, MutationLabels
<1>31. ASSUME NEW t \in Terminals, openReparentRecovery(t) PROVE OrigOK'
  <2>1. /\ UNCHANGED <<mode, kinds, run, records, intents, tmux, intent, active, head,
                       link, dirty>>
        /\ job' \in [Terminals -> JobType] /\ Others(t) /\ guard' = tokens'
        /\ guard # 0 => \A u \in Terminals : job[u].token # guard
        /\ Begun(t, "reparent", Feature, FALSE, "reserved")
    BY <1>0, <1>31, openReparentRecoveryIs
  <2>2. /\ tokens' # 0 /\ tokens' # guard /\ tokens' # active.token /\ tokens' # intent.token
        /\ \A u \in Terminals : job[u].token # tokens' /\ job[u].of.token # tokens'
    BY <1>0, <2>1, NextIsNew DEF Begun
  <2> QED
    BY <1>0, <2>1, <2>2, IdleIs, JobHas DEF Begun, Others, UniqueOK, LabelsOK, IntentOK,
      OwnOK, ActiveOK, CloserOK, Over, CommandsOnly, CommandsOK, OrigOK,
      CommandRecorded, Session, Closing, Tenants, At, verify, ExternalLabels,
      CheckoutLabels, MutationLabels
<1>32. ASSUME NEW t \in Terminals, SessionIntentCleanup(t) PROVE OrigOK'
  BY <1>0, <1>32, SessionIntentCleanupIs, IdleIs, JobHas DEF Moved, Same, Others,
    UniqueOK, LabelsOK, IntentOK, OwnOK, ActiveOK, CloserOK, Over, CommandsOnly,
    CommandsOK, OrigOK, CommandRecorded, Session, Closing, Tenants, At, verify,
    ExternalLabels, CheckoutLabels, MutationLabels
<1>33. ASSUME NEW t \in Terminals, CleanupStaleCheckoutSessionIntent(t) PROVE OrigOK'
  BY <1>0, <1>33, CleanupStaleCheckoutSessionIntentIs, IdleIs, JobHas DEF Moved, Same,
    Others, UniqueOK, LabelsOK, IntentOK, OwnOK, ActiveOK, CloserOK, Over, CommandsOnly,
    CommandsOK, OrigOK, CommandRecorded, Session, Closing, Tenants, At, verify,
    ExternalLabels, CheckoutLabels, MutationLabels
<1>34. ASSUME NEW t \in Terminals, NoCleanup(t) PROVE OrigOK'
  BY <1>0, <1>34, NoCleanupIs, IdleIs, JobHas DEF Moved, Same, Others, UniqueOK,
    LabelsOK, IntentOK, OwnOK, ActiveOK, CloserOK, Over, CommandsOnly, CommandsOK,
    OrigOK, CommandRecorded, Session, Closing, Tenants, At, verify, ExternalLabels,
    CheckoutLabels, MutationLabels
<1>35. ASSUME NEW t \in Terminals, ProbeExternal(t) PROVE OrigOK'
  BY <1>0, <1>35, ProbeExternalIs, IdleIs, JobHas DEF Moved, Same, Others, UniqueOK,
    LabelsOK, IntentOK, OwnOK, ActiveOK, CloserOK, Over, CommandsOnly, CommandsOK,
    OrigOK, CommandRecorded, Session, Closing, Tenants, At, verify, ExternalLabels,
    CheckoutLabels, MutationLabels
<1>36. ASSUME NEW t \in Terminals, ProbeCheckout(t) PROVE OrigOK'
  BY <1>0, <1>36, ProbeCheckoutIs, IdleIs, JobHas DEF Moved, Same, Others, UniqueOK,
    LabelsOK, IntentOK, OwnOK, ActiveOK, CloserOK, Over, CommandsOnly, CommandsOK,
    OrigOK, CommandRecorded, Session, Closing, Tenants, At, verify, ExternalLabels,
    CheckoutLabels, MutationLabels
<1>37. ASSUME NEW t \in Terminals, Mutate(t) PROVE OrigOK'
  BY <1>0, <1>37, MutateIs, IdleIs, JobHas DEF Moved, Same, Others, UniqueOK, LabelsOK,
    IntentOK, OwnOK, ActiveOK, CloserOK, Over, CommandsOnly, CommandsOK, OrigOK,
    CommandRecorded, Session, Closing, Tenants, At, verify, ExternalLabels,
    CheckoutLabels, MutationLabels
<1>38. ASSUME NEW t \in Terminals, FinishMutation(t) PROVE OrigOK'
  BY <1>0, <1>38, FinishMutationIs, IdleIs, JobHas DEF Moved, Same, Others, UniqueOK,
    LabelsOK, IntentOK, OwnOK, ActiveOK, CloserOK, Over, CommandsOnly, CommandsOK,
    OrigOK, CommandRecorded, Session, Closing, Tenants, At, verify, ExternalLabels,
    CheckoutLabels, MutationLabels
<1>39. ASSUME NEW t \in Terminals, releaseReparentModeLock(t) PROVE OrigOK'
  BY <1>0, <1>39, releaseReparentModeLockIs, IdleIs, JobHas DEF Gone, Others, UniqueOK,
    LabelsOK, IntentOK, OwnOK, ActiveOK, CloserOK, Over, CommandsOnly, CommandsOK,
    OrigOK, CommandRecorded, Session, Closing, Tenants, At, verify, ExternalLabels,
    CheckoutLabels, MutationLabels
<1>40. ASSUME NEW t \in Terminals, Kill(t) PROVE OrigOK'
  BY <1>0, <1>40, KillIs, IdleIs, JobHas DEF Gone, Others, UniqueOK, LabelsOK, IntentOK,
    OwnOK, ActiveOK, CloserOK, Over, CommandsOnly, CommandsOK, OrigOK, CommandRecorded,
    Session, Closing, Tenants, At, verify, ExternalLabels, CheckoutLabels,
    MutationLabels
<1>41. ASSUME NEW name \in Branches, runExternalClose(name) PROVE OrigOK'
  BY <1>0, <1>41, runExternalCloseIs, IdleIs, JobHas DEF UniqueOK, LabelsOK, IntentOK,
    OwnOK, ActiveOK, CloserOK, Over, CommandsOnly, CommandsOK, OrigOK, CommandRecorded,
    Session, Closing, Tenants, At, verify, ExternalLabels, CheckoutLabels,
    MutationLabels, Names
<1>42. ASSUME NEW s \in tmux, TmuxEnds(s) PROVE OrigOK'
  BY <1>0, <1>42, TmuxEndsIs, IdleIs, JobHas DEF UniqueOK, LabelsOK, IntentOK, OwnOK,
    ActiveOK, CloserOK, Over, CommandsOnly, CommandsOK, OrigOK, CommandRecorded,
    Session, Closing, Tenants, At, verify, ExternalLabels, CheckoutLabels,
    MutationLabels
<1>43. ASSUME Person PROVE OrigOK'
  BY <1>0, <1>43, PersonIs, IdleIs, JobHas DEF UniqueOK, LabelsOK, IntentOK, OwnOK,
    ActiveOK, CloserOK, Over, CommandsOnly, CommandsOK, OrigOK, CommandRecorded,
    Session, Closing, Tenants, At, verify, ExternalLabels, CheckoutLabels,
    MutationLabels
<1> QED
  BY <1>1, <1>2, <1>3, <1>4, <1>5, <1>6, <1>7, <1>8, <1>9, <1>10, <1>11, <1>12, <1>13,
    <1>14, <1>15, <1>16, <1>17, <1>18, <1>19, <1>20, <1>21, <1>22, <1>23, <1>24, <1>25,
    <1>26, <1>27, <1>28, <1>29, <1>30, <1>31, <1>32, <1>33, <1>34, <1>35, <1>36, <1>37,
    <1>38, <1>39, <1>40, <1>41, <1>42, <1>43 DEF Next, Names

\* What a command moved has its record.
LEMMA CommandRecordedStep ==
  ASSUME SessionsInv, Next, CommandsOnly
  PROVE  CommandRecorded'
<1>0. TypeOK /\ TokensOK /\ LabelsOK /\ IntentOK /\ OwnOK /\ ActiveOK /\ CloserOK
      /\ CommandsOnly /\ CommandsOK /\ OrigOK /\ CommandRecorded /\ UniqueOK
  BY DEF SessionsInv, TokensOK
<1>1. ASSUME NEW t \in Terminals, NEW name \in Names, NEW tm \in BOOLEAN, OpenAgent(t,
  name, tm) PROVE CommandRecorded'
  BY <1>0, <1>1, OpenAgentIs, IdleIs, JobHas, NextIsNew DEF Begun, Others, UniqueOK,
    LabelsOK, IntentOK, OwnOK, ActiveOK, CloserOK, Over, CommandsOnly, CommandsOK,
    OrigOK, CommandRecorded, Session, Closing, Tenants, At, verify, ExternalLabels,
    CheckoutLabels, MutationLabels
<1>2. ASSUME NEW t \in Terminals, NEW name \in Names, NEW tm \in BOOLEAN, OpenCommand(t,
  name, tm) PROVE CommandRecorded'
  BY <1>0, <1>2, OpenCommandIs, IdleIs, JobHas, NextIsNew DEF Begun, Others, UniqueOK,
    LabelsOK, IntentOK, OwnOK, ActiveOK, CloserOK, Over, CommandsOnly, CommandsOK,
    OrigOK, CommandRecorded, Session, Closing, Tenants, At, verify, ExternalLabels,
    CheckoutLabels, MutationLabels
<1>3. ASSUME NEW t \in Terminals, NEW name \in Names, NEW tm \in BOOLEAN,
  OpenCheckoutAgent(t, name, tm) PROVE CommandRecorded'
  BY <1>0, <1>3, OpenCheckoutAgentIs, IdleIs, JobHas, NextIsNew DEF Begun, Others,
    UniqueOK, LabelsOK, IntentOK, OwnOK, ActiveOK, CloserOK, Over, CommandsOnly,
    CommandsOK, OrigOK, CommandRecorded, Session, Closing, Tenants, At, verify,
    ExternalLabels, CheckoutLabels, MutationLabels
<1>4. ASSUME NEW t \in Terminals, NEW name \in Names, NEW tm \in BOOLEAN,
  OpenCheckoutCommand(t, name, tm) PROVE CommandRecorded'
  BY <1>0, <1>4, OpenCheckoutCommandIs, IdleIs, JobHas, NextIsNew DEF Begun, Others,
    UniqueOK, LabelsOK, IntentOK, OwnOK, ActiveOK, CloserOK, Over, CommandsOnly,
    CommandsOK, OrigOK, CommandRecorded, Session, Closing, Tenants, At, verify,
    ExternalLabels, CheckoutLabels, MutationLabels
<1>5. ASSUME NEW t \in Terminals, FinalGuard(t) PROVE CommandRecorded'
  BY <1>0, <1>5, FinalGuardIs, IdleIs, JobHas DEF Moved, Same, Others, UniqueOK,
    LabelsOK, IntentOK, OwnOK, ActiveOK, CloserOK, Over, CommandsOnly, CommandsOK,
    OrigOK, CommandRecorded, Session, Closing, Tenants, At, verify, ExternalLabels,
    CheckoutLabels, MutationLabels
<1>6. ASSUME NEW t \in Terminals, RecordCommand(t) PROVE CommandRecorded'
  BY <1>0, <1>6, RecordCommandIs, IdleIs, JobHas DEF Moved, Same, Others, UniqueOK,
    LabelsOK, IntentOK, OwnOK, ActiveOK, CloserOK, Over, CommandsOnly, CommandsOK,
    OrigOK, CommandRecorded, Session, Closing, Tenants, At, verify, ExternalLabels,
    CheckoutLabels, MutationLabels
<1>7. ASSUME NEW t \in Terminals, LaunchGuard(t) PROVE CommandRecorded'
  BY <1>0, <1>7, LaunchGuardIs, IdleIs, JobHas DEF Moved, Same, Others, UniqueOK,
    LabelsOK, IntentOK, OwnOK, ActiveOK, CloserOK, Over, CommandsOnly, CommandsOK,
    OrigOK, CommandRecorded, Session, Closing, Tenants, At, verify, ExternalLabels,
    CheckoutLabels, MutationLabels
<1>8. ASSUME NEW t \in Terminals, Start(t) PROVE CommandRecorded'
  BY <1>0, <1>8, StartIs, IdleIs, JobHas DEF Moved, Same, Others, UniqueOK, LabelsOK,
    IntentOK, OwnOK, ActiveOK, CloserOK, Over, CommandsOnly, CommandsOK, OrigOK,
    CommandRecorded, Session, Closing, Tenants, At, verify, ExternalLabels,
    CheckoutLabels, MutationLabels
<1>9. ASSUME NEW t \in Terminals, openWithTmux(t) PROVE CommandRecorded'
  BY <1>0, <1>9, openWithTmuxIs, IdleIs, JobHas DEF Moved, Same, Others, UniqueOK,
    LabelsOK, IntentOK, OwnOK, ActiveOK, CloserOK, Over, CommandsOnly, CommandsOK,
    OrigOK, CommandRecorded, Session, Closing, Tenants, At, verify, ExternalLabels,
    CheckoutLabels, MutationLabels
<1>10. ASSUME NEW t \in Terminals, RunExternalTmuxCommand(t) PROVE CommandRecorded'
  BY <1>0, <1>10, RunExternalTmuxCommandIs, IdleIs, JobHas DEF Moved, Same, Others,
    UniqueOK, LabelsOK, IntentOK, OwnOK, ActiveOK, CloserOK, Over, CommandsOnly,
    CommandsOK, OrigOK, CommandRecorded, Session, Closing, Tenants, At, verify,
    ExternalLabels, CheckoutLabels, MutationLabels
<1>11. ASSUME NEW t \in Terminals, Leave(t) PROVE CommandRecorded'
  BY <1>0, <1>11, LeaveIs, IdleIs, JobHas DEF Moved, Same, Others, UniqueOK, LabelsOK,
    IntentOK, OwnOK, ActiveOK, CloserOK, Over, CommandsOnly, CommandsOK, OrigOK,
    CommandRecorded, Session, Closing, Tenants, At, verify, ExternalLabels,
    CheckoutLabels, MutationLabels
<1>12. ASSUME NEW t \in Terminals, RemoveOwnedExternalSessionIntent(t) PROVE
  CommandRecorded'
  BY <1>0, <1>12, RemoveOwnedExternalSessionIntentIs, IdleIs, JobHas DEF Gone, Others,
    UniqueOK, LabelsOK, IntentOK, OwnOK, ActiveOK, CloserOK, Over, CommandsOnly,
    CommandsOK, OrigOK, CommandRecorded, Session, Closing, Tenants, At, verify,
    ExternalLabels, CheckoutLabels, MutationLabels
<1>13. ASSUME NEW t \in Terminals, MakeIntent(t) PROVE CommandRecorded'
  BY <1>0, <1>13, MakeIntentIs, IdleIs, JobHas DEF Moved, Same, Gone, Others, UniqueOK,
    LabelsOK, IntentOK, OwnOK, ActiveOK, CloserOK, Over, CommandsOnly, CommandsOK,
    OrigOK, CommandRecorded, Session, Closing, Tenants, At, verify, ExternalLabels,
    CheckoutLabels, MutationLabels
<1>14. ASSUME NEW t \in Terminals, OwnIntent(t) PROVE CommandRecorded'
  BY <1>0, <1>14, OwnIntentIs, IdleIs, JobHas DEF Moved, Same, Others, UniqueOK,
    LabelsOK, IntentOK, OwnOK, ActiveOK, CloserOK, Over, CommandsOnly, CommandsOK,
    OrigOK, CommandRecorded, Session, Closing, Tenants, At, verify, ExternalLabels,
    CheckoutLabels, MutationLabels
<1>15. ASSUME NEW t \in Terminals, WithCheckoutSessionLaunchIntent(t) PROVE
  CommandRecorded'
  BY <1>0, <1>15, WithCheckoutSessionLaunchIntentIs, IdleIs, JobHas DEF Noted, Same,
    Others, UniqueOK, LabelsOK, IntentOK, OwnOK, ActiveOK, CloserOK, Over, CommandsOnly,
    CommandsOK, OrigOK, CommandRecorded, Session, Closing, Tenants, At, verify,
    ExternalLabels, CheckoutLabels, MutationLabels
<1>16. ASSUME NEW t \in Terminals, CheckSession(t) PROVE CommandRecorded'
  BY <1>0, <1>16, CheckSessionIs, IdleIs, JobHas DEF Noted, Same, Others, UniqueOK,
    LabelsOK, IntentOK, OwnOK, ActiveOK, CloserOK, Over, CommandsOnly, CommandsOK,
    OrigOK, CommandRecorded, Session, Closing, Tenants, At, verify, ExternalLabels,
    CheckoutLabels, MutationLabels
<1>17. ASSUME NEW t \in Terminals, createCheckoutCommandState(t) PROVE CommandRecorded'
  BY <1>0, <1>17, createCheckoutCommandStateIs, IdleIs, JobHas DEF Moved, Same, Gone,
    Others, UniqueOK, LabelsOK, IntentOK, OwnOK, ActiveOK, CloserOK, Over, CommandsOnly,
    CommandsOK, OrigOK, CommandRecorded, Session, Closing, Tenants, At, verify,
    ExternalLabels, CheckoutLabels, MutationLabels
<1>18. ASSUME NEW t \in Terminals, SwitchTo(t) PROVE CommandRecorded'
  BY <1>0, <1>18, SwitchToIs, IdleIs, JobHas DEF Moved, Same, Undone, Others, UniqueOK,
    LabelsOK, IntentOK, OwnOK, ActiveOK, CloserOK, Over, CommandsOnly, CommandsOK,
    OrigOK, CommandRecorded, Session, Closing, Tenants, At, verify, ExternalLabels,
    CheckoutLabels, MutationLabels
<1>19. ASSUME NEW t \in Terminals, ApplyCheckoutSessionLinks(t) PROVE CommandRecorded'
  BY <1>0, <1>19, ApplyCheckoutSessionLinksIs, IdleIs, JobHas DEF Moved, Same, Undone,
    Others, UniqueOK, LabelsOK, IntentOK, OwnOK, ActiveOK, CloserOK, Over, CommandsOnly,
    CommandsOK, OrigOK, CommandRecorded, Session, Closing, Tenants, At, verify,
    ExternalLabels, CheckoutLabels, MutationLabels
<1>20. ASSUME NEW t \in Terminals, OpenCheckoutTmux(t) PROVE CommandRecorded'
  BY <1>0, <1>20, OpenCheckoutTmuxIs, IdleIs, JobHas DEF Moved, Same, Others, UniqueOK,
    LabelsOK, IntentOK, OwnOK, ActiveOK, CloserOK, Over, CommandsOnly, CommandsOK,
    OrigOK, CommandRecorded, Session, Closing, Tenants, At, verify, ExternalLabels,
    CheckoutLabels, MutationLabels
<1>21. ASSUME NEW t \in Terminals, runCheckoutTmuxCommand(t) PROVE CommandRecorded'
  BY <1>0, <1>21, runCheckoutTmuxCommandIs, IdleIs, JobHas DEF Moved, Same, Gone,
    Others, UniqueOK, LabelsOK, IntentOK, OwnOK, ActiveOK, CloserOK, Over, CommandsOnly,
    CommandsOK, OrigOK, CommandRecorded, Session, Closing, Tenants, At, verify,
    ExternalLabels, CheckoutLabels, MutationLabels
<1>22. ASSUME NEW t \in Terminals, SaveCheckoutAgentSession(t) PROVE CommandRecorded'
  <2>1. /\ UNCHANGED <<mode, kinds, guard, run, records, intents, tmux, intent, head,
                       link, dirty, tokens>>
        /\ job' \in [Terminals -> JobType] /\ Others(t)
        /\ job[t].pc = "save" /\ Moved(t, "running") /\ active' = job[t].of
    BY <1>0, <1>22, SaveCheckoutAgentSessionIs
  <2> QED
    BY <1>0, <2>1 DEF LabelsOK, CommandsOK, CheckoutLabels
<1>23. ASSUME NEW t \in Terminals, EndSession(t) PROVE CommandRecorded'
  BY <1>0, <1>23, EndSessionIs, IdleIs, JobHas DEF Moved, Same, Gone, Others, UniqueOK,
    LabelsOK, IntentOK, OwnOK, ActiveOK, CloserOK, Over, CommandsOnly, CommandsOK,
    OrigOK, CommandRecorded, Session, Closing, Tenants, At, verify, ExternalLabels,
    CheckoutLabels, MutationLabels
<1>24. ASSUME NEW t \in Terminals, CloseCheckoutSession(t) PROVE CommandRecorded'
  BY <1>0, <1>24, CloseCheckoutSessionIs, IdleIs, JobHas DEF Closes, Others, UniqueOK,
    LabelsOK, IntentOK, OwnOK, ActiveOK, CloserOK, Over, CommandsOnly, CommandsOK,
    OrigOK, CommandRecorded, Session, Closing, Tenants, At, verify, ExternalLabels,
    CheckoutLabels, MutationLabels
<1>25. ASSUME NEW t \in Terminals, closeCheckoutCommandSession(t) PROVE CommandRecorded'
  BY <1>0, <1>25, closeCheckoutCommandSessionIs, IdleIs, JobHas DEF Closes, Others,
    UniqueOK, LabelsOK, IntentOK, OwnOK, ActiveOK, CloserOK, Over, CommandsOnly,
    CommandsOK, OrigOK, CommandRecorded, Session, Closing, Tenants, At, verify,
    ExternalLabels, CheckoutLabels, MutationLabels
<1>26. ASSUME NEW t \in Terminals, Unlink(t) PROVE CommandRecorded'
  BY <1>0, <1>26, UnlinkIs, IdleIs, JobHas DEF Moved, Same, Gone, Others, UniqueOK,
    LabelsOK, IntentOK, OwnOK, ActiveOK, CloserOK, Over, CommandsOnly, CommandsOK,
    OrigOK, CommandRecorded, Session, Closing, Tenants, At, verify, ExternalLabels,
    CheckoutLabels, MutationLabels
<1>27. ASSUME NEW t \in Terminals, SwitchBack(t) PROVE CommandRecorded'
  BY <1>0, <1>27, SwitchBackIs, IdleIs, JobHas DEF Moved, Same, Gone, Others, UniqueOK,
    LabelsOK, IntentOK, OwnOK, ActiveOK, CloserOK, Over, CommandsOnly, CommandsOK,
    OrigOK, CommandRecorded, Session, Closing, Tenants, At, verify, ExternalLabels,
    CheckoutLabels, MutationLabels
<1>28. ASSUME NEW t \in Terminals, finishCheckoutSession(t) PROVE CommandRecorded'
  BY <1>0, <1>28, finishCheckoutSessionIs, IdleIs, JobHas DEF Moved, Same, Gone, Others,
    UniqueOK, LabelsOK, IntentOK, OwnOK, ActiveOK, CloserOK, Over, CommandsOnly,
    CommandsOK, OrigOK, CommandRecorded, Session, Closing, Tenants, At, verify,
    ExternalLabels, CheckoutLabels, MutationLabels
<1>29. ASSUME NEW t \in Terminals, releaseAgentSessionLock(t) PROVE CommandRecorded'
  BY <1>0, <1>29, releaseAgentSessionLockIs, IdleIs, JobHas DEF Gone, Others, UniqueOK,
    LabelsOK, IntentOK, OwnOK, ActiveOK, CloserOK, Over, CommandsOnly, CommandsOK,
    OrigOK, CommandRecorded, Session, Closing, Tenants, At, verify, ExternalLabels,
    CheckoutLabels, MutationLabels
<1>30. ASSUME NEW t \in Terminals, NEW what \in {"reparent", "template"},
  acquireReparentModeLock(t, what) PROVE CommandRecorded'
  <2>1. /\ UNCHANGED <<mode, kinds, run, records, intents, tmux, intent, active, head,
                       link, dirty>>
        /\ job' \in [Terminals -> JobType] /\ Others(t) /\ guard' = tokens'
        /\ guard # 0 => \A u \in Terminals : job[u].token # guard
        /\ Begun(t, what, Feature, FALSE, "reserved")
    BY <1>0, <1>30, acquireReparentModeLockIs
  <2>2. /\ tokens' # 0 /\ tokens' # guard /\ tokens' # active.token /\ tokens' # intent.token
        /\ \A u \in Terminals : job[u].token # tokens' /\ job[u].of.token # tokens'
    BY <1>0, <2>1, NextIsNew DEF Begun
  <2> QED
    BY <1>0, <2>1, <2>2, IdleIs, JobHas DEF Begun, Others, UniqueOK, LabelsOK, IntentOK,
      OwnOK, ActiveOK, CloserOK, Over, CommandsOnly, CommandsOK, OrigOK,
      CommandRecorded, Session, Closing, Tenants, At, verify, ExternalLabels,
      CheckoutLabels, MutationLabels
<1>31. ASSUME NEW t \in Terminals, openReparentRecovery(t) PROVE CommandRecorded'
  <2>1. /\ UNCHANGED <<mode, kinds, run, records, intents, tmux, intent, active, head,
                       link, dirty>>
        /\ job' \in [Terminals -> JobType] /\ Others(t) /\ guard' = tokens'
        /\ guard # 0 => \A u \in Terminals : job[u].token # guard
        /\ Begun(t, "reparent", Feature, FALSE, "reserved")
    BY <1>0, <1>31, openReparentRecoveryIs
  <2>2. /\ tokens' # 0 /\ tokens' # guard /\ tokens' # active.token /\ tokens' # intent.token
        /\ \A u \in Terminals : job[u].token # tokens' /\ job[u].of.token # tokens'
    BY <1>0, <2>1, NextIsNew DEF Begun
  <2> QED
    BY <1>0, <2>1, <2>2, IdleIs, JobHas DEF Begun, Others, UniqueOK, LabelsOK, IntentOK,
      OwnOK, ActiveOK, CloserOK, Over, CommandsOnly, CommandsOK, OrigOK,
      CommandRecorded, Session, Closing, Tenants, At, verify, ExternalLabels,
      CheckoutLabels, MutationLabels
<1>32. ASSUME NEW t \in Terminals, SessionIntentCleanup(t) PROVE CommandRecorded'
  BY <1>0, <1>32, SessionIntentCleanupIs, IdleIs, JobHas DEF Moved, Same, Others,
    UniqueOK, LabelsOK, IntentOK, OwnOK, ActiveOK, CloserOK, Over, CommandsOnly,
    CommandsOK, OrigOK, CommandRecorded, Session, Closing, Tenants, At, verify,
    ExternalLabels, CheckoutLabels, MutationLabels
<1>33. ASSUME NEW t \in Terminals, CleanupStaleCheckoutSessionIntent(t) PROVE
  CommandRecorded'
  BY <1>0, <1>33, CleanupStaleCheckoutSessionIntentIs, IdleIs, JobHas DEF Moved, Same,
    Others, UniqueOK, LabelsOK, IntentOK, OwnOK, ActiveOK, CloserOK, Over, CommandsOnly,
    CommandsOK, OrigOK, CommandRecorded, Session, Closing, Tenants, At, verify,
    ExternalLabels, CheckoutLabels, MutationLabels
<1>34. ASSUME NEW t \in Terminals, NoCleanup(t) PROVE CommandRecorded'
  BY <1>0, <1>34, NoCleanupIs, IdleIs, JobHas DEF Moved, Same, Others, UniqueOK,
    LabelsOK, IntentOK, OwnOK, ActiveOK, CloserOK, Over, CommandsOnly, CommandsOK,
    OrigOK, CommandRecorded, Session, Closing, Tenants, At, verify, ExternalLabels,
    CheckoutLabels, MutationLabels
<1>35. ASSUME NEW t \in Terminals, ProbeExternal(t) PROVE CommandRecorded'
  BY <1>0, <1>35, ProbeExternalIs, IdleIs, JobHas DEF Moved, Same, Others, UniqueOK,
    LabelsOK, IntentOK, OwnOK, ActiveOK, CloserOK, Over, CommandsOnly, CommandsOK,
    OrigOK, CommandRecorded, Session, Closing, Tenants, At, verify, ExternalLabels,
    CheckoutLabels, MutationLabels
<1>36. ASSUME NEW t \in Terminals, ProbeCheckout(t) PROVE CommandRecorded'
  BY <1>0, <1>36, ProbeCheckoutIs, IdleIs, JobHas DEF Moved, Same, Others, UniqueOK,
    LabelsOK, IntentOK, OwnOK, ActiveOK, CloserOK, Over, CommandsOnly, CommandsOK,
    OrigOK, CommandRecorded, Session, Closing, Tenants, At, verify, ExternalLabels,
    CheckoutLabels, MutationLabels
<1>37. ASSUME NEW t \in Terminals, Mutate(t) PROVE CommandRecorded'
  BY <1>0, <1>37, MutateIs, IdleIs, JobHas DEF Moved, Same, Others, UniqueOK, LabelsOK,
    IntentOK, OwnOK, ActiveOK, CloserOK, Over, CommandsOnly, CommandsOK, OrigOK,
    CommandRecorded, Session, Closing, Tenants, At, verify, ExternalLabels,
    CheckoutLabels, MutationLabels
<1>38. ASSUME NEW t \in Terminals, FinishMutation(t) PROVE CommandRecorded'
  BY <1>0, <1>38, FinishMutationIs, IdleIs, JobHas DEF Moved, Same, Others, UniqueOK,
    LabelsOK, IntentOK, OwnOK, ActiveOK, CloserOK, Over, CommandsOnly, CommandsOK,
    OrigOK, CommandRecorded, Session, Closing, Tenants, At, verify, ExternalLabels,
    CheckoutLabels, MutationLabels
<1>39. ASSUME NEW t \in Terminals, releaseReparentModeLock(t) PROVE CommandRecorded'
  BY <1>0, <1>39, releaseReparentModeLockIs, IdleIs, JobHas DEF Gone, Others, UniqueOK,
    LabelsOK, IntentOK, OwnOK, ActiveOK, CloserOK, Over, CommandsOnly, CommandsOK,
    OrigOK, CommandRecorded, Session, Closing, Tenants, At, verify, ExternalLabels,
    CheckoutLabels, MutationLabels
<1>40. ASSUME NEW t \in Terminals, Kill(t) PROVE CommandRecorded'
  BY <1>0, <1>40, KillIs, IdleIs, JobHas DEF Gone, Others, UniqueOK, LabelsOK, IntentOK,
    OwnOK, ActiveOK, CloserOK, Over, CommandsOnly, CommandsOK, OrigOK, CommandRecorded,
    Session, Closing, Tenants, At, verify, ExternalLabels, CheckoutLabels,
    MutationLabels
<1>41. ASSUME NEW name \in Branches, runExternalClose(name) PROVE CommandRecorded'
  BY <1>0, <1>41, runExternalCloseIs, IdleIs, JobHas DEF UniqueOK, LabelsOK, IntentOK,
    OwnOK, ActiveOK, CloserOK, Over, CommandsOnly, CommandsOK, OrigOK, CommandRecorded,
    Session, Closing, Tenants, At, verify, ExternalLabels, CheckoutLabels,
    MutationLabels, Names
<1>42. ASSUME NEW s \in tmux, TmuxEnds(s) PROVE CommandRecorded'
  BY <1>0, <1>42, TmuxEndsIs, IdleIs, JobHas DEF UniqueOK, LabelsOK, IntentOK, OwnOK,
    ActiveOK, CloserOK, Over, CommandsOnly, CommandsOK, OrigOK, CommandRecorded,
    Session, Closing, Tenants, At, verify, ExternalLabels, CheckoutLabels,
    MutationLabels
<1>43. ASSUME Person PROVE CommandRecorded'
  BY <1>0, <1>43, PersonIs, IdleIs, JobHas DEF UniqueOK, LabelsOK, IntentOK, OwnOK,
    ActiveOK, CloserOK, Over, CommandsOnly, CommandsOK, OrigOK, CommandRecorded,
    Session, Closing, Tenants, At, verify, ExternalLabels, CheckoutLabels,
    MutationLabels
<1> QED
  BY <1>1, <1>2, <1>3, <1>4, <1>5, <1>6, <1>7, <1>8, <1>9, <1>10, <1>11, <1>12, <1>13,
    <1>14, <1>15, <1>16, <1>17, <1>18, <1>19, <1>20, <1>21, <1>22, <1>23, <1>24, <1>25,
    <1>26, <1>27, <1>28, <1>29, <1>30, <1>31, <1>32, <1>33, <1>34, <1>35, <1>36, <1>37,
    <1>38, <1>39, <1>40, <1>41, <1>42, <1>43 DEF Next, Names


-----------------------------------------------------------------------------
(* The theorems.                                                            *)

\* At the start nobody runs and nothing is recorded.
LEMMA Starts == Init => SessionsInv
<1> SUFFICES ASSUME Init PROVE SessionsInv
  OBVIOUS
<1>1. \A t \in Terminals : job[t] = Idle
  BY DEF Init
<1>2. Tenants = {} /\ Inside = {}
  BY <1>1, IdleIs DEF Tenants, Inside, At, ExternalLabels
<1>3. TypeOK
  BY IdleIs, SessionsAssumption DEF Init, TypeOK, NoIntent, Names
<1>4. TokensOK
  BY <1>1, IdleIs DEF Init, TokensOK, UniqueOK, GivenOK
<1>5. LabelsOK
  BY <1>1, IdleIs DEF LabelsOK, ExternalLabels, CheckoutLabels, MutationLabels
<1>6. AnnouncedOK /\ ProbedOK
  BY <1>1, <1>2, IdleIs DEF AnnouncedOK, ProbedOK, ExternalLabels
<1>7. IntentOK /\ OwnOK /\ AloneOK
  BY <1>1, <1>2, IdleIs DEF IntentOK, OwnOK, AloneOK
<1>8. ActiveOK /\ CloserOK
  BY <1>1, IdleIs DEF Init, ActiveOK, CloserOK, Closing
<1>9. CommandsOK /\ OrigOK /\ CommandRecorded
  BY <1>1, IdleIs DEF Init, CommandsOK, OrigOK, CommandRecorded, CheckoutLabels
<1> QED
  BY <1>3, <1>4, <1>5, <1>6, <1>7, <1>8, <1>9 DEF SessionsInv

\* Every step, and every stutter, keeps the invariant.
LEMMA Keeps == SessionsInv /\ [Next]_vars => SessionsInv'
<1> SUFFICES ASSUME SessionsInv, [Next]_vars PROVE SessionsInv'
  OBVIOUS
<1>1. CASE Next
  <2>1. TypeOK' /\ TokensOK' /\ LabelsOK' /\ AnnouncedOK' /\ ProbedOK'
    BY <1>1, TypeOKStep, UniqueOKStep, GivenOKStep, LabelsOKStep, AnnouncedOKStep,
      ProbedOKStep
       DEF TokensOK
  <2>2. IntentOK' /\ OwnOK' /\ ActiveOK' /\ CloserOK' /\ AloneOK'
    BY <1>1, IntentOKStep, OwnOKStep, ActiveOKStep, CloserOKStep, AloneOKStep
  <2>3. CommandsOnly' => CommandsOnly
    BY <1>1, TypeOKStep DEF CommandsOnly
  <2>4. CommandsOnly => CommandsOK' /\ OrigOK' /\ CommandRecorded'
    BY <1>1, CommandsOKStep, OrigOKStep, CommandRecordedStep
  <2> QED
    BY <2>1, <2>2, <2>3, <2>4 DEF SessionsInv
<1>2. CASE UNCHANGED vars
  BY <1>2 DEF vars, fixed, disk, external, checkout, bounds, SessionsInv, TypeOK, TokensOK,
    UniqueOK, GivenOK, LabelsOK, AnnouncedOK, ProbedOK, Inside, processAlive,
    IntentOK, Tenants,
    At, OwnOK, ActiveOK, CloserOK, Over, AloneOK, CommandsOnly, CommandsOK, OrigOK,
    CommandRecorded
<1> QED
  BY <1>1, <1>2

\* The inductive invariant holds in every state of every behaviour.
THEOREM SessionsInvariant == Spec => []SessionsInv
  BY Starts, Keeps, PTL DEF Spec

\* Nothing is rewritten beneath a session (session.go and reparent_exec.go):
\* while a reparent or a template update works, no live launcher is inside a
\* session it applies to, no tmux session of an affected branch runs and no
\* checkout session is recorded, however many terminals there are, whoever is
\* killed, and whoever recovers.
THEOREM MutationIsAlone == Spec => []NoSessionUnderMutation
<1>1. SessionsInv => NoSessionUnderMutation
  <2> SUFFICES ASSUME SessionsInv, NEW t \in Terminals, job[t].pc = "working"
               PROVE  IF mode = "external"
                      THEN /\ \A u \in Tenants : ~applies(job[u].name)
                           /\ \A s \in tmux : ~applies(s[1])
                      ELSE Tenants = {} /\ active = NoSession
    BY DEF NoSessionUnderMutation
  <2>1. CASE mode = "external"
    <3>1. Tenants \subseteq Inside
      BY <2>1 DEF SessionsInv, Tenants, Inside, At, LabelsOK, ExternalLabels, MutationLabels
    <3> QED
      BY <2>1, <3>1 DEF SessionsInv, ProbedOK
  <2>2. CASE mode # "external"
    BY <2>2, DiskHas DEF SessionsInv, AloneOK
  <2> QED
    BY <2>1, <2>2
<1> QED
  BY <1>1, SessionsInvariant, PTL

\* A command session can always be found again (command_session.go): where
\* only commands are opened, a working tree that one moved or linked has its
\* record on disk, with the branch to go back to, whenever a kill strikes.
THEOREM CommandIsRecorded == Spec => []CommandRecorded
<1>1. SessionsInv => CommandRecorded
  BY DEF SessionsInv, CommandsOnly, CommandRecorded
<1> QED
  BY <1>1, SessionsInvariant, PTL
=============================================================================
