-------------------------- MODULE CheckoutSync_proofs --------------------------
(* CheckoutSync, for any number of terminals, features, branches, runs and  *)
(* kills, with and without --push and --test: one recovery at a time owns    *)
(* the working tree, renames are whole, publication is final, and a run that *)
(* is over left everything done or everything as it was.                     *)
EXTENDS CheckoutSync, FiniteSetTheorems, WellFoundedInduction, TLAPS

(* Types.                                                                    *)

Refs == Branches \cup {Main}
Heads == Refs \cup {Detached}
Tips == {"old", "new", "stray"}
\* Stages in the middle of a branch, and those after the last one.
MidStages == {"switched", "rebasing", "conflict", "rebased", "validating"}
Late == {"restoring", "publishing"}
Journals ==
  [run : Nat \ {0}, orig : Refs, was : Tips, first : Heads, at : Heads, want : Heads \cup {""},
   pre : [Refs -> Tips], moved : SUBSET Refs, had : BOOLEAN, ready : BOOLEAN, i : Nat \ {0},
   stage : {"planned"} \cup MidStages \cup Late, act : {"none", "intent", "closed"}, on : Refs,
   val : {"none", "intent", "observed", "failed"}, back : BOOLEAN, undo : BOOLEAN,
   restored : SUBSET {"refs", "meta"}, pub : BOOLEAN, pushed : SUBSET Branches, done : BOOLEAN]

\* Where a command is: in the middle of a branch, on its way forward, on its
\* way back, or in what the two share.
Mid == {"switch", "checkout", "rebase", "replay", "conflict", "replayed", "observe", "failed",
        "ancestry", "validate", "test", "advance"}
Onward == {"pin", "next", "restoring", "restore", "give-back", "given-back", "publish", "push",
           "network", "pushed", "was-planned", "was-rebased", "resume"} \cup Mid
Undoing == {"undo-rebase", "detach", "refs-back", "refs-were-restored", "meta-back",
            "head-back"}
Backward == {"preflight"} \cup Undoing
Working == Onward \cup Backward \cup {"reconcile", "forward", "finish"}
Renaming == {"evidence", "move", "register", "commit-moves"}
Inside == Working \cup Renaming \cup
            {"feature-lock", "birth", "reload", "remove", "release", "unlock"}
Pcs == {"claim", "unlink", "relock"} \cup Inside

Locks == {Free} \cup [pid : Terminals \cup {Dead}, f : Features,
                   op : {"sync", "metadata"}, run : Nat]
Commands ==
  {Idle}
    \cup [pc : Pcs, verb : {"sync"}, f : Features, run : Nat, orig : Refs, was : Tips,
          stack : BOOLEAN, saw : Locks]
    \cup [pc : Pcs, verb : {"continue", "abort"}, f : Features, run : Nat \ {0}, saw : Locks]
    \cup [pc : Pcs, verb : {"rename"}, f : Features, run : Nat, saw : Locks]

TypeOK ==
  /\ tip \in [Refs -> Tips] /\ head \in Heads /\ stopped \in Refs /\ dirty \in BOOLEAN
  /\ remote \subseteq Branches /\ tested \subseteq Branches
  /\ meta \subseteq Features /\ home \subseteq Features /\ reg \subseteq Features
  /\ tx \in [Features -> {NoTx} \cup Journals] /\ moves \in Nat
  /\ lock \in Locks /\ flock \in [Features -> {"none", Dead} \cup Terminals]
  /\ cmd \in [Terminals -> Commands] /\ runs \in Nat /\ kills \in Nat
-----------------------------------------------------------------------------
(* Who holds the locks, and what they know by it.                            *)

\* A command past the workspace-wide lock has it, and one that is about to
\* remove the lock saw that its owner was dead.
LockOK ==
  \A p \in Terminals :
    /\ cmd[p].pc \in Inside => lock.pid = p /\ lock.run = cmd[p].run /\ cmd[p].run # 0
    /\ cmd[p].pc = "unlink" => cmd[p].saw.pid = Dead

\* There is one unfinished operation at most; a run is of a feature that is
\* where the registry says.
PendingOK ==
  /\ \A f, g \in Pending : f = g
  /\ Pending # {} => moves = 0
  /\ \A f \in Pending : f \in home /\ f \in reg
  /\ moves = 0 => home = reg

\* A fresh command found nothing unfinished, a recovery only its own journal.
Admits(c) ==
  /\ c.pc = "birth" => c.verb = "sync"
  /\ c.pc \in Renaming => c.verb = "rename"
  /\ c.pc \in {"feature-lock", "birth", "evidence"} /\ c.verb \in {"sync", "rename"} =>
       Pending = {} /\ moves = 0
  /\ c.pc \in {"feature-lock", "reload"} /\ c.verb \notin {"sync", "rename"} =>
       Pending \subseteq {c.f} /\ moves = 0
  /\ c.pc = "reload" => c.verb \notin {"sync", "rename"}
  /\ c.pc \in {"move", "register", "commit-moves"} => Pending = {} /\ moves # 0
  /\ c.pc = "move" => c.f \in home /\ home = reg
  /\ c.pc = "register" => c.f \notin home /\ c.f \in reg /\ home = reg \ {c.f}
  /\ c.pc = "commit-moves" => home = reg
  /\ c.pc \in Working \cup {"remove"} => tx[c.f] # NoTx
AdmittedOK == \A p \in Terminals : Admits(cmd[p])

LocksInv == LockOK /\ PendingOK /\ AdmittedOK
-----------------------------------------------------------------------------
(* What a journal says of the world.                                         *)

Last(f) == Len(Plan[f])
\* The branches the run has still to go through.
Ahead(f) == {Plan[f][k] : k \in tx[f].i .. Last(f)}
\* The plan of f is rebased, validated and recorded.
Final(f) == f \in meta /\ \A b \in InPlan(f) : tip[b] = "new" /\ (Validate => b \in tested)

\* A run that nobody has begun to undo knows what it moved, and validated what
\* it is through with; after the last branch its plan is final.
ForwardOK(f) ==
  LET x == tx[f] IN
  ~x.back =>
    /\ x.restored = {} /\ \A b \in x.moved : tip[b] = "new"
    /\ Validate => \A b \in InPlan(f) : b \in tested \/ tip[b] # "new" \/ b \in Ahead(f)
    /\ x.stage \in Late => Final(f)
    /\ x.stage = "publishing" => head = x.first
\* Once publication has begun nothing is undone, and once a journal is done it
\* can only be removed.
FinalOK(f) ==
  LET x == tx[f] IN
  /\ x.pub => ~x.back /\ x.i > Last(f) /\ x.stage \in {"planned"} \cup Late /\ Final(f)
  /\ x.done => ~Rebasing /\ head = x.first /\ IF x.back THEN Undone(f) ELSE Complete(f)
StageOK(f) ==
  LET x == tx[f] IN
  /\ x.stage \in MidStages => x.i =< Last(f)
  /\ x.stage \in Late => x.i > Last(f)
  /\ x.want \in {"", x.first} /\ (x.stage = "publishing" => x.want = "")
  /\ x.back /\ "refs" \in x.restored => x.moved = {}
  /\ x.pushed \subseteq remote
JournalOK == \A f \in Pending : StageOK(f) /\ ForwardOK(f) /\ FinalOK(f)

\* A rebase that has stopped is that of the branch a run is at, and whoever
\* works on the journal has not passed it.
RebaseOK ==
  Rebasing =>
    /\ \E f \in Pending :
         /\ tx[f].stage \in {"rebasing", "conflict"} /\ Plan[f][tx[f].i] = stopped
         /\ tx[f].want = "" /\ ~tx[f].done
    /\ \A p \in Terminals :
         cmd[p].pc \in Waiting \cup {"feature-lock", "reload", "reconcile", "forward", "resume",
                                     "preflight", "undo-rebase", "conflict"}
-----------------------------------------------------------------------------
(* What a command has established about the journal it works on.             *)

OnwardOK(pc, verb, x, f) ==
  /\ pc \in Onward => verb # "abort"
  /\ pc \in Mid => x.i =< Last(f)
  /\ pc = "restoring" => x.i > Last(f) /\ (~x.back => Final(f))
  /\ pc \in Mid \cup {"pin", "next", "restoring", "publish", "resume"} => x.want = ""
  /\ pc \in {"replay", "conflict"} => x.stage = "rebasing"
  /\ pc = "advance" /\ Validate => Cur(x, f) \in tested
  /\ pc \in {"restore", "give-back", "given-back", "publish"} => x.stage = "restoring"
  /\ pc \in {"give-back", "given-back"} => x.want = x.first
  /\ pc = "publish" => head = x.first
  /\ pc \in {"push", "network", "pushed"} => x.stage = "publishing"
  /\ pc \in {"network", "pushed"} => Unpushed(x, f) # {}
  /\ pc = "pushed" => NextPush(x, f) \in remote
  /\ pc = "finish" /\ verb # "abort" /\ ~x.back =>
       x.stage \in Late /\ head = x.first /\ (Push => Unpushed(x, f) = {})
Undid(x) == \A b \in Refs : tip[b] = x.pre[b]
BackwardOK(pc, verb, x, f) ==
  /\ pc \in Backward => verb = "abort"
  /\ pc \in {"reconcile", "forward", "preflight"} /\ verb = "abort" => ~x.pub
  /\ pc \in Undoing => x.back
  /\ pc = "refs-back" => \A b \in Refs : tip[b] \in {x.pre[b], Expected(x, b)}
  /\ pc \in {"refs-were-restored", "meta-back", "head-back"} => Undid(x)
  /\ pc = "head-back" => (f \in meta) = x.had
  /\ pc = "finish" /\ verb = "abort" =>
       x.back /\ Undid(x) /\ (f \in meta) = x.had /\ head = x.first
Knows(pc, verb, x, f) ==
  /\ (pc = "remove") = x.done /\ OnwardOK(pc, verb, x, f) /\ BackwardOK(pc, verb, x, f)
CommandOK ==
  \A p \in Terminals :
    cmd[p].pc \in Working \cup {"remove"} => Knows(cmd[p].pc, cmd[p].verb, X(p), F(p))

CheckoutInv == TypeOK /\ LocksInv /\ JournalOK /\ RebaseOK /\ CommandOK
-----------------------------------------------------------------------------
(* Branches, commands and journals.                                          *)

\* The plan of a feature is of branches, and Main is none of them.
LEMMA PlanFacts ==
  /\ \A f \in Features : InPlan(f) \subseteq Branches /\ Last(f) \in Nat /\ Last(f) > 0
  /\ \A f \in Features : \A k \in Nat \ {0} : k =< Last(f) => Plan[f][k] \in InPlan(f)
  /\ Main \notin Branches /\ Detached \notin Refs
  /\ Dead \notin Terminals /\ "none" \notin Terminals /\ Dead # "none"
<1>1. ASSUME NEW f \in Features
      PROVE  /\ InPlan(f) \subseteq Branches /\ Last(f) \in Nat /\ Last(f) > 0
             /\ \A k \in Nat \ {0} : k =< Last(f) => Plan[f][k] \in InPlan(f)
  <2>1. Plan[f] \in Seq(InPlan(f)) /\ Plan[f] # <<>>
    BY CheckoutAssumption DEF CheckoutAssumption
  <2>2. InPlan(f) \subseteq Branches
    BY DEF Branches
  <2>3. Last(f) \in Nat /\ Last(f) > 0
    BY <2>1 DEF Last
  <2>4. \A k \in Nat \ {0} : k =< Last(f) => Plan[f][k] \in InPlan(f)
    BY <2>1 DEF Last
  <2> QED
    BY <2>2, <2>3, <2>4
<1>2. /\ Main \notin Branches /\ Detached \notin Refs
      /\ Dead \notin Terminals /\ "none" \notin Terminals /\ Dead # "none"
  BY CheckoutAssumption DEF CheckoutAssumption, Refs, Dead, Detached
<1> QED
  BY <1>1, <1>2

\* Counting branches.
LEMMA Counting ==
  /\ \A k \in Nat \ {0} : k + 1 \in Nat \ {0}
  /\ \A k, l \in Nat : k > l => k .. l = {}
  OBVIOUS

\* What a command is, unless it is idle.
LEMMA CommandFacts ==
  ASSUME TypeOK, NEW p \in Terminals, cmd[p].pc # "idle"
  PROVE  /\ cmd[p].pc \in Pcs /\ cmd[p].verb \in {"sync", "continue", "abort", "rename"}
         /\ F(p) \in Features /\ cmd[p].run \in Nat /\ cmd[p].saw \in Locks
         /\ cmd[p].verb \in {"continue", "abort"} => cmd[p].run # 0
         /\ cmd[p].verb = "sync" =>
              cmd[p].orig \in Refs /\ cmd[p].was \in Tips /\ cmd[p].stack \in BOOLEAN
         /\ X(p) \in {NoTx} \cup Journals
<1>1. cmd[p] \in Commands /\ cmd[p] # Idle
  BY DEF TypeOK, Idle
<1>2. F(p) \in Features /\ cmd[p].pc \in Pcs /\ cmd[p].run \in Nat /\ cmd[p].saw \in Locks
  BY <1>1 DEF Commands, F
<1>3. /\ cmd[p].verb \in {"sync", "continue", "abort", "rename"}
      /\ cmd[p].verb \in {"continue", "abort"} => cmd[p].run # 0
      /\ cmd[p].verb = "sync" =>
           cmd[p].orig \in Refs /\ cmd[p].was \in Tips /\ cmd[p].stack \in BOOLEAN
  BY <1>1 DEF Commands
<1> QED
  BY <1>2, <1>3 DEF TypeOK, X

\* A command goes on, and stays what it is.
LEMMA GoFacts ==
  ASSUME TypeOK, NEW p \in Terminals, cmd[p].pc # "idle", NEW s \in Pcs, Go(p, s)
  PROVE  /\ cmd' \in [Terminals -> Commands] /\ cmd'[p].pc = s
         /\ cmd'[p].verb = cmd[p].verb /\ cmd'[p].f = cmd[p].f /\ cmd'[p].run = cmd[p].run
         /\ cmd'[p].saw = cmd[p].saw
         /\ \A q \in Terminals : q # p => cmd'[q] = cmd[q]
<1> DEFINE c == [cmd[p] EXCEPT !.pc = s]
<1>1. cmd' = [cmd EXCEPT ![p] = c]
  BY DEF Go
<1>2. cmd \in [Terminals -> Commands] /\ cmd[p] \in Commands /\ cmd[p] # Idle
  BY DEF TypeOK, Idle
<1>3. /\ c \in Commands /\ c.pc = s /\ c.verb = cmd[p].verb /\ c.f = cmd[p].f
      /\ c.run = cmd[p].run /\ c.saw = cmd[p].saw
  <2>1. CASE cmd[p] \in [pc : Pcs, verb : {"sync"}, f : Features, run : Nat, orig : Refs,
                         was : Tips, stack : BOOLEAN, saw : Locks]
    BY <2>1 DEF Commands
  <2>2. CASE cmd[p] \in [pc : Pcs, verb : {"continue", "abort"}, f : Features, run : Nat \ {0},
                         saw : Locks]
    BY <2>2 DEF Commands
  <2>3. CASE cmd[p] \in [pc : Pcs, verb : {"rename"}, f : Features, run : Nat, saw : Locks]
    BY <2>3 DEF Commands
  <2> QED
    BY <1>2, <2>1, <2>2, <2>3 DEF Commands
<1> HIDE DEF c
<1> QED
  BY <1>1, <1>2, <1>3

\* A journal is written over.
Fields == {"run", "orig", "was", "first", "at", "want", "pre", "moved", "had", "ready", "i",
           "stage", "act", "on", "val", "back", "undo", "restored", "pub", "pushed", "done"}
Same(y, x, changed) == \A k \in Fields \ changed : y[k] = x[k]

\* No journal at all is not a journal.
LEMMA NoTxFacts == NoTx \notin Journals /\ NoTx.run = 0
  BY DEF NoTx, Journals

\* The journal of a command's feature is written, the others stay.
LEMMA SetFacts ==
  ASSUME TypeOK, NEW p \in Terminals, cmd[p].pc # "idle", NEW y, Set(p, y)
  PROVE  /\ tx'[F(p)] = y /\ \A f \in Features : f # F(p) => tx'[f] = tx[f]
         /\ y \in {NoTx} \cup Journals => tx' \in [Features -> {NoTx} \cup Journals]
  BY CommandFacts DEF Set, TypeOK

\* A command ends, and leaves its locks to the dead.
LEMMA StopFacts ==
  ASSUME TypeOK, NEW p \in Terminals, cmd[p].pc # "idle", Stop(p)
  PROVE  /\ cmd' \in [Terminals -> Commands] /\ cmd'[p].pc = "idle"
         /\ lock' \in Locks /\ flock' \in [Features -> {"none", Dead} \cup Terminals]
         /\ \A q \in Terminals : q # p => cmd'[q] = cmd[q] /\ (lock.pid = q => lock' = lock)
<1>1. cmd' = [cmd EXCEPT ![p] = Idle] /\ Idle \in Commands /\ Idle.pc = "idle"
  BY DEF Stop, Idle, Commands
<1>2. lock' \in Locks
  <2>1. CASE lock.pid # p
    BY <2>1 DEF Stop, Died, TypeOK
  <2>2. CASE lock.pid = p
    <3>1. lock \in [pid : Terminals \cup {Dead}, f : Features,
                op : {"sync", "metadata"}, run : Nat]
      BY <2>2, PlanFacts DEF TypeOK, Locks, Free
    <3> QED
      BY <2>2, <3>1 DEF Stop, Died, Locks
  <2> QED
    BY <2>1, <2>2
<1>3. flock' \in [Features -> {"none", Dead} \cup Terminals]
  BY DEF Stop, Died, TypeOK
<1>4. \A q \in Terminals : q # p => cmd'[q] = cmd[q] /\ (lock.pid = q => lock' = lock)
  BY <1>1 DEF Stop, Died, TypeOK
<1> QED
  BY <1>1, <1>2, <1>3, <1>4 DEF TypeOK

\* A command that is not inside waits.
LEMMA Outside == \A c \in Commands : c.pc \notin Inside => c.pc \in Waiting
<1>1. \A c \in Commands : c.pc \in Pcs \cup {"idle"}
  BY DEF Commands, Idle
<1> QED
  BY <1>1 DEF Waiting, Pcs

\* One command at a time is inside, and there is one journal at most.
LEMMA Alone ==
  ASSUME TypeOK, LocksInv, NEW p \in Terminals, cmd[p].pc \in Inside
  PROVE  /\ \A q \in Terminals : q # p => cmd[q].pc \notin Inside
         /\ cmd[p].pc # "idle" /\ cmd[p].pc \notin Waiting /\ F(p) \in Features
         /\ \A q \in Terminals : cmd[q].pc \notin Inside => cmd[q].pc \in Waiting
         /\ cmd[p].pc \in Working \cup {"remove"} =>
              Pending = {F(p)} /\ X(p) \in Journals /\ moves = 0
<1>1. \A q \in Terminals : q # p => cmd[q].pc \notin Inside
  BY DEF LocksInv, LockOK
<1>2. cmd[p].pc # "idle" /\ cmd[p].pc \notin Waiting
  BY DEF Inside, Working, Onward, Mid, Backward, Undoing, Renaming, Waiting
<1>3. \A q \in Terminals : cmd[q].pc \notin Inside => cmd[q].pc \in Waiting
  BY Outside DEF TypeOK
<1>4. ASSUME cmd[p].pc \in Working \cup {"remove"}
      PROVE  Pending = {F(p)} /\ X(p) \in Journals /\ moves = 0
  <2>1. X(p) # NoTx /\ X(p) \in {NoTx} \cup Journals /\ F(p) \in Features
    BY <1>2, <1>4, CommandFacts DEF LocksInv, AdmittedOK, Admits, X, F
  <2>2. F(p) \in Pending
    BY <2>1 DEF Pending, X
  <2> QED
    BY <2>1, <2>2 DEF LocksInv, PendingOK
<1> QED
  BY <1>1, <1>2, <1>3, <1>4, CommandFacts
-----------------------------------------------------------------------------
(* Steps of a command that works on its journal.                             *)

\* Where a command may be while a rebase is stopped.
Stoppable == {"feature-lock", "reload", "reconcile", "forward", "resume", "preflight",
              "undo-rebase", "conflict"}
World == <<tip, head, stopped, dirty, remote, tested, meta>>
WorldType ==
  /\ tip \in [Refs -> Tips] /\ head \in Heads /\ stopped \in Refs /\ dirty \in BOOLEAN
  /\ remote \subseteq Branches /\ tested \subseteq Branches /\ meta \subseteq Features
\* It goes on, or ends; and keeps its journal, or writes it over.
Moves(p) ==
  \/ Stop(p)
  \/ UNCHANGED <<cmd, locks>>
  \/ \E s \in Working \cup {"remove"} : Go(p, s) /\ UNCHANGED locks
Writes(p) == tx' = tx \/ \E y \in Journals : Set(p, y)
WorkStep(p) ==
  /\ cmd[p].pc \in Working /\ Moves(p) /\ Writes(p) /\ WorldType'
  /\ UNCHANGED <<home, reg, moves, count>>
\* What is known of the journal, and by the command that works on it.
Kept(f) == StageOK(f) /\ ForwardOK(f) /\ FinalOK(f)
Carried(p) == Knows(cmd[p].pc, cmd[p].verb, X(p), F(p))

\* Where a command can be: the places are disjoint, and named once here.
LEMMA PcFacts ==
  /\ Working \subseteq Inside /\ Inside \subseteq Pcs /\ Inside \cap Waiting = {}
  /\ "idle" \notin Inside /\ "remove" \in Inside /\ "idle" \in Waiting /\ "idle" \notin Pcs
  /\ Working \cap Renaming = {}
  /\ Working \cap {"feature-lock", "birth", "reload", "remove", "release", "unlock"} = {}
  /\ Renaming \cap {"feature-lock", "birth", "reload", "remove", "release", "unlock"} = {}
  /\ "unlink" \notin Inside
  BY DEF Working, Onward, Mid, Backward, Undoing, Renaming, Inside, Pcs, Waiting

\* A step on a journal keeps the types and the locks, and no other command is
\* inside while it is taken.
LEMMA WorkLocks ==
  ASSUME TypeOK, LocksInv, NEW p \in Terminals, WorkStep(p)
  PROVE  /\ TypeOK' /\ LocksInv' /\ Pending' = {F(p)}
         /\ \A q \in Terminals : q # p => cmd'[q] = cmd[q] /\ cmd'[q].pc \notin Inside
         /\ cmd'[p].pc = "idle" \/ (/\ cmd'[p].pc \in Working \cup {"remove"}
                                    /\ cmd'[p].verb = cmd[p].verb /\ cmd'[p].f = cmd[p].f)
<1>1. /\ cmd[p].pc \in Inside /\ cmd[p].pc # "idle" /\ F(p) \in Features /\ moves = 0
      /\ Pending = {F(p)} /\ X(p) \in Journals
      /\ \A q \in Terminals : q # p => cmd[q].pc \notin Inside
  BY Alone, PcFacts DEF WorkStep
<1>2. /\ tx' \in [Features -> {NoTx} \cup Journals] /\ tx'[F(p)] \in Journals
      /\ \A f \in Features : f # F(p) => tx'[f] = tx[f]
  <2>1. CASE tx' = tx
    BY <1>1, <2>1 DEF TypeOK, X
  <2>2. ASSUME NEW y \in Journals, Set(p, y)
        PROVE  /\ tx' \in [Features -> {NoTx} \cup Journals] /\ tx'[F(p)] \in Journals
               /\ \A f \in Features : f # F(p) => tx'[f] = tx[f]
    BY <1>1, <2>2, SetFacts
  <2> QED
    BY <2>1, <2>2 DEF WorkStep, Writes
<1>3. Pending' = {F(p)}
  BY <1>1, <1>2, NoTxFacts DEF Pending
<1>4. /\ cmd' \in [Terminals -> Commands] /\ lock' \in Locks
      /\ flock' \in [Features -> {"none", Dead} \cup Terminals]
      /\ \A q \in Terminals : q # p => cmd'[q] = cmd[q]
      /\ \/ cmd'[p].pc = "idle"
         \/ /\ cmd'[p].pc \in Working \cup {"remove"} /\ lock' = lock
            /\ cmd'[p].verb = cmd[p].verb /\ cmd'[p].f = cmd[p].f /\ cmd'[p].run = cmd[p].run
  <2>1. CASE Stop(p)
    BY <1>1, <2>1, StopFacts
  <2>2. CASE UNCHANGED <<cmd, locks>>
    BY <1>1, <2>2 DEF TypeOK, locks, WorkStep
  <2>3. ASSUME NEW s \in Working \cup {"remove"}, Go(p, s), UNCHANGED locks
        PROVE  /\ cmd' \in [Terminals -> Commands] /\ lock' = lock /\ flock' = flock
               /\ \A q \in Terminals : q # p => cmd'[q] = cmd[q]
               /\ cmd'[p].pc = s /\ cmd'[p].verb = cmd[p].verb /\ cmd'[p].f = cmd[p].f
               /\ cmd'[p].run = cmd[p].run
    BY <1>1, <2>3, GoFacts, PcFacts DEF locks
  <2> QED
    BY <2>1, <2>2, <2>3 DEF WorkStep, Moves, TypeOK
<1>5. TypeOK'
  BY <1>2, <1>4 DEF TypeOK, WorkStep, WorldType, count
<1>6. LockOK'
  BY <1>1, <1>4, PcFacts DEF LockOK, LocksInv
<1>7. PendingOK'
  BY <1>1, <1>3 DEF PendingOK, LocksInv, WorkStep
<1>8. AdmittedOK'
  <2> SUFFICES ASSUME NEW q \in Terminals
               PROVE  LET pc == cmd'[q].pc IN
                 /\ pc \notin {"birth", "feature-lock", "reload"} \cup Renaming
                 /\ pc \in Working \cup {"remove"} => tx'[cmd'[q].f] # NoTx
    BY DEF AdmittedOK, Admits, Renaming
  <2>1. CASE q = p
    BY <1>2, <1>4, <2>1, PcFacts, NoTxFacts DEF F, Inside
  <2>2. CASE q # p
    BY <1>1, <1>4, <2>2, PcFacts DEF Inside
  <2> QED
    BY <2>1, <2>2
<1> QED
  BY <1>1, <1>3, <1>4, <1>5, <1>6, <1>7, <1>8 DEF LocksInv

\* What is left to show of such a step.
LEMMA WorkInv ==
  ASSUME CheckoutInv, NEW p \in Terminals, WorkStep(p), NEW f, f = F(p), Kept(f)',
         cmd'[p].pc # "idle" => Carried(p)',
         stopped' = Main \/ RebaseOK'
  PROVE  CheckoutInv'
<1>1. /\ TypeOK' /\ LocksInv' /\ Pending' = {F(p)}
      /\ \A q \in Terminals : q # p => cmd'[q].pc \notin Inside
  BY WorkLocks DEF CheckoutInv
<1>2. JournalOK'
  BY <1>1 DEF JournalOK, Kept
<1>3. CommandOK'
  <2> SUFFICES ASSUME NEW q \in Terminals, cmd'[q].pc \in Working \cup {"remove"}
               PROVE  Carried(q)'
    BY DEF CommandOK, Carried
  <2>1. q = p /\ cmd'[p].pc # "idle"
    BY <1>1, PcFacts
  <2> QED
    BY <2>1
<1>4. RebaseOK'
  BY DEF RebaseOK, Rebasing
<1> QED
  BY <1>1, <1>2, <1>3, <1>4 DEF CheckoutInv

\* The beginning of every such step.
LEMMA WorkStart ==
  ASSUME CheckoutInv, NEW p \in Terminals, cmd[p].pc \in Working
  PROVE  /\ X(p) \in Journals /\ F(p) \in Features /\ cmd[p].pc # "idle"
         /\ Kept(F(p)) /\ Carried(p) /\ ~X(p).done /\ tx[F(p)] = X(p)
         /\ cmd[p].pc \notin Stoppable => stopped = Main
         /\ WorldType /\ (cmd[p].verb = "abort" \/ cmd[p].verb # "abort")
<1>1. /\ cmd[p].pc \in Inside /\ cmd[p].pc # "idle" /\ F(p) \in Features
      /\ Pending = {F(p)} /\ X(p) \in Journals /\ cmd[p].pc \notin Waiting
  BY Alone, PcFacts DEF CheckoutInv
<1>2. Kept(F(p)) /\ Carried(p)
  BY <1>1 DEF CheckoutInv, JournalOK, Kept, CommandOK, Carried
<1>3. ~X(p).done
  BY <1>1, <1>2, PcFacts DEF Carried, Knows, Journals
<1>4. cmd[p].pc \notin Stoppable => stopped = Main
  BY <1>1 DEF CheckoutInv, RebaseOK, Rebasing, Stoppable
<1> QED
  BY <1>1, <1>2, <1>3, <1>4 DEF X, CheckoutInv, TypeOK, WorldType

\* Ways to say of a step that it is one.
LEMMA StepSave ==
  ASSUME CheckoutInv, NEW p \in Terminals, cmd[p].pc \in Working, WorldType',
         NEW y \in Journals, NEW s \in Working, Set(p, y), Go(p, s), UNCHANGED locks,
         UNCHANGED <<home, reg, moves, count>>
  PROVE  /\ WorkStep(p) /\ X(p)' = y /\ F(p)' = F(p) /\ tx'[F(p)] = y
         /\ cmd'[p].pc = s /\ cmd'[p].verb = cmd[p].verb
<1>1. X(p) \in Journals /\ F(p) \in Features /\ cmd[p].pc # "idle"
  BY WorkStart
<1>2. tx'[F(p)] = y
  BY <1>1, SetFacts DEF CheckoutInv
<1>3. cmd'[p].pc = s /\ cmd'[p].verb = cmd[p].verb /\ cmd'[p].f = cmd[p].f
  BY <1>1, GoFacts, PcFacts DEF CheckoutInv
<1> QED
  BY <1>2, <1>3 DEF WorkStep, Moves, Writes, X, F

\* A step that goes on and keeps the journal.
LEMMA StepGo ==
  ASSUME CheckoutInv, NEW p \in Terminals, cmd[p].pc \in Working, WorldType',
         NEW s \in Working \cup {"remove"}, tx' = tx, Go(p, s), UNCHANGED locks,
         UNCHANGED <<home, reg, moves, count>>
  PROVE  /\ WorkStep(p) /\ X(p)' = X(p) /\ F(p)' = F(p) /\ tx'[F(p)] = X(p)
         /\ cmd'[p].pc = s /\ cmd'[p].verb = cmd[p].verb
<1>1. X(p) \in Journals /\ F(p) \in Features /\ cmd[p].pc # "idle" /\ tx[F(p)] = X(p)
  BY WorkStart
<1>2. cmd'[p].pc = s /\ cmd'[p].verb = cmd[p].verb /\ cmd'[p].f = cmd[p].f
  BY <1>1, GoFacts, PcFacts DEF CheckoutInv
<1> QED
  BY <1>1, <1>2 DEF WorkStep, Moves, Writes, X, F

\* A step that stops the command, having written the journal or not.
LEMMA StepStop ==
  ASSUME CheckoutInv, NEW p \in Terminals, cmd[p].pc \in Working, WorldType', Stop(p),
         NEW y \in Journals, Set(p, y) \/ (y = X(p) /\ tx' = tx),
         UNCHANGED <<home, reg, moves, count>>
  PROVE  WorkStep(p) /\ tx'[F(p)] = y /\ cmd'[p].pc = "idle"
<1>1. X(p) \in Journals /\ F(p) \in Features /\ cmd[p].pc # "idle" /\ tx[F(p)] = X(p)
  BY WorkStart
<1>2. cmd'[p].pc = "idle"
  BY <1>1, StopFacts DEF CheckoutInv
<1>3. tx'[F(p)] = y
  BY <1>1, SetFacts DEF CheckoutInv
<1> QED
  BY <1>2, <1>3 DEF WorkStep, Moves, Writes

\* The world stays, and what the journal promises of it is not disturbed.
Quiet(y, x, f) ==
  /\ y.back = x.back /\ y.restored = x.restored /\ y.i = x.i /\ y.first = x.first
  /\ y.pre = x.pre /\ y.had = x.had /\ y.pub = x.pub /\ y.pushed = x.pushed /\ y.done = x.done
  /\ y.stage \in MidStages => x.i =< Last(f)
  /\ y.stage \in Late => x.i > Last(f) /\ (~x.back => Final(f))
  /\ y.stage = "publishing" => y.want = "" /\ (~x.back => head = x.first)
  /\ x.pub => y.stage \in {"planned"} \cup Late
  /\ y.want \in {"", x.first}
  /\ ~x.back => \A b \in y.moved : tip[b] = "new"
  /\ x.back /\ "refs" \in x.restored => y.moved = {}
\* What is said of the journal survives a quiet write of it.
LEMMA QuietKept ==
  ASSUME UNCHANGED <<tip, head, stopped, remote, tested, meta>>,
         NEW f, NEW x, tx[f] = x, Kept(f), NEW y, tx'[f] = y, Quiet(y, x, f)
  PROVE  Kept(f)'
<1>1. /\ tip' = tip /\ head' = head /\ stopped' = stopped /\ remote' = remote
      /\ tested' = tested /\ meta' = meta /\ (Rebasing' <=> Rebasing)
      /\ (Final(f)' <=> Final(f))
  BY DEF Rebasing, Final
<1>2. StageOK(f)'
  BY <1>1 DEF Kept, StageOK, Quiet
<1>3. ForwardOK(f)'
  BY <1>1 DEF Kept, ForwardOK, Quiet, Ahead
<1>4. FinalOK(f)'
  BY <1>1, ZenonT(60) DEF Kept, FinalOK, Quiet, Undone, Complete
<1> QED
  BY <1>2, <1>3, <1>4 DEF Kept

\* What a command knows it knows while the world stays.
LEMMA QuietKnows ==
  ASSUME UNCHANGED <<tip, head, remote, tested, meta>>,
         NEW s, NEW v, NEW y, NEW f, Knows(s, v, y, f)
  PROVE  Knows(s, v, y, f)'
<1>1. /\ tip' = tip /\ head' = head /\ remote' = remote /\ tested' = tested /\ meta' = meta
      /\ (Final(f)' <=> Final(f))
  BY DEF Final
<1> QED
  BY <1>1, ZenonT(60) DEF Knows, OnwardOK, BackwardOK, Undid, Expected

\* A rebase that has stopped stays that of the journal.
LEMMA RebaseStep ==
  ASSUME CheckoutInv, NEW p \in Terminals, WorkStep(p), UNCHANGED stopped,
         NEW y, tx'[F(p)] = y, y.i = X(p).i, ~y.done,
         Rebasing => /\ y.stage \in {"rebasing", "conflict"} /\ y.want = ""
                     /\ cmd'[p].pc \in Stoppable \cup {"idle"}
  PROVE  RebaseOK'
<1>1. CASE ~Rebasing
  BY <1>1 DEF RebaseOK, Rebasing
<1>2. CASE Rebasing
  <2>1. Pending' = {F(p)} /\ \A q \in Terminals : q # p => cmd'[q] = cmd[q]
    BY WorkLocks DEF CheckoutInv
  <2>2. PICK g \in Pending : Plan[g][tx[g].i] = stopped
    BY <1>2 DEF CheckoutInv, RebaseOK
  <2>3. g = F(p)
    <3>1. Pending = {F(p)}
      BY Alone, PcFacts DEF CheckoutInv, WorkStep
    <3> QED
      BY <2>2, <3>1
  <2>4. Plan[F(p)][y.i] = stopped'
    BY <2>2, <2>3 DEF X
  <2>5. \A q \in Terminals : cmd'[q].pc \in Waiting \cup Stoppable
    BY <1>2, <2>1 DEF CheckoutInv, RebaseOK, Stoppable, Waiting
  <2> QED
    BY <1>2, <2>1, <2>4, <2>5 DEF RebaseOK, Stoppable
<1> QED
  BY <1>1, <1>2

\* A step of a command that leaves the world as it is.
LEMMA QuietStep ==
  ASSUME CheckoutInv, NEW p \in Terminals, cmd[p].pc \in Working,
         NEW f, f = F(p), NEW x, x = X(p), NEW v, v = cmd[p].verb,
         UNCHANGED <<World, home, reg, moves, count>>,
         NEW y \in Journals, Set(p, y) \/ (y = x /\ tx' = tx), Quiet(y, x, f),
         Rebasing => y.stage \in {"rebasing", "conflict"} /\ y.want = "",
         \/ Stop(p)
         \/ \E s \in Working \cup {"remove"} :
              /\ Go(p, s) /\ UNCHANGED locks
              /\ Knows(s, v, y, f) /\ (Rebasing => s \in Stoppable)
  PROVE  CheckoutInv'
<1>1. /\ x \in Journals /\ f \in Features /\ Kept(f) /\ tx[f] = x /\ ~x.done /\ WorldType
      /\ cmd[p].pc # "idle"
  BY WorkStart
<1>2. WorldType' /\ UNCHANGED <<tip, head, stopped, remote, tested, meta>>
  BY <1>1 DEF World, WorldType
<1>3. Kept(f)'
  <2>1. tx'[f] = y
    BY <1>1, SetFacts DEF CheckoutInv
  <2> QED
    BY <1>1, <1>2, <2>1, QuietKept
<1>4. CASE Stop(p)
  <2>1. WorkStep(p) /\ tx'[f] = y /\ cmd'[p].pc = "idle"
    BY <1>1, <1>2, <1>4, StepStop
  <2>2. RebaseOK'
    BY <1>1, <1>2, <2>1, RebaseStep, ZenonT(60) DEF Quiet
  <2> QED
    BY <1>3, <2>1, <2>2, WorkInv
<1>5. ASSUME NEW s \in Working \cup {"remove"}, Go(p, s), UNCHANGED locks,
             Knows(s, v, y, f), Rebasing => s \in Stoppable
      PROVE  CheckoutInv'
  <2>1. /\ WorkStep(p) /\ X(p)' = y /\ F(p)' = f /\ tx'[f] = y
        /\ cmd'[p].pc = s /\ cmd'[p].verb = v
    <3>1. tx'[f] = y
      BY <1>1, SetFacts DEF CheckoutInv
    <3>2. cmd'[p].pc = s /\ cmd'[p].verb = cmd[p].verb /\ cmd'[p].f = cmd[p].f
      BY <1>1, <1>5, GoFacts, PcFacts DEF CheckoutInv
    <3> QED
      BY <1>1, <1>2, <1>5, <3>1, <3>2 DEF WorkStep, Moves, Writes, X, F
  <2>2. RebaseOK'
    BY <1>1, <1>2, <1>5, <2>1, RebaseStep DEF Quiet
  <2>3. Carried(p)'
    BY <1>2, <1>5, <2>1, QuietKnows DEF Carried
  <2> QED
    BY <1>3, <2>1, <2>2, <2>3, WorkInv
<1> QED
  BY <1>4, <1>5

\* The same journal, or one that differs only where it does not matter.
LEMMA QuietSame ==
  ASSUME NEW f, NEW x, tx[f] = x, Kept(f), NEW y,
         Same(y, x, {"ready", "act", "on", "val", "at", "undo"})
  PROVE  Quiet(y, x, f)
<1>1. /\ y.back = x.back /\ y.restored = x.restored /\ y.i = x.i /\ y.first = x.first
      /\ y.pre = x.pre /\ y.had = x.had /\ y.pub = x.pub /\ y.pushed = x.pushed
      /\ y.done = x.done /\ y.stage = x.stage /\ y.want = x.want /\ y.moved = x.moved
  BY DEF Same, Fields
<1> QED
  BY <1>1 DEF Quiet, Kept, StageOK, ForwardOK, FinalOK

\* While a rebase is stopped the journal is at its branch.
LEMMA WhileStopped ==
  ASSUME CheckoutInv, NEW p \in Terminals, cmd[p].pc \in Working, Rebasing
  PROVE  /\ X(p).stage \in {"rebasing", "conflict"} /\ Plan[F(p)][X(p).i] = stopped
         /\ X(p).want = "" /\ ~X(p).done
<1>1. Pending = {F(p)}
  BY Alone, PcFacts DEF CheckoutInv
<1> QED
  BY <1>1 DEF CheckoutInv, RebaseOK, X

\* It ends or goes on without a word in its journal.
LEMMA QuietStop ==
  ASSUME CheckoutInv, NEW p \in Terminals, cmd[p].pc \in Working, Stop(p),
         UNCHANGED <<World, home, reg, tx, moves, count>>
  PROVE  CheckoutInv'
<1>1. PICK f, x, v : f = F(p) /\ x = X(p) /\ v = cmd[p].verb
  OBVIOUS
<1>2. x \in Journals /\ tx[f] = x /\ Kept(f)
  BY <1>1, WorkStart
<1>3. Quiet(x, x, f)
  BY <1>2, QuietSame DEF Same
<1> QED
  BY <1>1, <1>2, <1>3, QuietStep, WhileStopped

\* A step that goes on and changes nothing keeps the invariant, if the command
\* knows what it must where it goes.
LEMMA QuietGo ==
  ASSUME CheckoutInv, NEW p \in Terminals, cmd[p].pc \in Working,
         NEW s \in Working \cup {"remove"}, Go(p, s), UNCHANGED locks,
         UNCHANGED <<World, home, reg, tx, moves, count>>,
         Knows(s, cmd[p].verb, X(p), F(p)), Rebasing => s \in Stoppable
  PROVE  CheckoutInv'
<1>1. PICK f, x, v : f = F(p) /\ x = X(p) /\ v = cmd[p].verb
  OBVIOUS
<1>2. x \in Journals /\ tx[f] = x /\ Kept(f)
  BY <1>1, WorkStart
<1>3. Quiet(x, x, f)
  BY <1>2, QuietSame DEF Same
<1> QED
  BY <1>1, <1>2, <1>3, QuietStep, WhileStopped

\* Before the last branch is over nothing has been published.
LEMMA NotOver ==
  ASSUME NEW f \in Features, NEW x \in Journals, tx[f] = x, Kept(f), x.i =< Last(f)
  PROVE  ~x.pub /\ x.stage \notin Late
<1>1. x.i \in Nat /\ Last(f) \in Nat
  BY PlanFacts DEF Journals
<1>2. ~(x.i > Last(f))
  BY <1>1
<1> QED
  BY <1>2 DEF Kept, StageOK, FinalOK

\* The journal follows a branch from stage to stage.
LEMMA QuietStage ==
  ASSUME NEW f \in Features, NEW x \in Journals, tx[f] = x, Kept(f), x.i =< Last(f),
         NEW y, Same(y, x, {"stage", "act", "on", "val", "at"}),
         y.stage \in {"planned"} \cup MidStages
  PROVE  Quiet(y, x, f)
<1>1. /\ y.back = x.back /\ y.restored = x.restored /\ y.i = x.i /\ y.first = x.first
      /\ y.pre = x.pre /\ y.had = x.had /\ y.pub = x.pub /\ y.pushed = x.pushed
      /\ y.done = x.done /\ y.want = x.want /\ y.moved = x.moved
  BY DEF Same, Fields
<1>2. y.stage \notin Late
  BY DEF MidStages, Late
<1>3. y.stage # "publishing"
  BY <1>2 DEF Late
<1> QED
  BY <1>1, <1>2, <1>3, NotOver DEF Quiet, Kept, StageOK, ForwardOK

\* An action is closed with what it is found to have done.
LEMMA ClosedFacts ==
  ASSUME WorldType, NEW f \in Features, NEW x \in Journals, tx[f] = x, Kept(f),
         NEW y, y = Closed(x), Closable(x)
  PROVE  y \in Journals /\ Same(y, x, {"act", "at", "moved"}) /\ Quiet(y, x, f)
<1>1. PICK m : m = IF tip[x.on] = "new" THEN x.moved \cup {x.on} ELSE x.moved \ {x.on}
  OBVIOUS
<1>2. y = [x EXCEPT !.act = "closed", !.at = head, !.moved = m]
  BY <1>1 DEF Closed
<1>3. x.moved \in SUBSET Refs /\ x.on \in Refs /\ head \in Heads
  BY DEF Journals, WorldType
<1>4. m \in SUBSET Refs /\ (~x.back => \A b \in m : tip[b] = "new")
  BY <1>1, <1>3 DEF Kept, ForwardOK
<1>5. y \in Journals /\ Same(y, x, {"act", "at", "moved"}) /\ y.moved = m
  <2>1. y \in Journals
    <3>1. PICK h \in Heads : h = head
      BY <1>3
    <3>2. PICK z : z = [x EXCEPT !.act = "closed"]
      OBVIOUS
    <3>3. PICK w : w = [z EXCEPT !.at = h]
      OBVIOUS
    <3>4. z \in Journals
      BY <3>2, ZenonT(60) DEF Journals
    <3>5. w \in Journals
      BY <3>3, <3>4 DEF Journals
    <3>6. [w EXCEPT !.moved = m] \in Journals
      BY <1>4, <3>5 DEF Journals
    <3>7. y = [w EXCEPT !.moved = m]
      BY <1>2, <3>1, <3>2, <3>3
    <3> QED
      BY <3>6, <3>7
  <2>2. Same(y, x, {"act", "at", "moved"})
    BY <1>2 DEF Same, Fields, Journals
  <2>3. y.moved = m
    BY <1>2 DEF Journals
  <2> QED
    BY <2>1, <2>2, <2>3
<1>6. x.back /\ "refs" \in x.restored => m = {}
  BY <1>5 DEF Closable, Savable, Same, Fields
<1>7. /\ y.back = x.back /\ y.restored = x.restored /\ y.i = x.i /\ y.first = x.first
      /\ y.pre = x.pre /\ y.had = x.had /\ y.pub = x.pub /\ y.pushed = x.pushed
      /\ y.done = x.done /\ y.want = x.want /\ y.stage = x.stage
  BY <1>5 DEF Same, Fields
<1>8. Quiet(y, x, f)
  BY <1>4, <1>5, <1>6, <1>7 DEF Quiet, Kept, StageOK, ForwardOK, FinalOK
<1> QED
  BY <1>5, <1>8

\* A step of a command that changes the world, or what the journal promises.
LEMMA WorldStep ==
  ASSUME CheckoutInv, NEW p \in Terminals, cmd[p].pc \in Working,
         NEW f, f = F(p), NEW x, x = X(p), NEW v, v = cmd[p].verb,
         UNCHANGED <<home, reg, moves, count>>, WorldType',
         NEW y \in Journals, Set(p, y) \/ (y = x /\ tx' = tx),
         tx'[f] = y => Kept(f)', stopped' = Main,
         \/ Stop(p)
         \/ UNCHANGED <<cmd, locks>> /\ Knows(cmd[p].pc, v, y, f)'
         \/ \E s \in Working \cup {"remove"} : Go(p, s) /\ UNCHANGED locks /\ Knows(s, v, y, f)'
  PROVE  CheckoutInv'
<1>1. /\ x \in Journals /\ f \in Features /\ tx[f] = x /\ cmd[p].pc # "idle"
  BY WorkStart
<1>2. tx'[f] = y /\ Kept(f)'
  BY <1>1, SetFacts DEF CheckoutInv
<1>3. CASE Stop(p)
  <2>1. WorkStep(p) /\ cmd'[p].pc = "idle"
    BY <1>1, <1>3, StepStop
  <2> QED
    BY <1>2, <2>1, WorkInv
<1>4. CASE UNCHANGED <<cmd, locks>> /\ Knows(cmd[p].pc, v, y, f)'
  <2>1. WorkStep(p) /\ X(p)' = y /\ F(p)' = f /\ cmd'[p].verb = v
    BY <1>1, <1>2, <1>4 DEF WorkStep, Moves, Writes, X, F
  <2>2. Carried(p)'
    BY <1>4, <2>1 DEF Carried
  <2> QED
    BY <1>2, <2>1, <2>2, WorkInv
<1>5. ASSUME NEW s \in Working \cup {"remove"}, Go(p, s), UNCHANGED locks, Knows(s, v, y, f)'
      PROVE  CheckoutInv'
  <2>1. cmd'[p].pc = s /\ cmd'[p].verb = cmd[p].verb /\ cmd'[p].f = cmd[p].f
    BY <1>1, <1>5, GoFacts, PcFacts DEF CheckoutInv
  <2>2. WorkStep(p) /\ X(p)' = y /\ F(p)' = f
    BY <1>1, <1>2, <1>5, <2>1 DEF WorkStep, Moves, Writes, X, F
  <2>3. Carried(p)'
    BY <1>5, <2>1, <2>2 DEF Carried
  <2> QED
    BY <1>2, <2>2, <2>3, WorkInv
<1> QED
  BY <1>3, <1>4, <1>5

\* The working tree is switched: only a run that is about to publish, or is
\* over, says where it is.
LEMMA HeadKept ==
  ASSUME NEW f, NEW x, tx[f] = x, tx'[f] = x, Kept(f), ~x.done,
         UNCHANGED <<tip, remote, tested, meta>>, x.back \/ x.stage # "publishing"
  PROVE  Kept(f)'
<1>1. tip' = tip /\ remote' = remote /\ tested' = tested /\ meta' = meta
      /\ (Final(f)' <=> Final(f))
  BY DEF Final
<1> QED
  BY <1>1 DEF Kept, StageOK, ForwardOK, FinalOK, Ahead

\* What a run that is undone promises.
LEMMA BackKept ==
  ASSUME NEW f, NEW y, tx'[f] = y, y.back, ~y.pub, ~y.done, StageOK(f)'
  PROVE  Kept(f)'
  BY DEF Kept, ForwardOK, FinalOK
-----------------------------------------------------------------------------
(* A run on its way through its plan.                                        *)

\* What a working command starts from, by names that a step does not change.
LEMMA Starts ==
  ASSUME CheckoutInv, NEW p \in Terminals, cmd[p].pc \in Working
  PROVE  \E f \in Features, x \in Journals, v \in {cmd[p].verb} :
           /\ f = F(p) /\ x = X(p) /\ tx[f] = x /\ Kept(f) /\ ~x.done /\ WorldType
           /\ Knows(cmd[p].pc, v, x, f)
           /\ cmd[p].pc \notin Stoppable => ~Rebasing
  BY WorkStart DEF Carried, Rebasing

\* The run's record of the branches it pinned is complete.
LEMMA ReadyStep == ASSUME CheckoutInv, NEW p \in Terminals, Ready(p) PROVE CheckoutInv'
<1>1. cmd[p].pc = "pin" /\ "pin" \in Working \ Stoppable /\ "next" \in Working
  BY DEF Ready, At, Working, Onward, Stoppable
<1>2. PICK f \in Features, x \in Journals, v \in {cmd[p].verb} :
        /\ f = F(p) /\ x = X(p) /\ tx[f] = x /\ Kept(f) /\ ~x.done /\ ~Rebasing
        /\ Knows("pin", v, x, f)
  BY <1>1, Starts
<1>3. PICK y : y = [x EXCEPT !.ready = TRUE]
  OBVIOUS
<1>4. y \in Journals /\ Same(y, x, {"ready"})
  BY <1>3 DEF Journals, Same, Fields
<1>5. Quiet(y, x, f)
  BY <1>2, <1>4, QuietSame DEF Same
<1>6. Knows("next", v, y, f)
  BY <1>2, <1>4 DEF Knows, OnwardOK, BackwardOK, Same, Fields, Onward, Mid, Backward, Undoing
<1> QED
  BY <1>1, <1>2, <1>3, <1>4, <1>5, <1>6, QuietStep DEF Ready, Save, World, world

\* A branch is begun: its action is pending, or the run stops.
LEMMA BeginStep == ASSUME CheckoutInv, NEW p \in Terminals, Begin(p) PROVE CheckoutInv'
<1>1. cmd[p].pc = "next" /\ "next" \in Working \ Stoppable /\ "switch" \in Working
  BY DEF Begin, At, Working, Onward, Mid, Stoppable
<1>2. PICK f \in Features, x \in Journals, v \in {cmd[p].verb} :
        /\ f = F(p) /\ x = X(p) /\ tx[f] = x /\ Kept(f) /\ ~x.done /\ ~Rebasing
        /\ Knows("next", v, x, f)
  BY <1>1, Starts
<1>3. CASE Stop(p) /\ UNCHANGED files
  BY <1>1, <1>3, QuietStop DEF Begin, files, world, World
<1>4. CASE Save(p, [x EXCEPT !.act = "intent", !.on = Cur(x, f)], "switch") /\ UNCHANGED locks
  <2>1. Cur(x, f) \in Refs /\ x.i =< Last(f)
    BY <1>1, <1>2, PlanFacts DEF Begin, Cur, Last, Refs, Journals
  <2>2. PICK y : y = [x EXCEPT !.act = "intent", !.on = Cur(x, f)]
    OBVIOUS
  <2>3. y \in Journals /\ Same(y, x, {"act", "on"})
    BY <2>1, <2>2 DEF Journals, Same, Fields
  <2>4. Quiet(y, x, f)
    BY <1>2, <2>3, QuietSame DEF Same
  <2>5. Knows("switch", v, y, f)
    BY <1>2, <2>1, <2>3
       DEF Knows, OnwardOK, BackwardOK, Same, Fields, Onward, Mid, Backward, Undoing
  <2> QED
    BY <1>1, <1>2, <1>4, <2>2, <2>3, <2>4, <2>5, QuietStep DEF Begin, Save, World, world
<1> QED
  BY <1>2, <1>3, <1>4 DEF Begin

\* The switch to the branch is recorded before it is made.
LEMMA SwitchStep == ASSUME CheckoutInv, NEW p \in Terminals, Switch(p) PROVE CheckoutInv'
<1>1. cmd[p].pc = "switch" /\ "switch" \in Working \ Stoppable /\ "checkout" \in Working
  BY DEF Switch, At, Working, Onward, Mid, Stoppable
<1>2. PICK f \in Features, x \in Journals, v \in {cmd[p].verb} :
        /\ f = F(p) /\ x = X(p) /\ tx[f] = x /\ Kept(f) /\ ~x.done /\ ~Rebasing
        /\ Knows("switch", v, x, f)
  BY <1>1, Starts
<1>3. PICK y : y = [x EXCEPT !.stage = "switched"]
  OBVIOUS
<1>4. y \in Journals /\ Same(y, x, {"stage"}) /\ y.stage = "switched"
  BY <1>3 DEF Journals, Same, Fields, MidStages
<1>5. x.i =< Last(f) /\ x.want = ""
  BY <1>2 DEF Knows, OnwardOK, Mid
<1>6. Quiet(y, x, f)
  BY <1>2, <1>4, <1>5, QuietStage DEF Same, MidStages
<1>7. Knows("checkout", v, y, f)
  BY <1>2, <1>4 DEF Knows, OnwardOK, BackwardOK, Same, Fields, Onward, Mid, Backward, Undoing
<1> QED
  BY <1>1, <1>2, <1>3, <1>4, <1>6, <1>7, QuietStep DEF Switch, Save, World, world

\* The rebase is recorded before it is run, where no other one has stopped.
LEMMA RebaseBegun == ASSUME CheckoutInv, NEW p \in Terminals, Rebase(p) PROVE CheckoutInv'
<1>1. cmd[p].pc = "rebase" /\ "rebase" \in Working \ Stoppable /\ "replay" \in Working
  BY DEF Rebase, At, Working, Onward, Mid, Stoppable
<1>2. PICK f \in Features, x \in Journals, v \in {cmd[p].verb} :
        /\ f = F(p) /\ x = X(p) /\ tx[f] = x /\ Kept(f) /\ ~x.done /\ ~Rebasing
        /\ Knows("rebase", v, x, f)
  BY <1>1, Starts
<1>3. PICK y : y = [x EXCEPT !.stage = "rebasing"]
  OBVIOUS
<1>4. y \in Journals /\ Same(y, x, {"stage"}) /\ y.stage = "rebasing"
  BY <1>3 DEF Journals, Same, Fields, MidStages
<1>5. x.i =< Last(f) /\ x.want = ""
  BY <1>2 DEF Knows, OnwardOK, Mid
<1>6. Quiet(y, x, f)
  BY <1>2, <1>4, <1>5, QuietStage DEF Same, MidStages
<1>7. Knows("replay", v, y, f)
  BY <1>2, <1>4 DEF Knows, OnwardOK, BackwardOK, Same, Fields, Onward, Mid, Backward, Undoing
<1> QED
  BY <1>1, <1>2, <1>3, <1>4, <1>6, <1>7, QuietStep DEF Rebase, Save, World, world

\* A conflict stops the run with a rebase in the working tree.
LEMMA ConflictStep ==
  ASSUME CheckoutInv, NEW p \in Terminals, Conflict(p)
  PROVE  CheckoutInv'
<1>1. cmd[p].pc = "conflict" /\ "conflict" \in Working
  BY DEF Conflict, At, Working, Onward, Mid
<1>2. PICK f \in Features, x \in Journals, v \in {cmd[p].verb} :
        /\ f = F(p) /\ x = X(p) /\ tx[f] = x /\ Kept(f) /\ ~x.done
        /\ Knows("conflict", v, x, f)
  BY <1>1, Starts
<1>3. PICK y : y = [x EXCEPT !.stage = "conflict"]
  OBVIOUS
<1>4. y \in Journals /\ Same(y, x, {"stage"}) /\ y.stage = "conflict"
  BY <1>3 DEF Journals, Same, Fields, MidStages
<1>5. x.i =< Last(f) /\ y.want = ""
  BY <1>2, <1>4 DEF Knows, OnwardOK, Mid, Same, Fields
<1>6. Quiet(y, x, f)
  BY <1>2, <1>4, <1>5, QuietStage DEF Same, MidStages
<1> QED
  BY <1>1, <1>2, <1>3, <1>4, <1>5, <1>6, QuietStep DEF Conflict, World, world

\* A branch that was replayed is recorded as rebased.
LEMMA ReplayedStep ==
  ASSUME CheckoutInv, NEW p \in Terminals, Replayed(p)
  PROVE  CheckoutInv'
<1>1. cmd[p].pc = "replayed" /\ "replayed" \in Working \ Stoppable /\ "observe" \in Working
  BY DEF Replayed, At, Working, Onward, Mid, Stoppable
<1>2. PICK f \in Features, x \in Journals, v \in {cmd[p].verb} :
        /\ f = F(p) /\ x = X(p) /\ tx[f] = x /\ Kept(f) /\ ~x.done /\ ~Rebasing
        /\ Knows("replayed", v, x, f)
  BY <1>1, Starts
<1>3. PICK y : y = [x EXCEPT !.stage = "rebased"]
  OBVIOUS
<1>4. y \in Journals /\ Same(y, x, {"stage"}) /\ y.stage = "rebased"
  BY <1>3 DEF Journals, Same, Fields, MidStages
<1>5. x.i =< Last(f) /\ x.want = ""
  BY <1>2 DEF Knows, OnwardOK, Mid
<1>6. Quiet(y, x, f)
  BY <1>2, <1>4, <1>5, QuietStage DEF Same, MidStages
<1>7. Knows("observe", v, y, f)
  BY <1>2, <1>4 DEF Knows, OnwardOK, BackwardOK, Same, Fields, Onward, Mid, Backward, Undoing
<1> QED
  BY <1>1, <1>2, <1>3, <1>4, <1>6, <1>7, QuietStep DEF Replayed, Save, World, world

\* What was done to the branch is compared with what was pending, and closed.
LEMMA ObserveStep ==
  ASSUME CheckoutInv, NEW p \in Terminals, Observe(p)
  PROVE  CheckoutInv'
<1>1. /\ cmd[p].pc \in {"observe", "failed"} /\ cmd[p].pc \in Working \ Stoppable
      /\ "ancestry" \in Working
  BY DEF Observe, At, Working, Onward, Mid, Stoppable
<1>2. PICK f \in Features, x \in Journals, v \in {cmd[p].verb} :
        /\ f = F(p) /\ x = X(p) /\ v = cmd[p].verb /\ tx[f] = x /\ Kept(f) /\ ~x.done
        /\ ~Rebasing /\ WorldType /\ Knows(cmd[p].pc, v, x, f)
  BY <1>1, Starts
<1>3. CASE Stop(p) /\ UNCHANGED files
  BY <1>1, <1>3, QuietStop DEF Observe, files, world, World
<1>4. CASE Go(p, "ancestry") /\ UNCHANGED <<files, locks>> /\ At(p, "observe")
  <2>1. Knows("ancestry", v, x, f)
    BY <1>2, <1>4 DEF At, Knows, OnwardOK, BackwardOK, Onward, Mid, Backward, Undoing
  <2> QED
    BY <1>1, <1>2, <1>4, <2>1, QuietGo DEF Observe, files, world, World
<1>5. ASSUME Closable(x), Set(p, Closed(x)), UNCHANGED <<meta, home, reg, moves>>,
             Stop(p) \/ (Go(p, "ancestry") /\ UNCHANGED locks /\ At(p, "observe"))
      PROVE  CheckoutInv'
  <2>1. PICK y : y = Closed(x)
    OBVIOUS
  <2>2. y \in Journals /\ Same(y, x, {"act", "at", "moved"}) /\ Quiet(y, x, f)
    BY <1>2, <1>5, <2>1, ClosedFacts
  <2>3. ASSUME At(p, "observe") PROVE Knows("ancestry", v, y, f)
    BY <1>2, <2>2, <2>3
       DEF At, Knows, OnwardOK, BackwardOK, Same, Fields, Onward, Mid, Backward, Undoing
  <2> QED
    BY <1>1, <1>2, <1>5, <2>1, <2>2, <2>3, QuietStep DEF Observe, World, world
<1> QED
  BY <1>2, <1>3, <1>4, <1>5 DEF Observe, Save

\* A branch that is not on top of its parent stops the run.
LEMMA AncestryStep ==
  ASSUME CheckoutInv, NEW p \in Terminals, Ancestry(p)
  PROVE  CheckoutInv'
<1>1. /\ cmd[p].pc = "ancestry" /\ "ancestry" \in Working \ Stoppable
      /\ "validate" \in Working /\ "advance" \in Working
  BY DEF Ancestry, At, Working, Onward, Mid, Stoppable
<1>2. PICK f \in Features, x \in Journals, v \in {cmd[p].verb} :
        /\ f = F(p) /\ x = X(p) /\ tx[f] = x /\ Kept(f) /\ ~x.done /\ ~Rebasing
        /\ Knows("ancestry", v, x, f)
  BY <1>1, Starts
<1>3. CASE Stop(p) /\ UNCHANGED files
  BY <1>1, <1>3, QuietStop DEF Ancestry, files, world, World
<1>4. CASE ~Validate /\ Go(p, "advance") /\ UNCHANGED <<files, locks>>
  <2>1. Knows("advance", v, x, f)
    BY <1>2, <1>4 DEF Knows, OnwardOK, BackwardOK, Onward, Mid, Backward, Undoing
  <2> QED
    BY <1>1, <1>2, <1>4, <2>1, QuietGo DEF Ancestry, files, world, World
<1>5. CASE Save(p, [x EXCEPT !.stage = "validating"], "validate") /\ UNCHANGED locks
  <2>1. PICK y : y = [x EXCEPT !.stage = "validating"]
    OBVIOUS
  <2>2. y \in Journals /\ Same(y, x, {"stage"}) /\ y.stage = "validating"
    BY <2>1 DEF Journals, Same, Fields, MidStages
  <2>3. x.i =< Last(f) /\ x.want = ""
    BY <1>2 DEF Knows, OnwardOK, Mid
  <2>4. Quiet(y, x, f)
    BY <1>2, <2>2, <2>3, QuietStage DEF Same, MidStages
  <2>5. Knows("validate", v, y, f)
    BY <1>2, <2>2 DEF Knows, OnwardOK, BackwardOK, Same, Fields, Onward, Mid, Backward, Undoing
  <2> QED
    BY <1>1, <1>2, <1>5, <2>1, <2>2, <2>4, <2>5, QuietStep DEF Ancestry, Save, World, world
<1> QED
  BY <1>2, <1>3, <1>4, <1>5 DEF Ancestry

\* The test is announced before it runs.
LEMMA ValidateIntentStep ==
  ASSUME CheckoutInv, NEW p \in Terminals, ValidateIntent(p) PROVE CheckoutInv'
<1>1. cmd[p].pc = "validate" /\ "validate" \in Working \ Stoppable /\ "test" \in Working
  BY DEF ValidateIntent, At, Working, Onward, Mid, Stoppable
<1>2. PICK f \in Features, x \in Journals, v \in {cmd[p].verb} :
        /\ f = F(p) /\ x = X(p) /\ tx[f] = x /\ Kept(f) /\ ~x.done /\ ~Rebasing
        /\ Knows("validate", v, x, f)
  BY <1>1, Starts
<1>3. CASE Stop(p) /\ UNCHANGED files
  BY <1>1, <1>3, QuietStop DEF ValidateIntent, files, world, World
<1>4. CASE Save(p, [x EXCEPT !.val = "intent"], "test") /\ UNCHANGED locks
  <2>1. PICK y : y = [x EXCEPT !.val = "intent"]
    OBVIOUS
  <2>2. y \in Journals /\ Same(y, x, {"val"})
    BY <2>1 DEF Journals, Same, Fields
  <2>3. Quiet(y, x, f)
    BY <1>2, <2>2, QuietSame DEF Same
  <2>4. Knows("test", v, y, f)
    BY <1>2, <2>2 DEF Knows, OnwardOK, BackwardOK, Same, Fields, Onward, Mid, Backward, Undoing
  <2> QED
    BY <1>1, <1>2, <1>4, <2>1, <2>2, <2>3, <2>4, QuietStep
     DEF ValidateIntent, Save, World, world
<1> QED
  BY <1>2, <1>3, <1>4 DEF ValidateIntent
-----------------------------------------------------------------------------
(* After the last branch.                                                   *)

\* After the last branch the journal says that the working tree is to go back.
LEMMA RestoringStep ==
  ASSUME CheckoutInv, NEW p \in Terminals, Restoring(p)
  PROVE  CheckoutInv'
<1>1. cmd[p].pc = "restoring" /\ "restoring" \in Working \ Stoppable /\ "restore" \in Working
  BY DEF Restoring, At, Working, Onward, Mid, Stoppable
<1>2. PICK f \in Features, x \in Journals, v \in {cmd[p].verb} :
        /\ f = F(p) /\ x = X(p) /\ tx[f] = x /\ Kept(f) /\ ~x.done /\ ~Rebasing
        /\ Knows("restoring", v, x, f)
  BY <1>1, Starts
<1>3. PICK y : y = [x EXCEPT !.stage = "restoring"]
  OBVIOUS
<1>4. y \in Journals /\ Same(y, x, {"stage"}) /\ y.stage = "restoring"
  BY <1>3 DEF Journals, Same, Fields, Late
<1>5. x.i > Last(f) /\ (~x.back => Final(f)) /\ x.want = ""
  BY <1>2 DEF Knows, OnwardOK
<1>6. Quiet(y, x, f)
  <2>1. /\ y.back = x.back /\ y.restored = x.restored /\ y.i = x.i /\ y.first = x.first
        /\ y.pre = x.pre /\ y.had = x.had /\ y.pub = x.pub /\ y.pushed = x.pushed
        /\ y.done = x.done /\ y.want = x.want /\ y.moved = x.moved
    BY <1>4 DEF Same, Fields
  <2> QED
    BY <1>2, <1>4, <1>5, <2>1 DEF Quiet, Kept, StageOK, ForwardOK, MidStages, Late
<1>7. Knows("restore", v, y, f)
  BY <1>2, <1>4 DEF Knows, OnwardOK, BackwardOK, Same, Fields, Onward, Mid, Backward, Undoing
<1> QED
  BY <1>1, <1>2, <1>3, <1>4, <1>6, <1>7, QuietStep DEF Restoring, Save, World, world

\* Where the working tree goes is recorded before it goes there.
LEMMA RestoreStep ==
  ASSUME CheckoutInv, NEW p \in Terminals, Restore(p)
  PROVE  CheckoutInv'
<1>1. /\ cmd[p].pc = "restore" /\ "restore" \in Working \ Stoppable
      /\ "give-back" \in Working /\ "publish" \in Working
  BY DEF Restore, At, Working, Onward, Mid, Stoppable
<1>2. PICK f \in Features, x \in Journals, v \in {cmd[p].verb} :
        /\ f = F(p) /\ x = X(p) /\ tx[f] = x /\ Kept(f) /\ ~x.done /\ ~Rebasing
        /\ Knows("restore", v, x, f)
  BY <1>1, Starts
<1>3. /\ x.stage = "restoring" /\ x.want \in {"", x.first} /\ x.first \in Heads /\ v # "abort"
  BY <1>2 DEF Kept, StageOK, Journals, Knows, OnwardOK, Onward
<1>4. CASE Stop(p) /\ UNCHANGED files
  BY <1>1, <1>4, QuietStop DEF Restore, files, world, World
<1>5. CASE x.want # "" /\ Go(p, "give-back") /\ UNCHANGED <<files, locks>>
  <2>1. Knows("give-back", v, x, f)
    BY <1>2, <1>3, <1>5 DEF Knows, OnwardOK, BackwardOK, Onward, Mid, Backward, Undoing
  <2> QED
    BY <1>1, <1>2, <1>5, <2>1, QuietGo DEF Restore, files, world, World
<1>6. CASE Save(p, [x EXCEPT !.want = x.first], "give-back") /\ UNCHANGED locks
  <2>1. PICK y : y = [x EXCEPT !.want = x.first]
    OBVIOUS
  <2>2. y \in Journals /\ Same(y, x, {"want"}) /\ y.want = x.first
    BY <1>3, <2>1 DEF Journals, Same, Fields
  <2>3. Quiet(y, x, f)
    <3>1. /\ y.back = x.back /\ y.restored = x.restored /\ y.i = x.i /\ y.first = x.first
          /\ y.pre = x.pre /\ y.had = x.had /\ y.pub = x.pub /\ y.pushed = x.pushed
          /\ y.done = x.done /\ y.stage = x.stage /\ y.moved = x.moved
      BY <2>2 DEF Same, Fields
    <3> QED
      BY <1>2, <1>3, <2>2, <3>1 DEF Quiet, Kept, StageOK, ForwardOK, FinalOK, MidStages, Late
  <2>4. Knows("give-back", v, y, f)
    BY <1>2, <1>3, <2>2
       DEF Knows, OnwardOK, BackwardOK, Same, Fields, Onward, Mid, Backward, Undoing
  <2> QED
    BY <1>1, <1>2, <1>6, <2>1, <2>2, <2>3, <2>4, QuietStep DEF Restore, Save, World, world
<1>7. CASE x.want # "" /\ head = x.want
           /\ Save(p, [x EXCEPT !.at = x.want, !.want = ""], "publish") /\ UNCHANGED locks
  <2>1. PICK y : y = [x EXCEPT !.at = x.want, !.want = ""]
    OBVIOUS
  <2>2. y \in Journals /\ Same(y, x, {"at", "want"}) /\ y.want = "" /\ head = x.first
    BY <1>3, <1>7, <2>1 DEF Journals, Same, Fields
  <2>3. Quiet(y, x, f)
    <3>1. /\ y.back = x.back /\ y.restored = x.restored /\ y.i = x.i /\ y.first = x.first
          /\ y.pre = x.pre /\ y.had = x.had /\ y.pub = x.pub /\ y.pushed = x.pushed
          /\ y.done = x.done /\ y.stage = x.stage /\ y.moved = x.moved
      BY <2>2 DEF Same, Fields
    <3> QED
      BY <1>2, <1>3, <2>2, <3>1 DEF Quiet, Kept, StageOK, ForwardOK, FinalOK, MidStages, Late
  <2>4. Knows("publish", v, y, f)
    BY <1>2, <1>3, <2>2
       DEF Knows, OnwardOK, BackwardOK, Same, Fields, Onward, Mid, Backward, Undoing
  <2> QED
    BY <1>1, <1>2, <1>7, <2>1, <2>2, <2>3, <2>4, QuietStep DEF Restore, Save, World, world
<1> QED
  BY <1>2, <1>4, <1>5, <1>6, <1>7 DEF Restore

\* The working tree is given back and the journal knows it.
LEMMA GivenBackStep ==
  ASSUME CheckoutInv, NEW p \in Terminals, GivenBack(p)
  PROVE  CheckoutInv'
<1>1. cmd[p].pc = "given-back" /\ "given-back" \in Working \ Stoppable /\ "publish" \in Working
  BY DEF GivenBack, At, Working, Onward, Mid, Stoppable
<1>2. PICK f \in Features, x \in Journals, v \in {cmd[p].verb} :
        /\ f = F(p) /\ x = X(p) /\ tx[f] = x /\ Kept(f) /\ ~x.done /\ ~Rebasing /\ WorldType
        /\ Knows("given-back", v, x, f)
  BY <1>1, Starts
<1>3. CASE Stop(p) /\ UNCHANGED files
  BY <1>1, <1>3, QuietStop DEF GivenBack, files, world, World
<1>4. CASE head = x.want /\ Save(p, [x EXCEPT !.at = head, !.want = ""], "publish")
           /\ UNCHANGED locks
  <2>1. PICK y : y = [x EXCEPT !.at = head, !.want = ""]
    OBVIOUS
  <2>2. x.stage = "restoring" /\ x.want = x.first /\ head \in Heads
    BY <1>2 DEF Knows, OnwardOK, WorldType
  <2>3. y \in Journals /\ Same(y, x, {"at", "want"}) /\ y.want = ""
    BY <2>1, <2>2 DEF Journals, Same, Fields
  <2>4. Quiet(y, x, f)
    <3>1. /\ y.back = x.back /\ y.restored = x.restored /\ y.i = x.i /\ y.first = x.first
          /\ y.pre = x.pre /\ y.had = x.had /\ y.pub = x.pub /\ y.pushed = x.pushed
          /\ y.done = x.done /\ y.stage = x.stage /\ y.moved = x.moved
      BY <2>3 DEF Same, Fields
    <3> QED
      BY <1>2, <2>2, <2>3, <3>1 DEF Quiet, Kept, StageOK, ForwardOK, FinalOK, MidStages, Late
  <2>5. Knows("publish", v, y, f)
    BY <1>2, <1>4, <2>2, <2>3
       DEF Knows, OnwardOK, BackwardOK, Same, Fields, Onward, Mid, Backward, Undoing
  <2> QED
    BY <1>1, <1>2, <1>4, <2>1, <2>3, <2>4, <2>5, QuietStep DEF GivenBack, Save, World, world
<1> QED
  BY <1>2, <1>3, <1>4 DEF GivenBack

\* Publication begins with the whole plan validated and recorded.
LEMMA PublishStep ==
  ASSUME CheckoutInv, NEW p \in Terminals, Publish(p)
  PROVE  CheckoutInv'
<1>1. /\ cmd[p].pc = "publish" /\ "publish" \in Working \ Stoppable
      /\ "push" \in Working /\ "finish" \in Working
  BY DEF Publish, At, Working, Onward, Mid, Stoppable
<1>2. PICK f \in Features, x \in Journals, v \in {cmd[p].verb} :
        /\ f = F(p) /\ x = X(p) /\ tx[f] = x /\ Kept(f) /\ ~x.done /\ ~Rebasing
        /\ Knows("publish", v, x, f)
  BY <1>1, Starts
<1>3. /\ x.stage = "restoring" /\ x.want = "" /\ head = x.first /\ v # "abort"
  BY <1>2 DEF Knows, OnwardOK, Onward
<1>4. CASE ~Push /\ Go(p, "finish") /\ UNCHANGED <<files, locks>>
  <2>1. Knows("finish", v, x, f)
    BY <1>2, <1>3, <1>4
       DEF Knows, OnwardOK, BackwardOK, Onward, Mid, Backward, Undoing, Late
  <2> QED
    BY <1>1, <1>2, <1>4, <2>1, QuietGo DEF Publish, files, world, World
<1>5. CASE Save(p, [x EXCEPT !.stage = "publishing"], "push") /\ UNCHANGED locks
  <2>1. PICK y : y = [x EXCEPT !.stage = "publishing"]
    OBVIOUS
  <2>2. y \in Journals /\ Same(y, x, {"stage"}) /\ y.stage = "publishing"
    BY <2>1 DEF Journals, Same, Fields, Late
  <2>3. Quiet(y, x, f)
    <3>1. /\ y.back = x.back /\ y.restored = x.restored /\ y.i = x.i /\ y.first = x.first
          /\ y.pre = x.pre /\ y.had = x.had /\ y.pub = x.pub /\ y.pushed = x.pushed
          /\ y.done = x.done /\ y.want = x.want /\ y.moved = x.moved
      BY <2>2 DEF Same, Fields
    <3> QED
      BY <1>2, <1>3, <2>2, <3>1 DEF Quiet, Kept, StageOK, ForwardOK, MidStages, Late
  <2>4. Knows("push", v, y, f)
    BY <1>2, <1>3, <2>2
       DEF Knows, OnwardOK, BackwardOK, Same, Fields, Onward, Mid, Backward, Undoing
  <2> QED
    BY <1>1, <1>2, <1>5, <2>1, <2>2, <2>3, <2>4, QuietStep DEF Publish, Save, World, world
<1> QED
  BY <1>2, <1>4, <1>5 DEF Publish, files
-----------------------------------------------------------------------------
(* Recovery reads the journal again and goes forward.                       *)

\* A recovery explains the pending action by what it finds, or refuses.
LEMMA ReconcileStep ==
  ASSUME CheckoutInv, NEW p \in Terminals, Reconcile(p)
  PROVE  CheckoutInv'
<1>1. /\ cmd[p].pc = "reconcile" /\ "reconcile" \in Working
      /\ "forward" \in Working \cap Stoppable
      /\ {"was-planned", "was-rebased"} \subseteq Working
  BY DEF Reconcile, At, Working, Onward, Mid, Stoppable
<1>2. PICK f \in Features, x \in Journals, v \in {cmd[p].verb} :
        /\ f = F(p) /\ x = X(p) /\ v = cmd[p].verb /\ tx[f] = x /\ Kept(f) /\ ~x.done
        /\ WorldType /\ Knows("reconcile", v, x, f)
  BY <1>1, Starts
<1>3. CASE Stop(p) /\ UNCHANGED files
  BY <1>1, <1>3, QuietStop DEF Reconcile, files, world, World
<1>4. CASE Go(p, "forward") /\ UNCHANGED <<files, locks>>
  <2>1. Knows("forward", v, x, f)
    BY <1>2 DEF Knows, OnwardOK, BackwardOK, Onward, Mid, Backward, Undoing
  <2> QED
    BY <1>1, <1>2, <1>4, <2>1, QuietGo DEF Reconcile, files, world, World
<1>5. CASE Save(p, [x EXCEPT !.val = "failed"], "forward") /\ UNCHANGED locks
  <2>1. PICK y : y = [x EXCEPT !.val = "failed"]
    OBVIOUS
  <2>2. y \in Journals /\ Same(y, x, {"val"})
    BY <2>1 DEF Journals, Same, Fields
  <2>3. Quiet(y, x, f)
    BY <1>2, <2>2, QuietSame DEF Same
  <2>4. Knows("forward", v, y, f)
    BY <1>2, <2>2 DEF Knows, OnwardOK, BackwardOK, Same, Fields, Onward, Mid,
       Backward, Undoing
  <2>5. Rebasing => y.stage \in {"rebasing", "conflict"} /\ y.want = ""
    BY <1>1, <1>2, <2>2, WhileStopped DEF Same, Fields
  <2> QED
    BY <1>1, <1>2, <1>5, <2>1, <2>2, <2>3, <2>4, <2>5, QuietStep
     DEF Reconcile, Save, World, world
<1>6. ASSUME ~Rebasing, Closable(x), UNCHANGED locks,
             NEW s, Save(p, Closed(x), s),
             s = "forward" \/ (v # "abort" /\ s \in {"was-rebased", "was-planned"})
      PROVE  CheckoutInv'
  <2>1. PICK y : y = Closed(x)
    OBVIOUS
  <2>2. y \in Journals /\ Same(y, x, {"act", "at", "moved"}) /\ Quiet(y, x, f)
    BY <1>2, <1>6, <2>1, ClosedFacts
  <2>3. Knows(s, v, y, f)
    BY <1>2, <1>6, <2>2
       DEF Knows, OnwardOK, BackwardOK, Same, Fields, Onward, Mid,
       Backward, Undoing
  <2> QED
    BY <1>1, <1>2, <1>6, <2>1, <2>2, <2>3, QuietStep DEF Reconcile, Save, World, world
<1>7. CASE /\ ~Rebasing /\ Closable(x) /\ UNCHANGED locks
           /\ Save(p, Closed(x), IF cmd[p].verb = "abort" THEN "forward"
                ELSE IF tip[x.on] # Expected(x, x.on) THEN "was-rebased" ELSE "was-planned")
  <2>1. PICK s : s = IF cmd[p].verb = "abort" THEN "forward"
                     ELSE IF tip[x.on] # Expected(x, x.on) THEN "was-rebased" ELSE "was-planned"
    OBVIOUS
  <2> QED
    BY <1>2, <1>6, <1>7, <2>1
<1> QED
  BY <1>2, <1>3, <1>4, <1>5, <1>7 DEF Reconcile

\* A stage that fell behind what was observed follows it.
LEMMA StageFollowsStep ==
  ASSUME CheckoutInv, NEW p \in Terminals, StageFollows(p) PROVE CheckoutInv'
<1>1. /\ cmd[p].pc \in {"was-planned", "was-rebased"} /\ cmd[p].pc \in Working \ Stoppable
      /\ "forward" \in Working
  BY DEF StageFollows, At, Working, Onward, Mid, Stoppable
<1>2. PICK f \in Features, x \in Journals, v \in {cmd[p].verb} :
        /\ f = F(p) /\ x = X(p) /\ tx[f] = x /\ Kept(f) /\ ~x.done /\ ~Rebasing
        /\ Knows(cmd[p].pc, v, x, f)
  BY <1>1, Starts
<1>3. PICK s : /\ s \in {"planned", "rebased", x.stage}
               /\ s = "rebased" => x.stage \in MidStages
               /\ Save(p, [x EXCEPT !.stage = s], "forward")
  BY <1>2 DEF StageFollows, MidStages
<1>4. PICK y : y = [x EXCEPT !.stage = s]
  OBVIOUS
<1>5. y \in Journals /\ Same(y, x, {"stage"}) /\ y.stage = s
  BY <1>3, <1>4 DEF Journals, Same, Fields, MidStages
<1>6. Quiet(y, x, f)
  <2>1. CASE s = x.stage
    <3>1. Same(y, x, {})
      BY <1>5, <2>1 DEF Same
    <3> QED
      BY <1>2, <3>1, QuietSame DEF Same
  <2>2. CASE s = "rebased"
    BY <1>2, <1>3, <1>5, <2>2, QuietStage DEF Same, MidStages, Kept, StageOK
  <2>3. CASE s = "planned"
    <3>1. /\ y.back = x.back /\ y.restored = x.restored /\ y.i = x.i /\ y.first = x.first
          /\ y.pre = x.pre /\ y.had = x.had /\ y.pub = x.pub /\ y.pushed = x.pushed
          /\ y.done = x.done /\ y.want = x.want /\ y.moved = x.moved
      BY <1>5 DEF Same, Fields
    <3> QED
      BY <1>2, <1>5, <2>3, <3>1 DEF Quiet, Kept, StageOK, ForwardOK, MidStages, Late
  <2> QED
    BY <1>3, <2>1, <2>2, <2>3
<1>7. Knows("forward", v, y, f)
  BY <1>1, <1>2, <1>5 DEF Knows, OnwardOK, BackwardOK, Same, Fields, Onward, Mid,
       Backward, Undoing
<1> QED
  BY <1>1, <1>2, <1>3, <1>4, <1>5, <1>6, <1>7, QuietStep DEF StageFollows, Save, World, world

\* A continued run takes up the stage of its journal, or stops.
LEMMA ResumeStep == ASSUME CheckoutInv, NEW p \in Terminals, Resume(p) PROVE CheckoutInv'
<1>1. /\ cmd[p].pc = "resume" /\ "resume" \in Working
      /\ {"next", "ancestry", "rebase", "validate", "restore", "push"} \subseteq Working
  BY DEF Resume, At, Working, Onward, Mid
<1>2. PICK f \in Features, x \in Journals, v \in {cmd[p].verb} :
        /\ f = F(p) /\ x = X(p) /\ tx[f] = x /\ Kept(f) /\ ~x.done
        /\ Knows("resume", v, x, f)
  BY <1>1, Starts
<1>3. /\ v # "abort" /\ x.want = "" /\ (x.stage \in MidStages => x.i =< Last(f))
      /\ Rebasing => x.stage \in {"rebasing", "conflict"}
  BY <1>1, <1>2, WhileStopped DEF Knows, OnwardOK, Onward, Kept, StageOK
<1>4. CASE Stop(p) /\ UNCHANGED files
  BY <1>1, <1>4, QuietStop DEF Resume, files, world, World
<1>5. ASSUME NEW s, Go(p, s), UNCHANGED <<files, locks>>, ~Rebasing,
             \/ s = "next"
             \/ s \in {"rebase", "ancestry", "validate"} /\ x.stage \in MidStages
             \/ s = "restore" /\ x.stage = "restoring"
             \/ s = "push" /\ x.stage = "publishing"
      PROVE  CheckoutInv'
  <2>1. Knows(s, v, x, f)
    BY <1>2, <1>3, <1>5 DEF Knows, OnwardOK, BackwardOK, Onward, Mid, Backward, Undoing
  <2> QED
    BY <1>1, <1>2, <1>5, <2>1, QuietGo DEF Resume, files, world, World
<1>6. ASSUME Set(p, [x EXCEPT !.stage = "conflict"]), Stop(p),
             x.stage \in {"planned", "rebasing"},
             Rebasing, UNCHANGED <<meta, home, reg, moves>>
      PROVE  CheckoutInv'
  <2>1. PICK y : y = [x EXCEPT !.stage = "conflict"]
    OBVIOUS
  <2>2. y \in Journals /\ Same(y, x, {"stage"}) /\ y.stage = "conflict"
    BY <2>1 DEF Journals, Same, Fields, MidStages
  <2>3. x.i =< Last(f) /\ y.want = ""
    BY <1>3, <1>6, <2>2 DEF Same, Fields, MidStages
  <2>4. Quiet(y, x, f)
    BY <1>2, <2>2, <2>3, QuietStage DEF Same, MidStages
  <2> QED
    BY <1>1, <1>2, <1>6, <2>1, <2>2, <2>3, <2>4, QuietStep DEF Resume, World, world
<1>7. ASSUME Save(p, [x EXCEPT !.stage = "rebased"], "ancestry"), UNCHANGED locks,
             x.stage = "conflict", ~Rebasing
      PROVE  CheckoutInv'
  <2>1. PICK y : y = [x EXCEPT !.stage = "rebased"]
    OBVIOUS
  <2>2. y \in Journals /\ Same(y, x, {"stage"}) /\ y.stage = "rebased"
    BY <2>1 DEF Journals, Same, Fields, MidStages
  <2>3. x.i =< Last(f)
    BY <1>3, <1>7 DEF MidStages
  <2>4. Quiet(y, x, f)
    BY <1>2, <2>2, <2>3, QuietStage DEF Same, MidStages
  <2>5. Knows("ancestry", v, y, f)
    BY <1>2, <1>3, <2>2, <2>3
       DEF Knows, OnwardOK, BackwardOK, Same, Fields, Onward, Mid,
       Backward, Undoing
  <2> QED
    BY <1>1, <1>2, <1>7, <2>1, <2>2, <2>4, <2>5, QuietStep DEF Resume, Save, World, world
<1>8. x.stage \in {"switched", "rebased", "validating", "restoring", "publishing"} => ~Rebasing
  BY <1>3
<1>9. {"switched", "rebased", "validating"} \subseteq MidStages
  BY DEF MidStages
<1> QED
  BY <1>2, <1>4, <1>5, <1>6, <1>7, <1>8, <1>9 DEF Resume
-----------------------------------------------------------------------------
(* Steps that change the working tree, the branches or stack.yaml.          *)

\* Git checks the branch out, or refuses to.
LEMMA CheckoutStep ==
  ASSUME CheckoutInv, NEW p \in Terminals, Checkout(p)
  PROVE  CheckoutInv'
<1>1. cmd[p].pc = "checkout" /\ "checkout" \in Working \ Stoppable /\ "rebase" \in Working
  BY DEF Checkout, At, Working, Onward, Mid, Stoppable
<1>2. PICK f \in Features, x \in Journals, v \in {cmd[p].verb} :
        /\ f = F(p) /\ x = X(p) /\ v = cmd[p].verb /\ tx[f] = x /\ Kept(f) /\ ~x.done
        /\ ~Rebasing /\ WorldType /\ Knows("checkout", v, x, f)
  BY <1>1, Starts
<1>3. CASE Stop(p) /\ UNCHANGED head
  BY <1>1, <1>3, QuietStop DEF Checkout, files, World
<1>4. CASE head' = Cur(x, f) /\ Go(p, "rebase") /\ UNCHANGED locks
  <2>1. x.i =< Last(f) /\ x.want = "" /\ v # "abort"
    BY <1>2 DEF Knows, OnwardOK, Onward, Mid
  <2>2. x.stage # "publishing"
    BY <1>2, <2>1, NotOver DEF Late
  <2>3. tx' = tx => Kept(f)'
    BY <1>2, <2>2, HeadKept DEF Checkout, files
  <2>4. Cur(x, f) \in Refs
    BY <1>2, <2>1, PlanFacts DEF Cur, Refs, Journals
  <2>5. WorldType' /\ stopped' = Main
    BY <1>2, <1>4, <2>4 DEF Checkout, WorldType, files, Heads, Rebasing
  <2>6. Knows("rebase", v, x, f)'
    BY <1>2, <2>1 DEF Knows, OnwardOK, BackwardOK, Onward, Mid, Backward, Undoing
  <2> QED
    BY <1>1, <1>2, <1>4, <2>3, <2>5, <2>6, WorldStep DEF Checkout, files
<1> QED
  BY <1>2, <1>3, <1>4 DEF Checkout

\* The branch that git rebase moved is the one the run is at, one the run had
\* moved before, or it is astray.
LEMMA ReplayKept ==
  ASSUME NEW f \in Features, NEW x \in Journals, tx[f] = x, tx'[f] = x, Kept(f), ~x.done,
         WorldType, x.i =< Last(f), NEW h \in Refs, NEW t,
         t = IF h = Cur(x, f) THEN "new" ELSE IF h \in x.moved THEN "new" ELSE "stray",
         tip' = [tip EXCEPT ![h] = t], tested' = IF tip' = tip THEN tested ELSE tested \ {h},
         UNCHANGED remote
  PROVE  Kept(f)'
<1>1. ~x.pub /\ x.stage \notin Late
  BY NotOver
<1>2. \A b \in Refs : tip'[b] = IF b = h THEN t ELSE tip[b]
  BY DEF WorldType
<1>3. StageOK(f)' /\ FinalOK(f)'
  BY <1>1 DEF Kept, StageOK, FinalOK
<1>4. ASSUME ~x.back PROVE ForwardOK(f)'
  <2>1. ForwardOK(f) /\ x.moved \subseteq Refs /\ InPlan(f) \subseteq Refs
    BY PlanFacts DEF Kept, Journals, Refs
  <2>2. \A b \in x.moved : tip'[b] = "new"
    BY <1>2, <1>4, <2>1 DEF ForwardOK
  <2>3. Ahead(f)' = Ahead(f)
    BY DEF Ahead
  <2>4. Cur(x, f) \in Ahead(f)
    <3>1. x.i \in x.i .. Last(f)
      <4>1. x.i \in Nat /\ Last(f) \in Nat
        BY PlanFacts DEF Journals
      <4> QED
        BY <4>1
    <3> QED
      BY <3>1 DEF Ahead, Cur
  <2>5. ASSUME Validate, NEW b \in InPlan(f)
        PROVE  b \in tested' \/ tip'[b] # "new" \/ b \in Ahead(f)
    <3>1. b \in tested \/ tip[b] # "new" \/ b \in Ahead(f)
      BY <1>4, <2>1, <2>5 DEF ForwardOK
    <3>2. CASE b # h \/ tip' = tip
      BY <1>2, <2>1, <3>1, <3>2
    <3>3. CASE b = h /\ tip' # tip
      <4>1. CASE b = Cur(x, f)
        BY <2>4, <4>1
      <4>2. CASE b # Cur(x, f) /\ b \in x.moved
        <5>1. t = tip[h]
          BY <1>4, <2>1, <3>3, <4>2 DEF ForwardOK
        <5>2. tip' = tip
          BY <5>1 DEF WorldType
        <5> QED
          BY <3>3, <5>2
      <4>3. CASE b # Cur(x, f) /\ b \notin x.moved
        BY <1>2, <2>1, <3>3, <4>3
      <4> QED
        BY <4>1, <4>2, <4>3
    <3> QED
      BY <3>2, <3>3
  <2> QED
    BY <1>1, <1>4, <2>1, <2>2, <2>3, <2>5 DEF ForwardOK, Late
<1>5. x.back => ForwardOK(f)'
  BY DEF ForwardOK
<1> QED
  BY <1>3, <1>4, <1>5 DEF Kept

\* The branch is replayed onto its parent, or a conflict stops it half-way.
LEMMA ReplayStep == ASSUME CheckoutInv, NEW p \in Terminals, Replay(p) PROVE CheckoutInv'
<1>1. /\ cmd[p].pc = "replay" /\ "replay" \in Working \ Stoppable
      /\ {"replayed", "conflict", "failed"} \subseteq Working /\ "conflict" \in Stoppable
  BY DEF Replay, At, Working, Onward, Mid, Stoppable
<1>2. PICK f \in Features, x \in Journals, v \in {cmd[p].verb} :
        /\ f = F(p) /\ x = X(p) /\ v = cmd[p].verb /\ tx[f] = x /\ Kept(f) /\ ~x.done
        /\ ~Rebasing /\ WorldType /\ Knows("replay", v, x, f)
  BY <1>1, Starts
<1>3. /\ x.i =< Last(f) /\ x.want = "" /\ v # "abort" /\ x.stage = "rebasing"
      /\ Cur(x, f) \in Branches /\ stopped = Main
  <2>1. x.i =< Last(f) /\ x.want = "" /\ v # "abort" /\ x.stage = "rebasing" /\ stopped = Main
    BY <1>2 DEF Knows, OnwardOK, Onward, Mid, Rebasing
  <2>2. Cur(x, f) \in Branches
    BY <1>2, <2>1, PlanFacts DEF Cur, Journals
  <2> QED
    BY <2>1, <2>2
<1>4. tx' = tx /\ UNCHANGED <<dirty, remote, meta, home, reg, moves, locks, count>>
  BY DEF Replay, files
<1>5. CASE Go(p, "failed") /\ UNCHANGED <<tip, tested, head, stopped>>
  <2>1. Knows("failed", v, x, f)
    BY <1>2, <1>3 DEF Knows, OnwardOK, BackwardOK, Onward, Mid, Backward, Undoing
  <2> QED
    BY <1>1, <1>2, <1>4, <1>5, <2>1, QuietGo DEF World
<1>6. CASE /\ head # Detached /\ tip' = [tip EXCEPT ![head] = Rebased(p, Cur(x, f))]
           /\ tested' = IF tip' = tip THEN tested ELSE tested \ {head}
           /\ Go(p, "replayed") /\ UNCHANGED <<head, stopped>>
  <2>1. PICK h, t : h = head /\ t = Rebased(p, Cur(x, f))
    OBVIOUS
  <2>2. h \in Refs
    BY <1>2, <1>6, <2>1 DEF WorldType, Heads
  <2>3. t = IF h = Cur(x, f) THEN "new" ELSE IF h \in x.moved THEN "new" ELSE "stray"
    BY <1>2, <2>1 DEF Rebased
  <2>4. WorldType'
    <3>1. tip' \in [Refs -> Tips]
      BY <1>2, <1>6, <2>1, <2>2, <2>3 DEF WorldType, Tips
    <3>2. tested' \subseteq Branches
      BY <1>2, <1>6 DEF WorldType
    <3> QED
      BY <1>2, <1>4, <1>6, <3>1, <3>2 DEF WorldType
  <2>5. Kept(f)'
    BY <1>2, <1>3, <1>4, <1>6, <2>1, <2>2, <2>3, ReplayKept
  <2>6. Knows("replayed", v, x, f)'
    BY <1>2, <1>3 DEF Knows, OnwardOK, BackwardOK, Onward, Mid, Backward, Undoing
  <2> QED
    BY <1>1, <1>2, <1>3, <1>4, <1>6, <2>4, <2>5, <2>6, WorldStep
<1>7. CASE /\ stopped' = Cur(x, f) /\ head' = Detached /\ Go(p, "conflict")
           /\ UNCHANGED <<tip, tested>>
  <2>1. WorldType'
    BY <1>2, <1>3, <1>4, <1>7 DEF WorldType, Heads, Refs
  <2>2. Kept(f)'
    BY <1>2, <1>3, <1>4, <1>7, HeadKept
  <2>3. Knows("conflict", v, x, f)'
    BY <1>2, <1>3 DEF Knows, OnwardOK, BackwardOK, Onward, Mid, Backward, Undoing
  <2>4. /\ WorkStep(p) /\ X(p)' = x /\ F(p)' = f /\ tx'[f] = x
        /\ cmd'[p].pc = "conflict" /\ cmd'[p].verb = v
    BY <1>1, <1>2, <1>4, <1>7, <2>1, StepGo
  <2>5. RebaseOK'
    <3>1. Pending' = {f} /\ \A q \in Terminals : q # p => cmd'[q].pc \notin Inside
      BY <1>2, <2>4, WorkLocks DEF CheckoutInv
    <3>2. TypeOK' /\ LocksInv' /\ cmd'[p].pc \in Inside
      BY <1>1, <2>4, WorkLocks, PcFacts DEF CheckoutInv
    <3>3. \A q \in Terminals : q # p => cmd'[q].pc \in Waiting
      BY <3>1, <3>2, Outside DEF TypeOK
    <3> QED
      BY <1>2, <1>3, <1>7, <2>4, <3>1, <3>3 DEF RebaseOK, Cur
  <2>6. Carried(p)'
    BY <2>3, <2>4 DEF Carried
  <2> QED
    BY <1>2, <2>2, <2>4, <2>5, <2>6, WorkInv
<1> QED
  BY <1>2, <1>5, <1>6, <1>7 DEF Replay

\* The test passes on the branch as it is, or the run stops.
LEMMA ValidatorStep ==
  ASSUME CheckoutInv, NEW p \in Terminals, Validator(p)
  PROVE  CheckoutInv'
<1>1. cmd[p].pc = "test" /\ "test" \in Working \ Stoppable /\ "advance" \in Working
  BY DEF Validator, At, Working, Onward, Mid, Stoppable
<1>2. PICK f \in Features, x \in Journals, v \in {cmd[p].verb} :
        /\ f = F(p) /\ x = X(p) /\ v = cmd[p].verb /\ tx[f] = x /\ Kept(f) /\ ~x.done
        /\ ~Rebasing /\ WorldType /\ Knows("test", v, x, f)
  BY <1>1, Starts
<1>3. CASE /\ Set(p, IF x.back THEN x ELSE [x EXCEPT !.val = "failed"]) /\ Stop(p)
           /\ UNCHANGED <<tested, meta, home, reg, moves>>
  <2>1. PICK y : y = IF x.back THEN x ELSE [x EXCEPT !.val = "failed"]
    OBVIOUS
  <2>2. y \in Journals /\ Same(y, x, {"val"})
    <3>1. CASE x.back
      BY <2>1, <3>1 DEF Same
    <3>2. CASE ~x.back
      <4>1. y = [x EXCEPT !.val = "failed"]
        BY <2>1, <3>2
      <4> QED
        BY <4>1 DEF Journals, Same, Fields
    <3> QED
      BY <3>1, <3>2
  <2>3. Quiet(y, x, f)
    BY <1>2, <2>2, QuietSame DEF Same
  <2> QED
    BY <1>1, <1>2, <1>3, <2>1, <2>2, <2>3, QuietStep DEF Validator, World
<1>4. CASE /\ tested' = tested \cup {Cur(x, f)} /\ UNCHANGED locks
           /\ Save(p, [x EXCEPT !.val = "observed"], "advance")
  <2>1. x.i =< Last(f) /\ x.want = "" /\ v # "abort"
    BY <1>2 DEF Knows, OnwardOK, Onward, Mid
  <2>2. Cur(x, f) \in Branches
    BY <1>2, <2>1, PlanFacts DEF Cur, Journals
  <2>3. PICK y : y = [x EXCEPT !.val = "observed"]
    OBVIOUS
  <2>4. y \in Journals /\ Same(y, x, {"val"})
    BY <2>3 DEF Journals, Same, Fields
  <2>5. /\ y.back = x.back /\ y.restored = x.restored /\ y.i = x.i /\ y.first = x.first
        /\ y.pub = x.pub /\ y.pushed = x.pushed /\ y.done = x.done /\ y.want = x.want
        /\ y.moved = x.moved /\ y.stage = x.stage
    BY <2>4 DEF Same, Fields
  <2>6. /\ tip' = tip /\ head' = head /\ stopped' = stopped /\ remote' = remote /\ meta' = meta
        /\ stopped' = Main /\ WorldType'
    BY <1>2, <1>4, <2>2 DEF Validator, Save, WorldType, Rebasing
  <2>7. tx'[f] = y => Kept(f)'
    <3>1. Final(f) => Final(f)'
      BY <1>4, <2>6 DEF Final
    <3> SUFFICES ASSUME tx'[f] = y PROVE Kept(f)'
      OBVIOUS
    <3>2. StageOK(f)'
      BY <1>2, <2>5, <2>6 DEF Kept, StageOK
    <3>3. ForwardOK(f)'
      BY <1>2, <1>4, <2>5, <2>6, <3>1 DEF Kept, ForwardOK, Ahead
    <3>4. FinalOK(f)'
      BY <1>2, <2>5, <3>1 DEF Kept, FinalOK
    <3> QED
      BY <3>2, <3>3, <3>4 DEF Kept
  <2>8. Knows("advance", v, y, f)'
    BY <1>2, <1>4, <2>1, <2>5
       DEF Knows, OnwardOK, BackwardOK, Onward, Mid, Backward, Undoing, Cur
  <2> QED
    BY <1>1, <1>2, <1>4, <2>3, <2>4, <2>6, <2>7, <2>8, WorldStep DEF Validator, Save
<1> QED
  BY <1>2, <1>3, <1>4 DEF Validator

\* A branch that is rebased and tested is behind.
LEMMA AdvanceStep ==
  ASSUME CheckoutInv, NEW p \in Terminals, Advance(p)
  PROVE  CheckoutInv'
<1>1. cmd[p].pc = "advance" /\ "advance" \in Working \ Stoppable /\ "next" \in Working
  BY DEF Advance, At, Working, Onward, Mid, Stoppable
<1>2. PICK f \in Features, x \in Journals, v \in {cmd[p].verb} :
        /\ f = F(p) /\ x = X(p) /\ v = cmd[p].verb /\ tx[f] = x /\ Kept(f) /\ ~x.done
        /\ ~Rebasing /\ WorldType /\ Knows("advance", v, x, f)
  BY <1>1, Starts
<1>3. /\ x.i =< Last(f) /\ x.want = "" /\ v # "abort" /\ x.i \in Nat \ {0} /\ Last(f) \in Nat
      /\ Validate => Cur(x, f) \in tested
  BY <1>2, PlanFacts DEF Knows, OnwardOK, Onward, Mid, Journals
<1>4. PICK y : y = [x EXCEPT !.i = @ + 1, !.stage = "planned"]
  OBVIOUS
<1>5. y \in Journals /\ Same(y, x, {"i", "stage"}) /\ y.i = x.i + 1 /\ y.stage = "planned"
  <2>1. y = [x EXCEPT !.i = x.i + 1, !.stage = "planned"]
    BY <1>4
  <2>2. x.i + 1 \in Nat \ {0}
    BY <1>3, Counting
  <2> QED
    BY <2>1, <2>2 DEF Journals, Same, Fields
<1>6. /\ y.back = x.back /\ y.restored = x.restored /\ y.pub = x.pub /\ y.pushed = x.pushed
      /\ y.done = x.done /\ y.want = x.want /\ y.moved = x.moved /\ y.first = x.first
  BY <1>5 DEF Same, Fields
<1>7. UNCHANGED World /\ stopped' = Main /\ WorldType'
  BY <1>2 DEF Advance, Save, world, World, WorldType, Rebasing
<1>8. tx'[f] = y => Kept(f)'
  <2> SUFFICES ASSUME tx'[f] = y PROVE Kept(f)'
    OBVIOUS
  <2>1. tip' = tip /\ head' = head /\ remote' = remote /\ tested' = tested
    BY <1>7 DEF World
  <2>2. StageOK(f)'
    BY <1>2, <1>5, <1>6, <2>1 DEF Kept, StageOK, MidStages, Late
  <2>3. \A b \in Ahead(f) : b = Cur(x, f) \/ b \in Ahead(f)'
    <3> SUFFICES ASSUME NEW b \in Ahead(f) PROVE b = Cur(x, f) \/ b \in Ahead(f)'
      OBVIOUS
    <3>1. PICK k \in x.i .. Last(f) : b = Plan[f][k]
      BY <1>2 DEF Ahead
    <3>2. k = x.i \/ k \in y.i .. Last(f)
      <4>1. x.i \in Nat /\ Last(f) \in Nat /\ y.i = x.i + 1
        BY <1>3, <1>5
      <4> QED
        BY <4>1
    <3> QED
      BY <3>1, <3>2 DEF Ahead, Cur
  <2>4. ForwardOK(f)'
    BY <1>2, <1>3, <1>5, <1>6, <2>1, <2>3 DEF Kept, ForwardOK, Late
  <2>5. FinalOK(f)'
    BY <1>2, <1>3, <1>6, NotOver DEF FinalOK
  <2> QED
    BY <2>2, <2>4, <2>5 DEF Kept
<1>9. Knows("next", v, y, f)'
  BY <1>2, <1>3, <1>6 DEF Knows, OnwardOK, BackwardOK, Onward, Mid, Backward, Undoing
<1> QED
  BY <1>1, <1>2, <1>4, <1>5, <1>7, <1>8, <1>9, WorldStep DEF Advance, Save

\* The stack metadata is written after the last branch.
LEMMA WriteMetadataStep ==
  ASSUME CheckoutInv, NEW p \in Terminals, WriteMetadata(p) PROVE CheckoutInv'
<1>1. cmd[p].pc = "next" /\ "next" \in Working \ Stoppable /\ "restoring" \in Working
  BY DEF WriteMetadata, At, Working, Onward, Mid, Stoppable
<1>2. PICK f \in Features, x \in Journals, v \in {cmd[p].verb} :
        /\ f = F(p) /\ x = X(p) /\ v = cmd[p].verb /\ tx[f] = x /\ Kept(f) /\ ~x.done
        /\ ~Rebasing /\ WorldType /\ Knows("next", v, x, f)
  BY <1>1, Starts
<1>3. CASE Stop(p) /\ UNCHANGED meta
  BY <1>1, <1>3, QuietStop DEF WriteMetadata, world, World
<1>4. CASE /\ \A b \in InPlan(f) : tip[b] = "new"
           /\ meta' = meta \cup {f} /\ Go(p, "restoring") /\ UNCHANGED locks
  <2>1. x.i > Last(f) /\ x.want = "" /\ v # "abort" /\ x.i \in Nat /\ Last(f) \in Nat
    BY <1>2, PlanFacts DEF WriteMetadata, Last, Knows, OnwardOK, Onward, Journals
  <2>2. /\ tip' = tip /\ head' = head /\ stopped' = stopped /\ remote' = remote
        /\ tested' = tested /\ stopped' = Main /\ tx' = tx /\ WorldType'
    BY <1>2, <1>4 DEF WriteMetadata, world, WorldType, Rebasing
  <2>3. ~x.back => Final(f)'
    <3>1. Ahead(f) = {}
      <4>1. x.i .. Last(f) = {}
        BY <2>1, Counting
      <4> QED
        BY <1>2, <4>1 DEF Ahead
    <3> QED
      BY <1>2, <1>4, <2>2, <3>1 DEF Final, Kept, ForwardOK
  <2>4. Kept(f)'
    <3>1. Final(f) => Final(f)'
      BY <1>4, <2>2 DEF Final
    <3>2. StageOK(f)' /\ ForwardOK(f)'
      BY <1>2, <2>2, <3>1 DEF Kept, StageOK, ForwardOK, Ahead
    <3>3. FinalOK(f)'
      BY <1>2, <2>2, <3>1 DEF Kept, FinalOK
    <3> QED
      BY <3>2, <3>3 DEF Kept
  <2>5. Knows("restoring", v, x, f)'
    BY <1>2, <2>1, <2>3 DEF Knows, OnwardOK, BackwardOK, Onward, Mid, Backward, Undoing
  <2> QED
    BY <1>1, <1>2, <1>4, <2>2, <2>4, <2>5, WorldStep DEF WriteMetadata
<1> QED
  BY <1>2, <1>3, <1>4 DEF WriteMetadata

\* The working tree goes back to the branch it was found at, or git refuses.
LEMMA GiveBackStep ==
  ASSUME CheckoutInv, NEW p \in Terminals, GiveBack(p)
  PROVE  CheckoutInv'
<1>1. cmd[p].pc = "give-back" /\ "give-back" \in Working \ Stoppable /\ "given-back" \in Working
  BY DEF GiveBack, At, Working, Onward, Mid, Stoppable
<1>2. PICK f \in Features, x \in Journals, v \in {cmd[p].verb} :
        /\ f = F(p) /\ x = X(p) /\ v = cmd[p].verb /\ tx[f] = x /\ Kept(f) /\ ~x.done
        /\ ~Rebasing /\ WorldType /\ Knows("give-back", v, x, f)
  BY <1>1, Starts
<1>3. CASE Stop(p) /\ UNCHANGED head
  BY <1>1, <1>3, QuietStop DEF GiveBack, files, World
<1>4. CASE head' = x.orig /\ (Stop(p) \/ (Go(p, "given-back") /\ UNCHANGED locks))
  <2>1. x.stage = "restoring" /\ x.want = x.first /\ v # "abort" /\ x.orig \in Refs
    BY <1>2 DEF Knows, OnwardOK, Onward, Journals
  <2>2. tx' = tx /\ stopped' = Main /\ WorldType'
    BY <1>2, <1>4, <2>1 DEF GiveBack, files, WorldType, Heads, Rebasing
  <2>3. Kept(f)'
    BY <1>2, <2>1, <2>2, HeadKept DEF GiveBack, files
  <2>4. Knows("given-back", v, x, f)'
    BY <1>2, <2>1 DEF Knows, OnwardOK, BackwardOK, Onward, Mid, Backward, Undoing
  <2> QED
    BY <1>1, <1>2, <1>4, <2>2, <2>3, <2>4, WorldStep DEF GiveBack, files
<1> QED
  BY <1>2, <1>3, <1>4 DEF GiveBack
-----------------------------------------------------------------------------
(* Publication.                                                             *)

\* The branches are pushed in the order of the plan: there is a first one left.
LEMMA NextFacts ==
  ASSUME NEW f \in Features, NEW x, Unpushed(x, f) # {}
  PROVE  NextPush(x, f) \in InPlan(f)
<1> DEFINE U == Unpushed(x, f)
<1>1. U \subseteq DOMAIN Plan[f] /\ DOMAIN Plan[f] = 1 .. Last(f) /\ Last(f) \in Nat
  <2>1. Plan[f] \in Seq(InPlan(f))
    BY CheckoutAssumption DEF CheckoutAssumption
  <2> QED
    BY <2>1 DEF Unpushed, Last
<1>2. U \subseteq Nat
  BY <1>1
<1>3. IsWellFoundedOn(OpToRel(<, Nat), Nat)
  BY NatLessThanWellFounded
<1>4. \A j, i \in Nat : j < i => <<j, i>> \in OpToRel(<, Nat)
  BY DEF OpToRel
<1>5. PICK i \in U : \A j \in U : <<j, i>> \notin OpToRel(<, Nat)
  BY <1>2, <1>3, WFMin
<1>6. \A j \in U : i =< j
  <2> SUFFICES ASSUME NEW j \in U PROVE i =< j
    OBVIOUS
  <2>1. i \in Nat /\ j \in Nat /\ ~(j < i)
    BY <1>2, <1>4, <1>5
  <2> QED
    BY <2>1
<1>7. (CHOOSE k \in U : \A j \in U : k =< j) \in U
  BY <1>6
<1> QED
  BY <1>1, <1>7 DEF NextPush, InPlan

\* A push is announced before the network is called.
LEMMA PushIntentStep ==
  ASSUME CheckoutInv, NEW p \in Terminals, PushIntent(p)
  PROVE  CheckoutInv'
<1>1. /\ cmd[p].pc = "push" /\ "push" \in Working \ Stoppable
      /\ {"finish", "network"} \subseteq Working
  BY DEF PushIntent, At, Working, Onward, Mid, Stoppable
<1>2. PICK f \in Features, x \in Journals, v \in {cmd[p].verb} :
        /\ f = F(p) /\ x = X(p) /\ v = cmd[p].verb /\ tx[f] = x /\ Kept(f) /\ ~x.done
        /\ ~Rebasing /\ WorldType /\ Knows("push", v, x, f)
  BY <1>1, Starts
<1>3. /\ x.stage = "publishing" /\ x.stage \in Late /\ x.want = "" /\ v # "abort"
      /\ x.i > Last(f) /\ (~x.back => Final(f) /\ head = x.first)
  BY <1>2 DEF Knows, OnwardOK, Onward, Kept, StageOK, ForwardOK, Late
<1>4. CASE Stop(p) /\ UNCHANGED files
  BY <1>1, <1>4, QuietStop DEF PushIntent, files, world, World
<1>5. CASE Unpushed(x, f) = {} /\ Go(p, "finish") /\ UNCHANGED <<files, locks>>
  <2>1. Knows("finish", v, x, f)
    BY <1>2, <1>3, <1>5 DEF Knows, OnwardOK, BackwardOK, Onward, Mid, Backward, Undoing
  <2> QED
    BY <1>1, <1>2, <1>5, <2>1, QuietGo DEF PushIntent, files, world, World
<1>6. CASE /\ Unpushed(x, f) # {} /\ ~x.back
           /\ Save(p, [x EXCEPT !.pub = TRUE], "network") /\ UNCHANGED locks
  <2>1. PICK y : y = [x EXCEPT !.pub = TRUE]
    OBVIOUS
  <2>2. y \in Journals /\ Same(y, x, {"pub"})
    BY <2>1 DEF Journals, Same, Fields
  <2>3. /\ y.back = x.back /\ y.restored = x.restored /\ y.i = x.i /\ y.first = x.first
        /\ y.pushed = x.pushed /\ y.done = x.done /\ y.want = x.want
        /\ y.moved = x.moved /\ y.stage = x.stage
    BY <2>2 DEF Same, Fields
  <2>4. UNCHANGED World /\ stopped' = Main /\ WorldType'
    BY <1>2, <1>6 DEF PushIntent, Save, world, World, WorldType, Rebasing
  <2>5. /\ tip' = tip /\ head' = head /\ remote' = remote /\ tested' = tested
        /\ (Final(f)' <=> Final(f))
    BY <2>4 DEF World, Final
  <2>6. tx'[f] = y => Kept(f)'
    BY <1>2, <1>3, <1>6, <2>3, <2>5 DEF Kept, StageOK, ForwardOK, FinalOK, Ahead
  <2>7. Knows("network", v, y, f)'
    BY <1>2, <1>3, <1>6, <2>3
       DEF Knows, OnwardOK, BackwardOK, Onward, Mid, Backward, Undoing, Unpushed
  <2> QED
    BY <1>1, <1>2, <1>6, <2>1, <2>2, <2>4, <2>6, <2>7, WorldStep DEF PushIntent, Save
<1> QED
  BY <1>2, <1>4, <1>5, <1>6 DEF PushIntent

\* The remote takes the branch, or the call fails.
LEMMA NetworkStep ==
  ASSUME CheckoutInv, NEW p \in Terminals, Network(p)
  PROVE  CheckoutInv'
<1>1. cmd[p].pc = "network" /\ "network" \in Working \ Stoppable /\ "pushed" \in Working
  BY DEF Network, At, Working, Onward, Mid, Stoppable
<1>2. PICK f \in Features, x \in Journals, v \in {cmd[p].verb} :
        /\ f = F(p) /\ x = X(p) /\ v = cmd[p].verb /\ tx[f] = x /\ Kept(f) /\ ~x.done
        /\ ~Rebasing /\ WorldType /\ Knows("network", v, x, f)
  BY <1>1, Starts
<1>3. Unpushed(x, f) # {} /\ x.stage = "publishing" /\ v # "abort"
  BY <1>2 DEF Knows, OnwardOK, Onward
<1>4. NextPush(x, f) \in Branches
  BY <1>2, <1>3, NextFacts, PlanFacts
<1>5. PICK landed \in BOOLEAN, reported \in BOOLEAN :
        /\ reported => landed
        /\ remote' = IF landed THEN remote \cup {NextPush(x, f)} ELSE remote
        /\ IF reported THEN Go(p, "pushed") /\ UNCHANGED locks ELSE Stop(p)
  BY <1>2 DEF Network
<1>6. /\ remote \subseteq remote' /\ tip' = tip /\ head' = head /\ stopped' = stopped
      /\ tested' = tested /\ meta' = meta /\ tx' = tx /\ WorldType' /\ stopped' = Main
  BY <1>2, <1>4, <1>5 DEF Network, files, WorldType, Rebasing
<1>7. Kept(f)'
  <2>1. Final(f)' <=> Final(f)
    BY <1>6 DEF Final
  <2> QED
    BY <1>2, <1>6, <2>1 DEF Kept, StageOK, ForwardOK, FinalOK, Ahead
<1>8. reported => Knows("pushed", v, x, f)'
  BY <1>2, <1>3, <1>5
     DEF Knows, OnwardOK, BackwardOK, Onward, Mid, Backward, Undoing, Unpushed, NextPush
<1> QED
  BY <1>1, <1>2, <1>5, <1>6, <1>7, <1>8, WorldStep DEF Network, files

\* A pushed branch is recorded.
LEMMA PushedStep == ASSUME CheckoutInv, NEW p \in Terminals, Pushed(p) PROVE CheckoutInv'
<1>1. cmd[p].pc = "pushed" /\ {"pushed", "push"} \subseteq Working \ Stoppable
  BY DEF Pushed, At, Working, Onward, Mid, Stoppable
<1>2. PICK f \in Features, x \in Journals, v \in {cmd[p].verb} :
        /\ f = F(p) /\ x = X(p) /\ v = cmd[p].verb /\ tx[f] = x /\ Kept(f) /\ ~x.done
        /\ ~Rebasing /\ WorldType /\ Knows("pushed", v, x, f)
  BY <1>1, Starts
<1>3. NextPush(x, f) \in remote /\ x.stage = "publishing" /\ v # "abort"
  BY <1>2 DEF Knows, OnwardOK, Onward
<1>4. PICK y, n : n = x.pushed \cup {NextPush(x, f)} /\ y = [x EXCEPT !.pushed = n]
  OBVIOUS
<1>5. y \in Journals /\ Same(y, x, {"pushed"}) /\ y.pushed = n /\ n \subseteq remote
  <2>1. n \subseteq remote /\ remote \subseteq Branches
    BY <1>2, <1>3, <1>4 DEF Kept, StageOK, WorldType
  <2>2. n \in SUBSET Branches
    BY <2>1
  <2> QED
    BY <1>4, <2>1, <2>2 DEF Journals, Same, Fields
<1>6. /\ y.back = x.back /\ y.restored = x.restored /\ y.i = x.i /\ y.first = x.first
      /\ y.pub = x.pub /\ y.done = x.done /\ y.want = x.want
      /\ y.moved = x.moved /\ y.stage = x.stage
  BY <1>5 DEF Same, Fields
<1>7. UNCHANGED World /\ stopped' = Main /\ WorldType' /\ Set(p, y)
  BY <1>2, <1>4 DEF Pushed, Save, world, World, WorldType, Rebasing
<1>8. /\ tip' = tip /\ head' = head /\ remote' = remote /\ tested' = tested
      /\ (Final(f)' <=> Final(f))
  BY <1>7 DEF World, Final
<1>9. tx'[f] = y => Kept(f)'
  BY <1>2, <1>5, <1>6, <1>8, ZenonT(60) DEF Kept, StageOK, ForwardOK, FinalOK, Ahead
<1>10. Knows("push", v, y, f)'
  BY <1>2, <1>3, <1>6 DEF Knows, OnwardOK, BackwardOK, Onward, Mid, Backward, Undoing
<1> QED
  BY <1>1, <1>2, <1>5, <1>7, <1>9, <1>10, WorldStep DEF Pushed, Save

\* A journal is done when everything it wanted is so.
LEMMA FinishStep == ASSUME CheckoutInv, NEW p \in Terminals, Finish(p) PROVE CheckoutInv'
<1>1. cmd[p].pc = "finish" /\ "finish" \in Working \ Stoppable
  BY DEF Finish, At, Working, Onward, Mid, Backward, Undoing, Stoppable
<1>2. PICK f \in Features, x \in Journals, v \in {cmd[p].verb} :
        /\ f = F(p) /\ x = X(p) /\ v = cmd[p].verb /\ tx[f] = x /\ Kept(f) /\ ~x.done
        /\ ~Rebasing /\ WorldType /\ Knows("finish", v, x, f)
  BY <1>1, Starts
<1>3. CASE Stop(p) /\ UNCHANGED files
  BY <1>1, <1>3, QuietStop DEF Finish, files, world, World
<1>4. CASE (x.back => v = "abort") /\ Save(p, [x EXCEPT !.done = TRUE], "remove")
           /\ UNCHANGED locks
  <2>1. PICK y : y = [x EXCEPT !.done = TRUE]
    OBVIOUS
  <2>2. y \in Journals /\ Same(y, x, {"done"}) /\ y.done
    BY <2>1 DEF Journals, Same, Fields
  <2>3. /\ y.back = x.back /\ y.restored = x.restored /\ y.i = x.i /\ y.first = x.first
        /\ y.pub = x.pub /\ y.pushed = x.pushed /\ y.want = x.want /\ y.pre = x.pre
        /\ y.moved = x.moved /\ y.stage = x.stage /\ y.had = x.had
    BY <2>2 DEF Same, Fields
  <2>4. UNCHANGED World /\ stopped' = Main /\ WorldType'
    BY <1>2, <1>4 DEF Finish, Save, world, World, WorldType, Rebasing
  <2>5. /\ tip' = tip /\ head' = head /\ remote' = remote /\ tested' = tested /\ meta' = meta
        /\ (Final(f)' <=> Final(f)) /\ ~Rebasing'
    BY <2>4 DEF World, Final, Rebasing
  <2>6. head = x.first
    BY <1>2, <1>4 DEF Knows, OnwardOK, BackwardOK
  <2>7. ~x.back => Complete(f)
    <3> SUFFICES ASSUME ~x.back PROVE Complete(f)
      OBVIOUS
    <3>1. v # "abort"
      BY <1>2 DEF Knows, BackwardOK
    <3>2. x.stage \in Late /\ (Push => Unpushed(x, f) = {})
      BY <1>2, <3>1 DEF Knows, OnwardOK
    <3>3. Final(f) /\ x.pushed \subseteq remote
      BY <1>2, <3>2 DEF Kept, StageOK, ForwardOK
    <3>4. Push => InPlan(f) \subseteq remote
      BY <3>2, <3>3 DEF Unpushed, InPlan
    <3> QED
      BY <3>3, <3>4 DEF Final, Complete
  <2>8. x.back => /\ \A b \in InPlan(f) : tip[b] = x.pre[b]
                  /\ (f \in meta) = x.had
    <3>1. InPlan(f) \subseteq Refs
      BY PlanFacts DEF Refs
    <3> QED
      BY <1>2, <1>4, <3>1 DEF Knows, BackwardOK, Undid
  <2>9. tx'[f] = y => Kept(f)'
    <3> SUFFICES ASSUME tx'[f] = y PROVE Kept(f)'
      OBVIOUS
    <3>1. StageOK(f)' /\ ForwardOK(f)'
      BY <1>2, <2>3, <2>5, ZenonT(60) DEF Kept, StageOK, ForwardOK, Ahead
    <3>2. FinalOK(f)'
      BY <1>2, <2>2, <2>3, <2>5, <2>6, <2>7, <2>8 DEF Kept, FinalOK, Undone, Complete
    <3> QED
      BY <3>1, <3>2 DEF Kept
  <2>10. Knows("remove", v, y, f)'
    BY <2>2 DEF Knows, OnwardOK, BackwardOK, Onward, Mid, Backward, Undoing
  <2> QED
    BY <1>1, <1>2, <1>4, <2>1, <2>2, <2>4, <2>9, <2>10, WorldStep DEF Finish, Save
<1> QED
  BY <1>2, <1>3, <1>4 DEF Finish
-----------------------------------------------------------------------------
(* Forward to the stage, or back to the beginning.                          *)

\* A recovery goes on from the stage of the journal.
LEMMA ForwardStep ==
  ASSUME CheckoutInv, NEW p \in Terminals, Forward(p)
  PROVE  CheckoutInv'
<1>1. /\ cmd[p].pc = "forward" /\ "forward" \in Working
      /\ {"preflight", "resume"} \subseteq Working \cap Stoppable
  BY DEF Forward, At, Working, Onward, Mid, Backward, Undoing, Stoppable
<1>2. PICK f \in Features, x \in Journals, v \in {cmd[p].verb} :
        /\ f = F(p) /\ x = X(p) /\ v = cmd[p].verb /\ tx[f] = x /\ Kept(f) /\ ~x.done
        /\ WorldType /\ Knows("forward", v, x, f)
  BY <1>1, Starts
<1>3. PICK next : next = IF v = "abort" THEN "preflight" ELSE "resume"
  OBVIOUS
<1>4. CASE Stop(p) /\ UNCHANGED <<files, head>>
  BY <1>1, <1>4, QuietStop DEF Forward, files, World
<1>5. CASE x.want = "" /\ Go(p, next) /\ UNCHANGED <<files, head, locks>>
  <2>1. Knows(next, v, x, f)
    BY <1>2, <1>3, <1>5 DEF Knows, OnwardOK, BackwardOK, Onward, Mid, Backward, Undoing
  <2> QED
    BY <1>1, <1>2, <1>3, <1>5, <2>1, QuietGo DEF Forward, files, World
<1>6. CASE x.want # "" /\ Save(p, [x EXCEPT !.at = x.want, !.want = ""], next)
           /\ UNCHANGED <<head, locks>>
  <2>1. ~Rebasing /\ x.want \in Heads
    <3>1. ~Rebasing
      BY <1>1, <1>2, <1>6, WhileStopped
    <3>2. x.want \in Heads
      BY <1>6 DEF Journals
    <3> QED
      BY <3>1, <3>2
  <2>2. PICK y : y = [x EXCEPT !.at = x.want, !.want = ""]
    OBVIOUS
  <2>3. y \in Journals /\ Same(y, x, {"at", "want"}) /\ y.want = ""
    BY <2>1, <2>2 DEF Journals, Same, Fields
  <2>4. /\ y.back = x.back /\ y.restored = x.restored /\ y.i = x.i /\ y.first = x.first
        /\ y.pre = x.pre /\ y.had = x.had /\ y.pub = x.pub /\ y.pushed = x.pushed
        /\ y.done = x.done /\ y.stage = x.stage /\ y.moved = x.moved
    BY <2>3 DEF Same, Fields
  <2>5. Quiet(y, x, f)
    BY <1>2, <2>3, <2>4 DEF Quiet, Kept, StageOK, ForwardOK, FinalOK
  <2>6. Knows(next, v, y, f)
    BY <1>2, <1>3, <2>3, <2>4 DEF Knows, OnwardOK, BackwardOK, Onward, Mid, Backward, Undoing
  <2> QED
    BY <1>1, <1>2, <1>3, <1>6, <2>1, <2>2, <2>3, <2>5, <2>6, QuietStep DEF Forward, Save, World
<1>7. CASE x.want # "" /\ head' = x.want /\ UNCHANGED <<files, cmd, locks>>
  <2>1. ~Rebasing /\ x.want \in Heads
    <3>1. ~Rebasing
      BY <1>1, <1>2, <1>7, WhileStopped
    <3>2. x.want \in Heads
      BY <1>7 DEF Journals
    <3> QED
      BY <3>1, <3>2
  <2>2. /\ stopped' = Main /\ WorldType' /\ tx' = tx
        /\ UNCHANGED <<home, reg, moves, count>>
    BY <1>2, <1>7, <2>1 DEF Forward, WorldType, files, Rebasing
  <2>3. x.stage # "publishing"
    BY <1>2, <1>7 DEF Kept, StageOK
  <2>4. Kept(f)'
    BY <1>2, <1>7, <2>2, <2>3, HeadKept DEF Forward, files
  <2>5. Knows("forward", v, x, f)'
    BY <1>2 DEF Knows, OnwardOK, BackwardOK, Onward, Mid, Backward, Undoing
  <2> QED
    <3>1. UNCHANGED <<cmd, locks>> /\ Knows(cmd[p].pc, v, x, f)'
      BY <1>1, <1>7, <2>5
    <3> QED
      BY <1>1, <1>2, <2>2, <2>4, <3>1, WorldStep
<1> QED
  BY <1>2, <1>3, <1>4, <1>5, <1>6, <1>7 DEF Forward

\* An abort decides whether it can undo before it undoes anything.
LEMMA PreflightStep ==
  ASSUME CheckoutInv, NEW p \in Terminals, Preflight(p)
  PROVE  CheckoutInv'
<1>1. /\ cmd[p].pc = "preflight" /\ "preflight" \in Working
      /\ "undo-rebase" \in Working \cap Stoppable
  BY DEF Preflight, At, Working, Onward, Mid, Backward, Undoing, Stoppable
<1>2. PICK f \in Features, x \in Journals, v \in {cmd[p].verb} :
        /\ f = F(p) /\ x = X(p) /\ v = cmd[p].verb /\ tx[f] = x /\ Kept(f) /\ ~x.done
        /\ WorldType /\ Knows("preflight", v, x, f)
  BY <1>1, Starts
<1>3. CASE Stop(p) /\ UNCHANGED files
  BY <1>1, <1>3, QuietStop DEF Preflight, files, world, World
<1>4. CASE Save(p, [x EXCEPT !.back = TRUE, !.want = ""], "undo-rebase") /\ UNCHANGED locks
  <2>1. PICK y : y = [x EXCEPT !.back = TRUE, !.want = ""]
    OBVIOUS
  <2>2. y \in Journals /\ Same(y, x, {"back", "want"}) /\ y.back /\ y.want = ""
    BY <2>1 DEF Journals, Same, Fields
  <2>3. /\ y.restored = x.restored /\ y.i = x.i /\ y.first = x.first
        /\ y.pub = x.pub /\ y.pushed = x.pushed /\ y.done = x.done
        /\ y.stage = x.stage /\ y.moved = x.moved
    BY <2>2 DEF Same, Fields
  <2>4. UNCHANGED World /\ UNCHANGED stopped /\ WorldType'
    BY <1>2, <1>4 DEF Preflight, Save, world, World, WorldType
  <2>5. ~x.pub /\ v = "abort"
    BY <1>2 DEF Knows, BackwardOK, Backward
  <2>6. /\ WorkStep(p) /\ X(p)' = y /\ F(p)' = f /\ tx'[f] = y
        /\ cmd'[p].pc = "undo-rebase" /\ cmd'[p].verb = v
    BY <1>1, <1>2, <1>4, <2>1, <2>2, <2>4, StepSave DEF Preflight, Save
  <2>7. Kept(f)'
    <3>1. StageOK(f)'
      BY <1>2, <2>2, <2>3, <2>4, <2>6 DEF Kept, StageOK, ForwardOK, World
    <3> QED
      BY <1>2, <2>2, <2>3, <2>5, <2>6, <3>1, BackKept
  <2>8. Carried(p)'
    BY <1>2, <2>2, <2>3, <2>5, <2>6
       DEF Carried, Knows, OnwardOK, BackwardOK, Onward, Mid, Backward, Undoing
  <2>9. RebaseOK'
    BY <1>1, <1>2, <2>2, <2>3, <2>4, <2>6, RebaseStep, WhileStopped
  <2> QED
    BY <1>2, <2>6, <2>7, <2>8, <2>9, WorkInv
<1> QED
  BY <1>2, <1>3, <1>4 DEF Preflight

\* A stopped rebase of the run is aborted.
LEMMA UndoRebaseStep ==
  ASSUME CheckoutInv, NEW p \in Terminals, UndoRebase(p)
  PROVE  CheckoutInv'
<1>1. cmd[p].pc = "undo-rebase" /\ {"undo-rebase", "detach"} \subseteq Working
  BY DEF UndoRebase, At, Working, Backward, Undoing
<1>2. PICK f \in Features, x \in Journals, v \in {cmd[p].verb} :
        /\ f = F(p) /\ x = X(p) /\ v = cmd[p].verb /\ tx[f] = x /\ Kept(f) /\ ~x.done
        /\ WorldType /\ Knows("undo-rebase", v, x, f)
  BY <1>1, Starts
<1>3. x.back /\ v = "abort"
  BY <1>2 DEF Knows, BackwardOK, Backward, Undoing
<1>4. CASE Stop(p) /\ UNCHANGED <<files, stopped, head>>
  BY <1>1, <1>4, QuietStop DEF UndoRebase, files, World
<1>5. CASE stopped' = Main /\ head' = stopped /\ UNCHANGED <<files, locks, cmd>>
  <2>1. tx' = tx /\ WorldType'
    BY <1>2, <1>5 DEF UndoRebase, files, WorldType, Heads, Refs
  <2>2. Kept(f)'
    BY <1>2, <1>3, <1>5, <2>1, HeadKept DEF UndoRebase, files
  <2>3. Knows("undo-rebase", v, x, f)'
    BY <1>2, <1>3 DEF Knows, OnwardOK, BackwardOK, Onward, Mid, Backward, Undoing
  <2> QED
    BY <1>1, <1>2, <1>5, <2>1, <2>2, <2>3, WorldStep DEF UndoRebase, files
<1>6. CASE /\ ~Rebasing /\ Closable(x)
           /\ Save(p, Closed(x), "detach") /\ UNCHANGED <<stopped, head, locks>>
  <2>1. PICK y : y = Closed(x)
    OBVIOUS
  <2>2. y \in Journals /\ Same(y, x, {"act", "at", "moved"}) /\ Quiet(y, x, f)
    BY <1>2, <1>6, <2>1, ClosedFacts
  <2>3. Knows("detach", v, y, f)
    BY <1>2, <1>3, <2>2
       DEF Knows, OnwardOK, BackwardOK, Same, Fields, Onward, Mid, Backward, Undoing
  <2> QED
    BY <1>1, <1>2, <1>6, <2>1, <2>2, <2>3, QuietStep DEF UndoRebase, Save, World
<1>7. CASE ~Rebasing /\ Go(p, "detach") /\ UNCHANGED <<files, stopped, head, locks>>
  <2>1. Knows("detach", v, x, f)
    BY <1>2, <1>3 DEF Knows, OnwardOK, BackwardOK, Onward, Mid, Backward, Undoing
  <2> QED
    BY <1>1, <1>2, <1>7, <2>1, QuietGo DEF UndoRebase, files, World
<1> QED
  BY <1>2, <1>4, <1>5, <1>6, <1>7 DEF UndoRebase, Owned, Rollbackable

\* The working tree leaves the branches that are to be moved back.
LEMMA DetachHeadStep ==
  ASSUME CheckoutInv, NEW p \in Terminals, DetachHead(p)
  PROVE  CheckoutInv'
<1>1. /\ cmd[p].pc = "detach" /\ "detach" \in Working \ Stoppable
      /\ {"meta-back", "refs-back"} \subseteq Working
  BY DEF DetachHead, At, Working, Onward, Mid, Backward, Undoing, Stoppable
<1>2. PICK f \in Features, x \in Journals, v \in {cmd[p].verb} :
        /\ f = F(p) /\ x = X(p) /\ v = cmd[p].verb /\ tx[f] = x /\ Kept(f) /\ ~x.done
        /\ ~Rebasing /\ WorldType /\ Knows("detach", v, x, f)
  BY <1>1, Starts
<1>3. x.back /\ v = "abort"
  BY <1>2 DEF Knows, BackwardOK, Backward, Undoing
<1>4. CASE Stop(p) /\ UNCHANGED <<files, head>>
  BY <1>1, <1>4, QuietStop DEF DetachHead, files, World
<1>5. ASSUME Rollbackable(x), UNCHANGED <<files, head, locks>>,
             Go(p, IF "refs" \in x.restored THEN "meta-back" ELSE "refs-back")
      PROVE  CheckoutInv'
  <2>1. \A b \in Refs : tip[b] \in {x.pre[b], Expected(x, b)}
    BY <1>5 DEF Rollbackable, Refs
  <2>2. CASE "refs" \in x.restored
    <3>1. Undid(x)
      BY <1>2, <1>3, <2>1, <2>2 DEF Kept, StageOK, Expected, Undid
    <3>2. Knows("meta-back", v, x, f)
      BY <1>2, <1>3, <3>1 DEF Knows, OnwardOK, BackwardOK, Onward, Mid, Backward, Undoing
    <3> QED
      BY <1>1, <1>2, <1>5, <2>2, <3>2, QuietGo DEF DetachHead, files, World
  <2>3. CASE "refs" \notin x.restored
    <3>1. Knows("refs-back", v, x, f)
      BY <1>2, <1>3, <2>1 DEF Knows, OnwardOK, BackwardOK, Onward, Mid, Backward, Undoing
    <3> QED
      BY <1>1, <1>2, <1>5, <2>3, <3>1, QuietGo DEF DetachHead, files, World
  <2> QED
    BY <2>2, <2>3
<1>6. CASE head' = Detached /\ UNCHANGED <<files, locks, cmd>>
  <2>1. tx' = tx /\ stopped' = Main /\ WorldType'
    BY <1>2, <1>6 DEF DetachHead, files, WorldType, Heads, Rebasing
  <2>2. Kept(f)'
    BY <1>2, <1>3, <1>6, <2>1, HeadKept DEF DetachHead, files
  <2>3. Knows("detach", v, x, f)'
    BY <1>2, <1>3 DEF Knows, OnwardOK, BackwardOK, Onward, Mid, Backward, Undoing
  <2> QED
    BY <1>1, <1>2, <1>6, <2>1, <2>2, <2>3, WorldStep DEF DetachHead, files
<1>7. CASE Save(p, [x EXCEPT !.undo = TRUE], "detach") /\ UNCHANGED <<head, locks>>
  <2>1. PICK y : y = [x EXCEPT !.undo = TRUE]
    OBVIOUS
  <2>2. y \in Journals /\ Same(y, x, {"undo"})
    BY <2>1 DEF Journals, Same, Fields
  <2>3. Quiet(y, x, f)
    BY <1>2, <2>2, QuietSame DEF Same
  <2>4. Knows("detach", v, y, f)
    BY <1>2, <1>3, <2>2
       DEF Knows, OnwardOK, BackwardOK, Same, Fields, Onward, Mid, Backward, Undoing
  <2> QED
    BY <1>1, <1>2, <1>7, <2>1, <2>2, <2>3, <2>4, QuietStep DEF DetachHead, Save, World
<1> QED
  BY <1>2, <1>4, <1>5, <1>6, <1>7 DEF DetachHead

\* The branches are moved back, or stay where the run left them.
LEMMA RestoreRefsStep ==
  ASSUME CheckoutInv, NEW p \in Terminals, RestoreRefs(p)
  PROVE  CheckoutInv'
<1>1. /\ cmd[p].pc = "refs-back" /\ "refs-back" \in Working \ Stoppable
      /\ "refs-were-restored" \in Working
  BY DEF RestoreRefs, At, Working, Onward, Mid, Backward, Undoing, Stoppable
<1>2. PICK f \in Features, x \in Journals, v \in {cmd[p].verb} :
        /\ f = F(p) /\ x = X(p) /\ v = cmd[p].verb /\ tx[f] = x /\ Kept(f) /\ ~x.done
        /\ ~Rebasing /\ WorldType /\ Knows("refs-back", v, x, f)
  BY <1>1, Starts
<1>3. /\ x.back /\ v = "abort" /\ ~x.pub /\ x.pre \in [Refs -> Tips] /\ DOMAIN tip = Refs
      /\ \A b \in Refs : tip[b] \in {x.pre[b], Expected(x, b)}
  BY <1>2 DEF Knows, BackwardOK, Backward, Undoing, Kept, FinalOK, Journals, WorldType
<1>4. /\ tip' = [b \in Refs |-> IF tip[b] = Expected(x, b) THEN x.pre[b] ELSE tip[b]]
      /\ tested' \subseteq tested /\ Go(p, "refs-were-restored")
      /\ UNCHANGED <<head, stopped, dirty, remote, meta, home, reg, tx, moves, locks, count>>
  BY <1>2, <1>3 DEF RestoreRefs, files
<1>5. \A b \in Refs : tip'[b] = x.pre[b]
  BY <1>3, <1>4
<1>6. WorldType' /\ stopped' = Main
  BY <1>2, <1>3, <1>4 DEF WorldType, Rebasing
<1>7. Kept(f)'
  <2>1. StageOK(f)'
    BY <1>2, <1>4 DEF Kept, StageOK
  <2> QED
    BY <1>2, <1>3, <1>4, <2>1, BackKept
<1>8. Knows("refs-were-restored", v, x, f)'
  BY <1>2, <1>3, <1>5 DEF Knows, OnwardOK, BackwardOK, Onward, Mid, Backward, Undoing, Undid
<1> QED
  BY <1>1, <1>2, <1>4, <1>6, <1>7, <1>8, WorldStep

\* That the branches are back is recorded.
LEMMA RefsRestoredStep ==
  ASSUME CheckoutInv, NEW p \in Terminals, RefsRestored(p) PROVE CheckoutInv'
<1>1. /\ cmd[p].pc = "refs-were-restored"
      /\ {"refs-were-restored", "meta-back"} \subseteq Working \ Stoppable
  BY DEF RefsRestored, At, Working, Onward, Mid, Backward, Undoing, Stoppable
<1>2. PICK f \in Features, x \in Journals, v \in {cmd[p].verb} :
        /\ f = F(p) /\ x = X(p) /\ v = cmd[p].verb /\ tx[f] = x /\ Kept(f) /\ ~x.done
        /\ ~Rebasing /\ WorldType /\ Knows("refs-were-restored", v, x, f)
  BY <1>1, Starts
<1>3. x.back /\ v = "abort" /\ Undid(x) /\ ~x.pub
  BY <1>2 DEF Knows, BackwardOK, Backward, Undoing, Kept, FinalOK
<1>4. PICK y, r : r = x.restored \cup {"refs"} /\ y = [x EXCEPT !.moved = {}, !.restored = r]
  OBVIOUS
<1>5. y \in Journals /\ Same(y, x, {"moved", "restored"}) /\ y.moved = {}
  <2>1. r \in SUBSET {"refs", "meta"} /\ {} \in SUBSET Refs
    BY <1>4 DEF Journals
  <2> QED
    BY <1>4, <2>1 DEF Journals, Same, Fields
<1>6. /\ y.back = x.back /\ y.i = x.i /\ y.first = x.first /\ y.pre = x.pre
      /\ y.pub = x.pub /\ y.done = x.done /\ y.want = x.want /\ y.pushed = x.pushed
      /\ y.stage = x.stage
  BY <1>5 DEF Same, Fields
<1>7. UNCHANGED World /\ stopped' = Main /\ WorldType' /\ Set(p, y)
  BY <1>2, <1>4 DEF RefsRestored, Save, world, World, WorldType, Rebasing
<1>8. tx'[f] = y => Kept(f)'
  <2> SUFFICES ASSUME tx'[f] = y PROVE Kept(f)'
    OBVIOUS
  <2>1. StageOK(f)'
    BY <1>2, <1>5, <1>6, <1>7 DEF Kept, StageOK, World
  <2> QED
    BY <1>2, <1>3, <1>6, <2>1, BackKept
<1>9. Knows("meta-back", v, y, f)'
  BY <1>2, <1>3, <1>6, <1>7
     DEF Knows, OnwardOK, BackwardOK, Onward, Mid, Backward, Undoing, Undid, World
<1> QED
  BY <1>1, <1>2, <1>5, <1>7, <1>8, <1>9, WorldStep DEF RefsRestored, Save

\* The stack metadata is as it was.
LEMMA RestoreMetadataStep ==
  ASSUME CheckoutInv, NEW p \in Terminals, RestoreMetadata(p) PROVE CheckoutInv'
<1>1. cmd[p].pc = "meta-back" /\ {"meta-back", "head-back"} \subseteq Working \ Stoppable
  BY DEF RestoreMetadata, At, Working, Onward, Mid, Backward, Undoing, Stoppable
<1>2. PICK f \in Features, x \in Journals, v \in {cmd[p].verb} :
        /\ f = F(p) /\ x = X(p) /\ v = cmd[p].verb /\ tx[f] = x /\ Kept(f) /\ ~x.done
        /\ ~Rebasing /\ WorldType /\ Knows("meta-back", v, x, f)
  BY <1>1, Starts
<1>3. x.back /\ v = "abort" /\ Undid(x) /\ ~x.pub
  BY <1>2 DEF Knows, BackwardOK, Backward, Undoing, Kept, FinalOK
<1>4. CASE meta' = meta \ {f} /\ UNCHANGED <<tx, cmd>>
  <2>1. stopped' = Main /\ WorldType' /\ remote' = remote /\ tip' = tip
    BY <1>2, <1>4 DEF RestoreMetadata, world, WorldType, Rebasing
  <2>2. Kept(f)'
    <3>1. StageOK(f)'
      BY <1>2, <1>4, <2>1 DEF Kept, StageOK
    <3> QED
      BY <1>2, <1>3, <1>4, <3>1, BackKept
  <2>3. Knows("meta-back", v, x, f)'
    BY <1>2, <1>3, <2>1
       DEF Knows, OnwardOK, BackwardOK, Onward, Mid, Backward, Undoing, Undid
  <2> QED
    BY <1>1, <1>2, <1>4, <2>1, <2>2, <2>3, WorldStep DEF RestoreMetadata
<1>5. CASE /\ (f \in meta) = x.had /\ Go(p, "head-back") /\ UNCHANGED meta
           /\ Set(p, [x EXCEPT !.restored = x.restored \cup {"meta"}])
  <2>1. PICK y, r : r = x.restored \cup {"meta"} /\ y = [x EXCEPT !.restored = r]
    OBVIOUS
  <2>2. y \in Journals /\ Same(y, x, {"restored"}) /\ y.restored = r
    <3>1. r \in SUBSET {"refs", "meta"}
      BY <2>1 DEF Journals
    <3> QED
      BY <2>1, <3>1 DEF Journals, Same, Fields
  <2>3. /\ y.back = x.back /\ y.i = x.i /\ y.first = x.first /\ y.pre = x.pre
        /\ y.pub = x.pub /\ y.done = x.done /\ y.want = x.want /\ y.pushed = x.pushed
        /\ y.stage = x.stage /\ y.had = x.had /\ y.moved = x.moved
    BY <2>2 DEF Same, Fields
  <2>4. UNCHANGED World /\ stopped' = Main /\ WorldType' /\ Set(p, y)
    BY <1>2, <1>5, <2>1 DEF RestoreMetadata, world, World, WorldType, Rebasing
  <2>5. tx'[f] = y => Kept(f)'
    <3> SUFFICES ASSUME tx'[f] = y PROVE Kept(f)'
      OBVIOUS
    <3>1. StageOK(f)'
      <4>1. "refs" \in y.restored => "refs" \in x.restored
        BY <2>1, <2>2
      <4>2. remote' = remote
        BY <2>4 DEF World
      <4> QED
        BY <1>2, <2>3, <4>1, <4>2 DEF Kept, StageOK
    <3> QED
      BY <1>2, <1>3, <2>3, <3>1, BackKept
  <2>6. Knows("head-back", v, y, f)'
    BY <1>2, <1>3, <1>5, <2>3, <2>4
       DEF Knows, OnwardOK, BackwardOK, Onward, Mid, Backward, Undoing, Undid, World
  <2> QED
    BY <1>1, <1>2, <1>5, <2>2, <2>4, <2>5, <2>6, WorldStep DEF RestoreMetadata
<1> QED
  BY <1>2, <1>4, <1>5 DEF RestoreMetadata

\* The working tree is as it was, and the abort is over.
LEMMA RestoreHeadStep ==
  ASSUME CheckoutInv, NEW p \in Terminals, RestoreHead(p)
  PROVE  CheckoutInv'
<1>1. cmd[p].pc = "head-back" /\ {"head-back", "finish"} \subseteq Working \ Stoppable
  BY DEF RestoreHead, At, Working, Onward, Mid, Backward, Undoing, Stoppable
<1>2. PICK f \in Features, x \in Journals, v \in {cmd[p].verb} :
        /\ f = F(p) /\ x = X(p) /\ v = cmd[p].verb /\ tx[f] = x /\ Kept(f) /\ ~x.done
        /\ ~Rebasing /\ WorldType /\ Knows("head-back", v, x, f)
  BY <1>1, Starts
<1>3. x.back /\ v = "abort" /\ Undid(x) /\ (f \in meta) = x.had /\ x.first \in Heads
  BY <1>2 DEF Knows, BackwardOK, Backward, Undoing, Journals
<1>4. CASE Stop(p) /\ UNCHANGED <<files, head>>
  BY <1>1, <1>4, QuietStop DEF RestoreHead, files, World
<1>5. CASE head' = x.first /\ UNCHANGED <<files, locks, cmd>>
  <2>1. tx' = tx /\ stopped' = Main /\ WorldType' /\ tip' = tip /\ meta' = meta
    BY <1>2, <1>3, <1>5 DEF RestoreHead, files, WorldType, Heads, Rebasing
  <2>2. Kept(f)'
    BY <1>2, <1>3, <1>5, <2>1, HeadKept DEF RestoreHead, files
  <2>3. Knows("head-back", v, x, f)'
    BY <1>2, <1>3, <2>1
       DEF Knows, OnwardOK, BackwardOK, Onward, Mid, Backward, Undoing, Undid
  <2> QED
    BY <1>1, <1>2, <1>5, <2>1, <2>2, <2>3, WorldStep DEF RestoreHead, files
<1>6. CASE /\ head = x.first /\ UNCHANGED <<head, locks>>
           /\ Save(p, [x EXCEPT !.at = head, !.undo = FALSE], "finish")
  <2>1. PICK y : y = [x EXCEPT !.at = head, !.undo = FALSE]
    OBVIOUS
  <2>2. y \in Journals /\ Same(y, x, {"at", "undo"})
    BY <1>3, <1>6, <2>1 DEF Journals, Same, Fields
  <2>3. Quiet(y, x, f)
    BY <1>2, <2>2, QuietSame DEF Same
  <2>4. /\ y.back = x.back /\ y.pre = x.pre /\ y.had = x.had /\ y.done = x.done
        /\ y.first = x.first
    BY <2>2 DEF Same, Fields
  <2>5. Knows("finish", v, y, f)
    BY <1>2, <1>3, <1>6, <2>4
       DEF Knows, OnwardOK, BackwardOK, Onward, Mid, Backward, Undoing, Undid
  <2> QED
    BY <1>1, <1>2, <1>6, <2>1, <2>2, <2>3, <2>5, QuietStep DEF RestoreHead, Save, World
<1> QED
  BY <1>2, <1>4, <1>5, <1>6 DEF RestoreHead
-----------------------------------------------------------------------------
(* Locks, births and ends.                                                  *)

\* The journals and what they are about stay; a command moves.
LEMMA Elsewhere ==
  ASSUME CheckoutInv, NEW p \in Terminals,
         UNCHANGED <<tip, head, stopped, remote, tested, files>>,
         TypeOK', LockOK', AdmittedOK',
         \A q \in Terminals : q # p => cmd'[q] = cmd[q],
         cmd'[p].pc \in Working \cup {"remove"} => Carried(p)',
         Rebasing => cmd'[p].pc \in Waiting \cup Stoppable
  PROVE  CheckoutInv'
<1>1. /\ tip' = tip /\ head' = head /\ stopped' = stopped /\ remote' = remote
      /\ tested' = tested /\ meta' = meta /\ home' = home /\ reg' = reg /\ tx' = tx
      /\ moves' = moves /\ (Rebasing' <=> Rebasing) /\ Pending' = Pending
  BY DEF files, Rebasing, Pending
<1>2. PendingOK'
  BY <1>1 DEF CheckoutInv, LocksInv, PendingOK
<1>3. JournalOK'
  <2> SUFFICES ASSUME NEW f \in Pending PROVE Kept(f)'
    BY <1>1 DEF JournalOK, Kept
  <2>1. PICK x : x = tx[f] /\ x = tx'[f]
    BY <1>1
  <2>2. Kept(f)
    BY DEF CheckoutInv, JournalOK, Kept
  <2>3. Quiet(x, x, f)
    BY <2>1, <2>2, QuietSame DEF Same
  <2> QED
    BY <1>1, <2>1, <2>2, <2>3, QuietKept
<1>4. RebaseOK'
  BY <1>1 DEF CheckoutInv, RebaseOK, Stoppable
<1>5. CommandOK'
  <2> SUFFICES ASSUME NEW q \in Terminals, cmd'[q].pc \in Working \cup {"remove"}
               PROVE  Carried(q)'
    BY DEF CommandOK, Carried
  <2>1. CASE q # p
    <3>1. cmd'[q] = cmd[q] /\ X(q)' = X(q) /\ F(q)' = F(q)
      BY <1>1, <2>1 DEF X, F
    <3>2. PICK s, v, x, f : /\ s = cmd[q].pc /\ v = cmd[q].verb /\ x = X(q) /\ f = F(q)
                            /\ Knows(s, v, x, f)
      BY <3>1 DEF CheckoutInv, CommandOK
    <3>3. Knows(s, v, x, f)'
      BY <1>1, <3>2, QuietKnows
    <3> QED
      BY <3>1, <3>2, <3>3 DEF Carried
  <2> QED
    BY <2>1
<1> QED
  BY <1>2, <1>3, <1>4, <1>5 DEF CheckoutInv, LocksInv

\* What a command has been admitted to does not depend on the others' moves.
LEMMA AdmittedStays ==
  ASSUME AdmittedOK, UNCHANGED <<tx, moves, home, reg>>, NEW p \in Terminals,
         \A q \in Terminals : q # p => cmd'[q] = cmd[q], Admits(cmd[p])'
  PROVE  AdmittedOK'
<1> SUFFICES ASSUME NEW q \in Terminals, q # p PROVE Admits(cmd[q])'
  BY DEF AdmittedOK
<1>1. PICK c : c = cmd[q] /\ c = cmd'[q] /\ Admits(c)
  BY DEF AdmittedOK
<1>2. Admits(c)'
  BY <1>1 DEF Admits, Pending
<1> QED
  BY <1>1, <1>2

\* A command ends, and the locks of the others stay.
LEMMA EndStep ==
  ASSUME CheckoutInv, NEW p \in Terminals,
         UNCHANGED <<tip, head, stopped, remote, tested, files>>, dirty' \in BOOLEAN,
         cmd' = [cmd EXCEPT ![p] = Idle], runs' \in Nat, kills' \in Nat,
         lock' \in Locks, flock' \in [Features -> {"none", Dead} \cup Terminals],
         \A q \in Terminals : q # p /\ cmd[q].pc \in Inside => lock' = lock
  PROVE  CheckoutInv'
<1>1. /\ cmd'[p] = Idle /\ cmd'[p].pc = "idle" /\ \A q \in Terminals : q # p => cmd'[q] = cmd[q]
      /\ cmd' \in [Terminals -> Commands]
  BY DEF CheckoutInv, TypeOK, Idle, Commands
<1>2. TypeOK'
  BY <1>1 DEF CheckoutInv, TypeOK, files
<1>3. LockOK'
  BY <1>1, PcFacts DEF CheckoutInv, LocksInv, LockOK
<1>4. AdmittedOK'
  <2>1. Admits(cmd[p])'
    BY <1>1, PcFacts DEF Admits, Inside
  <2> QED
    BY <1>1, <2>1, AdmittedStays DEF CheckoutInv, LocksInv, files
<1> QED
  BY <1>1, <1>2, <1>3, <1>4, PcFacts, Elsewhere

\* A command that goes away with its locks, or leaves them to the dead, leaves
\* the world as it is.
LEMMA StopElsewhere ==
  ASSUME CheckoutInv, NEW p \in Terminals, cmd[p].pc # "idle", Stop(p),
         UNCHANGED <<world, files>>, runs' \in Nat, kills' \in Nat
  PROVE  CheckoutInv'
<1>1. /\ lock' \in Locks /\ flock' \in [Features -> {"none", Dead} \cup Terminals]
      /\ \A q \in Terminals : q # p => (lock.pid = q => lock' = lock)
  BY StopFacts DEF CheckoutInv
<1>2. \A q \in Terminals : q # p /\ cmd[q].pc \in Inside => lock' = lock
  BY <1>1 DEF CheckoutInv, LocksInv, LockOK
<1>3. dirty' \in BOOLEAN /\ UNCHANGED <<tip, head, stopped, remote, tested, files>>
  BY DEF world, CheckoutInv, TypeOK
<1> QED
  BY <1>1, <1>2, <1>3, EndStep DEF Stop

\* A command is killed wherever it is.
LEMMA KillStep == ASSUME CheckoutInv, NEW p \in Terminals, Kill(p) PROVE CheckoutInv'
<1>1. runs' \in Nat /\ kills' \in Nat /\ cmd[p].pc # "idle"
  BY DEF Kill, CheckoutInv, TypeOK, At
<1> QED
  BY <1>1, StopElsewhere DEF Kill

\* A command refuses to go on.
LEMMA RefuseStep ==
  ASSUME CheckoutInv, NEW p \in Terminals, Refuse(p), UNCHANGED <<world, files, count>>
  PROVE  CheckoutInv'
<1>1. /\ lock' = lock /\ flock' = flock /\ runs' \in Nat /\ kills' \in Nat /\ dirty' \in BOOLEAN
      /\ lock' \in Locks /\ flock' \in [Features -> {"none", Dead} \cup Terminals]
      /\ UNCHANGED <<tip, head, stopped, remote, tested, files>>
  BY DEF Refuse, locks, count, world, CheckoutInv, TypeOK
<1> QED
  BY <1>1, EndStep DEF Refuse

\* A command goes on from one waiting or lock-keeping step to another.
LEMMA OnStep ==
  ASSUME CheckoutInv, NEW p \in Terminals, UNCHANGED <<world, files>>,
         NEW c \in Commands, cmd' = [cmd EXCEPT ![p] = c],
         runs' \in Nat, kills' \in Nat,
         lock' \in Locks, flock' \in [Features -> {"none", Dead} \cup Terminals],
         \A q \in Terminals : q # p /\ cmd[q].pc \in Inside => lock' = lock,
         c.pc \in Inside => lock'.pid = p /\ lock'.run = c.run /\ c.run # 0,
         c.pc = "unlink" => c.saw.pid = Dead,
         Admits(c)',
         c.pc \notin Working \cup {"remove"} \/ Knows(c.pc, c.verb, tx[c.f], c.f),
         Rebasing => c.pc \in Waiting \cup Stoppable
  PROVE  CheckoutInv'
<1>1. /\ cmd'[p] = c /\ \A q \in Terminals : q # p => cmd'[q] = cmd[q]
      /\ cmd' \in [Terminals -> Commands]
  BY DEF CheckoutInv, TypeOK
<1>2. UNCHANGED <<tip, head, stopped, remote, tested, meta, tx, home, reg, moves>>
  BY DEF world, files
<1>3. TypeOK'
  BY <1>1, <1>2 DEF CheckoutInv, TypeOK, world
<1>4. LockOK'
  BY <1>1, PcFacts DEF CheckoutInv, LocksInv, LockOK
<1>5. AdmittedOK'
  BY <1>1, <1>2, AdmittedStays DEF CheckoutInv, LocksInv
<1>6. cmd'[p].pc \in Working \cup {"remove"} => Carried(p)'
  <2> SUFFICES ASSUME c.pc \in Working \cup {"remove"} PROVE Carried(p)'
    BY <1>1
  <2>1. PICK s, v, x, f : /\ s = c.pc /\ v = c.verb /\ x = tx[c.f] /\ f = c.f
                          /\ Knows(s, v, x, f)
    OBVIOUS
  <2>2. Knows(s, v, x, f)'
    BY <1>2, <2>1, QuietKnows
  <2> QED
    BY <1>1, <1>2, <2>1, <2>2 DEF Carried, X, F
<1> QED
  BY <1>1, <1>2, <1>3, <1>4, <1>5, <1>6, Elsewhere DEF files

\* A command is started at a terminal that has none.
LEMMA StartStep == ASSUME CheckoutInv, NEW p \in Terminals, Start(p) PROVE CheckoutInv'
<1>1. PICK f \in Features :
        StartSync(p, f) \/ StartContinue(p, f) \/ StartAbort(p, f) \/ StartRename(p, f)
  BY DEF Start
<1>2. tx[f] \in {NoTx} \cup Journals /\ tx[f].run \in Nat /\ (tx[f] # NoTx => tx[f].run # 0)
  <2>1. tx[f] \in {NoTx} \cup Journals
    BY DEF CheckoutInv, TypeOK
  <2>2. \A x \in Journals : x.run \in Nat /\ x.run # 0
    BY DEF Journals
  <2> QED
    BY <2>1, <2>2, NoTxFacts
<1>3. PICK c \in Commands : /\ c.pc = "claim" /\ cmd' = [cmd EXCEPT ![p] = c]
                            /\ UNCHANGED <<world, files, count, locks>>
  <2>1. CASE StartSync(p, f)
    <3>1. PICK c : c = [pc |-> "claim", verb |-> "sync", f |-> f, run |-> 0, orig |-> head,
                        was |-> tip[head], stack |-> f \in meta, saw |-> Free]
      OBVIOUS
    <3>2. head \in Refs /\ tip[head] \in Tips /\ Free \in Locks /\ "claim" \in Pcs
      BY <2>1 DEF StartSync, CheckoutInv, TypeOK, Heads, Locks, Pcs
    <3>3. c \in Commands
      BY <3>1, <3>2 DEF Commands
    <3> QED
      BY <2>1, <3>1, <3>3 DEF StartSync, Still
  <2>2. ASSUME NEW verb, Command(p, f, verb, "claim"),
               verb = "rename" \/ (verb \in {"continue", "abort"} /\ tx[f] # NoTx)
        PROVE  \E c \in Commands : /\ c.pc = "claim" /\ cmd' = [cmd EXCEPT ![p] = c]
                                   /\ UNCHANGED <<world, files, count, locks>>
    <3>1. PICK c : c = [pc |-> "claim", verb |-> verb, f |-> f, run |-> tx[f].run, saw |-> Free]
      OBVIOUS
    <3>2. Free \in Locks /\ "claim" \in Pcs
      BY DEF Locks, Pcs
    <3>3. c \in Commands
      BY <1>2, <2>2, <3>1, <3>2 DEF Commands
    <3> QED
      BY <2>2, <3>1, <3>3 DEF Command, Still
  <2> QED
    BY <1>1, <2>1, <2>2 DEF StartContinue, StartAbort, StartRename
<1>4. Admits(c)'
  BY <1>3 DEF Admits, Renaming, Working, Onward, Mid, Backward, Undoing
<1>5. "claim" \notin Inside /\ "claim" \in Waiting /\ "claim" \notin Working \cup {"remove"}
  BY DEF Inside, Renaming, Waiting, Working, Onward, Mid, Backward, Undoing
<1>6. /\ runs' \in Nat /\ kills' \in Nat /\ lock' = lock /\ lock' \in Locks
      /\ flock' \in [Features -> {"none", Dead} \cup Terminals]
  BY <1>3 DEF count, locks, CheckoutInv, TypeOK
<1> QED
  BY <1>3, <1>4, <1>5, <1>6, OnStep
-----------------------------------------------------------------------------
(* Taking and releasing the locks.                                          *)

\* Nobody is inside under a lock that is free, or that a dead process left.
LEMMA NobodyInside ==
  ASSUME CheckoutInv, lock.pid \notin Terminals
  PROVE  \A q \in Terminals : cmd[q].pc \notin Inside
  BY DEF CheckoutInv, LocksInv, LockOK

\* The lock that is free is taken by one command.
LEMMA TakeStep ==
  ASSUME CheckoutInv, NEW p \in Terminals, cmd[p].pc # "idle", lock = Free,
         Take(p), UNCHANGED <<world, files, kills>>
  PROVE  CheckoutInv'
<1>1. /\ runs \in Nat /\ kills' \in Nat /\ lock \in Locks
      /\ flock \in [Features -> {"none", Dead} \cup Terminals] /\ cmd[p] \in Commands
  BY DEF CheckoutInv, TypeOK
<1>2. \A q \in Terminals : cmd[q].pc \notin Inside
  BY NobodyInside, PlanFacts DEF Free
<1>3. CASE Refuse(p) /\ UNCHANGED runs
  BY <1>3, RefuseStep DEF count
<1>4. CASE /\ Reserved(p) /\ lock' = Mine(p) /\ UNCHANGED flock
           /\ runs' = IF Fresh(p) THEN runs + 1 ELSE runs
           /\ cmd' = [cmd EXCEPT ![p].pc = "feature-lock", ![p].run = Mine(p).run]
  <2>1. PICK r : r = Mine(p).run
    OBVIOUS
  <2>2. PICK c : c = [cmd[p] EXCEPT !.pc = "feature-lock", !.run = r]
    OBVIOUS
  <2>3. /\ F(p) \in Features /\ cmd[p].verb \in {"sync", "continue", "abort", "rename"}
        /\ cmd[p].run \in Nat /\ (cmd[p].verb \in {"continue", "abort"} => cmd[p].run # 0)
    BY CommandFacts DEF CheckoutInv
  <2>4. r \in Nat /\ r # 0
    BY <1>1, <2>1, <2>3 DEF Mine
  <2>5. /\ lock' \in Locks /\ lock'.pid = p /\ lock'.run = r
    BY <1>4, <2>1, <2>3, <2>4 DEF Mine, Locks
  <2>6. /\ c \in Commands /\ c.pc = "feature-lock" /\ c.run = r /\ c.verb = cmd[p].verb
        /\ c.f = F(p)
    <3>1. "feature-lock" \in Pcs /\ "feature-lock" # "idle"
      BY DEF Pcs, Inside
    <3>2. CASE cmd[p] \in [pc : Pcs, verb : {"sync"}, f : Features, run : Nat, orig : Refs,
                           was : Tips, stack : BOOLEAN, saw : Locks]
      BY <2>2, <2>4, <3>1, <3>2 DEF Commands, F
    <3>3. CASE cmd[p] \in [pc : Pcs, verb : {"continue", "abort"}, f : Features,
                           run : Nat \ {0}, saw : Locks]
      BY <2>2, <2>4, <3>1, <3>3 DEF Commands, F
    <3>4. CASE cmd[p] \in [pc : Pcs, verb : {"rename"}, f : Features, run : Nat, saw : Locks]
      BY <2>2, <2>4, <3>1, <3>4 DEF Commands, F
    <3> QED
      BY <1>1, <3>2, <3>3, <3>4 DEF Commands, Idle
  <2>7. cmd' = [cmd EXCEPT ![p] = c]
    BY <1>4, <2>1, <2>2
  <2>8. Fresh(p) => Pending = {} /\ moves = 0
    BY <1>4 DEF Reserved, Recoverable
  <2>9. ~Fresh(p) => Pending \subseteq {F(p)} /\ moves = 0
    BY <1>4 DEF Reserved
  <2>10. Admits(c)'
    <3>1. Pending' = Pending /\ moves' = moves
      BY DEF files, Pending
    <3> QED
      BY <2>6, <2>8, <2>9, <3>1, PcFacts DEF Admits, Fresh, Renaming
  <2>11. /\ runs' \in Nat /\ flock' \in [Features -> {"none", Dead} \cup Terminals]
         /\ "feature-lock" \in Stoppable /\ "feature-lock" # "unlink"
         /\ "feature-lock" \notin Working \cup {"remove"}
    BY <1>1, <1>4, PcFacts DEF Stoppable
  <2> QED
    BY <1>1, <1>2, <2>4, <2>5, <2>6, <2>7, <2>10, <2>11, OnStep
<1> QED
  BY <1>3, <1>4 DEF Take

\* A command takes the lock, or reads who has it.
LEMMA ClaimStep == ASSUME CheckoutInv, NEW p \in Terminals, Claim(p) PROVE CheckoutInv'
<1>1. cmd[p].pc = "claim" /\ cmd[p].pc # "idle"
  BY DEF Claim, At
<1>2. CASE lock = Free /\ Take(p)
  BY <1>1, <1>2, TakeStep DEF Claim
<1>3. CASE Refuse(p) /\ UNCHANGED runs
  BY <1>3, RefuseStep DEF Claim, count
<1>4. CASE /\ lock # Free /\ ~Taken(p) /\ UNCHANGED <<runs, locks>>
           /\ cmd' = [cmd EXCEPT ![p].pc = "unlink", ![p].saw = lock]
  <2>1. PICK l : l = lock
    OBVIOUS
  <2>2. PICK c : c = [cmd[p] EXCEPT !.pc = "unlink", !.saw = l]
    OBVIOUS
  <2>3. l \in Locks /\ l.pid = Dead /\ cmd[p] \in Commands
    BY <1>4, <2>1 DEF Taken, CheckoutInv, TypeOK
  <2>4. c \in Commands /\ c.pc = "unlink" /\ c.saw = l
    <3>1. "unlink" \in Pcs
      BY DEF Pcs
    <3>2. CASE cmd[p] \in [pc : Pcs, verb : {"sync"}, f : Features, run : Nat, orig : Refs,
                           was : Tips, stack : BOOLEAN, saw : Locks]
      BY <2>2, <2>3, <3>1, <3>2 DEF Commands
    <3>3. CASE cmd[p] \in [pc : Pcs, verb : {"continue", "abort"}, f : Features,
                           run : Nat \ {0}, saw : Locks]
      BY <2>2, <2>3, <3>1, <3>3 DEF Commands
    <3>4. CASE cmd[p] \in [pc : Pcs, verb : {"rename"}, f : Features, run : Nat, saw : Locks]
      BY <2>2, <2>3, <3>1, <3>4 DEF Commands
    <3> QED
      BY <1>1, <2>3, <3>2, <3>3, <3>4 DEF Commands, Idle
  <2>5. cmd' = [cmd EXCEPT ![p] = c]
    BY <1>4, <2>1, <2>2
  <2>6. /\ runs' \in Nat /\ kills' \in Nat /\ lock' = lock /\ lock' \in Locks
        /\ flock' \in [Features -> {"none", Dead} \cup Terminals]
        /\ UNCHANGED <<world, files>>
    BY <1>4 DEF Claim, locks, CheckoutInv, TypeOK
  <2>7. Admits(c)'
    BY <2>4, PcFacts DEF Admits, Renaming, Inside
  <2>8. "unlink" \in Waiting /\ "unlink" \notin Working \cup {"remove"}
    BY PcFacts DEF Waiting
  <2> QED
    BY <2>3, <2>4, <2>5, <2>6, <2>7, <2>8, PcFacts, OnStep
<1> QED
  BY <1>2, <1>3, <1>4 DEF Claim

\* A command goes on, and stays what it is.
LEMMA GoStep ==
  ASSUME CheckoutInv, NEW p \in Terminals, cmd[p].pc # "idle",
         UNCHANGED <<world, files, count>>,
         NEW s \in Pcs, Go(p, s),
         lock' \in Locks, flock' \in [Features -> {"none", Dead} \cup Terminals],
         \A q \in Terminals : q # p /\ cmd[q].pc \in Inside => lock' = lock,
         s \in Inside => cmd[p].pc \in Inside /\ lock' = lock, s # "unlink",
         \A c : c.pc = s /\ c.verb = cmd[p].verb /\ c.f = F(p) => Admits(c),
         s \notin Working \cup {"remove"} \/ Knows(s, cmd[p].verb, X(p), F(p)),
         Rebasing => s \in Waiting \cup Stoppable
  PROVE  CheckoutInv'
<1>1. PICK c : c = cmd'[p]
  OBVIOUS
<1>2. /\ cmd' \in [Terminals -> Commands] /\ c.pc = s /\ c.verb = cmd[p].verb /\ c.f = F(p)
      /\ c.run = cmd[p].run /\ \A q \in Terminals : q # p => cmd'[q] = cmd[q]
  BY <1>1, GoFacts DEF CheckoutInv, F
<1>3. c \in Commands /\ cmd' = [cmd EXCEPT ![p] = c]
  BY <1>1, <1>2 DEF CheckoutInv, TypeOK
<1>4. Admits(c)'
  <2>1. Admits(c)
    BY <1>2
  <2>2. Pending' = Pending /\ UNCHANGED <<moves, home, reg, tx>>
    BY DEF files, Pending
  <2> QED
    BY <2>1, <2>2 DEF Admits
<1>5. c.pc \in Inside => lock'.pid = p /\ lock'.run = c.run /\ c.run # 0
  BY <1>2 DEF CheckoutInv, LocksInv, LockOK
<1>6. runs' \in Nat /\ kills' \in Nat
  BY DEF count, CheckoutInv, TypeOK
<1> QED
  BY <1>2, <1>3, <1>4, <1>5, <1>6, OnStep DEF X

\* The lock of a dead owner is removed, unless it is another one by now.
LEMMA UnlinkStep == ASSUME CheckoutInv, NEW p \in Terminals, Unlink(p) PROVE CheckoutInv'
<1>1. cmd[p].pc = "unlink" /\ cmd[p].pc # "idle" /\ UNCHANGED <<world, files, count>>
  BY DEF Unlink, At, Still
<1>2. CASE Refuse(p)
  BY <1>1, <1>2, RefuseStep
<1>3. CASE /\ lock # Free /\ lock = cmd[p].saw /\ lock' = Free
           /\ Go(p, "relock") /\ UNCHANGED flock
  <2>1. \A q \in Terminals : cmd[q].pc \notin Inside
    <3>1. lock.pid = Dead
      BY <1>1, <1>3 DEF CheckoutInv, LocksInv, LockOK
    <3> QED
      BY <3>1, NobodyInside, PlanFacts
  <2>2. /\ lock' \in Locks /\ flock' \in [Features -> {"none", Dead} \cup Terminals]
        /\ "relock" \in Pcs /\ "relock" \notin Inside /\ "relock" \in Waiting
        /\ "relock" \notin Working \cup {"remove"}
    BY <1>3 DEF Locks, CheckoutInv, TypeOK, Pcs, Inside, Renaming, Waiting, Working,
           Onward, Mid,
                Backward, Undoing
  <2>3. \A c : c.pc = "relock" => Admits(c)
    BY <2>2 DEF Admits, Inside
  <2> QED
    BY <1>1, <1>3, <2>1, <2>2, <2>3, GoStep
<1> QED
  BY <1>2, <1>3 DEF Unlink

\* The lock that was removed is taken, or lost to a faster command.
LEMMA RelockStep == ASSUME CheckoutInv, NEW p \in Terminals, Relock(p) PROVE CheckoutInv'
<1>1. cmd[p].pc # "idle"
  BY DEF Relock, At
<1>2. CASE lock = Free /\ Take(p)
  BY <1>1, <1>2, TakeStep DEF Relock
<1>3. CASE Refuse(p) /\ UNCHANGED runs
  BY <1>3, RefuseStep DEF Relock, count
<1> QED
  BY <1>2, <1>3 DEF Relock

\* A command that ends gives its lock back.
LEMMA UnlockStep ==
  ASSUME CheckoutInv, NEW p \in Terminals, cmd[p].pc \in Inside, Unlocked(p),
         cmd' = [cmd EXCEPT ![p] = Idle], UNCHANGED flock, Still
  PROVE  CheckoutInv'
<1>1. \A q \in Terminals : q # p => cmd[q].pc \notin Inside
  BY Alone DEF CheckoutInv
<1>2. lock' \in Locks /\ flock' \in [Features -> {"none", Dead} \cup Terminals]
  BY DEF Unlocked, Locks, CheckoutInv, TypeOK
<1>3. /\ runs' \in Nat /\ kills' \in Nat /\ dirty' \in BOOLEAN
      /\ UNCHANGED <<tip, head, stopped, remote, tested, files>>
  BY DEF Still, count, world, CheckoutInv, TypeOK
<1> QED
  BY <1>1, <1>2, <1>3, EndStep

\* The feature's own lock is taken, or the command gives the first one back.
LEMMA FeatureLockStep ==
  ASSUME CheckoutInv, NEW p \in Terminals, FeatureLock(p)
  PROVE  CheckoutInv'
<1>1. /\ cmd[p].pc = "feature-lock" /\ cmd[p].pc \in Inside /\ cmd[p].pc # "idle"
      /\ UNCHANGED <<world, files, count>>
  BY PcFacts DEF FeatureLock, At, Still, Inside
<1>2. Admits(cmd[p]) /\ F(p) \in Features /\ F(p) = cmd[p].f
  BY <1>1, CommandFacts DEF CheckoutInv, LocksInv, AdmittedOK, F
<1>3. CASE Unlocked(p) /\ cmd' = [cmd EXCEPT ![p] = Idle] /\ UNCHANGED flock
  BY <1>1, <1>3, UnlockStep DEF Still
<1>4. PICK s : s = IF cmd[p].verb = "rename" THEN "evidence"
                   ELSE IF Fresh(p) THEN "birth" ELSE "reload"
  OBVIOUS
<1>5. ASSUME Go(p, s), UNCHANGED lock, flock' \in [Features -> {"none", Dead} \cup Terminals]
      PROVE  CheckoutInv'
  <2>1. lock' \in Locks /\ lock' = lock
    BY <1>5 DEF CheckoutInv, TypeOK
  <2>2. s \in Inside /\ s \in Pcs /\ s \notin Working \cup {"remove"} /\ s # "unlink"
    BY <1>4, PcFacts DEF Inside, Renaming
  <2>3. \A c : c.pc = s /\ c.verb = cmd[p].verb /\ c.f = F(p) => Admits(c)
    <3> SUFFICES ASSUME NEW c, c.pc = s, c.verb = cmd[p].verb, c.f = F(p) PROVE Admits(c)
      OBVIOUS
    <3>1. Fresh(p) <=> cmd[p].verb \in {"sync", "rename"}
      BY DEF Fresh
    <3>2. s = "birth" => cmd[p].verb = "sync"
      BY <1>4, <3>1
    <3> QED
      BY <1>1, <1>2, <1>4, <2>2, <3>1, <3>2 DEF Admits, Renaming
  <2>4. Rebasing => s \in Stoppable
    <3>1. Rebasing => Pending # {}
      BY DEF CheckoutInv, RebaseOK
    <3>2. Fresh(p) => Pending = {}
      BY <1>1, <1>2 DEF Admits, Fresh
    <3> QED
      BY <1>4, <3>1, <3>2 DEF Stoppable, Fresh
  <2> QED
    BY <1>1, <1>5, <2>1, <2>2, <2>3, <2>4, GoStep
<1>6. CASE cmd[p].verb = "rename" /\ Go(p, "evidence") /\ UNCHANGED locks
  BY <1>4, <1>5, <1>6 DEF locks, CheckoutInv, TypeOK
<1>7. CASE /\ cmd[p].verb # "rename" /\ Go(p, IF Fresh(p) THEN "birth" ELSE "reload")
           /\ flock' = [flock EXCEPT ![F(p)] = p] /\ UNCHANGED lock
  <2>1. flock' \in [Features -> {"none", Dead} \cup Terminals]
    BY <1>7 DEF CheckoutInv, TypeOK
  <2> QED
    BY <1>4, <1>5, <1>7, <2>1
<1> QED
  BY <1>3, <1>6, <1>7 DEF FeatureLock

\* The feature's lock is given back.
LEMMA ReleaseFeatureStep ==
  ASSUME CheckoutInv, NEW p \in Terminals, ReleaseFeature(p) PROVE CheckoutInv'
<1>1. /\ cmd[p].pc = "release" /\ cmd[p].pc \in Inside /\ cmd[p].pc # "idle"
      /\ UNCHANGED <<world, files, count>> /\ Go(p, "unlock")
  BY DEF ReleaseFeature, At, Still, Inside
<1>2. lock' \in Locks /\ lock' = lock /\ flock' \in [Features -> {"none", Dead} \cup Terminals]
  BY DEF ReleaseFeature, CheckoutInv, TypeOK
<1>3. "unlock" \in Inside /\ "unlock" \in Pcs /\ "unlock" \notin Working \cup {"remove"}
  BY PcFacts DEF Inside
<1>4. \A c : c.pc = "unlock" => Admits(c)
  BY <1>3, PcFacts DEF Admits
<1>5. ~Rebasing
  BY <1>1, PcFacts DEF CheckoutInv, RebaseOK
<1> QED
  BY <1>1, <1>2, <1>3, <1>4, <1>5, GoStep

\* The workspace-wide lock is given back.
LEMMA ReleaseMutationStep ==
  ASSUME CheckoutInv, NEW p \in Terminals, ReleaseMutation(p) PROVE CheckoutInv'
<1>1. cmd[p].pc \in Inside
  BY DEF ReleaseMutation, At, Inside
<1> QED
  BY <1>1, UnlockStep DEF ReleaseMutation
-----------------------------------------------------------------------------
(* A journal is read again, born and removed; a feature is renamed.         *)

\* A recovery reads its journal again under the locks.
LEMMA ReloadStep == ASSUME CheckoutInv, NEW p \in Terminals, Reload(p) PROVE CheckoutInv'
<1>1. /\ cmd[p].pc = "reload" /\ cmd[p].pc \in Inside /\ cmd[p].pc # "idle"
      /\ UNCHANGED <<world, files, count>>
  BY PcFacts DEF Reload, At, Still, Inside
<1>2. PICK x, v, f : x = X(p) /\ v = cmd[p].verb /\ f = F(p)
  OBVIOUS
<1>3. /\ Admits(cmd[p]) /\ f \in Features /\ x \in {NoTx} \cup Journals
      /\ v \in {"continue", "abort"} /\ cmd[p].run # 0 /\ tx[f] = x /\ f = cmd[p].f
  <2>1. Admits(cmd[p])
    BY DEF CheckoutInv, LocksInv, AdmittedOK
  <2>2. v \in {"continue", "abort"}
    BY <1>1, <1>2, <2>1, CommandFacts DEF CheckoutInv, Admits
  <2> QED
    BY <1>1, <1>2, <2>1, <2>2, CommandFacts DEF CheckoutInv, X, F
<1>4. x # NoTx => Kept(f) /\ f \in Pending
  BY <1>3 DEF CheckoutInv, JournalOK, Kept, Pending
<1>5. CASE Stop(p)
  <2>1. runs' \in Nat /\ kills' \in Nat
    BY <1>1 DEF count, CheckoutInv, TypeOK
  <2> QED
    BY <1>1, <1>5, <2>1, StopElsewhere
<1>6. ASSUME x # NoTx, NEW s, Go(p, s), UNCHANGED locks,
             \/ s = "remove" /\ x.done
             \/ s = "reconcile" /\ ~x.done /\ (v = "abort" => ~x.pub)
             \/ s = "preflight" /\ ~x.done /\ v = "abort" /\ ~x.pub
      PROVE  CheckoutInv'
  <2>1. s \in Working \cup {"remove"} /\ s \in Inside /\ s \in Pcs /\ s # "unlink"
    BY <1>6, PcFacts DEF Working, Backward
  <2>2. /\ lock' \in Locks /\ lock' = lock
        /\ flock' \in [Features -> {"none", Dead} \cup Terminals]
    BY <1>6 DEF locks, CheckoutInv, TypeOK
  <2>3. \A c : c.pc = s /\ c.verb = cmd[p].verb /\ c.f = F(p) => Admits(c)
    BY <1>2, <1>3, <1>6, <2>1, PcFacts DEF Admits, Renaming
  <2>4. Knows(s, v, x, f)
    <3>1. x.done \in BOOLEAN
      BY <1>3, <1>6 DEF Journals
    <3> QED
      BY <1>6, <3>1 DEF Knows, OnwardOK, BackwardOK, Onward, Mid, Backward, Undoing
  <2>5. Rebasing => s \in Stoppable
    <3>1. x.done => ~Rebasing
      BY <1>3, <1>4, <1>6 DEF Kept, FinalOK
    <3> QED
      BY <1>6, <3>1 DEF Stoppable
  <2> QED
    BY <1>1, <1>2, <1>6, <2>1, <2>2, <2>3, <2>4, <2>5, GoStep
<1>7. x.run = cmd[p].run =>
        x # NoTx /\ x \in Journals /\ x.done \in BOOLEAN /\ x.back \in BOOLEAN
  <2>1. x.run = cmd[p].run => x # NoTx
    BY <1>3, NoTxFacts
  <2>2. x # NoTx => x \in Journals
    BY <1>3
  <2> QED
    BY <2>1, <2>2 DEF Journals
<1> QED
  BY <1>2, <1>3, <1>5, <1>6, <1>7 DEF Reload

\* When nothing is left unfinished no command works on a journal.
LEMMA NothingPending ==
  ASSUME TypeOK', LocksInv', Pending' = {}, stopped' = Main PROVE CheckoutInv'
<1>1. JournalOK' /\ RebaseOK'
  BY DEF JournalOK, RebaseOK, Rebasing
<1>2. CommandOK'
  <2> SUFFICES ASSUME NEW q \in Terminals, cmd'[q].pc \in Working \cup {"remove"} PROVE FALSE
    BY DEF CommandOK
  <2>1. tx'[cmd'[q].f] # NoTx
    BY DEF LocksInv, AdmittedOK, Admits
  <2>2. cmd'[q].f \in Features
    <3>1. \A c \in Commands : c.pc # "idle" => c.f \in Features
      BY DEF Commands, Idle
    <3>2. cmd'[q] \in Commands /\ cmd'[q].pc # "idle"
      BY PcFacts DEF TypeOK
    <3> QED
      BY <3>1, <3>2
  <2> QED
    BY <2>1, <2>2 DEF Pending
<1> QED
  BY <1>1, <1>2 DEF CheckoutInv

\* A command inside goes on while, or until, nothing is left unfinished.
LEMMA SettledStep ==
  ASSUME CheckoutInv, NEW p \in Terminals, cmd[p].pc \in Inside,
         NEW s \in Inside, Go(p, s), UNCHANGED <<tip, head, stopped, dirty, remote, tested>>,
         UNCHANGED <<locks, count>>, ~Rebasing,
         meta' \subseteq Features, home' \subseteq Features, reg' \subseteq Features,
         moves' \in Nat, tx' \in [Features -> {NoTx} \cup Journals], Pending' = {},
         moves' = 0 => home' = reg',
         \A c : c.pc = s /\ c.verb = cmd[p].verb /\ c.f = F(p) => Admits(c)'
  PROVE  CheckoutInv'
<1>1. /\ cmd' \in [Terminals -> Commands] /\ cmd'[p].pc = s /\ cmd'[p].verb = cmd[p].verb
      /\ cmd'[p].f = F(p) /\ cmd'[p].run = cmd[p].run
      /\ \A q \in Terminals : q # p => cmd'[q] = cmd[q] /\ cmd[q].pc \notin Inside
  BY GoFacts, Alone, PcFacts DEF CheckoutInv, F
<1>2. TypeOK'
  BY <1>1 DEF CheckoutInv, TypeOK, locks, count
<1>3. LockOK'
  BY <1>1, PcFacts DEF CheckoutInv, LocksInv, LockOK, locks
<1>4. PendingOK'
  BY DEF PendingOK
<1>5. AdmittedOK'
  <2> SUFFICES ASSUME NEW q \in Terminals PROVE Admits(cmd[q])'
    BY DEF AdmittedOK
  <2>1. CASE q = p
    BY <1>1, <2>1
  <2>2. CASE q # p
    <3>1. cmd'[q].pc \notin Inside
      BY <1>1, <2>2
    <3>2. /\ Renaming \subseteq Inside /\ {"birth", "feature-lock", "reload"} \subseteq Inside
          /\ {"evidence", "move", "register", "commit-moves"} \subseteq Inside
      BY DEF Inside, Renaming
    <3> QED
      BY <3>1, <3>2, PcFacts DEF Admits
  <2> QED
    BY <2>1, <2>2
<1> QED
  BY <1>2, <1>3, <1>4, <1>5, NothingPending DEF LocksInv, Rebasing

\* A journal that is done is removed.
LEMMA RemoveStep == ASSUME CheckoutInv, NEW p \in Terminals, Remove(p) PROVE CheckoutInv'
<1>1. cmd[p].pc = "remove" /\ cmd[p].pc \in Inside /\ "release" \in Inside
  BY PcFacts DEF Remove, At, Inside
<1>2. /\ Pending = {F(p)} /\ X(p) \in Journals /\ moves = 0 /\ F(p) \in Features
      /\ cmd[p].pc # "idle" /\ tx[F(p)] = X(p)
  BY <1>1, Alone DEF CheckoutInv, X
<1>3. ~Rebasing
  <2>1. X(p).done
    BY <1>1 DEF CheckoutInv, CommandOK, Knows
  <2>2. FinalOK(F(p))
    BY <1>2 DEF CheckoutInv, JournalOK
  <2> QED
    BY <1>2, <2>1, <2>2 DEF FinalOK
<1>4. /\ tx' \in [Features -> {NoTx} \cup Journals] /\ tx'[F(p)] = NoTx
      /\ \A f \in Features : f # F(p) => tx'[f] = tx[f]
  BY <1>2, SetFacts DEF Remove, Save, CheckoutInv
<1>5. Pending' = {}
  BY <1>2, <1>4 DEF Pending
<1>6. /\ meta' = meta /\ home' = home /\ reg' = reg /\ moves' = moves /\ Go(p, "release")
      /\ meta \subseteq Features /\ home \subseteq Features /\ reg \subseteq Features
       /\ moves \in Nat
      /\ (moves = 0 => home = reg)
      /\ UNCHANGED <<tip, head, stopped, dirty, remote, tested>> /\ UNCHANGED <<locks, count>>
  BY DEF Remove, Save, world, CheckoutInv, TypeOK, LocksInv, PendingOK
<1>7. \A c : c.pc = "release" => Admits(c)'
  BY PcFacts DEF Admits
<1> QED
  BY <1>1, <1>3, <1>4, <1>5, <1>6, <1>7, SettledStep

\* Where a rename is, and what it has to do with.
LEMMA RenameFacts ==
  ASSUME CheckoutInv, NEW p \in Terminals, cmd[p].pc \in Renaming
  PROVE  /\ cmd[p].pc \in Inside /\ cmd[p].pc # "idle" /\ F(p) \in Features /\ F(p) = cmd[p].f
         /\ Pending = {} /\ ~Rebasing /\ cmd[p].verb = "rename" /\ Admits(cmd[p])
         /\ cmd[p].run \in Nat /\ cmd[p].run # 0
         /\ tx \in [Features -> {NoTx} \cup Journals] /\ meta \subseteq Features
         /\ home \subseteq Features /\ reg \subseteq Features
       /\ moves \in Nat
         /\ (moves = 0 => home = reg)
<1>1. cmd[p].pc \in Inside /\ cmd[p].pc # "idle" /\ F(p) = cmd[p].f
  BY PcFacts DEF Inside, F
<1>2. Admits(cmd[p]) /\ cmd[p].run # 0
  BY <1>1 DEF CheckoutInv, LocksInv, AdmittedOK, LockOK
<1>3. cmd[p].verb = "rename" /\ Pending = {}
  BY <1>2 DEF Admits, Renaming
<1>4. ~Rebasing
  BY <1>3 DEF CheckoutInv, RebaseOK
<1> QED
  BY <1>1, <1>2, <1>3, <1>4, CommandFacts DEF CheckoutInv, TypeOK, LocksInv, PendingOK

\* The steps of a rename: evidence, directory, registry, end of the evidence.
LEMMA RenameStep == ASSUME CheckoutInv, NEW p \in Terminals, Rename(p) PROVE CheckoutInv'
<1>1. /\ cmd[p].pc \in Renaming
      /\ {"move", "register", "commit-moves", "unlock"} \subseteq Inside
      /\ UNCHANGED <<tip, head, stopped, dirty, remote, tested>> /\ UNCHANGED <<locks, count>>
      /\ meta' = meta /\ tx' = tx
  BY DEF Rename, Evidence, MoveFeature, Register, CommitMoves, At, Renaming, Inside, world
<1>2. /\ cmd[p].pc \in Inside /\ F(p) \in Features /\ Pending' = {} /\ ~Rebasing
      /\ Admits(cmd[p]) /\ F(p) = cmd[p].f /\ Pending = {} /\ cmd[p].verb = "rename"
      /\ tx' \in [Features -> {NoTx} \cup Journals] /\ meta' \subseteq Features
      /\ home \subseteq Features /\ reg \subseteq Features
       /\ moves \in Nat
      /\ (moves = 0 => home = reg) /\ cmd[p].run \in Nat /\ cmd[p].run # 0
  BY <1>1, RenameFacts DEF Pending
<1>3. CASE Evidence(p)
  <2>1. cmd[p].pc = "evidence" /\ home' = home /\ reg' = reg /\ moves = 0
    BY <1>2, <1>3 DEF Evidence, At, Admits
  <2>2. CASE F(p) \in home /\ moves' = cmd[p].run /\ Go(p, "move")
    <3>1. \A c : c.pc = "move" /\ c.verb = cmd[p].verb /\ c.f = F(p) => Admits(c)'
      BY <1>2, <2>1, <2>2, PcFacts DEF Admits, Renaming
    <3> QED
      BY <1>1, <1>2, <2>1, <2>2, <3>1, SettledStep
  <2>3. CASE Go(p, "unlock") /\ moves' = moves
    <3>1. \A c : c.pc = "unlock" => Admits(c)'
      BY PcFacts DEF Admits
    <3> QED
      BY <1>1, <1>2, <2>1, <2>3, <3>1, SettledStep
  <2> QED
    BY <1>3, <2>2, <2>3 DEF Evidence
<1>4. CASE MoveFeature(p)
  <2>1. /\ cmd[p].pc = "move" /\ home' = home \ {F(p)} /\ reg' = reg /\ moves' = moves
        /\ moves # 0 /\ Go(p, "register") /\ F(p) \in home /\ home = reg
    BY <1>2, <1>4 DEF MoveFeature, At, Admits
  <2>2. \A c : c.pc = "register" /\ c.verb = cmd[p].verb /\ c.f = F(p) => Admits(c)'
    BY <1>2, <2>1, PcFacts DEF Admits, Renaming
  <2> QED
    BY <1>1, <1>2, <2>1, <2>2, SettledStep
<1>5. CASE Register(p)
  <2>1. /\ cmd[p].pc = "register" /\ moves' = moves /\ moves # 0 /\ Go(p, "commit-moves")
        /\ home' = reg' /\ home' \subseteq Features /\ reg' \subseteq Features
    BY <1>2, <1>5 DEF Register, At, Admits
  <2>2. \A c : c.pc = "commit-moves" /\ c.verb = cmd[p].verb /\ c.f = F(p) => Admits(c)'
    BY <1>2, <2>1, PcFacts DEF Admits, Renaming
  <2> QED
    BY <1>1, <1>2, <2>1, <2>2, SettledStep
<1>6. CASE CommitMoves(p)
  <2>1. /\ cmd[p].pc = "commit-moves" /\ moves' = 0 /\ Go(p, "unlock")
        /\ home' = home /\ reg' = reg /\ home = reg
    BY <1>2, <1>6 DEF CommitMoves, At, Admits
  <2>2. \A c : c.pc = "unlock" => Admits(c)'
    BY PcFacts DEF Admits
  <2> QED
    BY <1>1, <1>2, <2>1, <2>2, SettledStep
<1> QED
  BY <1>3, <1>4, <1>5, <1>6 DEF Rename

\* A journal is born with the branches as they are.
LEMMA BirthStep == ASSUME CheckoutInv, NEW p \in Terminals, Birth(p) PROVE CheckoutInv'
<1>1. /\ cmd[p].pc = "birth" /\ cmd[p].pc \in Inside /\ cmd[p].pc # "idle"
      /\ UNCHANGED <<tip, head, stopped, dirty>> /\ UNCHANGED <<locks, count>>
      /\ {"release", "pin"} \subseteq Inside /\ "pin" \in Working \ Stoppable
  BY PcFacts DEF Birth, At, Inside, Working, Onward, Stoppable
<1>2. PICK f \in Features : f = F(p) /\ f = cmd[p].f
  BY <1>1, CommandFacts DEF CheckoutInv, F
<1>3. /\ Admits(cmd[p]) /\ cmd[p].verb = "sync" /\ Pending = {} /\ moves = 0
      /\ cmd[p].run \in Nat \ {0} /\ cmd[p].orig \in Refs /\ cmd[p].was \in Tips
  <2>1. Admits(cmd[p]) /\ cmd[p].run # 0
    BY <1>1 DEF CheckoutInv, LocksInv, AdmittedOK, LockOK
  <2>2. cmd[p].verb = "sync" /\ Pending = {} /\ moves = 0
    BY <1>1, <2>1 DEF Admits
  <2> QED
    BY <1>1, <2>1, <2>2, CommandFacts DEF CheckoutInv
<1>4. /\ ~Rebasing /\ home = reg /\ meta \subseteq Features /\ home \subseteq Features
      /\ tx \in [Features -> {NoTx} \cup Journals] /\ WorldType
  BY <1>3 DEF CheckoutInv, RebaseOK, LocksInv, PendingOK, TypeOK, WorldType
<1>5. CASE Go(p, "release") /\ UNCHANGED <<files, tested, remote>>
  <2>1. /\ meta' = meta /\ home' = home /\ reg' = reg /\ moves' = moves /\ tx' = tx
        /\ Pending' = {} /\ moves' \in Nat /\ home' = reg' /\ UNCHANGED <<tested, remote>>
    BY <1>3, <1>4, <1>5 DEF files, Pending
  <2>2. \A c : c.pc = "release" => Admits(c)'
    BY PcFacts DEF Admits
  <2> QED
    BY <1>1, <1>4, <1>5, <2>1, <2>2, SettledStep
<1>6. ASSUME f \in home, NEW y, NEW had \in BOOLEAN,
             y = [run |-> cmd[p].run, orig |-> cmd[p].orig, was |-> cmd[p].was,
                  first |-> head, at |-> head, want |-> "", pre |-> tip, moved |-> {},
                  had |-> had, ready |-> FALSE, i |-> 1,
                  stage |-> "planned", act |-> "none", on |-> Main, val |-> "none",
                  back |-> FALSE, undo |-> FALSE, restored |-> {}, pub |-> FALSE,
                  pushed |-> {}, done |-> FALSE],
             Save(p, y, "pin"), tested' = tested \ InPlan(f), remote' = remote \ InPlan(f)
      PROVE  CheckoutInv'
  <2>1. y \in Journals /\ y # NoTx
    <3>1. /\ Main \in Refs /\ {} \in SUBSET Refs /\ {} \in SUBSET Branches
          /\ {} \in SUBSET {"refs", "meta"} /\ head \in Heads /\ tip \in [Refs -> Tips]
      BY <1>4 DEF Refs, WorldType
    <3>2. 1 \in Nat \ {0} /\ FALSE \in BOOLEAN /\ cmd[p].run \in Nat \ {0}
      BY <1>3
    <3>3. y \in Journals
      BY <1>3, <1>6, <3>1, <3>2 DEF Journals
    <3> QED
      BY <3>3, NoTxFacts
  <2>2. /\ y.stage = "planned" /\ y.want = "" /\ y.back = FALSE
        /\ y.restored = {} /\ y.moved = {}
        /\ y.pub = FALSE /\ y.done = FALSE /\ y.pushed = {} /\ y.i = 1
    BY <1>6
  <2>3. Set(p, y) /\ Go(p, "pin") /\ UNCHANGED <<meta, home, reg, moves>>
    BY <1>6 DEF Save
  <2>4. /\ tx'[f] = y /\ \A g \in Features : g # f => tx'[g] = tx[g]
        /\ tx' \in [Features -> {NoTx} \cup Journals]
    BY <1>1, <1>2, <2>3, <2>1, SetFacts DEF CheckoutInv
  <2>5. Pending' = {f}
    BY <1>3, <2>1, <2>4 DEF Pending
  <2>6. /\ cmd' \in [Terminals -> Commands] /\ cmd'[p].pc = "pin" /\ cmd'[p].verb = "sync"
        /\ cmd'[p].f = f /\ cmd'[p].run = cmd[p].run
        /\ \A q \in Terminals : q # p => cmd'[q] = cmd[q] /\ cmd[q].pc \notin Inside
    BY <1>1, <1>2, <1>3, <1>6, GoFacts, Alone, PcFacts DEF CheckoutInv, Save
  <2>7. TypeOK'
    BY <1>1, <1>4, <1>6, <2>4, <2>6
       DEF CheckoutInv, TypeOK, WorldType, locks, count, Save
  <2>8. LockOK'
    BY <1>1, <2>6, PcFacts DEF CheckoutInv, LocksInv, LockOK, locks
  <2>9. PendingOK'
    BY <1>3, <1>4, <1>6, <2>5 DEF PendingOK, Save
  <2>10. AdmittedOK'
    <3> SUFFICES ASSUME NEW q \in Terminals PROVE Admits(cmd[q])'
      BY DEF AdmittedOK
    <3>1. CASE q = p
      BY <1>1, <2>1, <2>4, <2>6, <3>1, PcFacts DEF Admits
    <3>2. CASE q # p
      <4>1. cmd'[q].pc \notin Inside
        BY <2>6, <3>2
      <4>2. /\ Renaming \subseteq Inside /\ {"birth", "feature-lock", "reload"} \subseteq Inside
            /\ {"evidence", "move", "register", "commit-moves"} \subseteq Inside
        BY DEF Inside, Renaming
      <4> QED
        BY <4>1, <4>2, PcFacts DEF Admits
    <3> QED
      BY <3>1, <3>2
  <2>11. JournalOK'
    <3>1. Ahead(f)' = InPlan(f)
      <4>1. Plan[f] \in Seq(InPlan(f))
        BY CheckoutAssumption DEF CheckoutAssumption
      <4>2. DOMAIN Plan[f] = 1 .. Last(f)
        BY <4>1 DEF Last
      <4> QED
        BY <2>2, <2>4, <4>2 DEF Ahead, InPlan
    <3>2. StageOK(f)' /\ ForwardOK(f)' /\ FinalOK(f)'
      BY <2>2, <2>4, <3>1 DEF StageOK, ForwardOK, FinalOK, MidStages, Late
    <3> QED
      BY <2>5, <3>2 DEF JournalOK
  <2>12. RebaseOK'
    BY <1>1, <1>4 DEF RebaseOK, Rebasing
  <2>13. CommandOK'
    <3> SUFFICES ASSUME NEW q \in Terminals, cmd'[q].pc \in Working \cup {"remove"}
                 PROVE  Carried(q)'
      BY DEF CommandOK, Carried
    <3>1. q = p
      BY <2>6, PcFacts
    <3>2. Knows("pin", "sync", y, f)'
      BY <2>2 DEF Knows, OnwardOK, BackwardOK, Onward, Mid, Backward, Undoing
    <3> QED
      BY <2>4, <2>6, <3>1, <3>2 DEF Carried, X, F
  <2> QED
    BY <2>7, <2>8, <2>9, <2>10, <2>11, <2>12, <2>13 DEF CheckoutInv, LocksInv
<1>7. PICK had \in BOOLEAN : had = (f \in meta)
  <2>1. (f \in meta) \in BOOLEAN
    OBVIOUS
  <2> QED
    BY <2>1, Zenon
<1> QED
  BY <1>2, <1>5, <1>6, <1>7 DEF Birth
-----------------------------------------------------------------------------
(* People.                                                                  *)

\* The working tree is modified, or put aside.
LEMMA DirtyStep ==
  ASSUME CheckoutInv, dirty' \in BOOLEAN,
         UNCHANGED <<tip, head, stopped, remote, tested, files, locks, cmd, count>>
  PROVE  CheckoutInv'
<1>1. /\ tip' = tip /\ head' = head /\ stopped' = stopped /\ remote' = remote
      /\ tested' = tested /\ meta' = meta /\ home' = home /\ reg' = reg /\ tx' = tx
      /\ moves' = moves /\ cmd' = cmd /\ lock' = lock /\ flock' = flock /\ runs' = runs
      /\ kills' = kills /\ (Rebasing' <=> Rebasing) /\ Pending' = Pending
  BY DEF files, Rebasing, Pending, locks, count
<1>2. TypeOK'
  BY <1>1 DEF CheckoutInv, TypeOK
<1>3. LockOK' /\ PendingOK'
  BY <1>1 DEF CheckoutInv, LocksInv, LockOK, PendingOK
<1>4. AdmittedOK'
  BY <1>1 DEF CheckoutInv, LocksInv, AdmittedOK, Admits
<1>5. JournalOK'
  <2> SUFFICES ASSUME NEW f \in Pending PROVE Kept(f)'
    BY <1>1 DEF JournalOK, Kept
  <2>1. PICK x : x = tx[f] /\ x = tx'[f]
    BY <1>1
  <2>2. Kept(f)
    BY DEF CheckoutInv, JournalOK, Kept
  <2>3. Quiet(x, x, f)
    BY <2>1, <2>2, QuietSame DEF Same
  <2> QED
    BY <1>1, <2>1, <2>2, <2>3, QuietKept
<1>6. RebaseOK'
  BY <1>1 DEF CheckoutInv, RebaseOK
<1>7. CommandOK'
  <2> SUFFICES ASSUME NEW q \in Terminals, cmd[q].pc \in Working \cup {"remove"}
               PROVE  Carried(q)'
    BY <1>1 DEF CommandOK, Carried
  <2>1. PICK s, v, x, f : /\ s = cmd[q].pc /\ v = cmd[q].verb /\ x = X(q) /\ f = F(q)
                          /\ Knows(s, v, x, f)
    BY DEF CheckoutInv, CommandOK
  <2>2. Knows(s, v, x, f)'
    BY <1>1, <2>1, QuietKnows
  <2>3. X(q)' = X(q) /\ F(q)' = F(q)
    BY <1>1 DEF X, F
  <2> QED
    BY <1>1, <2>1, <2>2, <2>3 DEF Carried
<1> QED
  BY <1>2, <1>3, <1>4, <1>5, <1>6, <1>7 DEF CheckoutInv, LocksInv

\* The user ends a stopped rebase, one way or the other.
LEMMA EndRebaseStep == ASSUME CheckoutInv, EndRebase PROVE CheckoutInv'
<1>1. PICK f \in Pending : /\ tx[f].stage \in {"rebasing", "conflict"}
                           /\ Plan[f][tx[f].i] = stopped /\ tx[f].want = "" /\ ~tx[f].done
  BY DEF EndRebase, CheckoutInv, RebaseOK
<1>2. PICK x \in Journals, r \in Refs :
        x = tx[f] /\ r = stopped /\ f \in Features /\ Kept(f) /\ Pending = {f} /\ r \in Ahead(f)
  <2>1. f \in Features /\ tx[f] \in Journals /\ stopped \in Refs
    BY DEF Pending, CheckoutInv, TypeOK
  <2>2. Kept(f) /\ Pending = {f}
    BY DEF CheckoutInv, JournalOK, Kept, LocksInv, PendingOK
  <2>3. tx[f].i =< Last(f)
    BY <1>1, <2>2 DEF Kept, StageOK, MidStages
  <2>4. tx[f].i \in tx[f].i .. Last(f)
    <3>1. tx[f].i \in Nat /\ Last(f) \in Nat
      BY <2>1, PlanFacts DEF Journals
    <3> QED
      BY <2>3, <3>1
  <2>5. stopped \in Ahead(f)
    BY <1>1, <2>4 DEF Ahead
  <2> QED
    BY <2>1, <2>2, <2>5
<1>3. /\ tip' \in [Refs -> Tips] /\ \A b \in Refs : b # r => tip'[b] = tip[b]
      /\ \A b \in Refs : tip[b] = "new" => tip'[b] = "new"
      /\ tested' \subseteq Branches /\ \A b \in tested : b # r => b \in tested'
      /\ UNCHANGED <<dirty, remote, files, locks, cmd, count>> /\ head' = r /\ stopped' = Main
  <2>1. tip \in [Refs -> Tips] /\ tested \subseteq Branches
    BY DEF CheckoutInv, TypeOK
  <2>2. tip' \in {tip, [tip EXCEPT ![r] = "new"]}
    BY <1>2 DEF EndRebase
  <2>3. \A b \in Refs : (b # r => tip'[b] = tip[b]) /\ (tip[b] = "new" => tip'[b] = "new")
    BY <2>1, <2>2
  <2>4. tip' \in [Refs -> Tips]
    BY <2>1, <2>2 DEF Tips
  <2> QED
    BY <1>2, <2>1, <2>3, <2>4 DEF EndRebase
<1>4. /\ meta' = meta /\ home' = home /\ reg' = reg /\ tx' = tx /\ moves' = moves
      /\ lock' = lock /\ flock' = flock /\ runs' = runs /\ kills' = kills /\ cmd' = cmd
      /\ Pending' = Pending
  BY <1>3 DEF files, locks, count, Pending
<1>5. TypeOK'
  BY <1>2, <1>3, <1>4 DEF CheckoutInv, TypeOK, Heads, Refs
<1>6. LockOK' /\ PendingOK'
  BY <1>4 DEF CheckoutInv, LocksInv, LockOK, PendingOK
<1>7. AdmittedOK'
  BY <1>4 DEF CheckoutInv, LocksInv, AdmittedOK, Admits
<1>8. JournalOK'
  <2>1. ~x.pub /\ x.stage \notin Late /\ ~x.done
    BY <1>1, <1>2, NotOver DEF Kept, StageOK, MidStages
  <2>2. StageOK(f)'
    BY <1>2, <1>3, <1>4 DEF Kept, StageOK
  <2>3. ForwardOK(f)'
    <3>1. InPlan(f) \subseteq Refs /\ x.moved \subseteq Refs /\ Ahead(f)' = Ahead(f)
      BY <1>2, <1>4, PlanFacts DEF Refs, Journals, Ahead
    <3>2. ~x.back => \A b \in x.moved : tip'[b] = "new"
      BY <1>2, <1>3, <3>1 DEF Kept, ForwardOK
    <3>3. ~x.back /\ Validate =>
            \A b \in InPlan(f) : b \in tested' \/ tip'[b] # "new" \/ b \in Ahead(f)
      BY <1>2, <1>3, <3>1 DEF Kept, ForwardOK
    <3> QED
      BY <1>2, <1>4, <2>1, <3>1, <3>2, <3>3 DEF Kept, ForwardOK, Late
  <2>4. FinalOK(f)'
    BY <1>2, <1>4, <2>1 DEF FinalOK
  <2> QED
    BY <1>2, <1>4, <2>2, <2>3, <2>4 DEF JournalOK
<1>9. RebaseOK'
  BY <1>3 DEF RebaseOK, Rebasing
<1>10. CommandOK'
  <2> SUFFICES ASSUME NEW q \in Terminals, cmd[q].pc \in Working \cup {"remove"}
               PROVE  Carried(q)'
    BY <1>4 DEF CommandOK, Carried
  <2>1. PICK s, v, y, g : /\ s = cmd[q].pc /\ v = cmd[q].verb /\ y = X(q) /\ g = F(q)
                          /\ Knows(s, v, y, g)
    BY DEF CheckoutInv, CommandOK
  <2>2. s \in Stoppable
    <3>1. s \in Waiting \cup Stoppable
      BY <2>1 DEF EndRebase, CheckoutInv, RebaseOK, Stoppable
    <3> QED
      BY <2>1, <3>1, PcFacts
  <2>3. Knows(s, v, y, g)'
    BY <2>1, <2>2
       DEF Knows, OnwardOK, BackwardOK, Stoppable, Onward, Mid, Backward, Undoing
  <2>4. X(q)' = X(q) /\ F(q)' = F(q)
    BY <1>4 DEF X, F
  <2> QED
    BY <1>4, <2>1, <2>3, <2>4 DEF Carried
<1> QED
  BY <1>5, <1>6, <1>7, <1>8, <1>9, <1>10 DEF CheckoutInv, LocksInv
-----------------------------------------------------------------------------
(* The theorems.                                                            *)

\* Nothing is running and nothing is unfinished at the start.
LEMMA CheckoutInit == Init => CheckoutInv
<1> SUFFICES ASSUME Init PROVE CheckoutInv
  OBVIOUS
<1>1. /\ Pending = {} /\ ~Rebasing /\ moves = 0 /\ home = reg
      /\ \A p \in Terminals : cmd[p] = Idle /\ cmd[p].pc = "idle"
  BY DEF Init, Pending, Rebasing, Idle
<1>2. TypeOK
  <2>1. /\ Main \in Refs /\ "old" \in Tips /\ NoTx \in {NoTx} \cup Journals /\ Free \in Locks
        /\ Idle \in Commands
    BY DEF Refs, Tips, Locks, Commands
  <2>2. tip \in [Refs -> Tips] /\ head \in Heads /\ stopped \in Refs /\ dirty \in BOOLEAN
    BY <2>1 DEF Init, Refs, Heads
  <2>3. /\ remote \subseteq Branches /\ tested \subseteq Branches /\ meta \subseteq Features
        /\ home \subseteq Features /\ reg \subseteq Features /\ moves \in Nat
        /\ runs \in Nat /\ kills \in Nat
    BY DEF Init
  <2>4. /\ tx \in [Features -> {NoTx} \cup Journals] /\ lock \in Locks
        /\ flock \in [Features -> {"none", Dead} \cup Terminals]
        /\ cmd \in [Terminals -> Commands]
    BY <2>1 DEF Init
  <2> QED
    BY <2>2, <2>3, <2>4 DEF TypeOK
<1>3. LockOK /\ PendingOK
  BY <1>1, PcFacts DEF LockOK, PendingOK
<1>4. AdmittedOK
  BY <1>1, PcFacts DEF AdmittedOK, Admits, Renaming
<1>5. JournalOK /\ RebaseOK /\ CommandOK
  BY <1>1, PcFacts DEF JournalOK, RebaseOK, CommandOK
<1> QED
  BY <1>2, <1>3, <1>4, <1>5 DEF CheckoutInv, LocksInv

\* Every step keeps the invariant.
LEMMA CheckoutNext == CheckoutInv /\ [Next]_vars => CheckoutInv'
<1> SUFFICES ASSUME CheckoutInv, [Next]_vars PROVE CheckoutInv'
  OBVIOUS
<1>1. ASSUME NEW p \in Terminals, Lock(p) PROVE CheckoutInv'
  BY <1>1, ClaimStep, UnlinkStep, RelockStep, FeatureLockStep, ReleaseFeatureStep,
     ReleaseMutationStep DEF Lock
<1>2. ASSUME NEW p \in Terminals, Run(p) PROVE CheckoutInv'
  BY <1>2, BirthStep, ReadyStep, BeginStep, SwitchStep, CheckoutStep, RebaseBegun, ReplayStep,
     ConflictStep, ReplayedStep, ObserveStep, AncestryStep, ValidateIntentStep, ValidatorStep,
     AdvanceStep, WriteMetadataStep, RestoringStep, RestoreStep, GiveBackStep, GivenBackStep,
     PublishStep, PushIntentStep, NetworkStep, PushedStep, FinishStep, RemoveStep DEF Run
<1>3. ASSUME NEW p \in Terminals, Recover(p) PROVE CheckoutInv'
  BY <1>3, ReloadStep, ReconcileStep, StageFollowsStep, ForwardStep, ResumeStep, PreflightStep,
     UndoRebaseStep, DetachHeadStep, RestoreRefsStep, RefsRestoredStep, RestoreMetadataStep,
     RestoreHeadStep DEF Recover
<1>4. ASSUME Dirty \/ Stash PROVE CheckoutInv'
  <2>1. /\ dirty' \in BOOLEAN
        /\ UNCHANGED <<tip, head, stopped, remote, tested, files, locks, cmd, count>>
    BY <1>4 DEF Dirty, Stash
  <2> QED
    BY <2>1, DirtyStep
<1>5. CASE UNCHANGED vars
  <2>1. /\ dirty' \in BOOLEAN
        /\ UNCHANGED <<tip, head, stopped, remote, tested, files, locks, cmd, count>>
    BY <1>5 DEF vars, world, CheckoutInv, TypeOK
  <2> QED
    BY <2>1, DirtyStep
<1> QED
  BY <1>1, <1>2, <1>3, <1>4, <1>5, StartStep, RenameStep, KillStep, EndRebaseStep DEF Next

\* CheckoutInvariant: the inductive invariant of the locks, the journals and
\* the commands that work on them.
THEOREM CheckoutInvariant == Spec => []CheckoutInv
  BY CheckoutInit, CheckoutNext, PTL DEF Spec

\* OneRecoveryHolds: one command at a time is past the workspace-wide lock, and
\* one operation at most is unfinished, whoever was killed holding the lock.
THEOREM OneRecoveryHolds == Spec => []OneRecovery
<1>1. CheckoutInv => OneRecovery
  <2> SUFFICES ASSUME CheckoutInv PROVE OneRecovery
    OBVIOUS
  <2>1. \A p, q \in Terminals : p # q => cmd[p].pc \in Waiting \/ cmd[q].pc \in Waiting
    <3> SUFFICES ASSUME NEW p \in Terminals, NEW q \in Terminals, p # q,
                        cmd[p].pc \notin Waiting
                 PROVE  cmd[q].pc \in Waiting
      OBVIOUS
    <3>1. cmd[p].pc \in Inside
      BY Outside DEF CheckoutInv, TypeOK
    <3> QED
      BY <3>1, Alone DEF CheckoutInv
  <2>2. Cardinality(Pending) + (IF moves # 0 THEN 1 ELSE 0) =< 1
    <3>1. CASE Pending = {}
      <4>1. Cardinality(Pending) = 0
        BY <3>1, FS_EmptySet
      <4> QED
        BY <4>1
    <3>2. CASE Pending # {}
      <4>1. PICK f : Pending = {f}
        BY <3>2 DEF CheckoutInv, LocksInv, PendingOK
      <4>2. Cardinality(Pending) = 1
        BY <4>1, FS_Singleton
      <4>3. moves = 0
        BY <3>2 DEF CheckoutInv, LocksInv, PendingOK
      <4> QED
        BY <4>2, <4>3
    <3> QED
      BY <3>1, <3>2
  <2>3. \A f \in Pending : f \in home /\ f \in reg
    BY DEF CheckoutInv, LocksInv, PendingOK
  <2> QED
    BY <2>1, <2>2, <2>3 DEF OneRecovery
<1> QED
  BY <1>1, CheckoutInvariant, PTL

\* RenamesAreWhole: without evidence of a movement the directories and the
\* registry agree.
THEOREM RenamesAreWhole == Spec => []RenameAllOrNothing
<1>1. CheckoutInv => RenameAllOrNothing
  BY DEF CheckoutInv, LocksInv, PendingOK, RenameAllOrNothing
<1> QED
  BY <1>1, CheckoutInvariant, PTL

\* PublicationIsFinal: a run that began to publish is rebased, validated and
\* recorded, and nobody undoes it.
THEOREM PublicationIsFinal == Spec => []PublishedIsFinal
<1>1. CheckoutInv => PublishedIsFinal
  BY DEF CheckoutInv, JournalOK, FinalOK, Final, PublishedIsFinal
<1> QED
  BY <1>1, CheckoutInvariant, PTL

\* A command that works on its journal keeps one.
LEMMA WorkKeeps ==
  ASSUME CheckoutInv, CheckoutInv', NEW p \in Terminals, cmd[p].pc \in Working,
         \/ tx' = tx
         \/ \E s \in Working : Go(p, s)
         \/ \E y \in Journals : Set(p, y)
  PROVE  tx'[F(p)] # NoTx
<1>1. X(p) \in Journals /\ F(p) \in Features /\ cmd[p].pc # "idle" /\ tx[F(p)] = X(p)
  BY WorkStart
<1>2. CASE tx' = tx
  BY <1>1, <1>2, NoTxFacts
<1>3. ASSUME NEW s \in Working, Go(p, s) PROVE tx'[F(p)] # NoTx
  <2>1. cmd'[p].pc = s /\ cmd'[p].f = F(p)
    BY <1>1, <1>3, GoFacts, PcFacts DEF CheckoutInv, F
  <2> QED
    BY <2>1 DEF CheckoutInv, LocksInv, AdmittedOK, Admits
<1>4. ASSUME NEW y \in Journals, Set(p, y) PROVE tx'[F(p)] # NoTx
  BY <1>1, <1>4, SetFacts, NoTxFacts DEF CheckoutInv
<1> QED
  BY <1>2, <1>3, <1>4

\* Steps that write a journal, or keep the one there is.
WritesOrGoes(p) ==
  /\ cmd[p].pc \in Working
  /\ \/ tx' = tx
     \/ \E s \in Working : Go(p, s)
     \/ \E y \in Journals : Set(p, y)

\* What the last steps write: a stopped branch, a failed test, a journal that
\* is done.
LEMMA Endings ==
  ASSUME NEW x \in Journals
  PROVE  /\ [x EXCEPT !.stage = "conflict"] \in Journals
         /\ [x EXCEPT !.val = "failed"] \in Journals
         /\ [x EXCEPT !.done = TRUE] \in Journals
<1>1. PICK y : y = [x EXCEPT !.stage = "conflict"]
  OBVIOUS
<1>2. PICK z : z = [x EXCEPT !.val = "failed"]
  OBVIOUS
<1>3. PICK w : w = [x EXCEPT !.done = TRUE]
  OBVIOUS
<1>4. y \in Journals
  BY <1>1 DEF Journals, MidStages
<1>5. z \in Journals
  BY <1>2 DEF Journals
<1>6. w \in Journals
  BY <1>3 DEF Journals
<1> QED
  BY <1>1, <1>2, <1>3, <1>4, <1>5, <1>6

\* A step of the engine is the birth of a journal, its removal, or works on it.
LEMMA RunWrites ==
  ASSUME CheckoutInv, NEW p \in Terminals, Run(p)
  PROVE  Birth(p) \/ Remove(p) \/ WritesOrGoes(p)
<1>1. ASSUME Ready(p) \/ Begin(p) \/ Switch(p) \/ Checkout(p) \/ Rebase(p) \/ Replay(p)
      PROVE  WritesOrGoes(p)
  BY <1>1 DEF WritesOrGoes, Ready, Begin, Switch, Checkout, Rebase, Replay, At, Save, files,
              Working, Onward, Mid
<1>2. ASSUME Replayed(p) \/ Ancestry(p) \/ ValidateIntent(p) \/ Advance(p) \/ WriteMetadata(p)
             \/ Restoring(p) \/ Restore(p)
      PROVE  WritesOrGoes(p)
  BY <1>2 DEF WritesOrGoes, Replayed, Ancestry, ValidateIntent, Advance, WriteMetadata,
              Restoring,
              Restore, At, Save, files, Working, Onward, Mid
<1>3. ASSUME GiveBack(p) \/ GivenBack(p) \/ Publish(p) \/ PushIntent(p) \/ Network(p)
             \/ Pushed(p)
      PROVE  WritesOrGoes(p)
  BY <1>3 DEF WritesOrGoes, GiveBack, GivenBack, Publish, PushIntent, Network, Pushed, At, Save,
              files, Working, Onward, Mid
<1>4. CASE Conflict(p)
  <2>1. cmd[p].pc \in Working
    BY <1>4 DEF Conflict, At, Working, Onward, Mid
  <2>2. [X(p) EXCEPT !.stage = "conflict"] \in Journals
    BY <2>1, WorkStart, Endings
  <2> QED
    BY <1>4, <2>1, <2>2 DEF WritesOrGoes, Conflict
<1>5. CASE Observe(p)
  <2>1. cmd[p].pc \in Working /\ "ancestry" \in Working
    BY <1>5 DEF Observe, At, Working, Onward, Mid
  <2>2. ASSUME Closable(X(p)) PROVE Closed(X(p)) \in Journals
    BY <2>1, <2>2, WorkStart, ClosedFacts
  <2> QED
    BY <1>5, <2>1, <2>2 DEF WritesOrGoes, Observe, Save, files
<1>6. CASE Validator(p)
  <2>1. cmd[p].pc \in Working /\ "advance" \in Working
    BY <1>6 DEF Validator, At, Working, Onward, Mid
  <2>2. X(p) \in Journals /\ [X(p) EXCEPT !.val = "failed"] \in Journals
    BY <2>1, WorkStart, Endings
  <2> QED
    BY <1>6, <2>1, <2>2 DEF WritesOrGoes, Validator, Save
<1>7. CASE Finish(p)
  <2>1. cmd[p].pc \in Working
    BY <1>7 DEF Finish, At, Working
  <2>2. [X(p) EXCEPT !.done = TRUE] \in Journals
    BY <2>1, WorkStart, Endings
  <2> QED
    BY <1>7, <2>1, <2>2 DEF WritesOrGoes, Finish, Save, files
<1> QED
  BY <1>1, <1>2, <1>3, <1>4, <1>5, <1>6, <1>7 DEF Run

\* So is a step of the recovery, which neither makes nor removes a journal.
LEMMA RecoverWrites ==
  ASSUME CheckoutInv, NEW p \in Terminals, Recover(p)
  PROVE  tx' = tx \/ WritesOrGoes(p)
<1>1. ASSUME StageFollows(p) \/ Preflight(p) \/ UndoRebase(p) \/ DetachHead(p)
      PROVE  WritesOrGoes(p)
  BY <1>1 DEF WritesOrGoes, StageFollows, Preflight, UndoRebase, DetachHead, At, Save, files,
              Working, Onward, Backward, Undoing
<1>2. ASSUME RestoreRefs(p) \/ RefsRestored(p) \/ RestoreMetadata(p) \/ RestoreHead(p)
      PROVE  WritesOrGoes(p)
  BY <1>2 DEF WritesOrGoes, RestoreRefs, RefsRestored, RestoreMetadata, RestoreHead, At, Save,
              files,
              Working, Onward, Backward, Undoing
<1>3. ASSUME Reconcile(p) \/ Forward(p) PROVE WritesOrGoes(p)
  BY <1>3 DEF WritesOrGoes, Reconcile, Forward, At, Save, files, Working, Onward, Backward
<1>4. CASE Resume(p)
  <2>1. cmd[p].pc \in Working /\ "ancestry" \in Working
    BY <1>4 DEF Resume, At, Working, Onward, Mid
  <2>2. [X(p) EXCEPT !.stage = "conflict"] \in Journals
    BY <2>1, WorkStart, Endings
  <2> QED
    BY <1>4, <2>1, <2>2 DEF WritesOrGoes, Resume, Save, files
<1>5. CASE Reload(p)
  BY <1>5 DEF Reload, Still, files
<1> QED
  BY <1>1, <1>2, <1>3, <1>4, <1>5 DEF Recover

\* A journal is removed by a command that found it done, in the end that it
\* says: everything done, or everything as it was.
LEMMA JournalEnds ==
  ASSUME CheckoutInv, [Next]_vars, NEW f \in Features, tx[f] # NoTx, tx'[f] = NoTx
  PROVE  /\ IF tx[f].back THEN Undone(f) ELSE Complete(f)
         /\ head = tx[f].first
<1>1. f \in Pending /\ tx' # tx /\ CheckoutInv'
  BY CheckoutNext DEF Pending
<1>2. ASSUME NEW p \in Terminals, WritesOrGoes(p) PROVE FALSE
  <2>1. Pending = {F(p)}
    BY <1>2, Alone, PcFacts DEF WritesOrGoes, CheckoutInv
  <2> QED
    BY <1>1, <1>2, <2>1, WorkKeeps DEF WritesOrGoes
<1>3. PICK p \in Terminals : Birth(p) \/ Remove(p)
  <2>1. tx' = tx \/ \E p \in Terminals : Run(p) \/ Recover(p)
    BY ZenonT(60)
       DEF Next, vars, files, Start, StartSync, StartContinue, StartAbort, StartRename, Command,
           Still, Lock, Claim, Unlink, Relock, FeatureLock, ReleaseFeature, ReleaseMutation,
           Rename, Evidence, MoveFeature, Register, CommitMoves, Kill, Dirty, Stash, EndRebase
  <2> QED
    BY <1>1, <1>2, <2>1, RunWrites, RecoverWrites
<1>4. ~Birth(p)
  <2>1. cmd[p].pc = "birth" => Pending = {}
    BY DEF CheckoutInv, LocksInv, AdmittedOK, Admits
  <2> QED
    BY <1>1, <2>1 DEF Birth, At
<1>5. cmd[p].pc = "remove" /\ "remove" \in Inside
  BY <1>3, <1>4, PcFacts DEF Remove, At
<1>6. f = F(p) /\ FinalOK(f)
  <2>1. Pending = {F(p)}
    BY <1>5, Alone DEF CheckoutInv
  <2> QED
    BY <1>1, <2>1 DEF CheckoutInv, JournalOK
<1>7. tx[f].done
  BY <1>5, <1>6 DEF CheckoutInv, CommandOK, Knows, X
<1> QED
  BY <1>6, <1>7 DEF FinalOK

\* RunsEndWhole: a run that is over left everything done, recorded and
\* published, or everything as it was, and the working tree where it was found.
THEOREM RunsEndWhole == Spec => SettledWhole
<1>1. CheckoutInv /\ [Next]_vars =>
        [\A f \in Features : tx[f] # NoTx /\ tx'[f] = NoTx =>
           /\ IF tx[f].back THEN Undone(f) ELSE Complete(f)
           /\ head = tx[f].first]_vars
  BY JournalEnds
<1> QED
  BY <1>1, CheckoutInvariant, PTL DEF Spec, SettledWhole
=============================================================================
