------------------------ MODULE FeatureRename_proofs ------------------------
(* No ordinary command works on a feature that a rename has; a rename never *)
(* replaces a pointer that somebody else set, and it moves all of them or   *)
(* none: for any number of pointers, terminals, kills and interferences.    *)
EXTENDS FeatureRename, TLAPS

Labels == {"idle", "lock", "plan", "publish", "judge", "intent", "check", "act", "done"}

Verbs == {"rename", "continue", "abort"}
Modes == {"none", "forward", "rollback", "cleanup"}

\* The running command and the admission of the others.
AdmissionOK ==
  /\ \/ cmd = [pc |-> "idle"]
     \/ cmd \in [pc : Labels, verb : Verbs, mode : Modes, k : Nat]
  /\ other \in [Others -> {"idle", "looked", "held", "work"}]

\* The lock: who is inside has kept the rename out.
LockHeld == \A q \in Others : Inside(q) => cmd.pc \in {"idle", "lock"}
\* Who works looked while inside.
WorkLooked == \A q \in Others : other[q] = "work" => ~Pending
\* A rename looked, too, and nobody has come in since.
NothingLeft == Pending \/ cmd.pc \in {"plan", "publish"} => ~left

AdmissionInv ==
  AdmissionOK /\ LockHeld /\ WorkLooked /\ NothingLeft
-----------------------------------------------------------------------------
\* Pending depends on the journal alone, and recording an event never opens it.
LEMMA PendingCloses ==
  ASSUME journal' = journal, log \subseteq log', Pending'
  PROVE  Pending
  BY DEF Pending, Done, Of

LEMMA InitAdmission == Init => AdmissionInv
  BY DEF Init, AdmissionInv, AdmissionOK, LockHeld, WorkLooked, NothingLeft, Inside,
     Pending, Labels

\* What a rename does once it has the lock: nobody is inside, and it is not
\* about to publish a journal unless it already was.
LEMMA RenameSteps ==
  ASSUME AdmissionInv, AdmissionOK', cmd.pc \notin {"idle", "lock"},
         UNCHANGED <<other, left, journal>>, log \subseteq log',
         cmd'.pc \in {"plan", "publish"} => cmd.pc \in {"plan", "publish"}
  PROVE  AdmissionInv'
<1>1. \A q \in Others : ~Inside(q) /\ ~Inside(q)'
  BY DEF AdmissionInv, LockHeld, Inside
<1>2. LockHeld' /\ WorkLooked'
  BY <1>1 DEF LockHeld, WorkLooked, Inside
<1>3. NothingLeft'
  BY PendingCloses DEF AdmissionInv, NothingLeft
<1> QED BY <1>2, <1>3 DEF AdmissionInv

\* The command record, through the two ways in which a step may end.
LEMMA StepEnds ==
  ASSUME AdmissionOK, cmd.pc # "idle", UNCHANGED other,
         \/ Stop \/ Fail \/ Advance
         \/ Enter("forward") \/ Enter("rollback") \/ Enter("cleanup")
  PROVE  AdmissionOK' /\ cmd'.pc \in {"idle", "intent"}
<1>1. cmd \in [pc : Labels, verb : Verbs, mode : Modes, k : Nat]
  BY DEF AdmissionOK
<1>2. CASE Stop
  BY <1>2 DEF Stop, AdmissionOK, Labels
<1>3. CASE Enter("forward") \/ Enter("rollback") \/ Enter("cleanup")
  <2>1. PICK mode \in {"forward", "rollback", "cleanup"} :
          cmd' = [cmd EXCEPT !.pc = "intent", !.mode = mode, !.k = 1]
    BY <1>3 DEF Enter
  <2>2. cmd' = [pc |-> "intent", verb |-> cmd.verb, mode |-> mode, k |-> 1]
    BY <1>1, <2>1
  <2>3. cmd' \in [pc : Labels, verb : Verbs, mode : Modes, k : Nat]
    BY <1>1, <2>2 DEF Labels, Modes
  <2> QED BY <2>2, <2>3 DEF AdmissionOK
<1>4. CASE Fail
  <2>1. Enter("rollback") \/ Stop
    BY <1>4 DEF Fail
  <2> QED BY <1>2, <1>3, <2>1
<1>5. CASE Advance
  <2>1. \/ Stop \/ Enter("cleanup")
        \/ cmd' = [cmd EXCEPT !.pc = "intent", !.k = @ + 1]
    BY <1>5 DEF Advance
  <2>2. CASE cmd' = [cmd EXCEPT !.pc = "intent", !.k = @ + 1]
    <3>1. cmd' = [pc |-> "intent", verb |-> cmd.verb, mode |-> cmd.mode, k |-> cmd.k + 1]
      BY <1>1, <2>2
    <3> QED BY <1>1, <3>1 DEF AdmissionOK, Labels
  <2> QED BY <1>2, <1>3, <2>1, <2>2
<1> QED BY <1>2, <1>3, <1>4, <1>5

\* A command that only moves on to another label keeps the admission.
LEMMA StepGoesOn ==
  ASSUME AdmissionOK, cmd.pc # "idle", UNCHANGED other, NEW label \in Labels,
         cmd' = [cmd EXCEPT !.pc = label]
  PROVE  AdmissionOK' /\ cmd'.pc = label
<1>1. cmd \in [pc : Labels, verb : Verbs, mode : Modes, k : Nat]
  BY DEF AdmissionOK
<1> QED BY <1>1 DEF AdmissionOK, Labels
-----------------------------------------------------------------------------
(* The steps.                                                               *)

\* The ordinary commands: who comes in finds no rename, who works has looked.
LEMMA OrdinarySteps ==
  ASSUME AdmissionInv, NEW q \in Others,
         Look(q) \/ Hold(q) \/ LookAgain(q) \/ Leave(q) \/ KillOrdinary(q)
  PROVE  AdmissionInv'
<1>1. CASE Look(q) \/ Hold(q) \/ LookAgain(q)
  BY <1>1 DEF AdmissionInv, AdmissionOK, LockHeld, WorkLooked, NothingLeft, Look, Hold,
     LookAgain, Inside, Pending, Done, objects, record, around, count
<1>2. CASE Leave(q) \/ KillOrdinary(q)
  <2>1. ~Pending /\ cmd.pc \in {"idle", "lock"}
    BY <1>2 DEF AdmissionInv, LockHeld, WorkLooked, Inside, Leave, KillOrdinary
  <2>2. /\ UNCHANGED <<record, cmd>> /\ other' = [other EXCEPT ![q] = "idle"]
    BY <1>2 DEF Leave, KillOrdinary
  <2>3. ~Pending'
    BY <2>1, <2>2 DEF Pending, Done, record
  <2>4. AdmissionOK' /\ LockHeld'
    BY <2>2 DEF AdmissionInv, AdmissionOK, LockHeld, Inside
  <2> QED BY <2>1, <2>2, <2>3, <2>4 DEF AdmissionInv, WorkLooked, NothingLeft
<1> QED BY <1>1, <1>2

\* A rename comes in alone, where nothing is left half done.
LEMMA AdmissionSteps ==
  ASSUME AdmissionInv,
         Admit \/ \E verb \in {"rename", "continue", "abort"} : StartRename(verb)
  PROVE  AdmissionInv'
<1>1. CASE Admit
  BY <1>1 DEF AdmissionInv, AdmissionOK, LockHeld, WorkLooked, NothingLeft, Admit, Stop,
     Preflight, Inside, Labels, Pending, Done, record, around
<1>2. ASSUME NEW verb \in {"rename", "continue", "abort"}, StartRename(verb)
      PROVE  AdmissionInv'
  <2>1. /\ cmd.pc = "idle" /\ UNCHANGED <<record, other, around>>
        /\ cmd' = [pc |-> "lock", verb |-> verb, mode |-> "none", k |-> 1]
    BY <1>2 DEF StartRename
  <2>2. cmd' \in [pc : Labels, verb : Verbs, mode : Modes, k : Nat]
    BY <2>1 DEF Labels, Verbs, Modes
  <2>3. AdmissionOK' /\ cmd'.pc = "lock"
    BY <2>1, <2>2 DEF AdmissionInv, AdmissionOK
  <2> QED BY <2>1, <2>3 DEF AdmissionInv, LockHeld, WorkLooked, NothingLeft, Inside,
             Pending, Done, record, around
<1> QED BY <1>1, <1>2

\* The journal appears while nobody is inside.
LEMMA JournalSteps ==
  ASSUME AdmissionInv, PlanRename \/ PublishJournal
  PROVE  AdmissionInv'
<1>1. CASE PlanRename
  <2>1. AdmissionOK' /\ cmd.pc = "plan"
    BY <1>1, StepEnds, StepGoesOn DEF PlanRename, AdmissionInv, Labels
  <2> QED BY <1>1, <2>1, RenameSteps DEF PlanRename, record
<1>2. CASE PublishJournal
  <2>1. AdmissionOK' /\ cmd'.pc = "judge" /\ cmd.pc = "publish"
    BY <1>2, StepGoesOn DEF PublishJournal, AdmissionInv, Labels
  <2>2. \A q \in Others : ~Inside(q) /\ ~Inside(q)'
    BY <1>2 DEF AdmissionInv, LockHeld, Inside, PublishJournal
  <2> QED BY <1>2, <2>1, <2>2 DEF AdmissionInv, LockHeld, WorkLooked, NothingLeft, Inside,
             PublishJournal, around
<1> QED BY <1>1, <1>2

\* Everything that follows only works under the lock and the journal.
LEMMA EffectSteps ==
  ASSUME AdmissionInv,
         \/ Judge \/ IntendEffect \/ CheckEffect \/ ActOnEffect \/ Clean \/ RecordDone
  PROVE  AdmissionInv'
<1>1. UNCHANGED <<other, left, journal>> /\ log \subseteq log'
  BY DEF Judge, IntendEffect, CheckEffect, ActOnEffect, Clean, RecordDone, record, around
<1>2. cmd.pc \in {"judge", "intent", "check", "act", "done"}
  BY DEF Judge, IntendEffect, CheckEffect, ActOnEffect, Clean, RecordDone
<1>3. AdmissionOK /\ cmd.pc # "idle"
  BY <1>2 DEF AdmissionInv
<1>4. AdmissionOK' /\ cmd'.pc \notin {"plan", "publish"}
  <2>1. CASE Judge
    BY <1>1, <1>3, <2>1, StepEnds DEF Judge
  <2>2. CASE IntendEffect
    BY <1>1, <1>3, <2>2, StepEnds, StepGoesOn DEF IntendEffect, Labels
  <2>3. CASE CheckEffect
    BY <1>1, <1>3, <2>3, StepEnds, StepGoesOn DEF CheckEffect, Labels
  <2>4. CASE ActOnEffect
    BY <1>1, <1>3, <2>4, StepEnds, StepGoesOn DEF ActOnEffect, Labels
  <2>5. CASE Clean
    <3>1. (Stop \/ Fail \/ UNCHANGED cmd \/ cmd' = [cmd EXCEPT !.pc = "done"])
      BY <2>5 DEF Clean
    <3>2. CASE UNCHANGED cmd
      BY <1>1, <1>2, <1>3, <3>2 DEF AdmissionOK
    <3> QED BY <1>1, <1>3, <3>1, <3>2, StepEnds, StepGoesOn DEF Labels
  <2>6. CASE RecordDone
    BY <1>1, <1>3, <2>6, StepEnds DEF RecordDone
  <2> QED BY <2>1, <2>2, <2>3, <2>4, <2>5, <2>6
<1> QED BY <1>1, <1>2, <1>4, RenameSteps

\* A kill gives the lock back; other programs touch neither lock nor journal.
LEMMA OutsideSteps ==
  ASSUME AdmissionInv,
         \/ KillRename
         \/ UNCHANGED <<record, cmd, other, left>>
  PROVE  AdmissionInv'
  BY DEF AdmissionInv, AdmissionOK, LockHeld, WorkLooked, NothingLeft, Inside, Pending, Done,
     KillRename, Stop, Labels, record, around

\* Every step keeps the admission.
LEMMA NextAdmission == AdmissionInv /\ [Next]_vars => AdmissionInv'
<1> SUFFICES ASSUME AdmissionInv, [Next]_vars PROVE AdmissionInv'
  OBVIOUS
<1>1. ASSUME NEW touched, Meddle(touched) PROVE AdmissionInv'
  BY <1>1, OutsideSteps DEF Meddle, record
<1>2. CASE Occupy \/ (\E i \in Pointers : Overwrite(i) \/ Delete(i))
           \/ \E result \in {"same", "busy", "changed"} : WorkInWorktree(result)
  BY <1>1, <1>2 DEF Occupy, Overwrite, Delete, WorkInWorktree
<1>3. CASE UNCHANGED vars
  BY <1>3, OutsideSteps DEF vars, around
<1> QED BY <1>2, <1>3, OrdinarySteps, AdmissionSteps, JournalSteps, EffectSteps,
           OutsideSteps DEF Next
-----------------------------------------------------------------------------
\* The lock and the two looks, by every command that comes in and by the
\* rename, keep their promise in every instance.
THEOREM AdmissionInvariant == Spec => []AdmissionInv
  BY InitAdmission, NextAdmission, PTL DEF Spec

\* NobodyInside in every instance: no ordinary command works on a feature that
\* a rename has, and none is half done when a rename is pending.
THEOREM NobodyEverInside == Spec => []NobodyInside
<1>1. AdmissionInv => NobodyInside
  BY DEF AdmissionInv, LockHeld, WorkLooked, NothingLeft, NobodyInside, Inside
<1> QED BY <1>1, AdmissionInvariant, PTL
-----------------------------------------------------------------------------
(* The effects: what the last look before one of them established.          *)

Things == {None, "pre", "post", "foreign"}
ObjectTypes ==
  /\ active \in [Pointers -> Things] /\ original \in [Pointers -> Things]
  /\ published \in [Pointers -> Things]

\* An effect that is about to be carried out finds Git as it was planned, and
\* its destination in the staging directory empty.
ReadyToAct ==
  cmd.pc = "act" =>
    /\ git = "same" \/ 0 \in since
    /\ E[1] \notin {"complete", "aborted", "cleaned"}
    /\ E[1] = "preserve" =>
         original[E[2]] = None /\ (E[2] \notin edited => active[E[2]] = "pre")
    /\ E[1] = "unpublish" => published[E[2]] = None /\ original[E[2]] = "pre"

Named == IF dir = "new" THEN "post" ELSE "pre"
\* An outcome that is about to be recorded is the one that was seen.
ReadyToRecord ==
  cmd.pc = "done" /\ E[1] \in {"complete", "aborted", "cleaned"} =>
    \A i \in Pointers \ since : active[i] = Named

EffectInv == ObjectTypes /\ ReadyToAct /\ ReadyToRecord /\ NothingOverwritten

LEMMA InitEffects == Init => EffectInv
  BY DEF Init, EffectInv, ObjectTypes, Things, ReadyToAct, ReadyToRecord, NothingOverwritten

\* A step that only decides what comes next.
LEMMA DecidingSteps ==
  ASSUME EffectInv, UNCHANGED <<active, original, published, edited>>, log \subseteq log',
         cmd'.pc \notin {"act", "done"}
  PROVE  EffectInv'
<1>1. Completed => Completed'
  BY DEF Completed, Done
<1> QED BY <1>1 DEF EffectInv, ObjectTypes, ReadyToAct, ReadyToRecord, NothingOverwritten

\* A step that neither touches the pointers nor concerns the rename.
LEMMA BesideSteps ==
  ASSUME EffectInv,
         UNCHANGED <<dir, active, original, published, log, cmd, edited>>, since \subseteq since',
         git' = git \/ 0 \in since'
  PROVE  EffectInv'
<1>1. Completed' = Completed /\ E' = E
  BY DEF Completed, Done, E, Steps
<1> QED BY <1>1 DEF EffectInv, ObjectTypes, ReadyToAct, ReadyToRecord, NothingOverwritten, Named

\* Other programs: what they write is counted.
LEMMA WritingSteps ==
  ASSUME EffectInv, NEW i \in Pointers, Overwrite(i) \/ Delete(i)
  PROVE  EffectInv'
<1>1. /\ UNCHANGED <<dir, original, published, log, cmd, git>> /\ since' = since \cup {i}
      /\ \E thing \in {None, "foreign"} : active' = [active EXCEPT ![i] = thing]
      /\ \/ active'[i] = "foreign" /\ edited' = edited \cup {i}
         \/ active[i] = "post" /\ UNCHANGED edited
  BY DEF Overwrite, Delete, Meddle, record, EffectInv, ObjectTypes
<1>2. Completed' = Completed /\ E' = E
  BY <1>1 DEF Completed, Done, E, Steps
<1> HIDE DEF E
<1>3. ObjectTypes'
  BY <1>1 DEF EffectInv, ObjectTypes, Things
<1>4. NothingOverwritten'
  BY <1>1, <1>2 DEF EffectInv, ObjectTypes, NothingOverwritten, None
<1>5. ReadyToAct'
  BY <1>1, <1>2 DEF EffectInv, ObjectTypes, ReadyToAct
<1>6. ReadyToRecord'
  BY <1>1, <1>2 DEF EffectInv, ObjectTypes, ReadyToRecord, Named
<1> QED BY <1>3, <1>4, <1>5, <1>6 DEF EffectInv

\* The last look.
LEMMA CheckSteps ==
  ASSUME EffectInv, AdmissionInv, CheckEffect
  PROVE  EffectInv'
<1>1. UNCHANGED <<dir, active, original, published, log, git, edited>> /\ since' = {}
  BY DEF CheckEffect, objects, record, around
<1>2. CASE cmd'.pc \notin {"act", "done"}
  BY <1>1, <1>2, DecidingSteps
<1>3. CASE cmd'.pc \in {"act", "done"}
  <2>1. /\ Stable
        /\ \/ cmd' = [cmd EXCEPT !.pc = "done"] /\ Found(E)
           \/ cmd' = [cmd EXCEPT !.pc = "act"] /\ ~Found(E) /\ Ready(E)
    <3>1. ~Fail
      BY <1>3, StepEnds DEF AdmissionInv, CheckEffect
    <3> QED BY <3>1 DEF CheckEffect
  <2>2. E' = E /\ Completed' = Completed /\ cmd \in [pc : Labels, verb : Verbs, mode : Modes, k : Nat]
    <3>1. cmd \in [pc : Labels, verb : Verbs, mode : Modes, k : Nat]
      BY <2>1, <1>3 DEF AdmissionInv, AdmissionOK, CheckEffect
    <3>2. cmd'.mode = cmd.mode /\ cmd'.k = cmd.k
      BY <2>1, <3>1
    <3> QED BY <1>1, <3>1, <3>2 DEF E, Steps, Completed, Done
  <2> HIDE DEF E
  <2>3. CASE cmd' = [cmd EXCEPT !.pc = "done"] /\ Found(E)
    <3>1. cmd'.pc = "done"
      BY <2>2, <2>3
    <3>2. E[1] \in {"complete", "aborted", "cleaned"} =>
            Final(E[1] = "complete") \/ Final(Completed)
      BY <2>3 DEF Found
    <3>3. E[1] \in {"complete", "aborted", "cleaned"} => \A i \in Pointers : active[i] = Named
      BY <3>2 DEF Final, FinalGit, Named
    <3> QED BY <1>1, <2>2, <3>1, <3>3 DEF EffectInv, ObjectTypes, ReadyToAct, ReadyToRecord,
               NothingOverwritten, Named
  <2>4. CASE cmd' = [cmd EXCEPT !.pc = "act"] /\ ~Found(E) /\ Ready(E)
    <3>1. cmd'.pc = "act"
      BY <2>2, <2>4
    <3>2. git = "same" /\ E[1] \notin {"complete", "aborted", "cleaned"}
      BY <2>1, <2>4 DEF Stable, Ready
    <3>3. E[1] = "preserve" => original[E[2]] = None /\ active[E[2]] = "pre"
      BY <2>4 DEF Found, Position
    <3>4. E[1] = "unpublish" => published[E[2]] = None /\ original[E[2]] = "pre"
      BY <2>4 DEF Found, Position
    <3> QED BY <1>1, <2>2, <3>1, <3>2, <3>3, <3>4 DEF EffectInv, ObjectTypes, ReadyToAct,
               ReadyToRecord, NothingOverwritten
  <2> QED BY <2>1, <2>3, <2>4
<1> QED BY <1>2, <1>3

\* Carrying an effect out.
LEMMA ActSteps ==
  ASSUME EffectInv, AdmissionInv, ActOnEffect
  PROVE  EffectInv'
<1>1. UNCHANGED <<log, git, edited, since>> /\ cmd.pc = "act"
  BY DEF ActOnEffect, record, around, count
<1>2. CASE UNCHANGED objects /\ Fail
  <2>1. cmd'.pc \in {"idle", "intent"}
    BY <1>1, <1>2, StepEnds DEF AdmissionInv, ActOnEffect
  <2> QED BY <1>1, <1>2, <2>1, DecidingSteps DEF objects
<1>3. CASE Moves(E)
  <2>1. Fail \/ cmd' = [cmd EXCEPT !.pc = "done"]
    BY DEF ActOnEffect
  <2>2. cmd'.pc \in {"idle", "intent"} \/ (cmd'.pc = "done" /\ E' = E)
    <3>1. CASE Fail
      BY <1>1, <3>1, StepEnds DEF AdmissionInv, ActOnEffect
    <3>2. CASE cmd' = [cmd EXCEPT !.pc = "done"]
      <4>1. cmd \in [pc : Labels, verb : Verbs, mode : Modes, k : Nat]
        BY <1>1 DEF AdmissionInv, AdmissionOK
      <4> QED BY <3>2, <4>1 DEF E, Steps
    <3> QED BY <2>1, <3>1, <3>2
  <2> HIDE DEF E
  <2> DEFINE kind == E[1]  j == E[2]
  <2>3. Act(kind, j)
    BY <1>3 DEF Moves
  <2>4. /\ kind \notin {"complete", "aborted", "cleaned"}
        /\ kind = "preserve" => original[j] = None /\ (j \notin edited => active[j] = "pre")
        /\ kind = "unpublish" => published[j] = None /\ original[j] = "pre"
    BY <1>1 DEF EffectInv, ReadyToAct
  <2>5. Completed' = Completed
    BY <1>1 DEF Completed, Done
  <2>6. ReadyToAct' /\ ReadyToRecord'
    BY <2>2, <2>4 DEF ReadyToAct, ReadyToRecord
  <2> HIDE DEF kind, j
  <2>7. ObjectTypes' /\ NothingOverwritten'
    <3> USE DEF EffectInv, ObjectTypes, NothingOverwritten
    <3>1. CASE UNCHANGED <<active, original, published>>
      BY <1>1, <2>5, <3>1
    <3>2. CASE kind = "preserve" /\ Capture(active, original, j) /\ UNCHANGED published
      BY <1>1, <2>4, <2>5, <3>2 DEF Capture, Things, None
    <3>3. CASE Free(j) /\ active' = [active EXCEPT ![j] = "post"] /\ UNCHANGED <<original, published>>
      BY <1>1, <2>5, <3>3 DEF Free, Things, None
    <3>4. CASE kind = "unpublish" /\ Capture(active, published, j) /\ UNCHANGED original
      BY <1>1, <2>4, <2>5, <3>4 DEF Capture, Things, None
    <3>5. CASE Free(j) /\ Capture(original, active, j) /\ UNCHANGED published
      BY <1>1, <2>5, <3>5 DEF Free, Capture, Things, None
    <3> QED BY <2>3, <3>1, <3>2, <3>3, <3>4, <3>5 DEF Act
  <2> QED BY <2>6, <2>7 DEF EffectInv
<1> QED BY <1>2, <1>3 DEF ActOnEffect

\* Emptying the staging directory: only what the journal explains goes.
LEMMA CleanSteps ==
  ASSUME EffectInv, AdmissionInv, Clean
  PROVE  EffectInv'
<1>1. /\ UNCHANGED <<active, dir, log, git, edited, since>> /\ cmd.pc = "act" /\ E[1] = "cleanup"
      /\ Completed' = Completed
  BY DEF Clean, record, around, count, Completed, Done
<1>2. UNCHANGED cmd \/ Fail \/ cmd' = [cmd EXCEPT !.pc = "done"]
  BY DEF Clean
<1>3. cmd'.pc \in {"idle", "intent"} \/ (cmd'.pc \in {"act", "done"} /\ E' = E)
  <2>1. CASE Fail
    BY <1>1, <2>1, StepEnds DEF AdmissionInv, Clean
  <2>2. cmd \in [pc : Labels, verb : Verbs, mode : Modes, k : Nat]
    BY <1>1 DEF AdmissionInv, AdmissionOK
  <2> QED BY <1>1, <1>2, <2>1, <2>2 DEF E, Steps
<1> HIDE DEF E
<1>4. ReadyToAct' /\ ReadyToRecord'
  BY <1>1, <1>3 DEF EffectInv, ReadyToAct, ReadyToRecord
<1>5. ObjectTypes' /\ NothingOverwritten'
  <2> DEFINE i == E[2]
  <2>1. CASE UNCHANGED <<original, published>>
    BY <1>1, <2>1 DEF EffectInv, ObjectTypes, NothingOverwritten
  <2>2. CASE Explained(i) /\ original[i] # None /\ original' = [original EXCEPT ![i] = None]
             /\ UNCHANGED published
    BY <1>1, <2>2 DEF EffectInv, ObjectTypes, NothingOverwritten, Explained, Things, None
  <2>3. CASE Explained(i) /\ published[i] # None /\ published' = [published EXCEPT ![i] = None]
             /\ UNCHANGED original
    BY <1>1, <2>3 DEF EffectInv, ObjectTypes, NothingOverwritten, Explained, Things, None
  <2> QED BY <2>1, <2>2, <2>3 DEF Clean
<1> QED BY <1>4, <1>5 DEF EffectInv

\* Every step keeps the account of the pointers.
LEMMA NextEffects == AdmissionInv /\ EffectInv /\ [Next]_vars => EffectInv'
<1> SUFFICES ASSUME AdmissionInv, EffectInv, [Next]_vars PROVE EffectInv'
  OBVIOUS
<1>1. CASE \E q \in Others : Look(q) \/ Hold(q) \/ LookAgain(q) \/ Leave(q) \/ KillOrdinary(q)
  BY <1>1, BesideSteps DEF Look, Hold, LookAgain, Leave, KillOrdinary, objects, record, around, count
<1>2. CASE Admit \/ PublishJournal \/ KillRename \/ PlanRename
           \/ \E verb \in {"rename", "continue", "abort"} : StartRename(verb)
  <2>1. UNCHANGED <<active, original, published, edited, log>>
    BY <1>2 DEF Admit, PublishJournal, KillRename, PlanRename, StartRename, objects, record,
       around, count
  <2>2. cmd'.pc \in {"idle", "lock", "plan", "publish", "judge"}
    BY <1>2, StepGoesOn DEF Admit, PublishJournal, KillRename, PlanRename, StartRename, Stop,
       AdmissionInv, Labels
  <2> QED BY <2>1, <2>2, DecidingSteps
<1>3. CASE Judge \/ IntendEffect \/ RecordDone
  <2>1. UNCHANGED <<active, original, published, edited>> /\ log \subseteq log'
    BY <1>3 DEF Judge, IntendEffect, RecordDone, objects, record, count
  <2>2. CASE IntendEffect /\ cmd' = [cmd EXCEPT !.pc = "check"]
    BY <2>1, <2>2, StepGoesOn, DecidingSteps DEF IntendEffect, AdmissionInv, Labels
  <2>3. CASE ~(IntendEffect /\ cmd' = [cmd EXCEPT !.pc = "check"])
    <3>1. cmd'.pc \in {"idle", "intent"}
      BY <1>3, <2>3, StepEnds DEF Judge, IntendEffect, RecordDone, AdmissionInv
    <3> QED BY <2>1, <3>1, DecidingSteps
  <2> QED BY <2>2, <2>3
<1>4. CASE \/ Occupy \/ UNCHANGED vars
           \/ \E result \in {"same", "busy", "changed"} : WorkInWorktree(result)
  BY <1>4, BesideSteps DEF Occupy, WorkInWorktree, Meddle, vars, objects, record, around, count
<1> QED BY <1>1, <1>2, <1>3, <1>4, CheckSteps, ActSteps, CleanSteps, WritingSteps DEF Next
-----------------------------------------------------------------------------
\* Every pointer is where the journal, or somebody else, put it, in every
\* instance.
THEOREM EffectInvariant == Spec => []EffectInv
  BY InitEffects, NextEffects, AdmissionInvariant, PTL DEF Spec

\* NothingOverwritten in every instance.
THEOREM NothingEverOverwritten == Spec => []NothingOverwritten
<1>1. EffectInv => NothingOverwritten
  BY DEF EffectInv
<1> QED BY <1>1, EffectInvariant, PTL

\* WholeOrNothing in every instance: what is recorded is what was seen.
THEOREM AlwaysWholeOrNothing == Spec => WholeOrNothing
<1> DEFINE Whole ==
      /\ \A kind \in {"complete", "aborted", "cleaned"} :
           ~Done(Of(kind)) /\ Done(Of(kind))' =>
             \A i \in Pointers \ since :
               active[i] = (IF dir = "new" THEN "post" ELSE "pre")
      /\ dir' # dir => git = "same" \/ 0 \in since
<1>1. ASSUME EffectInv, [Next]_vars PROVE [Whole]_vars
  <2>1. ASSUME NEW kind \in {"complete", "aborted", "cleaned"}, ~Done(Of(kind)), Done(Of(kind))',
               NEW i \in Pointers \ since
        PROVE  active[i] = (IF dir = "new" THEN "post" ELSE "pre")
    <3>1. RecordDone /\ E = Of(kind)
      <4>1. <<Of(kind), "done">> \in log' \ log
        BY <2>1 DEF Done
      <4>2. IntendEffect \/ RecordDone
        BY <1>1, <4>1 DEF Next, Look, Hold, LookAgain, Leave, StartRename, Admit, PlanRename,
           PublishJournal, Judge, CheckEffect, ActOnEffect, Clean, KillRename, KillOrdinary,
           Overwrite, Delete, Occupy, WorkInWorktree, Meddle, record, vars
      <4> HIDE DEF E
      <4>3. ~IntendEffect
        BY <4>1 DEF IntendEffect
      <4> QED BY <4>1, <4>2, <4>3 DEF RecordDone
    <3>2. E[1] = kind /\ cmd.pc = "done"
      BY <3>1 DEF Of, RecordDone
    <3> QED BY <1>1, <2>1, <3>2 DEF EffectInv, ReadyToRecord, Named
  <2>2. ASSUME dir' # dir PROVE git = "same" \/ 0 \in since
    <3>1. cmd.pc = "act"
      BY <1>1, <2>2 DEF Next, Look, Hold, LookAgain, Leave, StartRename, Admit, PlanRename,
         PublishJournal, Judge, IntendEffect, CheckEffect, ActOnEffect, Clean, RecordDone,
         KillRename, KillOrdinary, Overwrite, Delete, Occupy, WorkInWorktree, Meddle, objects, vars
    <3> QED BY <1>1, <3>1 DEF EffectInv, ReadyToAct
  <2> QED BY <2>1, <2>2
<1>2. WholeOrNothing <=> [][Whole]_vars
  BY PTL DEF WholeOrNothing
<1> QED BY <1>1, <1>2, EffectInvariant, PTL DEF Spec
=============================================================================
