----------------------- MODULE SyncTransaction_proofs ------------------------
(* SyncTransaction, for every number of entries, branches, repositories,    *)
(* crashes and interferences: its types, and the promises a user of         *)
(* `tws sync` relies on.  The preimages of what the run rewrote stay        *)
(* protected while it can be rolled back, commits made by somebody else     *)
(* stay where they are, a journal can always be read back, and what a run   *)
(* did to branches, worktrees, stack.yaml and remotes is always explained.  *)
EXTENDS SyncRefinement, TLAPS

(* What the constants give.                                                 *)

LEMMA BoundsAreNaturals == N \in Nat /\ MaxCrash \in Nat /\ MaxUser \in Nat
  BY ConstantsAssumption DEF ConstantsAssumption

LEMMA ZeroIsCommit == 0 \in Commits
  BY DEF Commits

LEMMA HomeIsPosition == Home \in Position
  BY ZeroIsCommit DEF Home, Position

LEMMA EntryIsCommit == ASSUME JournalTypeOK PROVE act.entry \in Commits
  <1>1. act.entry \in 0..N  BY DEF JournalTypeOK, ActionEntry
  <1> QED BY <1>1, BoundsAreNaturals DEF Commits
-----------------------------------------------------------------------------
(* The building blocks the actions share: what leaves the repositories or   *)
(* the journal alone, and what each of the journal's updates stores.        *)

LEMMA GitKept == ASSUME GitTypeOK, UNCHANGED git PROVE GitTypeOK'
  BY DEF git, GitTypeOK

LEMMA JournalKept ==
  ASSUME JournalTypeOK, UNCHANGED journal PROVE JournalTypeOK'
  BY DEF journal, JournalTypeOK

LEMMA SetMetaTyped ==
  ASSUME JournalTypeOK, NEW m \in MetaEntry, SetMeta(m) PROVE JournalTypeOK'
  BY DEF SetMeta, JournalTypeOK

LEMMA AdoptMetaTyped ==
  ASSUME GitTypeOK, JournalTypeOK, AdoptMeta PROVE JournalTypeOK'
  <1>1. [jmeta EXCEPT !.exp = meta, !.pend = FALSE] \in MetaEntry
    BY DEF GitTypeOK, JournalTypeOK, MetaEntry
  <1> QED BY <1>1, SetMetaTyped DEF AdoptMeta

LEMMA MetaRestoredTyped ==
  ASSUME JournalTypeOK, MetaRestored PROVE JournalTypeOK'
  <1>1. [jmeta EXCEPT !.exp = 0, !.pend = FALSE, !.rest = TRUE] \in MetaEntry
    BY ZeroIsCommit DEF JournalTypeOK, MetaEntry
  <1> QED BY <1>1, SetMetaTyped DEF MetaRestored

LEMMA SetPubTyped ==
  ASSUME JournalTypeOK, NEW p \in Publication, SetPub(p)
  PROVE  JournalTypeOK'
  BY DEF SetPub, JournalTypeOK, Phases

LEMMA PublishingTyped ==
  ASSUME JournalTypeOK, NEW e \in Entries
  PROVE  Publishing(e) \in Publication
  <1>1. jref[e].exp \in Commits  BY DEF JournalTypeOK, RefEntry, Refs
  <1>2. e \in 0..N               BY BoundsAreNaturals DEF Entries
  <1>3. pub \in Publication      BY DEF JournalTypeOK
  <1>4. [pub.src EXCEPT ![e] = IF @ = Nothing THEN jref[e].exp ELSE @]
          \in [Entries -> Contents]
    BY <1>1, <1>3 DEF Publication, Contents
  <1> QED BY <1>2, <1>3, <1>4 DEF Publishing, Publication

LEMMA SetHoldTyped ==
  ASSUME JournalTypeOK, NEW e, NEW h, e \in Entries => h \in HoldEntry,
         SetHold(e, h)
  PROVE  JournalTypeOK'
  BY DEF SetHold, JournalTypeOK

LEMMA SetPinTyped ==
  ASSUME JournalTypeOK, NEW r, NEW p \in BOOLEAN, NEW d \in BOOLEAN,
         SetPin(r, p, d)
  PROVE  JournalTypeOK'
  BY DEF SetPin, JournalTypeOK, RefEntry

LEMMA SetValTyped ==
  ASSUME JournalTypeOK, NEW s \in {"intent", "observed", "failed", "mutated"},
         SetVal(s)
  PROVE  JournalTypeOK'
  BY DEF SetVal, JournalTypeOK, Phases

LEMMA AdoptTyped ==
  ASSUME GitTypeOK, JournalTypeOK, NEW s \in {"observed", "failed"}, Adopt(s)
  PROVE  JournalTypeOK'
  <1>1. jref' \in [Refs -> RefEntry]
    BY ZenonT(60) DEF Adopt, JournalTypeOK, RefEntry, GitTypeOK
  <1>2. \A e \in Entries : Pos(e) \in Position
    BY DEF GitTypeOK, Pos, Position, Refs
  <1>3. jhold' \in [Entries -> HoldEntry]
    BY <1>2 DEF Adopt, JournalTypeOK, HoldEntry
  <1>4. act' \in ActionEntry
    BY DEF Adopt, JournalTypeOK, ActionEntry
  <1> QED BY <1>1, <1>3, <1>4 DEF Adopt, JournalTypeOK, Phases

LEMMA MoveTipsTyped ==
  ASSUME GitTypeOK, NEW e, MoveTips(e)
  PROVE  /\ ref' \in [Refs -> Commits]
         /\ reflog' \in [Refs -> {"anchor", "run", "other"}]
  <1>1. \A c \in Commits : Replayed(c) \in Commits
    BY DEF Replayed, Commits, UserWork
  <1>2. ref' \in [Refs -> Commits]
    BY <1>1 DEF GitTypeOK, MoveTips
  <1>3. reflog' \in [Refs -> {"anchor", "run", "other"}]
    BY DEF GitTypeOK, MoveTips
  <1> QED BY <1>2, <1>3
-----------------------------------------------------------------------------
LEMMA TypeInit == Init => TypeInv
  <1> SUFFICES ASSUME Init PROVE TypeInv  OBVIOUS
  <1>1. GitTypeOK
    BY ZeroIsCommit DEF Init, GitTypeOK, Contents
  <1>2. <<"branch", 0>> \in Position  BY HomeIsPosition DEF Home
  <1>3. 0 \in 0..N /\ 0 \in 0..MaxCrash /\ 0 \in 0..MaxUser
    BY BoundsAreNaturals
  <1>4. JournalTypeOK
    <2>1. jref \in [Refs -> RefEntry]
      BY ZeroIsCommit DEF Init, RefEntry
    <2>2. jhold \in [Entries -> HoldEntry]
      BY <1>2 DEF Init, HoldEntry
    <2>3. jmeta \in MetaEntry
      BY ZeroIsCommit DEF Init, MetaEntry, Contents
    <2>4. act \in ActionEntry /\ done \in 0..N
      BY <1>3 DEF Init, ActionEntry
    <2>5. pub \in Publication
      BY <1>3 DEF Init, Publication, Contents
    <2>6. rb \in Rollback
      BY DEF Init, Rollback
    <2> QED
      BY <2>1, <2>2, <2>3, <2>4, <2>5, <2>6 DEF Init, JournalTypeOK, Phases
  <1>5. CommandTypeOK /\ TargetsOK
    BY <1>3 DEF Init, CommandTypeOK, Labels, TargetsOK
  <1> QED BY <1>1, <1>4, <1>5 DEF TypeInv, TypeOK

\* Every step keeps the types.
LEMMA TypeStep == ASSUME TypeInv, Next PROVE TypeInv'
<1> USE DEF TypeInv, TypeOK
<1>1. CASE Birth
  <2>1. GitTypeOK'
    BY <1>1, GitKept DEF Birth
  <2>2. JournalTypeOK'
    BY <1>1, ConstantsAssumption
    DEF JournalTypeOK, ConstantsAssumption, Birth
  <2>3. CommandTypeOK' /\ TargetsOK'
    BY <1>1 DEF CommandTypeOK, TargetsOK, Labels, Birth, bounds, Start
  <2> QED BY <2>1, <2>2, <2>3
<1>2. CASE ContinueCommand
  <2>1. GitTypeOK'
    BY <1>2, GitKept DEF ContinueCommand
  <2>2. JournalTypeOK'
    BY <1>2, JournalKept DEF ContinueCommand
  <2>3. CommandTypeOK' /\ TargetsOK'
    BY <1>2 DEF CommandTypeOK, TargetsOK, Labels, ContinueCommand, bounds,
        Start
  <2> QED BY <2>1, <2>2, <2>3
<1>3. CASE AbortCommand
  <2>1. GitTypeOK'
    BY <1>3, GitKept DEF AbortCommand
  <2>2. JournalTypeOK'
    BY <1>3, JournalKept DEF AbortCommand
  <2>3. CommandTypeOK' /\ TargetsOK'
    BY <1>3 DEF CommandTypeOK, TargetsOK, Labels, AbortCommand, bounds, Start
  <2> QED BY <2>1, <2>2, <2>3
<1>4. CASE PinCreate
  <2>1. GitTypeOK'
    BY <1>4 DEF GitTypeOK, PinCreate, Commits, UserWork, Contents
  <2>2. JournalTypeOK'
    BY <1>4, JournalKept DEF PinCreate
  <2>3. CommandTypeOK' /\ TargetsOK'
    BY <1>4 DEF CommandTypeOK, TargetsOK, Labels, PinCreate, bounds, At, Goto
  <2> QED BY <2>1, <2>2, <2>3
<1>5. CASE PinSave
  <2>1. GitTypeOK'
    BY <1>5, GitKept DEF PinSave
  <2>2. JournalTypeOK'
    BY <1>5 DEF JournalTypeOK, PinSave, Phases, RefEntry
  <2>3. CommandTypeOK' /\ TargetsOK'
    BY <1>5 DEF CommandTypeOK, TargetsOK, Labels, PinSave, bounds, At, Goto
  <2> QED BY <2>1, <2>2, <2>3
<1>6. CASE PinsDone
  <2>1. GitTypeOK'
    BY <1>6, GitKept DEF PinsDone, Pass
  <2>2. JournalTypeOK'
    BY <1>6, JournalKept DEF PinsDone, Pass
  <2>3. CommandTypeOK' /\ TargetsOK'
    BY <1>6 DEF CommandTypeOK, TargetsOK, Labels, PinsDone, bounds, At, Goto,
        Pass
  <2> QED BY <2>1, <2>2, <2>3
<1>7. CASE FreezeCutoffs
  <2>1. GitTypeOK'
    BY <1>7, GitKept DEF FreezeCutoffs
  <2>2. JournalTypeOK'
    BY <1>7 DEF JournalTypeOK, FreezeCutoffs, Phases
  <2>3. CommandTypeOK' /\ TargetsOK'
    BY <1>7 DEF CommandTypeOK, TargetsOK, Labels, FreezeCutoffs, bounds, At,
        Goto
  <2> QED BY <2>1, <2>2, <2>3
<1>8. CASE FreezeRefused
  <2>1. GitTypeOK'
    BY <1>8, GitKept DEF FreezeRefused, Refuse
  <2>2. JournalTypeOK'
    BY <1>8, JournalKept DEF JournalTypeOK, FreezeRefused, Refuse, Phases
  <2>3. CommandTypeOK' /\ TargetsOK'
    BY <1>8 DEF CommandTypeOK, TargetsOK, Labels, FreezeRefused, bounds, At,
        Goto, Exit, Refuse
  <2> QED BY <2>1, <2>2, <2>3
<1>9. CASE SnapshotReady
  <2>1. GitTypeOK'
    BY <1>9, GitKept DEF SnapshotReady
  <2>2. JournalTypeOK'
    BY <1>9 DEF JournalTypeOK, SnapshotReady, Phases
  <2>3. CommandTypeOK' /\ TargetsOK'
    BY <1>9 DEF CommandTypeOK, TargetsOK, Labels, SnapshotReady, bounds, At,
        Goto
  <2> QED BY <2>1, <2>2, <2>3
<1>10. CASE BeginAction
  <2>1. GitTypeOK'
    BY <1>10 DEF GitTypeOK, BeginAction, Refuse, git, Commits, UserWork,
        Contents
  <2>2. JournalTypeOK'
    <3>1. CASE UNCHANGED journal  BY <3>1, JournalKept
    <3>2. CASE act' = [entry |-> done + 1, st |-> "intent"] /\ done < N
               /\ UNCHANGED <<payload, phase, cutoffs, ready, completion, jref,
                              jhold, jmeta, val, done, pub, rb>>
      <4>1. done \in 0..N  BY DEF JournalTypeOK
      <4>2. done + 1 \in 0..N  BY <3>2, <4>1, BoundsAreNaturals
      <4>3. act' \in ActionEntry  BY <3>2, <4>2 DEF ActionEntry
      <4> QED BY <3>2, <4>3 DEF JournalTypeOK
    <3> QED BY <1>10, <3>1, <3>2 DEF BeginAction, Refuse
  <2>3. CommandTypeOK' /\ TargetsOK'
    BY <1>10 DEF CommandTypeOK, TargetsOK, Labels, BeginAction, bounds, At,
        Goto, Exit, Refuse
  <2> QED BY <2>1, <2>2, <2>3
<1>11. CASE Rebase
  <2>1. GitTypeOK'
    <3>1. ASSUME NEW e, MoveTips(e)
          PROVE  /\ ref' \in [Refs -> Commits]
                 /\ reflog' \in [Refs -> {"anchor", "run", "other"}]
      BY <3>1, MoveTipsTyped
    <3> QED BY <1>11, <3>1, ZeroIsCommit DEF GitTypeOK, Rebase
  <2>2. JournalTypeOK'
    BY <1>11, JournalKept DEF Rebase
  <2>3. CommandTypeOK' /\ TargetsOK'
    BY <1>11 DEF CommandTypeOK, TargetsOK, Labels, Rebase, bounds, At, Goto
  <2> QED BY <2>1, <2>2, <2>3
<1>12. CASE Observe
  <2>1. GitTypeOK'
    BY <1>12, GitKept DEF Observe, Refuse
  <2>2. JournalTypeOK'
    BY <1>12, JournalKept, AdoptTyped DEF Observe, Refuse
  <2>3. CommandTypeOK' /\ TargetsOK'
    BY <1>12 DEF CommandTypeOK, TargetsOK, Labels, Observe, bounds, At, Goto,
        Exit, Refuse
  <2> QED BY <2>1, <2>2, <2>3
<1>13. CASE BeginValidation
  <2>1. GitTypeOK'
    BY <1>13, GitKept DEF BeginValidation, Refuse
  <2>2. JournalTypeOK'
    BY <1>13, JournalKept, SetValTyped DEF BeginValidation, Refuse
  <2>3. CommandTypeOK' /\ TargetsOK'
    BY <1>13 DEF CommandTypeOK, TargetsOK, Labels, BeginValidation, bounds,
        At, Goto, Exit, Refuse
  <2> QED BY <2>1, <2>2, <2>3
<1>14. CASE Validator
  <2>1. GitTypeOK'
    BY <1>14 DEF GitTypeOK, Validator, Commits, UserWork, Contents
  <2>2. JournalTypeOK'
    BY <1>14, JournalKept DEF Validator
  <2>3. CommandTypeOK' /\ TargetsOK'
    BY <1>14 DEF CommandTypeOK, TargetsOK, Labels, Validator, bounds, At,
        Goto
  <2> QED BY <2>1, <2>2, <2>3
<1>15. CASE EndValidation
  <2>1. GitTypeOK'
    BY <1>15, GitKept DEF EndValidation
  <2>2. JournalTypeOK'
    BY <1>15, SetValTyped DEF EndValidation
  <2>3. CommandTypeOK' /\ TargetsOK'
    BY <1>15 DEF CommandTypeOK, TargetsOK, Labels, EndValidation, bounds, At,
        Goto, Exit
  <2> QED BY <2>1, <2>2, <2>3
<1>16. CASE MetaIntent
  <2>1. GitTypeOK'
    BY <1>16, GitKept DEF MetaIntent, Refuse, Pass
  <2>2. JournalTypeOK'
    <3>1. CASE UNCHANGED journal  BY <3>1, JournalKept
    <3>2. CASE AdoptMeta          BY <3>2, AdoptMetaTyped
    <3>3. CASE SetMeta([jmeta EXCEPT !.intent = act.entry, !.pend = TRUE])
      <4>1. act.entry \in Commits  BY EntryIsCommit
      <4>2. [jmeta EXCEPT !.intent = act.entry, !.pend = TRUE] \in MetaEntry
        BY <4>1 DEF JournalTypeOK, MetaEntry, Contents
      <4> QED BY <3>3, <4>2, SetMetaTyped
    <3> QED BY <1>16, <3>1, <3>2, <3>3 DEF MetaIntent, Refuse, Pass
  <2>3. CommandTypeOK' /\ TargetsOK'
    <3>1. CommandTypeOK'
      BY <1>16 DEF CommandTypeOK, Labels, MetaIntent, At, Goto, Exit, Refuse,
               Pass, bounds
    <3>2. pc' = "metaWrite" => jmeta' = [jmeta EXCEPT !.intent = act.entry,
                                                     !.pend = TRUE]
      BY <1>16 DEF MetaIntent, SetMeta, Goto, Exit, Refuse, Pass
    <3>3. act.entry \in Commits /\ jmeta \in MetaEntry
      BY EntryIsCommit DEF JournalTypeOK
    <3>4. [jmeta EXCEPT !.intent = act.entry, !.pend = TRUE].intent = act.entry
      BY <3>3 DEF MetaEntry
    <3>5. pc' \in {"idle", "meta", "metaWrite", "progress"}
      BY <1>16 DEF MetaIntent, Goto, Exit, Refuse, Pass
    <3> QED BY <3>1, <3>2, <3>3, <3>4, <3>5 DEF TargetsOK
  <2> QED BY <2>1, <2>2, <2>3
<1>17. CASE MetaWrite
  <2>1. GitTypeOK'
    BY <1>17 DEF GitTypeOK, TargetsOK, MetaWrite, At
  <2>2. JournalTypeOK'
    BY <1>17, JournalKept DEF MetaWrite
  <2>3. CommandTypeOK' /\ TargetsOK'
    BY <1>17 DEF CommandTypeOK, TargetsOK, Labels, MetaWrite, bounds, At,
        Goto
  <2> QED BY <2>1, <2>2, <2>3
<1>18. CASE MetaCheck
  <2>1. GitTypeOK'
    BY <1>18, GitKept DEF MetaCheck, Refuse
  <2>2. JournalTypeOK'
    BY <1>18, JournalKept, AdoptMetaTyped DEF MetaCheck, Refuse
  <2>3. CommandTypeOK' /\ TargetsOK'
    BY <1>18 DEF CommandTypeOK, TargetsOK, Labels, MetaCheck, bounds, At,
        Goto, Exit, Refuse
  <2> QED BY <2>1, <2>2, <2>3
<1>19. CASE Progress
  <2>1. GitTypeOK'
    BY <1>19, GitKept DEF Progress
  <2>2. JournalTypeOK'
    BY <1>19, ZenonT(60) DEF JournalTypeOK, Progress, Phases, ActionEntry
  <2>3. CommandTypeOK' /\ TargetsOK'
    BY <1>19 DEF CommandTypeOK, TargetsOK, Labels, Progress, bounds, At, Goto
  <2> QED BY <2>1, <2>2, <2>3
<1>20. CASE ForwardDone
  <2>1. GitTypeOK'
    BY <1>20, GitKept DEF ForwardDone, Pass
  <2>2. JournalTypeOK'
    BY <1>20, JournalKept DEF ForwardDone, Pass
  <2>3. CommandTypeOK' /\ TargetsOK'
    BY <1>20 DEF CommandTypeOK, TargetsOK, Labels, ForwardDone, bounds, At,
        Goto, Pass
  <2> QED BY <2>1, <2>2, <2>3
<1>21. CASE BeginPublication
  <2>1. GitTypeOK'
    BY <1>21, GitKept DEF BeginPublication, Refuse
  <2>2. JournalTypeOK'
    <3>1. CASE UNCHANGED journal  BY <3>1, JournalKept
    <3>2. ASSUME NEW e \in Entries, SetPub(Publishing(e))
          PROVE  JournalTypeOK'
      BY <3>2, PublishingTyped, SetPubTyped
    <3> QED BY <1>21, <3>1, <3>2 DEF BeginPublication, Refuse
  <2>3. CommandTypeOK' /\ TargetsOK'
    <3>1. CommandTypeOK'
      BY <1>21 DEF CommandTypeOK, Labels, BeginPublication, Goto, Exit,
          Refuse,
               bounds
    <3>2. pc' \in {"idle", "network"}
      BY <1>21 DEF BeginPublication, Goto, Exit, Refuse
    <3>3. ASSUME pc' = "network" PROVE pub'.cur \in Entries
      <4>1. PICK e \in Entries : pub' = Publishing(e)
        BY <1>21, <3>3 DEF BeginPublication, SetPub, Exit, Refuse
      <4>2. Publishing(e).cur = e
        BY DEF Publishing, JournalTypeOK, Publication
      <4> QED BY <4>1, <4>2
    <3> QED BY <3>1, <3>2, <3>3 DEF TargetsOK
  <2> QED BY <2>1, <2>2, <2>3
<1>22. CASE Network
  <2>1. GitTypeOK'
    <3>1. pub.src \in [Entries -> Contents]  BY DEF JournalTypeOK,
        Publication
    <3> QED BY <1>22, <3>1 DEF GitTypeOK, Network
  <2>2. JournalTypeOK'
    BY <1>22, JournalKept DEF Network
  <2>3. CommandTypeOK' /\ TargetsOK'
    BY <1>22 DEF CommandTypeOK, TargetsOK, Labels, Network, journal, bounds,
        At,
           Goto
  <2> QED BY <2>1, <2>2, <2>3
<1>23. CASE PushResult
  <2>1. GitTypeOK'
    BY <1>23, GitKept DEF PushResult
  <2>2. JournalTypeOK'
    <3> DEFINE p == [pub EXCEPT !.cur = 0,
                       !.ok = IF res = "ok" THEN @ \cup {pub.cur} ELSE @]
    <3>1. pub.cur \in Entries  BY <1>23 DEF PushResult, At, TargetsOK
    <3>2. p \in Publication
      <4>1. pub \in Publication  BY DEF JournalTypeOK
      <4>2. 0 \in 0..N           BY BoundsAreNaturals
      <4> QED BY <3>1, <4>1, <4>2 DEF Publication
    <3>3. SetPub(p)  BY <1>23 DEF PushResult
    <3> QED BY <3>2, <3>3, SetPubTyped
  <2>3. CommandTypeOK' /\ TargetsOK'
    BY <1>23 DEF CommandTypeOK, TargetsOK, Labels, PushResult, bounds, At,
        Goto, Exit
  <2> QED BY <2>1, <2>2, <2>3
<1>24. CASE PushDone
  <2>1. GitTypeOK'
    BY <1>24, GitKept DEF PushDone, Pass
  <2>2. JournalTypeOK'
    BY <1>24, JournalKept DEF PushDone, Pass
  <2>3. CommandTypeOK' /\ TargetsOK'
    BY <1>24 DEF CommandTypeOK, TargetsOK, Labels, PushDone, bounds, At,
        Goto, Pass
  <2> QED BY <2>1, <2>2, <2>3
<1>25. CASE Complete
  <2>1. GitTypeOK'
    BY <1>25, GitKept DEF Complete, Refuse
  <2>2. JournalTypeOK'
    BY <1>25, JournalKept DEF JournalTypeOK, Complete, Refuse, Phases
  <2>3. CommandTypeOK' /\ TargetsOK'
    BY <1>25 DEF CommandTypeOK, TargetsOK, Labels, Complete, bounds, At,
        Goto, Exit, Refuse
  <2> QED BY <2>1, <2>2, <2>3
<1>26. CASE DeleteIntent
  <2>1. GitTypeOK'
    BY <1>26, GitKept DEF DeleteIntent
  <2>2. JournalTypeOK'
    <3>1. ASSUME NEW r \in Unfinished PROVE jref[r].pinned \in BOOLEAN
      BY DEF Unfinished, JournalTypeOK, RefEntry
    <3> QED BY <1>26, <3>1, SetPinTyped DEF DeleteIntent
  <2>3. CommandTypeOK' /\ TargetsOK'
    BY <1>26 DEF CommandTypeOK, TargetsOK, Labels, DeleteIntent, Unfinished,
           Goto, bounds
  <2> QED BY <2>1, <2>2, <2>3
<1>27. CASE DeletePin
  <2>1. GitTypeOK'
    BY <1>27 DEF GitTypeOK, DeletePin, Commits, UserWork, Contents
  <2>2. JournalTypeOK'
    BY <1>27, JournalKept DEF DeletePin
  <2>3. CommandTypeOK' /\ TargetsOK'
    BY <1>27 DEF CommandTypeOK, TargetsOK, Labels, DeletePin, bounds, At,
        Goto
  <2> QED BY <2>1, <2>2, <2>3
<1>28. CASE DeleteSave
  <2>1. GitTypeOK'
    BY <1>28, GitKept DEF DeleteSave
  <2>2. JournalTypeOK'
    BY <1>28, SetPinTyped DEF DeleteSave
  <2>3. CommandTypeOK' /\ TargetsOK'
    BY <1>28 DEF CommandTypeOK, TargetsOK, Labels, DeleteSave, bounds, At,
        Goto
  <2> QED BY <2>1, <2>2, <2>3
<1>29. CASE RepoPinsGone
  <2>1. GitTypeOK'
    BY <1>29, GitKept DEF RepoPinsGone
  <2>2. JournalTypeOK'
    BY <1>29, ZenonT(60) DEF JournalTypeOK, RepoPinsGone, Phases, Rollback
  <2>3. CommandTypeOK' /\ TargetsOK'
    BY <1>29 DEF CommandTypeOK, TargetsOK, Labels, RepoPinsGone, bounds, At,
        Goto
  <2> QED BY <2>1, <2>2, <2>3
<1>30. CASE Clear
  <2>1. GitTypeOK'
    BY <1>30, GitKept DEF Clear
  <2>2. JournalTypeOK'
    BY <1>30 DEF JournalTypeOK, Clear, Phases
  <2>3. CommandTypeOK' /\ TargetsOK'
    BY <1>30 DEF CommandTypeOK, TargetsOK, Labels, Clear, bounds, At, Exit
  <2> QED BY <2>1, <2>2, <2>3
<1>31. CASE RecoverPreflight
  <2>1. GitTypeOK'
    BY <1>31, GitKept DEF RecoverPreflight, Refuse, Pass, Check
  <2>2. JournalTypeOK'
    BY <1>31, JournalKept DEF RecoverPreflight, Refuse, Pass, Check
  <2>3. CommandTypeOK' /\ TargetsOK'
    BY <1>31 DEF CommandTypeOK, TargetsOK, Labels, RecoverPreflight, bounds,
        At, Goto, Exit, Refuse, Pass, Check
  <2> QED BY <2>1, <2>2, <2>3
<1>32. CASE ReconcileMeta
  <2>1. GitTypeOK'
    BY <1>32, GitKept DEF ReconcileMeta, Refuse, Pass
  <2>2. JournalTypeOK'
    BY <1>32, JournalKept, AdoptMetaTyped DEF ReconcileMeta, Refuse, Pass
  <2>3. CommandTypeOK' /\ TargetsOK'
    BY <1>32 DEF CommandTypeOK, TargetsOK, Labels, ReconcileMeta, bounds, At,
        Goto, Exit, Refuse, Pass
  <2> QED BY <2>1, <2>2, <2>3
<1>33. CASE ReconcileValidation
  <2>1. GitTypeOK'
    BY <1>33, GitKept DEF ReconcileValidation, Refuse, Pass
  <2>2. JournalTypeOK'
    BY <1>33, JournalKept, SetValTyped DEF ReconcileValidation, Refuse, Pass
  <2>3. CommandTypeOK' /\ TargetsOK'
    BY <1>33 DEF CommandTypeOK, TargetsOK, Labels, ReconcileValidation,
        bounds, At, Goto, Exit, Refuse, Pass
  <2> QED BY <2>1, <2>2, <2>3
<1>34. CASE ReconcileAction
  <2>1. GitTypeOK'
    BY <1>34, GitKept DEF ReconcileAction, Refuse, Pass
  <2>2. JournalTypeOK'
    BY <1>34, JournalKept, AdoptTyped DEF ReconcileAction, Refuse, Pass
  <2>3. CommandTypeOK' /\ TargetsOK'
    BY <1>34 DEF CommandTypeOK, TargetsOK, Labels, ReconcileAction, bounds,
        At, Goto, Exit, Refuse, Pass, AfterReconcile
  <2> QED BY <2>1, <2>2, <2>3
<1>35. CASE Resume
  <2>1. GitTypeOK'
    BY <1>35, GitKept DEF Resume, Pass
  <2>2. JournalTypeOK'
    BY <1>35, JournalKept DEF Resume, Pass
  <2>3. CommandTypeOK' /\ TargetsOK'
    BY <1>35 DEF CommandTypeOK, TargetsOK, Labels, Resume, bounds, At, Goto,
        Pass
  <2> QED BY <2>1, <2>2, <2>3
<1>36. CASE RollbackPreflight
  <2>1. GitTypeOK'
    BY <1>36, GitKept DEF RollbackPreflight, Refuse, Pass
  <2>2. JournalTypeOK'
    <3>1. CASE UNCHANGED journal  BY <3>1, JournalKept
    <3>2. [rb EXCEPT !.on = TRUE] \in Rollback  BY DEF JournalTypeOK,
        Rollback
    <3> QED
      BY <1>36, <3>1, <3>2 DEF JournalTypeOK, RollbackPreflight, SetRollback,
                           Refuse, Pass, Phases
  <2>3. CommandTypeOK' /\ TargetsOK'
    BY <1>36 DEF CommandTypeOK, TargetsOK, Labels, RollbackPreflight, bounds,
        At, Goto, Exit, Refuse, Pass
  <2> QED BY <2>1, <2>2, <2>3
<1>37. CASE RollbackAction
  <2>1. GitTypeOK'
    <3>1. CASE UNCHANGED git  BY <3>1, GitKept
    <3>2. CASE ActiveRebase
      BY <1>37, <3>2, ZeroIsCommit DEF GitTypeOK, RollbackAction, Pending,
                                  ActiveRebase
    <3> QED BY <1>37, <3>1, <3>2 DEF RollbackAction, Refuse, Pass
  <2>2. JournalTypeOK'
    BY <1>37, JournalKept, AdoptTyped DEF RollbackAction, Refuse, Pass
  <2>3. CommandTypeOK' /\ TargetsOK'
    BY <1>37 DEF CommandTypeOK, TargetsOK, Labels, RollbackAction, bounds,
        At, Goto, Exit, Refuse, Pass
  <2> QED BY <2>1, <2>2, <2>3
<1>38. CASE RollbackPreflight2
  <2>1. GitTypeOK'
    BY <1>38, GitKept DEF RollbackPreflight2, Refuse, Pass, Check
  <2>2. JournalTypeOK'
    BY <1>38, JournalKept DEF RollbackPreflight2, Refuse, Pass, Check
  <2>3. CommandTypeOK' /\ TargetsOK'
    BY <1>38 DEF CommandTypeOK, TargetsOK, Labels, RollbackPreflight2,
        bounds, At, Goto, Exit, Refuse, Pass, Check
  <2> QED BY <2>1, <2>2, <2>3
<1>39. CASE DetachIntent
  <2>1. GitTypeOK'
    BY <1>39, GitKept DEF DetachIntent, Pass
  <2>2. JournalTypeOK'
    <3>1. ASSUME NEW e \in Affected
          PROVE  [jhold[e] EXCEPT !.pend = TRUE] \in HoldEntry
      BY DEF Affected, JournalTypeOK, HoldEntry
    <3> QED BY <1>39, <3>1, JournalKept, SetHoldTyped DEF DetachIntent, Pass
  <2>3. CommandTypeOK' /\ TargetsOK'
    BY <1>39 DEF CommandTypeOK, TargetsOK, Labels, DetachIntent, Affected,
           Refs, Goto, Pass, bounds
  <2> QED BY <2>1, <2>2, <2>3
<1>40. CASE DetachSwitch
  <2>1. GitTypeOK'
    <3>1. CASE UNCHANGED git  BY <3>1, GitKept
    <3>2. sel \in Entries => jhold[sel].exp[2] \in Commits
      BY DEF JournalTypeOK, HoldEntry, Position
    <3> QED BY <1>40, <3>1, <3>2 DEF GitTypeOK, DetachSwitch, Refuse
  <2>2. JournalTypeOK'
    BY <1>40, JournalKept DEF DetachSwitch, Refuse
  <2>3. CommandTypeOK' /\ TargetsOK'
    BY <1>40 DEF CommandTypeOK, TargetsOK, Labels, DetachSwitch, bounds, At,
        Goto, Exit, Refuse
  <2> QED BY <2>1, <2>2, <2>3
<1>41. CASE DetachSave
  <2>1. GitTypeOK'
    BY <1>41, GitKept DEF DetachSave
  <2>2. JournalTypeOK'
    <3> DEFINE h == [jhold[sel] EXCEPT !.exp = <<"detached", @[2]>>,
                                       !.det = TRUE, !.pend = FALSE]
    <3>1. ASSUME sel \in Entries PROVE h \in HoldEntry
      <4>1. jhold[sel] \in HoldEntry  BY <3>1 DEF JournalTypeOK
      <4>2. <<"detached", jhold[sel].exp[2]>> \in Position
        BY <4>1 DEF HoldEntry, Position
      <4> QED BY <4>1, <4>2 DEF HoldEntry
    <3>2. SetHold(sel, h)  BY <1>41 DEF DetachSave
    <3> QED BY <3>1, <3>2, SetHoldTyped
  <2>3. CommandTypeOK' /\ TargetsOK'
    BY <1>41 DEF CommandTypeOK, TargetsOK, Labels, DetachSave, bounds, At,
        Goto
  <2> QED BY <2>1, <2>2, <2>3
<1>42. CASE RefsIntent
  <2>1. GitTypeOK'
    BY <1>42, GitKept DEF RefsIntent, Refuse, Pass
  <2>2. JournalTypeOK'
    BY <1>42, JournalKept DEF RefsIntent, Refuse, Pass
  <2>3. CommandTypeOK' /\ TargetsOK'
    BY <1>42 DEF CommandTypeOK, TargetsOK, Labels, RefsIntent, bounds, At,
        Goto, Exit, Refuse, Pass
  <2> QED BY <2>1, <2>2, <2>3
<1>43. CASE RefsRestore
  <2>1. GitTypeOK'
    BY <1>43 DEF GitTypeOK, RefsRestore, Refuse, git, Commits, UserWork,
        Contents
  <2>2. JournalTypeOK'
    BY <1>43, JournalKept DEF RefsRestore, Refuse
  <2>3. CommandTypeOK' /\ TargetsOK'
    BY <1>43 DEF CommandTypeOK, TargetsOK, Labels, RefsRestore, bounds, At,
        Goto, Exit, Refuse
  <2> QED BY <2>1, <2>2, <2>3
<1>44. CASE RefsSave
  <2>1. GitTypeOK'
    BY <1>44, GitKept DEF RefsSave
  <2>2. JournalTypeOK'
    <3>1. [rb EXCEPT !.refs = @ \cup {sel}] \in Rollback
      BY <1>44 DEF JournalTypeOK, Rollback, RefsSave, At, TargetsOK
    <3>2. jref' \in [Refs -> RefEntry]
      BY <1>44 DEF JournalTypeOK, RefEntry, RefsSave, Commits
    <3> QED BY <1>44, <3>1, <3>2 DEF JournalTypeOK, RefsSave, SetRollback
  <2>3. CommandTypeOK' /\ TargetsOK'
    BY <1>44 DEF CommandTypeOK, TargetsOK, Labels, RefsSave, bounds, At, Goto
  <2> QED BY <2>1, <2>2, <2>3
<1>45. CASE RestoreMeta
  <2>1. GitTypeOK'
    BY <1>45, GitKept DEF RestoreMeta, Refuse, Pass
  <2>2. JournalTypeOK'
    BY <1>45, JournalKept, MetaRestoredTyped DEF RestoreMeta, Refuse, Pass
  <2>3. CommandTypeOK' /\ TargetsOK'
    BY <1>45 DEF CommandTypeOK, TargetsOK, Labels, RestoreMeta, bounds, At,
        Goto, Exit, Refuse, Pass
  <2> QED BY <2>1, <2>2, <2>3
<1>46. CASE RestoreMetaWrite
  <2>1. GitTypeOK'
    BY <1>46 DEF GitTypeOK, RestoreMetaWrite, Commits, UserWork, Contents
  <2>2. JournalTypeOK'
    BY <1>46, JournalKept DEF RestoreMetaWrite
  <2>3. CommandTypeOK' /\ TargetsOK'
    BY <1>46 DEF CommandTypeOK, TargetsOK, Labels, RestoreMetaWrite, bounds,
        At, Goto
  <2> QED BY <2>1, <2>2, <2>3
<1>47. CASE RestoreMetaSave
  <2>1. GitTypeOK'
    BY <1>47, GitKept DEF RestoreMetaSave
  <2>2. JournalTypeOK'
    BY <1>47, MetaRestoredTyped DEF RestoreMetaSave
  <2>3. CommandTypeOK' /\ TargetsOK'
    BY <1>47 DEF CommandTypeOK, TargetsOK, Labels, RestoreMetaSave, bounds,
        At, Goto
  <2> QED BY <2>1, <2>2, <2>3
<1>48. CASE RestoreHolder
  <2>1. GitTypeOK'
    BY <1>48, GitKept DEF RestoreHolder, Refuse, Pass
  <2>2. JournalTypeOK'
    <3>1. CASE UNCHANGED journal  BY <3>1, JournalKept
    <3>2. ASSUME NEW e \in Entries
          PROVE  [jhold[e] EXCEPT !.exp = Home, !.rest = TRUE] \in HoldEntry
      BY HomeIsPosition DEF JournalTypeOK, HoldEntry
    <3> QED BY <1>48, <3>1, <3>2, SetHoldTyped DEF RestoreHolder, Refuse,
        Pass
  <2>3. CommandTypeOK' /\ TargetsOK'
    BY <1>48 DEF CommandTypeOK, TargetsOK, Labels, RestoreHolder, Refs, Goto,
           Exit, Refuse, Pass, bounds
  <2> QED BY <2>1, <2>2, <2>3
<1>49. CASE RestoreHolderSwitch
  <2>1. GitTypeOK'
    BY <1>49 DEF GitTypeOK, RestoreHolderSwitch, Commits, UserWork, Contents
  <2>2. JournalTypeOK'
    BY <1>49, JournalKept DEF RestoreHolderSwitch
  <2>3. CommandTypeOK' /\ TargetsOK'
    BY <1>49 DEF CommandTypeOK, TargetsOK, Labels, RestoreHolderSwitch,
        bounds, At, Goto
  <2> QED BY <2>1, <2>2, <2>3
<1>50. CASE RestoreHolderSave
  <2>1. GitTypeOK'
    BY <1>50, GitKept DEF RestoreHolderSave
  <2>2. JournalTypeOK'
    <3> DEFINE h == [jhold[sel] EXCEPT !.exp = Home, !.rest = TRUE]
    <3>1. sel \in Entries => h \in HoldEntry
      BY HomeIsPosition DEF JournalTypeOK, HoldEntry
    <3>2. SetHold(sel, h)  BY <1>50 DEF RestoreHolderSave
    <3> QED BY <3>1, <3>2, SetHoldTyped
  <2>3. CommandTypeOK' /\ TargetsOK'
    BY <1>50 DEF CommandTypeOK, TargetsOK, Labels, RestoreHolderSave, bounds,
        At, Goto
  <2> QED BY <2>1, <2>2, <2>3
<1>51. CASE RolledBack
  <2>1. GitTypeOK'
    BY <1>51, GitKept DEF RolledBack
  <2>2. JournalTypeOK'
    BY <1>51 DEF JournalTypeOK, RolledBack, Phases
  <2>3. CommandTypeOK' /\ TargetsOK'
    BY <1>51 DEF CommandTypeOK, TargetsOK, Labels, RolledBack, bounds, At,
        Goto
  <2> QED BY <2>1, <2>2, <2>3
<1>52. CASE Crash
  <2>1. GitTypeOK'
    BY <1>52, GitKept DEF Crash
  <2>2. JournalTypeOK'
    BY <1>52, JournalKept DEF Crash
  <2>3. CommandTypeOK' /\ TargetsOK'
    BY <1>52, BoundsAreNaturals DEF CommandTypeOK, TargetsOK, Labels, Crash,
        Exit
  <2> QED BY <2>1, <2>2, <2>3
<1>53. CASE UserCommit
  <2>1. GitTypeOK'
    BY <1>53 DEF GitTypeOK, UserCommit, Interferes, Commits, UserWork,
        Contents
  <2>2. JournalTypeOK'
    BY <1>53, JournalKept DEF UserCommit, Interferes
  <2>3. CommandTypeOK' /\ TargetsOK'
    BY <1>53, BoundsAreNaturals DEF CommandTypeOK, TargetsOK, UserCommit,
        journal, Interferes
  <2> QED BY <2>1, <2>2, <2>3
<1>54. CASE UserEdit
  <2>1. GitTypeOK'
    BY <1>54 DEF GitTypeOK, UserEdit, Refs, Commits, UserWork
  <2>2. JournalTypeOK'
    BY <1>54, JournalKept DEF UserEdit, Interferes
  <2>3. CommandTypeOK' /\ TargetsOK'
    BY <1>54, BoundsAreNaturals DEF CommandTypeOK, TargetsOK, UserEdit,
        journal, Interferes
  <2> QED BY <2>1, <2>2, <2>3
<1>55. CASE UserResolves
  <2>1. GitTypeOK'
    <3>1. ASSUME NEW e, MoveTips(e)
          PROVE  /\ ref' \in [Refs -> Commits]
                 /\ reflog' \in [Refs -> {"anchor", "run", "other"}]
      BY <3>1, MoveTipsTyped
    <3> QED BY <1>55, <3>1, ZeroIsCommit, ZenonT(60) DEF GitTypeOK, UserResolves
  <2>2. JournalTypeOK'
    BY <1>55, JournalKept DEF UserResolves
  <2>3. CommandTypeOK' /\ TargetsOK'
    BY <1>55, BoundsAreNaturals DEF CommandTypeOK, TargetsOK, UserResolves,
        journal, bounds
  <2> QED BY <2>1, <2>2, <2>3
<1>56. CASE UserCleans
  <2>1. GitTypeOK'
    BY <1>56 DEF GitTypeOK, UserCleans, Commits, UserWork, Contents
  <2>2. JournalTypeOK'
    BY <1>56, JournalKept DEF UserCleans
  <2>3. CommandTypeOK' /\ TargetsOK'
    BY <1>56, BoundsAreNaturals DEF CommandTypeOK, TargetsOK, UserCleans,
        journal, bounds
  <2> QED BY <2>1, <2>2, <2>3
<1>57. CASE Over
  <2>1. GitTypeOK'
    BY <1>57, GitKept DEF Over, vars
  <2>2. JournalTypeOK'
    BY <1>57, JournalKept DEF Over, vars
  <2>3. CommandTypeOK' /\ TargetsOK'
    BY <1>57, BoundsAreNaturals DEF CommandTypeOK, TargetsOK, Over, journal,
        vars, bounds
  <2> QED BY <2>1, <2>2, <2>3
<1> QED
  BY ONLY Next,
    <1>1, <1>2, <1>3, <1>4, <1>5, <1>6, <1>7, <1>8, <1>9, <1>10, <1>11,
    <1>12, <1>13, <1>14, <1>15, <1>16, <1>17, <1>18, <1>19, <1>20, <1>21,
    <1>22, <1>23, <1>24, <1>25, <1>26, <1>27, <1>28, <1>29, <1>30, <1>31,
    <1>32, <1>33, <1>34, <1>35, <1>36, <1>37, <1>38, <1>39, <1>40, <1>41,
    <1>42, <1>43, <1>44, <1>45, <1>46, <1>47, <1>48, <1>49, <1>50, <1>51,
    <1>52, <1>53, <1>54, <1>55, <1>56, <1>57
  DEF Next, CommandStep, ForwardSteps, CleanupSteps, RecoverySteps,
      RollbackSteps, UserSteps

LEMMA TypeStutter == ASSUME TypeInv, UNCHANGED vars PROVE TypeInv'
  <1>1. GitTypeOK' /\ JournalTypeOK'
    BY GitKept, JournalKept DEF TypeInv, TypeOK, vars
  <1>2. CommandTypeOK' /\ TargetsOK'
    BY DEF TypeInv, TypeOK, CommandTypeOK, TargetsOK, vars, journal, bounds
  <1> QED BY <1>1, <1>2 DEF TypeInv, TypeOK

\* TypeInv is an invariant: every step of every command and of the people
\* working in the repositories keeps the journal's and Git's domains.
THEOREM TypeInvariant == Spec => []TypeInv
  <1>1. TypeInv /\ [Next]_vars => TypeInv'  BY TypeStep, TypeStutter
  <1> QED BY TypeInit, <1>1, PTL DEF Spec

\* Every variable always holds a value of its domain (TypeOK).
THEOREM TypeCorrect == Spec => []TypeOK
  <1>1. TypeInv => TypeOK  BY DEF TypeInv
  <1> QED BY TypeInvariant, <1>1, PTL
-----------------------------------------------------------------------------
(* Where the journal stands follows from it alone, so preimages stay        *)
(* pinned.                                                                  *)

LEMMA CoreInit == Init => CoreInv
  <1> SUFFICES ASSUME Init PROVE CoreInv  OBVIOUS
  <1>1. /\ verb = "none" /\ pc = "idle" /\ phase = "preparing" /\ ~ready
        /\ completion = "" /\ ~rb.on /\ rb.refs = {}
    BY DEF Init
  <1>2. NobodyRebasing
    BY DEF Init, NobodyRebasing
  <1>3. \A r \in Refs : ref[r] <= 0
    <2>1. \A r \in Refs : ref[r] = 0  BY DEF Init
    <2> QED BY <2>1
  <1>4. Idle /\ Unborn /\ Unready /\ GoingForward
    BY <1>1, <1>2, <1>3 DEF Idle, Unborn, Unready, GoingForward, ForwardLabels
  <1>5. GoingBack /\ Restored /\ Ending /\ Pinned
    BY <1>1, <1>2, <1>3 DEF GoingBack, Restored, Ending, Pinned, RefsLabels,
                            LateLabels, CleanupLabels
  <1> QED BY <1>4, <1>5 DEF CoreInv

\* Every step keeps the order of pins, rebases and rollback.
LEMMA CoreStep == ASSUME TypeOK, CoreInv, Next PROVE CoreInv'
<1> USE DEF CoreInv, Idle, Unborn, Unready, GoingForward, GoingBack, Restored,
            Ending, Pinned, ForwardLabels, CleanupLabels, RefsLabels,
            LateLabels
<1>t. /\ ref \in [Refs -> Commits] /\ pin \subseteq Refs /\ rb \in Rollback
      /\ act \in ActionEntry /\ RepoOf \in [Refs -> Repos]
      /\ wt \in [Entries -> {"branch", "detached", "rebasing"}]
  BY ConstantsAssumption
  DEF ConstantsAssumption, TypeOK, GitTypeOK, JournalTypeOK
<1>1. CASE Birth
  BY <1>1, <1>t DEF NobodyRebasing, Birth, git, bounds, Start
<1>2. CASE ContinueCommand
  BY <1>2, <1>t DEF NobodyRebasing, ContinueCommand, git, journal, bounds,
      CleanupOnly, RollingBack, Start
<1>3. CASE AbortCommand
  BY <1>3, <1>t DEF NobodyRebasing, AbortCommand, git, journal, bounds,
      CleanupOnly, RollingBack, Start
<1>4. CASE PinCreate
  BY <1>4, <1>t DEF NobodyRebasing, PinCreate, journal, bounds, At, Goto
<1>5. CASE PinSave
  BY <1>5, <1>t DEF NobodyRebasing, PinSave, git, bounds, At, Goto
<1>6. CASE PinsDone
  BY <1>6, <1>t DEF NobodyRebasing, PinsDone, git, journal, bounds, At, Goto,
      Pass
<1>7. CASE FreezeCutoffs
  BY <1>7, <1>t DEF NobodyRebasing, FreezeCutoffs, git, bounds, At, Goto
<1>8. CASE FreezeRefused
  <2>1. UNCHANGED <<ref, wt, pin, ready, rb>> /\ pc' \in {"delPins", "idle"}
    BY <1>8 DEF FreezeRefused, Refuse, Goto, Exit, git, journal
  <2>2. Unready' /\ Pinned'
    <3>1. phase' \in {phase, "cleanup"}
      BY <1>8 DEF FreezeRefused, Refuse, journal
    <3> QED BY <2>1, <3>1 DEF CoreInv, Unready, NobodyRebasing, Pinned
  <2>3. /\ Idle' /\ Unborn' /\ GoingForward' /\ GoingBack' /\ Restored'
        /\ Ending'
    BY <1>8, <2>1 DEF NobodyRebasing, FreezeRefused, Refuse, Goto, Exit,
        journal, At, RollingBack
  <2> QED BY <2>2, <2>3 DEF CoreInv
<1>9. CASE SnapshotReady
  BY <1>9, <1>t DEF NobodyRebasing, SnapshotReady, git, bounds, At, Goto
<1>10. CASE BeginAction
  BY <1>10, <1>t DEF NobodyRebasing, BeginAction, git, journal, bounds, At,
      Goto, Exit, Refuse
<1>11. CASE Rebase
  BY <1>11, <1>t DEF NobodyRebasing, Rebase, UserWork, Replayed, journal,
      bounds, At, Goto, MoveTips
<1>12. CASE Observe
  BY <1>12, <1>t DEF NobodyRebasing, Observe, git, journal, bounds, Pos, At,
      Goto, Exit, Refuse, Adopt
<1>13. CASE BeginValidation
  BY <1>13, <1>t DEF NobodyRebasing, BeginValidation, git, journal, bounds,
      At, Goto, Exit, Refuse, SetVal
<1>14. CASE Validator
  <2>1. \A r \in Refs : ref'[r] <= 0 \/ ref'[r] = ref[r]
    BY ONLY <1>14, <1>t DEF Validator, UserWork
  <2> QED BY <1>14, <2>1 DEF NobodyRebasing, Validator, journal, At, Goto
<1>15. CASE EndValidation
  BY <1>15, <1>t DEF NobodyRebasing, EndValidation, git, bounds, At, Goto,
      Exit, SetVal
<1>16. CASE MetaIntent
  <2>1. /\ UNCHANGED <<ref, wt, pin, ready, rb, phase, completion, payload,
                       act>>
        /\ pc' \in {"meta", "idle", "progress", "metaWrite"}
        /\ verb' \in {verb, "none"} /\ (verb' = "none" <=> pc' = "idle")
    BY <1>16 DEF MetaIntent, SetMeta, AdoptMeta, Refuse, Pass, Goto, Exit,
        At,
              git, journal
  <2> QED BY <1>16, <2>1 DEF NobodyRebasing, MetaIntent, At
<1>17. CASE MetaWrite
  BY <1>17, <1>t DEF NobodyRebasing, MetaWrite, journal, bounds, At, Goto
<1>18. CASE MetaCheck
  BY <1>18, <1>t DEF NobodyRebasing, MetaCheck, git, journal, bounds, At,
      Goto, Exit, Refuse, SetMeta, AdoptMeta
<1>19. CASE Progress
  BY <1>19, <1>t DEF NobodyRebasing, Progress, git, bounds, At, Goto
<1>20. CASE ForwardDone
  BY <1>20, <1>t DEF NobodyRebasing, ForwardDone, git, journal, bounds, At,
      Goto, Pass
<1>21. CASE BeginPublication
  BY <1>21, <1>t, ZenonT(60) DEF NobodyRebasing, BeginPublication, git, journal, bounds,
      At, Goto, Exit, Refuse, SetPub, Publishing
<1>22. CASE Network
  BY <1>22, <1>t DEF NobodyRebasing, Network, journal, bounds, At, Goto
<1>23. CASE PushResult
  BY <1>23, <1>t DEF NobodyRebasing, PushResult, git, bounds, At, Goto, Exit,
      SetPub
<1>24. CASE PushDone
  BY <1>24, <1>t DEF NobodyRebasing, PushDone, git, journal, bounds, At,
      Goto, Pass
<1>25. CASE Complete
  BY <1>25, <1>t DEF NobodyRebasing, Complete, git, journal, bounds,
      RollingBack, At, Goto, Exit, Refuse
<1>26. CASE DeleteIntent
  <2>1. /\ UNCHANGED <<ref, wt, pin, ready, rb, phase, completion, payload,
                       act, verb>>
        /\ pc' \in {"delPins", "delPin"}
    BY <1>26 DEF DeleteIntent, SetPin, Goto, git
  <2> QED BY <1>26, <2>1 DEF NobodyRebasing, DeleteIntent, At
<1>27. CASE DeletePin
  BY <1>27, <1>t DEF NobodyRebasing, DeletePin, journal, bounds, At, Goto
<1>28. CASE DeleteSave
  BY <1>28, <1>t DEF NobodyRebasing, DeleteSave, git, bounds, At, Goto,
      SetPin
<1>29. CASE RepoPinsGone
  <2>1. rb'.on = rb.on /\ rb'.refs = rb.refs
    BY <1>29, <1>t DEF RepoPinsGone, Rollback
  <2> QED BY <1>29, <2>1 DEF NobodyRebasing, RepoPinsGone, git, At, Goto
<1>30. CASE Clear
  BY <1>30, <1>t DEF NobodyRebasing, Clear, git, bounds, At, Exit
<1>31. CASE RecoverPreflight
  BY <1>31, <1>t DEF NobodyRebasing, RecoverPreflight, git, journal, bounds,
      At, Goto, Exit, Refuse, Pass, Check
<1>32. CASE ReconcileMeta
  BY <1>32, <1>t DEF NobodyRebasing, ReconcileMeta, git, journal, bounds, At,
      Goto, Exit, Refuse, Pass, SetMeta, MetaLanded, AdoptMeta
<1>33. CASE ReconcileValidation
  BY <1>33, <1>t DEF NobodyRebasing, ReconcileValidation, git, journal,
      bounds, At, Goto, Exit, Refuse, Pass, SetVal
<1>34. CASE ReconcileAction
  BY <1>34, <1>t DEF NobodyRebasing, ReconcileAction, git, journal, bounds,
      Pos, At, Goto, Exit, Refuse, Pass, Adopt, AfterReconcile
<1>35. CASE Resume
  BY <1>35, <1>t DEF NobodyRebasing, Resume, git, journal, bounds, At, Goto,
      Pass
<1>36. CASE RollbackPreflight
  <2>1. rb'.refs = rb.refs /\ (rb'.on <=> rb.on \/ pc' = "rbAct")
    BY <1>36, <1>t DEF RollbackPreflight, Rollback, SetRollback, Refuse,
        Pass, Goto, Exit, journal
  <2> QED
    BY <1>36, <2>1 DEF NobodyRebasing, RollbackPreflight, SetRollback,
        Refuse, Pass, Goto, Exit, At, RollingBack, git, journal
<1>37. CASE RollbackAction
  <2>1. NobodyRebasing => NobodyRebasing'
    BY <1>37, <1>t DEF NobodyRebasing, RollbackAction, Refuse, Pass, git
  <2>2. /\ UNCHANGED <<ref, pin, ready, rb, completion, payload>>
        /\ phase' = phase /\ pc' \in {"rbAct", "rbPre2", "idle"}
        /\ verb' \in {verb, "none"} /\ (verb' = "none" <=> pc' = "idle")
    BY <1>37 DEF RollbackAction, Adopt, Refuse, Pass, Goto, Exit, At, git,
        journal
  <2>3. pc' = "rbPre2" => act'.st # "intent"
    BY <1>37, <1>t DEF RollbackAction, Adopt, ActionEntry, Pending, Refuse,
        Pass, Goto, Exit, journal
  <2> QED BY <1>37, <2>1, <2>2, <2>3 DEF RollbackAction, At
<1>38. CASE RollbackPreflight2
  <2>1. pc' = "rbDetach" => NobodyRebasing
    BY <1>38 DEF CoreInv, GoingBack, RollbackPreflight2, Check, At,
        Preflight, ActiveRebase, Pending, NobodyRebasing, Refuse, Exit
  <2> QED
    BY <1>38, <2>1 DEF NobodyRebasing, RollbackPreflight2, Check, Refuse,
        Pass, At, Goto, Exit, git, journal
<1>39. CASE DetachIntent
  BY <1>39, <1>t DEF NobodyRebasing, DetachIntent, git, journal, bounds, At,
      Goto, Pass, SetHold
<1>40. CASE DetachSwitch
  <2>1. NobodyRebasing => NobodyRebasing'
    BY <1>40, <1>t DEF NobodyRebasing, DetachSwitch, Refuse, git
  <2> QED
    BY <1>40, <2>1 DEF DetachSwitch, Refuse, At, Goto, Exit, git, journal
<1>41. CASE DetachSave
  BY <1>41, <1>t DEF NobodyRebasing, DetachSave, git, bounds, At, Goto,
      SetHold
<1>42. CASE RefsIntent
  BY <1>42, <1>t DEF NobodyRebasing, RefsIntent, git, journal, bounds, At,
      Goto, Exit, Refuse, Pass
<1>43. CASE RefsRestore
  <2>1. /\ \A r \in Refs : ref'[r] = 0 \/ ref'[r] = ref[r]
        /\ pc' = "rbCasSave" => \A r \in Refs : RepoOf[r] = sel => ref'[r] = 0
        /\ UNCHANGED sel \/ pc' = "idle"
    BY <1>43 DEF RefsRestore, Refuse, Goto, Exit, git
  <2>2. /\ UNCHANGED <<wt, pin, ready, rb, phase, completion, payload, act>>
        /\ pc' \in {"rbCasSave", "idle"}
        /\ verb' \in {verb, "none"} /\ (verb' = "none" <=> pc' = "idle")
    BY <1>43 DEF RefsRestore, Refuse, Goto, Exit, At, git, journal
  <2>3. Unready'
    BY ONLY Unready, <2>1, <2>2 DEF Unready, NobodyRebasing
  <2>4. Restored'
    BY ONLY Restored, <2>1, <2>2 DEF Restored
  <2>5. /\ Idle' /\ Unborn' /\ GoingForward' /\ GoingBack' /\ Ending' /\ Pinned'
    BY <1>43, <2>2 DEF NobodyRebasing, RefsRestore, At
  <2> QED BY ONLY <2>3, <2>4, <2>5 DEF CoreInv
<1>44. CASE RefsSave
  <2>1. rb'.on = rb.on /\ rb'.refs = rb.refs \cup {sel}
    BY <1>44, <1>t DEF RefsSave, SetRollback, Rollback
  <2> QED BY <1>44, <2>1 DEF NobodyRebasing, RefsSave, SetRollback, git, At, Goto
<1>45. CASE RestoreMeta
  BY <1>45, <1>t DEF NobodyRebasing, RestoreMeta, git, journal, bounds, At,
      Goto, Exit, Refuse, Pass, SetMeta, MetaRestored
<1>46. CASE RestoreMetaWrite
  BY <1>46, <1>t DEF NobodyRebasing, RestoreMetaWrite, journal, bounds, At,
      Goto
<1>47. CASE RestoreMetaSave
  BY <1>47, <1>t DEF NobodyRebasing, RestoreMetaSave, git, bounds, At, Goto,
      SetMeta, MetaRestored
<1>48. CASE RestoreHolder
  BY <1>48, <1>t, ZenonT(60) DEF NobodyRebasing, RestoreHolder, git, journal, bounds,
      Pos, At, Goto, Exit, Refuse, Pass, SetHold, Home
<1>49. CASE RestoreHolderSwitch
  <2>1. NobodyRebasing => NobodyRebasing'
    BY <1>49, <1>t DEF NobodyRebasing, RestoreHolderSwitch
  <2> QED
    BY <1>49, <2>1 DEF RestoreHolderSwitch, At, Goto, journal
<1>50. CASE RestoreHolderSave
  BY <1>50, <1>t DEF NobodyRebasing, RestoreHolderSave, git, bounds, At,
      Goto, SetHold, Home
<1>51. CASE RolledBack
  BY <1>51, <1>t DEF NobodyRebasing, RolledBack, git, bounds, At, Goto
<1>52. CASE Crash
  BY <1>52, <1>t DEF NobodyRebasing, Crash, git, journal, Exit
<1>53. CASE UserCommit
  <2>1. \A r \in Refs : ref'[r] <= 0 \/ ref'[r] = ref[r]
    BY ONLY <1>53, <1>t DEF UserCommit, UserWork
  <2> QED BY <1>53, <2>1 DEF NobodyRebasing, UserCommit, Interferes, journal
<1>54. CASE UserEdit
  <2>1. NobodyRebasing => NobodyRebasing'
    BY <1>54, <1>t DEF NobodyRebasing, UserEdit
  <2> QED BY <1>54, <2>1 DEF UserEdit, Interferes, journal
<1>55. CASE UserResolves
  BY <1>55, <1>t DEF NobodyRebasing, UserResolves, UserWork, Replayed,
      journal,
      bounds, MoveTips
<1>56. CASE UserCleans
  BY <1>56, <1>t DEF NobodyRebasing, UserCleans, journal, bounds
<1>57. CASE Over
  BY <1>57, <1>t DEF NobodyRebasing, Over, vars, git, journal
<1> QED
  BY ONLY Next,
    <1>1, <1>2, <1>3, <1>4, <1>5, <1>6, <1>7, <1>8, <1>9, <1>10, <1>11,
    <1>12, <1>13, <1>14, <1>15, <1>16, <1>17, <1>18, <1>19, <1>20, <1>21,
    <1>22, <1>23, <1>24, <1>25, <1>26, <1>27, <1>28, <1>29, <1>30, <1>31,
    <1>32, <1>33, <1>34, <1>35, <1>36, <1>37, <1>38, <1>39, <1>40, <1>41,
    <1>42, <1>43, <1>44, <1>45, <1>46, <1>47, <1>48, <1>49, <1>50, <1>51,
    <1>52, <1>53, <1>54, <1>55, <1>56, <1>57
  DEF Next, CommandStep, ForwardSteps, CleanupSteps, RecoverySteps,
      RollbackSteps, UserSteps

LEMMA CoreStutter == ASSUME CoreInv, UNCHANGED vars PROVE CoreInv'
  BY DEF CoreInv, Idle, Unborn, Unready, GoingForward, GoingBack, Restored,
         Ending, Pinned, NobodyRebasing, vars, git, journal

\* CoreInv is an invariant.
THEOREM CoreInvariant == Spec => []CoreInv
  <1>1. TypeOK /\ CoreInv /\ [Next]_vars => CoreInv'
    BY CoreStep, CoreStutter
  <1> QED BY CoreInit, TypeCorrect, <1>1, PTL DEF Spec

\* PreimagePinned is an invariant: whatever is killed, retried, continued or
\* aborted, while a run can still be rolled back every branch it rewrote has
\* its garbage-collection pin.
THEOREM PreimagesStayPinned == Spec => []PreimagePinned
  <1>1. TypeOK /\ CoreInv => PreimagePinned
    <2> SUFFICES ASSUME TypeOK, CoreInv, payload = "live", ~CleanupOnly,
                        NEW r \in Refs, ref[r] > 0
                 PROVE  r \in pin
      BY DEF PreimagePinned
    <2>1. ref[r] \in Int
      BY DEF TypeOK, GitTypeOK, Commits, UserWork
    <2>2. ready
      BY <2>1 DEF CoreInv, Unready
    <2>3. CASE phase # "cleanup"
      BY <2>2, <2>3 DEF CoreInv, Pinned
    <2>4. CASE phase = "cleanup"
      <3>1. Repos \subseteq rb.refs
        BY <2>4 DEF CoreInv, Ending, CleanupOnly
      <3>2. RepoOf[r] \in Repos
        BY ConstantsAssumption DEF ConstantsAssumption
      <3> QED BY <2>1, <3>1, <3>2 DEF CoreInv, Restored
    <2> QED BY <2>3, <2>4
  <1> QED BY CoreInvariant, TypeCorrect, <1>1, PTL
-----------------------------------------------------------------------------
LEMMA ForeignKept ==
  ASSUME ForeignTips, UNCHANGED <<ref, reflog, jref>> PROVE ForeignTips'
  BY DEF ForeignTips

LEMMA AdoptAttributable ==
  ASSUME TypeOK, ForeignTips, Attributable, NEW s, Adopt(s), UNCHANGED git
  PROVE  ForeignTips'
  <1>1. jref \in [Refs -> RefEntry]  BY DEF TypeOK, JournalTypeOK
  <1>2. \A r \in Refs : RepoOf[r] = RepoOf[act.entry] => ref[r] # UserWork
    BY DEF Attributable, ForeignTips, RefsIn
  <1> QED BY <1>1, <1>2 DEF ForeignTips, Adopt, git, RefEntry

LEMMA MoveTipsForeign ==
  ASSUME TypeOK, ForeignTips, NEW e, MoveTips(e), UNCHANGED jref
  PROVE  /\ ForeignTips'
         /\ \A r \in Refs : ref[r] = UserWork <=> ref'[r] = UserWork
  <1>1. ref \in [Refs -> Commits] BY DEF TypeOK, GitTypeOK
  <1>2. \A r \in Refs : ref[r] = UserWork <=> ref'[r] = UserWork
    BY <1>1 DEF MoveTips, Replayed, Commits, UserWork
  <1>3. \A r \in Refs : reflog[r] = "other" => reflog'[r] = "other"
    BY DEF MoveTips
  <1> QED BY <1>2, <1>3 DEF ForeignTips

\* No step makes the journal expect somebody else's tip.
LEMMA ForeignStep == ASSUME TypeOK, ForeignTips, Next PROVE ForeignTips'
<1>t. /\ ref \in [Refs -> Commits] /\ jref \in [Refs -> RefEntry]
      /\ reflog \in [Refs -> {"anchor", "run", "other"}]
  BY DEF TypeOK, GitTypeOK, JournalTypeOK
<1>1. CASE Birth
  BY <1>1, ForeignKept DEF Birth, git
<1>2. CASE ContinueCommand
  BY <1>2, ForeignKept DEF ContinueCommand, git, journal
<1>3. CASE AbortCommand
  BY <1>3, ForeignKept DEF AbortCommand, git, journal
<1>4. CASE PinCreate
  BY <1>4, ForeignKept DEF PinCreate, journal
<1>5. CASE PinSave
  BY <1>5, <1>t DEF ForeignTips, PinSave, git
<1>6. CASE PinsDone
  BY <1>6, ForeignKept DEF PinsDone, Pass, git, journal
<1>7. CASE FreezeCutoffs
  BY <1>7, ForeignKept DEF FreezeCutoffs, git
<1>8. CASE FreezeRefused
  BY <1>8, ForeignKept DEF FreezeRefused, Refuse, git, journal
<1>9. CASE SnapshotReady
  BY <1>9, ForeignKept DEF SnapshotReady, git
<1>10. CASE BeginAction
  <2>1. CASE UNCHANGED <<ref, reflog, jref>>  BY <2>1, ForeignKept
  <2>2. ASSUME Images(RepoOf[done + 1]), done < N, UNCHANGED <<ref, jref>>,
               reflog' = [r \in Refs |-> IF r \in Allowed[done + 1]
                                        THEN "anchor" ELSE reflog[r]]
        PROVE  ForeignTips'
    <3>0. done \in 0..N  BY DEF TypeOK, JournalTypeOK
    <3>1. done + 1 \in Entries  BY <2>2, <3>0, BoundsAreNaturals DEF Entries
    <3>2. \A r \in Allowed[done + 1] : r \in Refs => ref[r] = jref[r].exp
      BY <2>2, <3>1, ConstantsAssumption
      DEF ConstantsAssumption, Images, RefImage, RefsIn
    <3> QED BY <2>2, <3>2 DEF ForeignTips
  <2> QED BY <1>10, <2>1, <2>2 DEF BeginAction, Refuse, git, journal
<1>11. CASE Rebase
  BY <1>11, ForeignKept, MoveTipsForeign DEF Rebase, journal
<1>12. CASE Observe
  BY <1>12, ForeignKept, AdoptAttributable DEF Observe, Refuse, git, journal
<1>13. CASE BeginValidation
  BY <1>13, ForeignKept DEF BeginValidation, Refuse, SetVal, git, journal
<1>14. CASE Validator
  BY <1>14, <1>t DEF ForeignTips, Validator, journal
<1>15. CASE EndValidation
  BY <1>15, ForeignKept DEF EndValidation, SetVal, git
<1>16. CASE MetaIntent
  BY <1>16, ForeignKept DEF MetaIntent, Refuse, Pass, SetMeta, AdoptMeta,
      git, journal
<1>17. CASE MetaWrite
  BY <1>17, ForeignKept DEF MetaWrite, journal
<1>18. CASE MetaCheck
  BY <1>18, ForeignKept DEF MetaCheck, Refuse, SetMeta, AdoptMeta, git,
      journal
<1>19. CASE Progress
  BY <1>19, ForeignKept DEF Progress, git
<1>20. CASE ForwardDone
  BY <1>20, ForeignKept DEF ForwardDone, Pass, git, journal
<1>21. CASE BeginPublication
  BY <1>21, ForeignKept DEF BeginPublication, Refuse, SetPub, git, journal
<1>22. CASE Network
  BY <1>22, ForeignKept DEF Network, journal
<1>23. CASE PushResult
  BY <1>23, ForeignKept DEF PushResult, SetPub, git
<1>24. CASE PushDone
  BY <1>24, ForeignKept DEF PushDone, Pass, git, journal
<1>25. CASE Complete
  BY <1>25, ForeignKept DEF Complete, Refuse, git, journal
<1>26. CASE DeleteIntent
  <2>1. /\ UNCHANGED git
        /\ \E r \in Refs : \E b, d :
             jref' = [jref EXCEPT ![r].pinned = b, ![r].del = d]
    BY <1>26 DEF DeleteIntent, SetPin, Unfinished
  <2> QED BY <1>t, <2>1 DEF ForeignTips, RefEntry, git
<1>27. CASE DeletePin
  BY <1>27, ForeignKept DEF DeletePin, journal
<1>28. CASE DeleteSave
  BY <1>28, <1>t DEF ForeignTips, DeleteSave, git, SetPin
<1>29. CASE RepoPinsGone
  BY <1>29, ForeignKept DEF RepoPinsGone, git
<1>30. CASE Clear
  BY <1>30, ForeignKept DEF Clear, git
<1>31. CASE RecoverPreflight
  BY <1>31, ForeignKept DEF RecoverPreflight, Refuse, Pass, Check, git,
      journal
<1>32. CASE ReconcileMeta
  BY <1>32, ForeignKept DEF ReconcileMeta, Refuse, Pass, SetMeta, AdoptMeta,
      git, journal
<1>33. CASE ReconcileValidation
  BY <1>33, ForeignKept DEF ReconcileValidation, Refuse, Pass, SetVal, git,
      journal
<1>34. CASE ReconcileAction
  BY <1>34, ForeignKept, AdoptAttributable
  DEF ReconcileAction, Refuse, Pass, git, journal
<1>35. CASE Resume
  BY <1>35, ForeignKept DEF Resume, Pass, git, journal
<1>36. CASE RollbackPreflight
  BY <1>36, ForeignKept DEF RollbackPreflight, Refuse, Pass, git, journal
<1>37. CASE RollbackAction
  BY <1>37, ForeignKept, AdoptAttributable
  DEF RollbackAction, Refuse, Pass, git, journal
<1>38. CASE RollbackPreflight2
  BY <1>38, ForeignKept DEF RollbackPreflight2, Refuse, Pass, Check, git,
      journal
<1>39. CASE DetachIntent
  BY <1>39, ForeignKept DEF DetachIntent, Pass, SetHold, git, journal
<1>40. CASE DetachSwitch
  BY <1>40, ForeignKept DEF DetachSwitch, Refuse, git, journal
<1>41. CASE DetachSave
  BY <1>41, ForeignKept DEF DetachSave, SetHold, git
<1>42. CASE RefsIntent
  BY <1>42, ForeignKept DEF RefsIntent, Refuse, Pass, git, journal
<1>43. CASE RefsRestore
  <2>1. UNCHANGED <<reflog, jref>> /\ \A r \in Refs : ref'[r] \in {0, ref[r]}
    BY <1>43, <1>t DEF RefsRestore, Refuse, git, journal
  <2> QED BY <2>1 DEF ForeignTips, UserWork
<1>44. CASE RefsSave
  <2>1. /\ UNCHANGED git
        /\ \A r \in Refs : jref'[r].exp \in {0, jref[r].exp}
    BY <1>44, <1>t DEF RefsSave, RefEntry
  <2> QED BY <2>1 DEF ForeignTips, UserWork, git
<1>45. CASE RestoreMeta
  BY <1>45, ForeignKept DEF RestoreMeta, Refuse, Pass, SetMeta, MetaRestored,
      git, journal
<1>46. CASE RestoreMetaWrite
  BY <1>46, ForeignKept DEF RestoreMetaWrite, journal
<1>47. CASE RestoreMetaSave
  BY <1>47, ForeignKept DEF RestoreMetaSave, SetMeta, MetaRestored, git
<1>48. CASE RestoreHolder
  BY <1>48, ForeignKept DEF RestoreHolder, Refuse, Pass, SetHold, git,
      journal
<1>49. CASE RestoreHolderSwitch
  BY <1>49, ForeignKept DEF RestoreHolderSwitch, journal
<1>50. CASE RestoreHolderSave
  BY <1>50, ForeignKept DEF RestoreHolderSave, SetHold, git
<1>51. CASE RolledBack
  BY <1>51, ForeignKept DEF RolledBack, git
<1>52. CASE Crash
  BY <1>52, ForeignKept DEF Crash, git, journal
<1>53. CASE UserCommit
  BY <1>53, <1>t DEF ForeignTips, UserCommit, journal, Interferes
<1>54. CASE UserEdit
  BY <1>54, ForeignKept DEF UserEdit, Interferes, journal
<1>55. CASE UserResolves
  BY <1>55, ForeignKept, MoveTipsForeign DEF UserResolves, journal
<1>56. CASE UserCleans
  BY <1>56, ForeignKept DEF UserCleans, journal
<1>57. CASE Over
  BY <1>57, ForeignKept DEF Over, vars, git, journal
<1> QED
  BY ONLY Next,
    <1>1, <1>2, <1>3, <1>4, <1>5, <1>6, <1>7, <1>8, <1>9, <1>10, <1>11,
    <1>12, <1>13, <1>14, <1>15, <1>16, <1>17, <1>18, <1>19, <1>20, <1>21,
    <1>22, <1>23, <1>24, <1>25, <1>26, <1>27, <1>28, <1>29, <1>30, <1>31,
    <1>32, <1>33, <1>34, <1>35, <1>36, <1>37, <1>38, <1>39, <1>40, <1>41,
    <1>42, <1>43, <1>44, <1>45, <1>46, <1>47, <1>48, <1>49, <1>50, <1>51,
    <1>52, <1>53, <1>54, <1>55, <1>56, <1>57
  DEF Next, CommandStep, ForwardSteps, CleanupSteps, RecoverySteps,
      RollbackSteps, UserSteps

\* ForeignTips is an invariant: the journal never takes somebody else's commit
\* for its own work.
THEOREM ForeignInvariant == Spec => []ForeignTips
  <1>1. ASSUME Init PROVE ForeignTips
    <2>1. \A r \in Refs : ref[r] = 0 /\ jref[r].exp = 0
      BY <1>1 DEF Init
    <2> QED BY <2>1 DEF ForeignTips, UserWork
  <1>2. TypeOK /\ ForeignTips /\ [Next]_vars => ForeignTips'
    BY ForeignStep, ForeignKept DEF vars, git, journal
  <1> QED BY <1>1, <1>2, TypeCorrect, PTL DEF Spec

\* No step replaces a tip that is somebody else's.
LEMMA WorkStep ==
  ASSUME TypeOK, ForeignTips, Next, NEW x \in Refs, ref[x] = UserWork
  PROVE  ref'[x] = UserWork
<1>t. ref \in [Refs -> Commits] BY DEF TypeOK, GitTypeOK
<1>1. CASE Birth
  BY <1>1 DEF Birth, git
<1>2. CASE ContinueCommand
  BY <1>2 DEF ContinueCommand, git
<1>3. CASE AbortCommand
  BY <1>3 DEF AbortCommand, git
<1>4. CASE PinCreate
  BY <1>4 DEF PinCreate
<1>5. CASE PinSave
  BY <1>5 DEF PinSave, git
<1>6. CASE PinsDone
  BY <1>6 DEF PinsDone, Pass, git
<1>7. CASE FreezeCutoffs
  BY <1>7 DEF FreezeCutoffs, git
<1>8. CASE FreezeRefused
  BY <1>8 DEF FreezeRefused, Refuse, git
<1>9. CASE SnapshotReady
  BY <1>9 DEF SnapshotReady, git
<1>10. CASE BeginAction
  BY <1>10 DEF BeginAction, Refuse, git
<1>11. CASE Rebase
  BY <1>11, MoveTipsForeign DEF Rebase, journal
<1>12. CASE Observe
  BY <1>12 DEF Observe, Refuse, git
<1>13. CASE BeginValidation
  BY <1>13 DEF BeginValidation, Refuse, git
<1>14. CASE Validator
  BY <1>14, <1>t DEF Validator
<1>15. CASE EndValidation
  BY <1>15 DEF EndValidation, git
<1>16. CASE MetaIntent
  BY <1>16 DEF MetaIntent, Refuse, Pass, git
<1>17. CASE MetaWrite
  BY <1>17 DEF MetaWrite
<1>18. CASE MetaCheck
  BY <1>18 DEF MetaCheck, Refuse, git
<1>19. CASE Progress
  BY <1>19 DEF Progress, git
<1>20. CASE ForwardDone
  BY <1>20 DEF ForwardDone, Pass, git
<1>21. CASE BeginPublication
  BY <1>21 DEF BeginPublication, Refuse, git
<1>22. CASE Network
  BY <1>22 DEF Network
<1>23. CASE PushResult
  BY <1>23 DEF PushResult, git
<1>24. CASE PushDone
  BY <1>24 DEF PushDone, Pass, git
<1>25. CASE Complete
  BY <1>25 DEF Complete, Refuse, git
<1>26. CASE DeleteIntent
  BY <1>26 DEF DeleteIntent, git
<1>27. CASE DeletePin
  BY <1>27 DEF DeletePin
<1>28. CASE DeleteSave
  BY <1>28 DEF DeleteSave, git
<1>29. CASE RepoPinsGone
  BY <1>29 DEF RepoPinsGone, git
<1>30. CASE Clear
  BY <1>30 DEF Clear, git
<1>31. CASE RecoverPreflight
  BY <1>31 DEF RecoverPreflight, Refuse, Pass, Check, git
<1>32. CASE ReconcileMeta
  BY <1>32 DEF ReconcileMeta, Refuse, Pass, git
<1>33. CASE ReconcileValidation
  BY <1>33 DEF ReconcileValidation, Refuse, Pass, git
<1>34. CASE ReconcileAction
  BY <1>34 DEF ReconcileAction, Refuse, Pass, git
<1>35. CASE Resume
  BY <1>35 DEF Resume, Pass, git
<1>36. CASE RollbackPreflight
  BY <1>36 DEF RollbackPreflight, Refuse, Pass, git
<1>37. CASE RollbackAction
  BY <1>37 DEF RollbackAction, Refuse, Pass, git
<1>38. CASE RollbackPreflight2
  BY <1>38 DEF RollbackPreflight2, Refuse, Pass, Check, git
<1>39. CASE DetachIntent
  BY <1>39 DEF DetachIntent, Pass, git
<1>40. CASE DetachSwitch
  BY <1>40 DEF DetachSwitch, Refuse, git
<1>41. CASE DetachSave
  BY <1>41 DEF DetachSave, git
<1>42. CASE RefsIntent
  BY <1>42 DEF RefsIntent, Refuse, Pass, git
<1>43. CASE RefsRestore
  BY <1>43 DEF RefsRestore, RestorableRefs, RefsIn, ForeignTips, UserWork,
      Refuse, git
<1>44. CASE RefsSave
  BY <1>44 DEF RefsSave, git
<1>45. CASE RestoreMeta
  BY <1>45 DEF RestoreMeta, Refuse, Pass, git
<1>46. CASE RestoreMetaWrite
  BY <1>46 DEF RestoreMetaWrite
<1>47. CASE RestoreMetaSave
  BY <1>47 DEF RestoreMetaSave, git
<1>48. CASE RestoreHolder
  BY <1>48 DEF RestoreHolder, Refuse, Pass, git
<1>49. CASE RestoreHolderSwitch
  BY <1>49 DEF RestoreHolderSwitch
<1>50. CASE RestoreHolderSave
  BY <1>50 DEF RestoreHolderSave, git
<1>51. CASE RolledBack
  BY <1>51 DEF RolledBack, git
<1>52. CASE Crash
  BY <1>52 DEF Crash, git
<1>53. CASE UserCommit
  BY <1>53, <1>t DEF UserCommit, Interferes
<1>54. CASE UserEdit
  BY <1>54 DEF UserEdit, Interferes
<1>55. CASE UserResolves
  BY <1>55, MoveTipsForeign DEF UserResolves, journal
<1>56. CASE UserCleans
  BY <1>56 DEF UserCleans
<1>57. CASE Over
  BY <1>57 DEF Over, vars, git
<1> QED
  BY ONLY Next,
    <1>1, <1>2, <1>3, <1>4, <1>5, <1>6, <1>7, <1>8, <1>9, <1>10, <1>11,
    <1>12, <1>13, <1>14, <1>15, <1>16, <1>17, <1>18, <1>19, <1>20, <1>21,
    <1>22, <1>23, <1>24, <1>25, <1>26, <1>27, <1>28, <1>29, <1>30, <1>31,
    <1>32, <1>33, <1>34, <1>35, <1>36, <1>37, <1>38, <1>39, <1>40, <1>41,
    <1>42, <1>43, <1>44, <1>45, <1>46, <1>47, <1>48, <1>49, <1>50, <1>51,
    <1>52, <1>53, <1>54, <1>55, <1>56, <1>57
  DEF Next, CommandStep, ForwardSteps, CleanupSteps, RecoverySteps,
      RollbackSteps, UserSteps

\* BranchWorkKept: no step of any command takes a commit made by somebody else
\* off its branch, even if people commit while the command is running.
THEOREM BranchWorkStays == Spec => BranchWorkKept
  <1>1. TypeOK /\ ForeignTips /\ [Next]_vars =>
          [\A r \in Refs : ref[r] = UserWork => ref'[r] = UserWork]_vars
    BY WorkStep
  <1> QED BY <1>1, TypeCorrect, ForeignInvariant, PTL DEF Spec, BranchWorkKept
-----------------------------------------------------------------------------
(* How far a run has come is never in doubt: the parts of a journal that    *)
(* speak of progress agree with each other whatever is killed and repeated, *)
(* so tws never saves a journal that tws refuses to read back.              *)

\* A run goes forward entry by entry.
LEMMA AdvanceStep ==
  ASSUME TypeOK, CoreInv, Advance, ActionAgrees, Next
  PROVE  Advance' /\ ActionAgrees'
<1> USE DEF CoreInv, Unborn, Advance, ActionAgrees, ObservedLabels,
    BirthLabels, ActionEntry, Pending
<1>t. /\ act \in ActionEntry /\ done \in 0..N /\ N \in Nat \ {0}
  BY ConstantsAssumption DEF ConstantsAssumption, TypeOK, JournalTypeOK
<1>1. CASE Birth
  BY <1>1, <1>t DEF Birth, Start, git, bounds
<1>2. CASE ContinueCommand
  BY <1>2, <1>t DEF ContinueCommand, CleanupOnly, RollingBack, Start, git,
      journal, bounds
<1>3. CASE AbortCommand
  BY <1>3, <1>t DEF AbortCommand, CleanupOnly, Start, RollingBack, git,
      journal, bounds
<1>4. CASE PinCreate
  BY <1>4, <1>t DEF PinCreate, At, Goto, journal, bounds
<1>5. CASE PinSave
  BY <1>5, <1>t DEF PinSave, At, Goto, git, bounds
<1>6. CASE PinsDone
  BY <1>6, <1>t DEF PinsDone, At, Pass, Goto, git, journal, bounds
<1>7. CASE FreezeCutoffs
  BY <1>7, <1>t DEF FreezeCutoffs, At, Goto, git, bounds
<1>8. CASE FreezeRefused
  BY <1>8, <1>t DEF FreezeRefused, At, RollingBack, Goto, git, bounds, Refuse,
      Exit, journal
<1>9. CASE SnapshotReady
  BY <1>9, <1>t DEF SnapshotReady, At, Goto, git, bounds
<1>10. CASE BeginAction
  BY <1>10, <1>t DEF BeginAction, At, Goto, bounds, Refuse, Exit, git, journal
<1>11. CASE Rebase
  BY <1>11, <1>t DEF Rebase, At, Goto, MoveTips, journal, bounds
<1>12. CASE Observe
  <2>1. Pending /\ act.entry = done + 1
    BY <1>12 DEF Observe, At
  <2>2. UNCHANGED <<done, payload>> /\ pc' \in {"idle", "valBegin", "meta"}
    BY <1>12 DEF Observe, Adopt, Refuse, Exit, Goto, journal
  <2>3. \/ UNCHANGED act /\ pc' = "idle" /\ verb' = "none"
        \/ act' = [act EXCEPT !.st = "observed"]
        \/ act' = [act EXCEPT !.st = "failed"] /\ pc' = "idle" /\ verb' = "none"
    <3>1. res \in {"ok", "err"} BY DEF TypeOK, CommandTypeOK
    <3> QED BY <3>1, <1>12 DEF Observe, Adopt, Refuse, Exit, journal
  <2> QED BY <2>1, <2>2, <2>3, <1>t, <1>12 DEF Observe, At
<1>13. CASE BeginValidation
  BY <1>13, <1>t DEF BeginValidation, At, Goto, SetVal, git, bounds, Refuse,
      Exit, journal
<1>14. CASE Validator
  BY <1>14, <1>t DEF Validator, At, Goto, journal, bounds
<1>15. CASE EndValidation
  BY <1>15, <1>t DEF EndValidation, At, SetVal, Goto, Exit, git, bounds
<1>16. CASE MetaIntent
  BY <1>16, <1>t DEF MetaIntent, At, AdoptMeta, SetMeta, Goto, git, bounds,
      Refuse, Exit, journal, Pass
<1>17. CASE MetaWrite
  BY <1>17, <1>t DEF MetaWrite, At, Goto, journal, bounds
<1>18. CASE MetaCheck
  BY <1>18, <1>t DEF MetaCheck, At, AdoptMeta, SetMeta, Goto, git, bounds,
      Refuse, Exit, journal
<1>19. CASE Progress
  BY <1>19, <1>t DEF Progress, At, Goto, git, bounds
<1>20. CASE ForwardDone
  BY <1>20, <1>t DEF ForwardDone, At, Pass, Goto, git, journal, bounds
<1>21. CASE BeginPublication
  BY <1>21, <1>t DEF BeginPublication, At, Goto, SetPub, Publishing, git,
      bounds, Refuse, Exit, journal
<1>22. CASE Network
  BY <1>22, <1>t DEF Network, At, Goto, journal, bounds
<1>23. CASE PushResult
  BY <1>23, <1>t DEF PushResult, At, SetPub, Goto, Exit, git, bounds
<1>24. CASE PushDone
  BY <1>24, <1>t DEF PushDone, At, Pass, Goto, git, journal, bounds
<1>25. CASE Complete
  BY <1>25, <1>t DEF Complete, At, RollingBack, Refuse, Exit, git, journal,
      bounds, Goto
<1>26. CASE DeleteIntent
  BY <1>26, <1>t DEF DeleteIntent, At, SetPin, Goto, git, bounds
<1>27. CASE DeletePin
  BY <1>27, <1>t DEF DeletePin, At, Goto, journal, bounds
<1>28. CASE DeleteSave
  BY <1>28, <1>t DEF DeleteSave, At, Goto, SetPin, git, bounds
<1>29. CASE RepoPinsGone
  BY <1>29, <1>t DEF RepoPinsGone, At, Goto, git, bounds
<1>30. CASE Clear
  BY <1>30, <1>t DEF Clear, At, Exit, git, bounds
<1>31. CASE RecoverPreflight
  BY <1>31, <1>t DEF RecoverPreflight, Check, At, Pass, Goto, git, journal,
      bounds, Refuse, Exit
<1>32. CASE ReconcileMeta
  BY <1>32, <1>t DEF ReconcileMeta, At, AdoptMeta, SetMeta, Goto, git, bounds,
      Pass, journal, Refuse, Exit
<1>33. CASE ReconcileValidation
  BY <1>33, <1>t DEF ReconcileValidation, At, Refuse, Exit, git, journal,
      bounds, SetVal, Goto, Pass
<1>34. CASE ReconcileAction
  BY <1>34, <1>t DEF ReconcileAction, At, Pass, Goto, git, journal, bounds,
      AfterReconcile, Adopt, Refuse, Exit
<1>35. CASE Resume
  BY <1>35, <1>t DEF Resume, At, Pass, Goto, git, journal, bounds
<1>36. CASE RollbackPreflight
  BY <1>36, <1>t DEF RollbackPreflight, At, Refuse, Exit, git, journal,
      bounds, RollingBack, Pass, Goto, SetRollback
<1>37. CASE RollbackAction
  BY <1>37, <1>t DEF RollbackAction, At, Goto, journal, bounds, Adopt, git,
      Refuse, Exit, Pass
<1>38. CASE RollbackPreflight2
  BY <1>38, <1>t DEF RollbackPreflight2, Check, At, Pass, Goto, git, journal,
      bounds, Refuse, Exit
<1>39. CASE DetachIntent
  BY <1>39, <1>t DEF DetachIntent, At, Pass, Goto, git, journal, bounds,
      SetHold
<1>40. CASE DetachSwitch
  BY <1>40, <1>t DEF DetachSwitch, At, Goto, journal, bounds, Refuse, Exit,
      git
<1>41. CASE DetachSave
  BY <1>41, <1>t DEF DetachSave, At, Goto, SetHold, git, bounds
<1>42. CASE RefsIntent
  BY <1>42, <1>t DEF RefsIntent, At, Pass, Goto, git, journal, bounds, Refuse,
      Exit
<1>43. CASE RefsRestore
  BY <1>43, <1>t DEF RefsRestore, At, Goto, journal, bounds, Refuse, Exit, git
<1>44. CASE RefsSave
  BY <1>44, <1>t DEF RefsSave, At, Goto, SetRollback, git, bounds
<1>45. CASE RestoreMeta
  BY <1>45, <1>t DEF RestoreMeta, At, MetaRestored, SetMeta, Goto, git,
      bounds, Pass, journal, Refuse, Exit
<1>46. CASE RestoreMetaWrite
  BY <1>46, <1>t DEF RestoreMetaWrite, At, Goto, journal, bounds
<1>47. CASE RestoreMetaSave
  BY <1>47, <1>t DEF RestoreMetaSave, At, Goto, MetaRestored, SetMeta, git,
      bounds
<1>48. CASE RestoreHolder
  BY <1>48, <1>t DEF RestoreHolder, At, Pass, Goto, git, journal, bounds,
      SetHold, Refuse, Exit
<1>49. CASE RestoreHolderSwitch
  BY <1>49, <1>t DEF RestoreHolderSwitch, At, Goto, journal, bounds
<1>50. CASE RestoreHolderSave
  BY <1>50, <1>t DEF RestoreHolderSave, At, Goto, SetHold, git, bounds
<1>51. CASE RolledBack
  BY <1>51, <1>t DEF RolledBack, At, Goto, git, bounds
<1>52. CASE Crash
  BY <1>52, <1>t DEF Crash, Exit, git, journal
<1>53. CASE UserCommit
  BY <1>53, <1>t DEF UserCommit, Interferes, journal
<1>54. CASE UserEdit
  BY <1>54, <1>t DEF UserEdit, Interferes, journal
<1>55. CASE UserResolves
  BY <1>55, <1>t DEF UserResolves, MoveTips, journal, bounds
<1>56. CASE UserCleans
  BY <1>56, <1>t DEF UserCleans, journal, bounds
<1>57. CASE Over
  BY <1>57, <1>t DEF Over, vars, git, journal, bounds
<1> QED
  BY ONLY Next, <1>1, <1>2, <1>3, <1>4, <1>5, <1>6, <1>7, <1>8, <1>9, <1>10,
      <1>11, <1>12, <1>13, <1>14, <1>15, <1>16, <1>17, <1>18, <1>19, <1>20,
      <1>21, <1>22, <1>23, <1>24, <1>25, <1>26, <1>27, <1>28, <1>29, <1>30,
      <1>31, <1>32, <1>33, <1>34, <1>35, <1>36, <1>37, <1>38, <1>39, <1>40,
      <1>41, <1>42, <1>43, <1>44, <1>45, <1>46, <1>47, <1>48, <1>49, <1>50,
      <1>51, <1>52, <1>53, <1>54, <1>55, <1>56, <1>57
  DEF Next, CommandStep, ForwardSteps, CleanupSteps, RecoverySteps,
      RollbackSteps, UserSteps

\* A publication begins only when every entry is done.
LEMMA PublishableStep ==
  ASSUME TypeOK, CoreInv, Advance, Publishable, Next PROVE Publishable'
<1> USE DEF Publishable, RollbackLabels, RefsLabels, LateLabels,
    ReconcileLabels, ActionEntry, Pending, Publication, BirthLabels
<1>t. /\ act \in ActionEntry /\ done \in 0..N /\ N \in Nat \ {0}
      /\ pub \in Publication
  BY ConstantsAssumption DEF ConstantsAssumption, TypeOK, JournalTypeOK
<1>1. CASE Birth
  BY <1>1, <1>t DEF Birth, Start, git, bounds
<1>2. CASE ContinueCommand
  BY <1>2, <1>t DEF ContinueCommand, CleanupOnly, RollingBack, Start, git,
      journal, bounds
<1>3. CASE AbortCommand
  BY <1>3, <1>t DEF AbortCommand, CleanupOnly, Start, RollingBack, git,
      journal, bounds
<1>4. CASE PinCreate
  BY <1>4, <1>t DEF PinCreate, At, Goto, journal, bounds
<1>5. CASE PinSave
  BY <1>5, <1>t DEF PinSave, At, Goto, git, bounds
<1>6. CASE PinsDone
  BY <1>6, <1>t DEF PinsDone, At, Pass, Goto, git, journal, bounds
<1>7. CASE FreezeCutoffs
  BY <1>7, <1>t DEF FreezeCutoffs, At, Goto, git, bounds
<1>8. CASE FreezeRefused
  BY <1>8, <1>t DEF FreezeRefused, At, RollingBack, Goto, git, bounds, Refuse,
      Exit, journal
<1>9. CASE SnapshotReady
  BY <1>9, <1>t DEF SnapshotReady, At, Goto, git, bounds
<1>10. CASE BeginAction
  BY <1>10, <1>t DEF BeginAction, At, Goto, bounds, Refuse, Exit, git, journal
<1>11. CASE Rebase
  BY <1>11, <1>t DEF Rebase, At, Goto, MoveTips, journal, bounds
<1>12. CASE Observe
  BY <1>12, <1>t DEF Observe, At, Adopt, Exit, Goto, git, bounds, Refuse,
      journal
<1>13. CASE BeginValidation
  BY <1>13, <1>t DEF BeginValidation, At, Goto, SetVal, git, bounds, Refuse,
      Exit, journal
<1>14. CASE Validator
  BY <1>14, <1>t DEF Validator, At, Goto, journal, bounds
<1>15. CASE EndValidation
  BY <1>15, <1>t DEF EndValidation, At, SetVal, Goto, Exit, git, bounds
<1>16. CASE MetaIntent
  BY <1>16, <1>t DEF MetaIntent, At, AdoptMeta, SetMeta, Goto, git, bounds,
      Refuse, Exit, journal, Pass
<1>17. CASE MetaWrite
  BY <1>17, <1>t DEF MetaWrite, At, Goto, journal, bounds
<1>18. CASE MetaCheck
  BY <1>18, <1>t DEF MetaCheck, At, AdoptMeta, SetMeta, Goto, git, bounds,
      Refuse, Exit, journal
<1>19. CASE Progress
  <2>1. act.entry = done + 1 /\ act.entry \in 0..N
    BY <1>19, <1>t DEF Progress, At, Advance, ObservedLabels
  <2>2. ~pub.durable /\ completion # "forward-complete"
    <3>1. done # N BY ONLY <2>1, <1>t
    <3> QED BY ONLY <3>1, Publishable DEF Publishable
  <2> QED BY <2>1, <2>2, <1>19 DEF Progress, At, Goto
<1>20. CASE ForwardDone
  BY <1>20, <1>t DEF ForwardDone, At, Pass, Goto, git, journal, bounds
<1>21. CASE BeginPublication
  BY <1>21, <1>t, ZenonT(60) DEF BeginPublication, At, Goto, SetPub, Publishing, git,
      bounds, Refuse, Exit, journal
<1>22. CASE Network
  BY <1>22, <1>t DEF Network, At, Goto, journal, bounds
<1>23. CASE PushResult
  BY <1>23, <1>t DEF PushResult, At, SetPub, Goto, Exit, git, bounds
<1>24. CASE PushDone
  BY <1>24, <1>t DEF PushDone, At, Pass, Goto, git, journal, bounds
<1>25. CASE Complete
  BY <1>25, <1>t DEF Complete, At, RollingBack, Refuse, Exit, git, journal,
      bounds, Goto
<1>26. CASE DeleteIntent
  BY <1>26, <1>t DEF DeleteIntent, At, SetPin, Goto, git, bounds
<1>27. CASE DeletePin
  BY <1>27, <1>t DEF DeletePin, At, Goto, journal, bounds
<1>28. CASE DeleteSave
  BY <1>28, <1>t DEF DeleteSave, At, Goto, SetPin, git, bounds
<1>29. CASE RepoPinsGone
  BY <1>29, <1>t DEF RepoPinsGone, At, Goto, git, bounds
<1>30. CASE Clear
  BY <1>30, <1>t DEF Clear, At, Exit, git, bounds
<1>31. CASE RecoverPreflight
  BY <1>31, <1>t DEF RecoverPreflight, Check, At, Pass, Goto, git, journal,
      bounds, Refuse, Exit
<1>32. CASE ReconcileMeta
  BY <1>32, <1>t DEF ReconcileMeta, At, AdoptMeta, SetMeta, Goto, git, bounds,
      Pass, journal, Refuse, Exit
<1>33. CASE ReconcileValidation
  BY <1>33, <1>t DEF ReconcileValidation, At, Refuse, Exit, git, journal,
      bounds, SetVal, Goto, Pass
<1>34. CASE ReconcileAction
  BY <1>34, <1>t DEF ReconcileAction, At, Pass, Goto, git, journal, bounds,
      AfterReconcile, Adopt, Refuse, Exit
<1>35. CASE Resume
  BY <1>35, <1>t DEF Resume, At, Pass, Goto, git, journal, bounds
<1>36. CASE RollbackPreflight
  BY <1>36, <1>t DEF RollbackPreflight, At, Refuse, Exit, git, journal,
      bounds, RollingBack, Pass, Goto, SetRollback
<1>37. CASE RollbackAction
  BY <1>37, <1>t DEF RollbackAction, At, Goto, journal, bounds, Adopt, git,
      Refuse, Exit, Pass
<1>38. CASE RollbackPreflight2
  BY <1>38, <1>t DEF RollbackPreflight2, Check, At, Pass, Goto, git, journal,
      bounds, Refuse, Exit
<1>39. CASE DetachIntent
  BY <1>39, <1>t DEF DetachIntent, At, Pass, Goto, git, journal, bounds,
      SetHold
<1>40. CASE DetachSwitch
  BY <1>40, <1>t DEF DetachSwitch, At, Goto, journal, bounds, Refuse, Exit,
      git
<1>41. CASE DetachSave
  BY <1>41, <1>t DEF DetachSave, At, Goto, SetHold, git, bounds
<1>42. CASE RefsIntent
  BY <1>42, <1>t DEF RefsIntent, At, Pass, Goto, git, journal, bounds, Refuse,
      Exit
<1>43. CASE RefsRestore
  BY <1>43, <1>t DEF RefsRestore, At, Goto, journal, bounds, Refuse, Exit, git
<1>44. CASE RefsSave
  BY <1>44, <1>t DEF RefsSave, At, Goto, SetRollback, git, bounds
<1>45. CASE RestoreMeta
  BY <1>45, <1>t DEF RestoreMeta, At, MetaRestored, SetMeta, Goto, git,
      bounds, Pass, journal, Refuse, Exit
<1>46. CASE RestoreMetaWrite
  BY <1>46, <1>t DEF RestoreMetaWrite, At, Goto, journal, bounds
<1>47. CASE RestoreMetaSave
  BY <1>47, <1>t DEF RestoreMetaSave, At, Goto, MetaRestored, SetMeta, git,
      bounds
<1>48. CASE RestoreHolder
  BY <1>48, <1>t DEF RestoreHolder, At, Pass, Goto, git, journal, bounds,
      SetHold, Refuse, Exit
<1>49. CASE RestoreHolderSwitch
  BY <1>49, <1>t DEF RestoreHolderSwitch, At, Goto, journal, bounds
<1>50. CASE RestoreHolderSave
  BY <1>50, <1>t DEF RestoreHolderSave, At, Goto, SetHold, git, bounds
<1>51. CASE RolledBack
  BY <1>51, <1>t DEF RolledBack, At, Goto, git, bounds
<1>52. CASE Crash
  BY <1>52, <1>t DEF Crash, Exit, git, journal
<1>53. CASE UserCommit
  BY <1>53, <1>t DEF UserCommit, Interferes, journal
<1>54. CASE UserEdit
  BY <1>54, <1>t DEF UserEdit, Interferes, journal
<1>55. CASE UserResolves
  BY <1>55, <1>t DEF UserResolves, MoveTips, journal, bounds
<1>56. CASE UserCleans
  BY <1>56, <1>t DEF UserCleans, journal, bounds
<1>57. CASE Over
  BY <1>57, <1>t DEF Over, vars, git, journal, bounds
<1> QED
  BY ONLY Next, <1>1, <1>2, <1>3, <1>4, <1>5, <1>6, <1>7, <1>8, <1>9, <1>10,
      <1>11, <1>12, <1>13, <1>14, <1>15, <1>16, <1>17, <1>18, <1>19, <1>20,
      <1>21, <1>22, <1>23, <1>24, <1>25, <1>26, <1>27, <1>28, <1>29, <1>30,
      <1>31, <1>32, <1>33, <1>34, <1>35, <1>36, <1>37, <1>38, <1>39, <1>40,
      <1>41, <1>42, <1>43, <1>44, <1>45, <1>46, <1>47, <1>48, <1>49, <1>50,
      <1>51, <1>52, <1>53, <1>54, <1>55, <1>56, <1>57
  DEF Next, CommandStep, ForwardSteps, CleanupSteps, RecoverySteps,
      RollbackSteps, UserSteps

\* A rollback goes back repository by repository.
LEMMA RetreatingStep ==
  ASSUME TypeInv, CoreInv, Advance, Retreating, Next PROVE Retreating'
<1> USE DEF TypeInv, CoreInv, GoingForward, GoingBack, Ending, ForwardLabels,
    CleanupLabels, Advance, ObservedLabels, Retreating, RefsLabels,
    LateLabels, ActionEntry, Pending, Rollback
<1>t. /\ act \in ActionEntry /\ rb \in Rollback
  BY DEF TypeOK, JournalTypeOK
<1>1. CASE Birth
  BY <1>1, <1>t DEF Birth, Start, git, bounds
<1>2. CASE ContinueCommand
  BY <1>2, <1>t DEF ContinueCommand, CleanupOnly, RollingBack, Start, git,
      journal, bounds
<1>3. CASE AbortCommand
  BY <1>3, <1>t DEF AbortCommand, CleanupOnly, Start, RollingBack, git,
      journal, bounds
<1>4. CASE PinCreate
  BY <1>4, <1>t DEF PinCreate, At, Goto, journal, bounds
<1>5. CASE PinSave
  BY <1>5, <1>t DEF PinSave, At, Goto, git, bounds
<1>6. CASE PinsDone
  BY <1>6, <1>t DEF PinsDone, At, Pass, Goto, git, journal, bounds
<1>7. CASE FreezeCutoffs
  BY <1>7, <1>t DEF FreezeCutoffs, At, Goto, git, bounds
<1>8. CASE FreezeRefused
  BY <1>8, <1>t DEF FreezeRefused, At, RollingBack, Goto, git, bounds, Refuse,
      Exit, journal
<1>9. CASE SnapshotReady
  BY <1>9, <1>t DEF SnapshotReady, At, Goto, git, bounds
<1>10. CASE BeginAction
  BY <1>10, <1>t DEF BeginAction, At, Goto, bounds, Refuse, Exit, git, journal
<1>11. CASE Rebase
  BY <1>11, <1>t DEF Rebase, At, Goto, MoveTips, journal, bounds
<1>12. CASE Observe
  BY <1>12, <1>t DEF Observe, At, Adopt, Exit, Goto, git, bounds, Refuse,
      journal
<1>13. CASE BeginValidation
  BY <1>13, <1>t DEF BeginValidation, At, Goto, SetVal, git, bounds, Refuse,
      Exit, journal
<1>14. CASE Validator
  BY <1>14, <1>t DEF Validator, At, Goto, journal, bounds
<1>15. CASE EndValidation
  BY <1>15, <1>t DEF EndValidation, At, SetVal, Goto, Exit, git, bounds
<1>16. CASE MetaIntent
  BY <1>16, <1>t DEF MetaIntent, At, AdoptMeta, SetMeta, Goto, git, bounds,
      Refuse, Exit, journal, Pass
<1>17. CASE MetaWrite
  BY <1>17, <1>t DEF MetaWrite, At, Goto, journal, bounds
<1>18. CASE MetaCheck
  BY <1>18, <1>t DEF MetaCheck, At, AdoptMeta, SetMeta, Goto, git, bounds,
      Refuse, Exit, journal
<1>19. CASE Progress
  BY <1>19, <1>t DEF Progress, At, Goto, git, bounds
<1>20. CASE ForwardDone
  BY <1>20, <1>t DEF ForwardDone, At, Pass, Goto, git, journal, bounds
<1>21. CASE BeginPublication
  BY <1>21, <1>t DEF BeginPublication, At, Goto, SetPub, Publishing, git,
      bounds, Refuse, Exit, journal
<1>22. CASE Network
  BY <1>22, <1>t DEF Network, At, Goto, journal, bounds
<1>23. CASE PushResult
  BY <1>23, <1>t DEF PushResult, At, SetPub, Goto, Exit, git, bounds
<1>24. CASE PushDone
  BY <1>24, <1>t DEF PushDone, At, Pass, Goto, git, journal, bounds
<1>25. CASE Complete
  BY <1>25, <1>t DEF Complete, At, RollingBack, Refuse, Exit, git, journal,
      bounds, Goto
<1>26. CASE DeleteIntent
  BY <1>26, <1>t DEF DeleteIntent, At, SetPin, Goto, git, bounds
<1>27. CASE DeletePin
  BY <1>27, <1>t DEF DeletePin, At, Goto, journal, bounds
<1>28. CASE DeleteSave
  BY <1>28, <1>t DEF DeleteSave, At, Goto, SetPin, git, bounds
<1>29. CASE RepoPinsGone
  BY <1>29, <1>t DEF RepoPinsGone, At, Goto, git, bounds
<1>30. CASE Clear
  BY <1>30, <1>t DEF Clear, At, Exit, git, bounds
<1>31. CASE RecoverPreflight
  BY <1>31, <1>t DEF RecoverPreflight, Check, At, Pass, Goto, git, journal,
      bounds, Refuse, Exit
<1>32. CASE ReconcileMeta
  BY <1>32, <1>t DEF ReconcileMeta, At, AdoptMeta, SetMeta, Goto, git, bounds,
      Pass, journal, Refuse, Exit
<1>33. CASE ReconcileValidation
  BY <1>33, <1>t DEF ReconcileValidation, At, Refuse, Exit, git, journal,
      bounds, SetVal, Goto, Pass
<1>34. CASE ReconcileAction
  BY <1>34, <1>t DEF ReconcileAction, At, Pass, Goto, git, journal, bounds,
      AfterReconcile, Adopt, Refuse, Exit
<1>35. CASE Resume
  BY <1>35, <1>t DEF Resume, At, Pass, Goto, git, journal, bounds
<1>36. CASE RollbackPreflight
  BY <1>36, <1>t DEF RollbackPreflight, At, Refuse, Exit, git, journal,
      bounds, RollingBack, Pass, Goto, SetRollback
<1>37. CASE RollbackAction
  BY <1>37, <1>t DEF RollbackAction, At, Goto, journal, bounds, Adopt, git,
      Refuse, Exit, Pass
<1>38. CASE RollbackPreflight2
  BY <1>38, <1>t DEF RollbackPreflight2, Check, At, Pass, Goto, git, journal,
      bounds, Refuse, Exit
<1>39. CASE DetachIntent
  BY <1>39, <1>t DEF DetachIntent, At, Pass, Goto, git, journal, bounds,
      SetHold
<1>40. CASE DetachSwitch
  BY <1>40, <1>t DEF DetachSwitch, At, Goto, journal, bounds, Refuse, Exit,
      git
<1>41. CASE DetachSave
  BY <1>41, <1>t DEF DetachSave, At, Goto, SetHold, git, bounds
<1>42. CASE RefsIntent
  BY <1>42, <1>t DEF RefsIntent, At, Pass, Goto, git, journal, bounds, Refuse,
      Exit
<1>43. CASE RefsRestore
  BY <1>43, <1>t DEF RefsRestore, At, Goto, journal, bounds, Refuse, Exit, git
<1>44. CASE RefsSave
  BY <1>44, <1>t DEF RefsSave, At, Goto, SetRollback, git, bounds
<1>45. CASE RestoreMeta
  BY <1>45, <1>t DEF RestoreMeta, At, MetaRestored, SetMeta, Goto, git,
      bounds, Pass, journal, Refuse, Exit
<1>46. CASE RestoreMetaWrite
  BY <1>46, <1>t DEF RestoreMetaWrite, At, Goto, journal, bounds
<1>47. CASE RestoreMetaSave
  BY <1>47, <1>t DEF RestoreMetaSave, At, Goto, MetaRestored, SetMeta, git,
      bounds
<1>48. CASE RestoreHolder
  BY <1>48, <1>t DEF RestoreHolder, At, Pass, Goto, git, journal, bounds,
      SetHold, Refuse, Exit
<1>49. CASE RestoreHolderSwitch
  BY <1>49, <1>t DEF RestoreHolderSwitch, At, Goto, journal, bounds
<1>50. CASE RestoreHolderSave
  BY <1>50, <1>t DEF RestoreHolderSave, At, Goto, SetHold, git, bounds
<1>51. CASE RolledBack
  BY <1>51, <1>t DEF RolledBack, At, Goto, git, bounds
<1>52. CASE Crash
  BY <1>52, <1>t DEF Crash, Exit, git, journal
<1>53. CASE UserCommit
  BY <1>53, <1>t DEF UserCommit, Interferes, journal
<1>54. CASE UserEdit
  BY <1>54, <1>t DEF UserEdit, Interferes, journal
<1>55. CASE UserResolves
  BY <1>55, <1>t DEF UserResolves, MoveTips, journal, bounds
<1>56. CASE UserCleans
  BY <1>56, <1>t DEF UserCleans, journal, bounds
<1>57. CASE Over
  BY <1>57, <1>t DEF Over, vars, git, journal, bounds
<1> QED
  BY ONLY Next, <1>1, <1>2, <1>3, <1>4, <1>5, <1>6, <1>7, <1>8, <1>9, <1>10,
      <1>11, <1>12, <1>13, <1>14, <1>15, <1>16, <1>17, <1>18, <1>19, <1>20,
      <1>21, <1>22, <1>23, <1>24, <1>25, <1>26, <1>27, <1>28, <1>29, <1>30,
      <1>31, <1>32, <1>33, <1>34, <1>35, <1>36, <1>37, <1>38, <1>39, <1>40,
      <1>41, <1>42, <1>43, <1>44, <1>45, <1>46, <1>47, <1>48, <1>49, <1>50,
      <1>51, <1>52, <1>53, <1>54, <1>55, <1>56, <1>57
  DEF Next, CommandStep, ForwardSteps, CleanupSteps, RecoverySteps,
      RollbackSteps, UserSteps

\* The flags of a saved journal agree with its phase.
LEMMA FlagsStep ==
  ASSUME TypeInv, CoreInv, Advance, Publishable, ActionAgrees,
         ReadinessAgrees, CompletionAgrees, RollbackAgrees, MetadataAgrees,
         ValidationAgrees, Next
  PROVE  ReadinessAgrees' /\ CompletionAgrees' /\ RollbackAgrees' /\ MetadataAgrees' /\ ValidationAgrees'
<1> USE DEF TypeInv, CoreInv, GoingForward, GoingBack, Ending, ForwardLabels,
    CleanupLabels, Advance, ObservedLabels, Publishable, RollbackLabels,
    RefsLabels, LateLabels, ActionAgrees, ReadinessAgrees, CompletionAgrees,
    RollbackAgrees, MetadataAgrees, ValidationAgrees, ActionEntry, Pending,
    Rollback, MetaEntry
<1>t. /\ act \in ActionEntry /\ rb \in Rollback /\ jmeta \in MetaEntry
  BY DEF TypeOK, JournalTypeOK
<1>1. CASE Birth
  BY <1>1, <1>t DEF Birth, Start, git, bounds
<1>2. CASE ContinueCommand
  BY <1>2, <1>t DEF ContinueCommand, CleanupOnly, RollingBack, Start, git,
      journal, bounds
<1>3. CASE AbortCommand
  BY <1>3, <1>t DEF AbortCommand, CleanupOnly, Start, RollingBack, git,
      journal, bounds
<1>4. CASE PinCreate
  BY <1>4, <1>t DEF PinCreate, At, Goto, journal, bounds
<1>5. CASE PinSave
  BY <1>5, <1>t DEF PinSave, At, Goto, git, bounds
<1>6. CASE PinsDone
  BY <1>6, <1>t DEF PinsDone, At, Pass, Goto, git, journal, bounds
<1>7. CASE FreezeCutoffs
  BY <1>7, <1>t DEF FreezeCutoffs, At, Goto, git, bounds
<1>8. CASE FreezeRefused
  <2>1. CASE UNCHANGED journal
    BY <2>1 DEF journal
  <2>2. CASE /\ ~RollingBack /\ act.st = "none" /\ jmeta.exp = 0 /\ ~pub.durable
             /\ phase' = "cleanup" /\ completion' = "cancelled-before-mutation"
             /\ UNCHANGED <<ready, jmeta, act, val, pub, rb>>
    BY <2>2, <1>t DEF RollingBack
  <2> QED BY ONLY <2>1, <2>2, <1>8 DEF FreezeRefused, Refuse
<1>9. CASE SnapshotReady
  BY <1>9, <1>t DEF SnapshotReady, At, Goto, git, bounds
<1>10. CASE BeginAction
  <2>1. CASE UNCHANGED journal
    BY <2>1 DEF journal
  <2>2. CASE /\ ready /\ act' = [entry |-> done + 1, st |-> "intent"]
             /\ UNCHANGED <<phase, ready, completion, jmeta, val, pub, rb>>
    <3>1. done \in 0..N
      BY DEF TypeInv, TypeOK, JournalTypeOK
    <3>2. done + 1 # 0
      BY ONLY <3>1, BoundsAreNaturals
    <3>3. phase # "cleanup"
      BY <1>10 DEF BeginAction, At
    <3> QED BY <2>2, <3>2, <3>3, <1>t
  <2> QED BY ONLY <2>1, <2>2, <1>10 DEF BeginAction, Refuse
<1>11. CASE Rebase
  BY <1>11, <1>t DEF Rebase, At, Goto, MoveTips, journal, bounds
<1>12. CASE Observe
  <2>1. CASE UNCHANGED journal
    BY <2>1 DEF journal
  <2>2. CASE \E s \in {"observed", "failed"} : Adopt(s)
    <3>1. act.st = "intent" /\ act.entry # 0 /\ phase # "cleanup"
      BY <1>12 DEF Observe, At
    <3>2. /\ act'.st # "none" /\ act'.entry = act.entry
          /\ UNCHANGED <<ready, completion, jmeta, val, pub, rb>>
          /\ phase' \in {phase, "failed"}
      BY <2>2, <1>t DEF Adopt
    <3> QED BY ONLY <1>t, <3>1, <3>2, ReadinessAgrees, CompletionAgrees,
        RollbackAgrees, MetadataAgrees, ValidationAgrees, CoreInv, <1>12
    DEF Observe, At, ReadinessAgrees, CompletionAgrees, RollbackAgrees,
        MetadataAgrees, ValidationAgrees, CoreInv, GoingForward, ForwardLabels
  <2> QED BY ONLY <2>1, <2>2, <1>12 DEF Observe, Refuse
<1>13. CASE BeginValidation
  BY <1>13, <1>t DEF BeginValidation, At, Goto, SetVal, git, bounds, Refuse,
      Exit, journal
<1>14. CASE Validator
  BY <1>14, <1>t DEF Validator, At, Goto, journal, bounds
<1>15. CASE EndValidation
  BY <1>15, <1>t DEF EndValidation, At, SetVal, Goto, Exit, git, bounds
<1>16. CASE MetaIntent
  <2>1. CASE UNCHANGED journal
    BY <2>1 DEF journal
  <2>2. CASE AdoptMeta
    <3>1. jmeta' = [jmeta EXCEPT !.exp = meta, !.pend = FALSE]
      BY <2>2 DEF AdoptMeta, SetMeta
    <3>2. ~jmeta.rest /\ completion = "" /\ UNCHANGED <<ready, completion, act, val, pub, rb, phase>>
      BY <2>2, <1>16 DEF MetaIntent, At, AdoptMeta, SetMeta
    <3> QED BY <3>1, <3>2, <1>t
  <2>3. CASE SetMeta([jmeta EXCEPT !.intent = act.entry, !.pend = TRUE])
    <3>1. act.entry # Nothing
      BY ONLY <1>t, BoundsAreNaturals DEF Nothing, ActionEntry
    <3>2. /\ jmeta'.exp = jmeta.exp /\ jmeta'.rest = jmeta.rest
          /\ jmeta'.intent # Nothing
          /\ UNCHANGED <<ready, completion, act, val, pub, rb, phase>>
      BY <2>3, <3>1, <1>t DEF SetMeta
    <3> QED BY <3>2
  <2> QED BY ONLY <2>1, <2>2, <2>3, <1>16 DEF MetaIntent, Refuse, Pass
<1>17. CASE MetaWrite
  BY <1>17, <1>t DEF MetaWrite, At, Goto, journal, bounds
<1>18. CASE MetaCheck
  BY <1>18, <1>t DEF MetaCheck, At, AdoptMeta, SetMeta, Goto, git, bounds,
      Refuse, Exit, journal
<1>19. CASE Progress
  BY <1>19, <1>t DEF Progress, At, Goto, git, bounds
<1>20. CASE ForwardDone
  BY <1>20, <1>t DEF ForwardDone, At, Pass, Goto, git, journal, bounds
<1>21. CASE BeginPublication
  BY <1>21, <1>t DEF BeginPublication, At, Goto, SetPub, Publishing, git,
      bounds, Refuse, Exit, journal
<1>22. CASE Network
  BY <1>22, <1>t DEF Network, At, Goto, journal, bounds
<1>23. CASE PushResult
  BY <1>23, <1>t DEF PushResult, At, SetPub, Goto, Exit, git, bounds
<1>24. CASE PushDone
  BY <1>24, <1>t DEF PushDone, At, Pass, Goto, git, journal, bounds
<1>25. CASE Complete
  BY <1>25, <1>t DEF Complete, At, RollingBack, Refuse, Exit, git, journal,
      bounds, Goto
<1>26. CASE DeleteIntent
  <2>1. UNCHANGED <<ready, phase, completion, jmeta, act, val, pub, rb>>
    BY <1>26 DEF DeleteIntent, SetPin
  <2> QED BY <2>1
<1>27. CASE DeletePin
  BY <1>27, <1>t DEF DeletePin, At, Goto, journal, bounds
<1>28. CASE DeleteSave
  BY <1>28, <1>t DEF DeleteSave, At, Goto, SetPin, git, bounds
<1>29. CASE RepoPinsGone
  BY <1>29, <1>t DEF RepoPinsGone, At, Goto, git, bounds
<1>30. CASE Clear
  BY <1>30, <1>t DEF Clear, At, Exit, git, bounds
<1>31. CASE RecoverPreflight
  BY <1>31, <1>t DEF RecoverPreflight, Check, At, Pass, Goto, git, journal,
      bounds, Refuse, Exit
<1>32. CASE ReconcileMeta
  BY <1>32, <1>t DEF ReconcileMeta, At, AdoptMeta, SetMeta, Goto, git, bounds,
      Pass, journal, Refuse, Exit
<1>33. CASE ReconcileValidation
  BY <1>33, <1>t DEF ReconcileValidation, At, Refuse, Exit, git, journal,
      bounds, SetVal, Goto, Pass
<1>34. CASE ReconcileAction
  <2>1. CASE UNCHANGED journal
    BY <2>1 DEF journal
  <2>2. CASE Pending /\ \E s \in {"observed", "failed"} : Adopt(s)
    <3>1. act.st = "intent" /\ act.entry # 0 /\ phase # "cleanup"
      BY <1>34, <2>2 DEF ReconcileAction, At
    <3>2. /\ act'.st # "none" /\ act'.entry = act.entry
          /\ UNCHANGED <<ready, completion, jmeta, val, pub, rb>>
          /\ phase' \in {phase, "failed"}
      BY <2>2, <1>t DEF Adopt
    <3> QED BY ONLY <1>t, <3>1, <3>2, ReadinessAgrees, CompletionAgrees,
        RollbackAgrees, MetadataAgrees, ValidationAgrees, CoreInv, <1>34
    DEF ReconcileAction, At, ReadinessAgrees, CompletionAgrees,
        RollbackAgrees, MetadataAgrees, ValidationAgrees, CoreInv,
        GoingForward, ForwardLabels
  <2> QED BY ONLY <2>1, <2>2, <1>34 DEF ReconcileAction, Refuse, Pass
<1>35. CASE Resume
  BY <1>35, <1>t DEF Resume, At, Pass, Goto, git, journal, bounds
<1>36. CASE RollbackPreflight
  BY <1>36, <1>t, ZenonT(60) DEF RollbackPreflight, At, Refuse, Exit, git, journal,
      bounds, RollingBack, Pass, Goto, SetRollback
<1>37. CASE RollbackAction
  <2>1. CASE UNCHANGED journal
    BY <2>1 DEF journal
  <2>2. CASE Pending /\ Adopt("observed")
    <3>1. /\ act'.st = "observed" /\ act'.entry = act.entry
          /\ UNCHANGED <<ready, completion, jmeta, val, pub, rb, phase>>
      BY <2>2, <1>t DEF Adopt
    <3> QED BY <2>2, <3>1
  <2> QED BY ONLY <2>1, <2>2, <1>37 DEF RollbackAction, Refuse, Pass
<1>38. CASE RollbackPreflight2
  BY <1>38, <1>t DEF RollbackPreflight2, Check, At, Pass, Goto, git, journal,
      bounds, Refuse, Exit
<1>39. CASE DetachIntent
  BY <1>39, <1>t DEF DetachIntent, At, Pass, Goto, git, journal, bounds,
      SetHold
<1>40. CASE DetachSwitch
  BY <1>40, <1>t DEF DetachSwitch, At, Goto, journal, bounds, Refuse, Exit,
      git
<1>41. CASE DetachSave
  BY <1>41, <1>t DEF DetachSave, At, Goto, SetHold, git, bounds
<1>42. CASE RefsIntent
  BY <1>42, <1>t DEF RefsIntent, At, Pass, Goto, git, journal, bounds, Refuse,
      Exit
<1>43. CASE RefsRestore
  BY <1>43, <1>t DEF RefsRestore, At, Goto, journal, bounds, Refuse, Exit, git
<1>44. CASE RefsSave
  BY <1>44, <1>t DEF RefsSave, At, Goto, SetRollback, git, bounds
<1>45. CASE RestoreMeta
  BY <1>45, <1>t DEF RestoreMeta, At, MetaRestored, SetMeta, Goto, git,
      bounds, Pass, journal, Refuse, Exit
<1>46. CASE RestoreMetaWrite
  BY <1>46, <1>t DEF RestoreMetaWrite, At, Goto, journal, bounds
<1>47. CASE RestoreMetaSave
  BY <1>47, <1>t DEF RestoreMetaSave, At, Goto, MetaRestored, SetMeta, git,
      bounds
<1>48. CASE RestoreHolder
  BY <1>48, <1>t DEF RestoreHolder, At, Pass, Goto, git, journal, bounds,
      SetHold, Refuse, Exit
<1>49. CASE RestoreHolderSwitch
  BY <1>49, <1>t DEF RestoreHolderSwitch, At, Goto, journal, bounds
<1>50. CASE RestoreHolderSave
  BY <1>50, <1>t DEF RestoreHolderSave, At, Goto, SetHold, git, bounds
<1>51. CASE RolledBack
  BY <1>51, <1>t DEF RolledBack, At, Goto, git, bounds
<1>52. CASE Crash
  BY <1>52, <1>t DEF Crash, Exit, git, journal
<1>53. CASE UserCommit
  BY <1>53, <1>t DEF UserCommit, Interferes, journal
<1>54. CASE UserEdit
  BY <1>54, <1>t DEF UserEdit, Interferes, journal
<1>55. CASE UserResolves
  BY <1>55, <1>t DEF UserResolves, MoveTips, journal, bounds
<1>56. CASE UserCleans
  BY <1>56, <1>t DEF UserCleans, journal, bounds
<1>57. CASE Over
  BY <1>57, <1>t DEF Over, vars, git, journal, bounds
<1> QED
  BY ONLY Next, <1>1, <1>2, <1>3, <1>4, <1>5, <1>6, <1>7, <1>8, <1>9, <1>10,
      <1>11, <1>12, <1>13, <1>14, <1>15, <1>16, <1>17, <1>18, <1>19, <1>20,
      <1>21, <1>22, <1>23, <1>24, <1>25, <1>26, <1>27, <1>28, <1>29, <1>30,
      <1>31, <1>32, <1>33, <1>34, <1>35, <1>36, <1>37, <1>38, <1>39, <1>40,
      <1>41, <1>42, <1>43, <1>44, <1>45, <1>46, <1>47, <1>48, <1>49, <1>50,
      <1>51, <1>52, <1>53, <1>54, <1>55, <1>56, <1>57
  DEF Next, CommandStep, ForwardSteps, CleanupSteps, RecoverySteps,
      RollbackSteps, UserSteps

\* The publication fields of a saved journal agree with each other.
LEMMA PublicationStep ==
  ASSUME TypeInv, CoreInv, Publishable, PublicationAgrees, Next
  PROVE  PublicationAgrees'
<1> USE DEF CoreInv, GoingForward, GoingBack, Ending, ForwardLabels,
    CleanupLabels, Publishable, RollbackLabels, RefsLabels, LateLabels,
    PublicationAgrees, Rollback, Publication
<1>t. /\ rb \in Rollback /\ pub \in Publication
  BY DEF TypeInv, TypeOK, JournalTypeOK
<1>1. CASE Birth
  BY <1>1, <1>t DEF Birth, Start, git, bounds
<1>2. CASE ContinueCommand
  BY <1>2, <1>t DEF ContinueCommand, CleanupOnly, RollingBack, Start, git,
      journal, bounds
<1>3. CASE AbortCommand
  BY <1>3, <1>t DEF AbortCommand, CleanupOnly, Start, RollingBack, git,
      journal, bounds
<1>4. CASE PinCreate
  BY <1>4, <1>t DEF PinCreate, At, Goto, journal, bounds
<1>5. CASE PinSave
  BY <1>5, <1>t DEF PinSave, At, Goto, git, bounds
<1>6. CASE PinsDone
  BY <1>6, <1>t DEF PinsDone, At, Pass, Goto, git, journal, bounds
<1>7. CASE FreezeCutoffs
  BY <1>7, <1>t DEF FreezeCutoffs, At, Goto, git, bounds
<1>8. CASE FreezeRefused
  BY <1>8, <1>t DEF FreezeRefused, At, RollingBack, Goto, git, bounds, Refuse,
      Exit, journal
<1>9. CASE SnapshotReady
  BY <1>9, <1>t DEF SnapshotReady, At, Goto, git, bounds
<1>10. CASE BeginAction
  BY <1>10, <1>t DEF BeginAction, At, Goto, bounds, Refuse, Exit, git, journal
<1>11. CASE Rebase
  BY <1>11, <1>t DEF Rebase, At, Goto, MoveTips, journal, bounds
<1>12. CASE Observe
  BY <1>12, <1>t DEF Observe, At, Adopt, Exit, Goto, git, bounds, Refuse,
      journal
<1>13. CASE BeginValidation
  BY <1>13, <1>t DEF BeginValidation, At, Goto, SetVal, git, bounds, Refuse,
      Exit, journal
<1>14. CASE Validator
  BY <1>14, <1>t DEF Validator, At, Goto, journal, bounds
<1>15. CASE EndValidation
  BY <1>15, <1>t DEF EndValidation, At, SetVal, Goto, Exit, git, bounds
<1>16. CASE MetaIntent
  BY <1>16, <1>t DEF MetaIntent, At, AdoptMeta, SetMeta, Goto, git, bounds,
      Refuse, Exit, journal, Pass
<1>17. CASE MetaWrite
  BY <1>17, <1>t DEF MetaWrite, At, Goto, journal, bounds
<1>18. CASE MetaCheck
  BY <1>18, <1>t DEF MetaCheck, At, AdoptMeta, SetMeta, Goto, git, bounds,
      Refuse, Exit, journal
<1>19. CASE Progress
  BY <1>19, <1>t DEF Progress, At, Goto, git, bounds
<1>20. CASE ForwardDone
  BY <1>20, <1>t DEF ForwardDone, At, Pass, Goto, git, journal, bounds
<1>21. CASE BeginPublication
  BY <1>21, <1>t DEF BeginPublication, At, Goto, SetPub, Publishing, git,
      bounds, Refuse, Exit, journal
<1>22. CASE Network
  BY <1>22, <1>t DEF Network, At, Goto, journal, bounds
<1>23. CASE PushResult
  BY <1>23, <1>t DEF PushResult, At, SetPub, Goto, Exit, git, bounds
<1>24. CASE PushDone
  BY <1>24, <1>t DEF PushDone, At, Pass, Goto, git, journal, bounds
<1>25. CASE Complete
  BY <1>25, <1>t DEF Complete, At, RollingBack, Refuse, Exit, git, journal,
      bounds, Goto
<1>26. CASE DeleteIntent
  BY <1>26, <1>t DEF DeleteIntent, At, SetPin, Goto, git, bounds
<1>27. CASE DeletePin
  BY <1>27, <1>t DEF DeletePin, At, Goto, journal, bounds
<1>28. CASE DeleteSave
  BY <1>28, <1>t DEF DeleteSave, At, Goto, SetPin, git, bounds
<1>29. CASE RepoPinsGone
  BY <1>29, <1>t DEF RepoPinsGone, At, Goto, git, bounds
<1>30. CASE Clear
  BY <1>30, <1>t DEF Clear, At, Exit, git, bounds
<1>31. CASE RecoverPreflight
  BY <1>31, <1>t DEF RecoverPreflight, Check, At, Pass, Goto, git, journal,
      bounds, Refuse, Exit
<1>32. CASE ReconcileMeta
  BY <1>32, <1>t DEF ReconcileMeta, At, AdoptMeta, SetMeta, Goto, git, bounds,
      Pass, journal, Refuse, Exit
<1>33. CASE ReconcileValidation
  BY <1>33, <1>t DEF ReconcileValidation, At, Refuse, Exit, git, journal,
      bounds, SetVal, Goto, Pass
<1>34. CASE ReconcileAction
  BY <1>34, <1>t DEF ReconcileAction, At, Pass, Goto, git, journal, bounds,
      AfterReconcile, Adopt, Refuse, Exit
<1>35. CASE Resume
  BY <1>35, <1>t DEF Resume, At, Pass, Goto, git, journal, bounds
<1>36. CASE RollbackPreflight
  BY <1>36, <1>t DEF RollbackPreflight, At, Refuse, Exit, git, journal,
      bounds, RollingBack, Pass, Goto, SetRollback
<1>37. CASE RollbackAction
  BY <1>37, <1>t DEF RollbackAction, At, Goto, journal, bounds, Adopt, git,
      Refuse, Exit, Pass
<1>38. CASE RollbackPreflight2
  BY <1>38, <1>t DEF RollbackPreflight2, Check, At, Pass, Goto, git, journal,
      bounds, Refuse, Exit
<1>39. CASE DetachIntent
  BY <1>39, <1>t DEF DetachIntent, At, Pass, Goto, git, journal, bounds,
      SetHold
<1>40. CASE DetachSwitch
  BY <1>40, <1>t DEF DetachSwitch, At, Goto, journal, bounds, Refuse, Exit,
      git
<1>41. CASE DetachSave
  BY <1>41, <1>t DEF DetachSave, At, Goto, SetHold, git, bounds
<1>42. CASE RefsIntent
  BY <1>42, <1>t DEF RefsIntent, At, Pass, Goto, git, journal, bounds, Refuse,
      Exit
<1>43. CASE RefsRestore
  BY <1>43, <1>t DEF RefsRestore, At, Goto, journal, bounds, Refuse, Exit, git
<1>44. CASE RefsSave
  BY <1>44, <1>t DEF RefsSave, At, Goto, SetRollback, git, bounds
<1>45. CASE RestoreMeta
  BY <1>45, <1>t DEF RestoreMeta, At, MetaRestored, SetMeta, Goto, git,
      bounds, Pass, journal, Refuse, Exit
<1>46. CASE RestoreMetaWrite
  BY <1>46, <1>t DEF RestoreMetaWrite, At, Goto, journal, bounds
<1>47. CASE RestoreMetaSave
  BY <1>47, <1>t DEF RestoreMetaSave, At, Goto, MetaRestored, SetMeta, git,
      bounds
<1>48. CASE RestoreHolder
  BY <1>48, <1>t DEF RestoreHolder, At, Pass, Goto, git, journal, bounds,
      SetHold, Refuse, Exit
<1>49. CASE RestoreHolderSwitch
  BY <1>49, <1>t DEF RestoreHolderSwitch, At, Goto, journal, bounds
<1>50. CASE RestoreHolderSave
  BY <1>50, <1>t DEF RestoreHolderSave, At, Goto, SetHold, git, bounds
<1>51. CASE RolledBack
  BY <1>51, <1>t DEF RolledBack, At, Goto, git, bounds
<1>52. CASE Crash
  BY <1>52, <1>t DEF Crash, Exit, git, journal
<1>53. CASE UserCommit
  BY <1>53, <1>t DEF UserCommit, Interferes, journal
<1>54. CASE UserEdit
  BY <1>54, <1>t DEF UserEdit, Interferes, journal
<1>55. CASE UserResolves
  BY <1>55, <1>t DEF UserResolves, MoveTips, journal, bounds
<1>56. CASE UserCleans
  BY <1>56, <1>t DEF UserCleans, journal, bounds
<1>57. CASE Over
  BY <1>57, <1>t DEF Over, vars, git, journal, bounds
<1> QED
  BY ONLY Next, <1>1, <1>2, <1>3, <1>4, <1>5, <1>6, <1>7, <1>8, <1>9, <1>10,
      <1>11, <1>12, <1>13, <1>14, <1>15, <1>16, <1>17, <1>18, <1>19, <1>20,
      <1>21, <1>22, <1>23, <1>24, <1>25, <1>26, <1>27, <1>28, <1>29, <1>30,
      <1>31, <1>32, <1>33, <1>34, <1>35, <1>36, <1>37, <1>38, <1>39, <1>40,
      <1>41, <1>42, <1>43, <1>44, <1>45, <1>46, <1>47, <1>48, <1>49, <1>50,
      <1>51, <1>52, <1>53, <1>54, <1>55, <1>56, <1>57
  DEF Next, CommandStep, ForwardSteps, CleanupSteps, RecoverySteps,
      RollbackSteps, UserSteps

LEMMA SourcesKept ==
  ASSUME SourcesAgree, UNCHANGED <<pub, jref>> PROVE SourcesAgree'
  BY DEF SourcesAgree

LEMMA SourcesUnpublished ==
  ASSUME PublicationAgrees, ~pub.durable, UNCHANGED pub PROVE SourcesAgree'
  BY DEF SourcesAgree, PublicationAgrees

LEMMA AdoptUnpublished ==
  ASSUME TypeOK, Advance, ActionAgrees, Publishable, PublicationAgrees, Pending, NEW s, Adopt(s)
  PROVE  SourcesAgree'
  <1>1. act.entry # 0 /\ act.entry # done
    BY DEF Advance, ActionAgrees, Pending
  <1>2. act.entry \in 0..N /\ done \in 0..N /\ N \in Nat
    BY BoundsAreNaturals DEF TypeOK, JournalTypeOK, ActionEntry
  <1>3. done # N
    BY ONLY <1>1, <1>2, Advance DEF Advance
  <1>4. ~pub.durable
    BY <1>3 DEF Publishable
  <1> QED BY <1>4, SourcesUnpublished DEF Adopt

LEMMA PinsKeepSources ==
  ASSUME TypeOK, SourcesAgree, NEW x, NEW p, NEW d, SetPin(x, p, d)
  PROVE  SourcesAgree'
  <1>1. \A r \in Refs : jref'[r].exp = jref[r].exp
    BY DEF SetPin, TypeOK, JournalTypeOK, RefEntry
  <1> QED BY <1>1 DEF SourcesAgree, SetPin, Refs

LEMMA EntriesPositive == \A e \in Entries : e # 0
  BY BoundsAreNaturals DEF Entries

\* A recorded source is the expected tip of its branch.
LEMMA SourcesStep ==
  ASSUME TypeInv, Advance, ActionAgrees, Publishable, PublicationAgrees,
         SourcesAgree, Next
  PROVE  SourcesAgree'
<1>t. TypeOK /\ TargetsOK BY DEF TypeInv
<1>1. CASE Birth
  BY <1>1, SourcesKept DEF Birth
<1>2. CASE ContinueCommand
  BY <1>2, SourcesKept DEF ContinueCommand, journal
<1>3. CASE AbortCommand
  BY <1>3, SourcesKept DEF AbortCommand, journal
<1>4. CASE PinCreate
  BY <1>4, SourcesKept DEF PinCreate, journal
<1>5. CASE PinSave
  <2>1. \A r \in Refs : jref'[r].exp = jref[r].exp
    BY <1>5 DEF PinSave, TypeOK, JournalTypeOK, RefEntry
  <2> QED BY <1>5, <2>1 DEF PinSave, SourcesAgree, Refs
<1>6. CASE PinsDone
  BY <1>6, SourcesKept DEF PinsDone, Pass, journal
<1>7. CASE FreezeCutoffs
  BY <1>7, SourcesKept DEF FreezeCutoffs
<1>8. CASE FreezeRefused
  BY <1>8, SourcesKept DEF FreezeRefused, Refuse, journal
<1>9. CASE SnapshotReady
  BY <1>9, SourcesKept DEF SnapshotReady
<1>10. CASE BeginAction
  BY <1>10, SourcesKept DEF BeginAction, Refuse, journal
<1>11. CASE Rebase
  BY <1>11, SourcesKept DEF Rebase, journal
<1>12. CASE Observe
  <2>1. CASE UNCHANGED journal
    BY <2>1, SourcesKept DEF journal
  <2>2. CASE Pending /\ \E s \in {"observed", "failed"} : Adopt(s)
    BY <2>2, <1>t, AdoptUnpublished
  <2>3. Pending
    BY <1>12 DEF Observe, At, Advance
  <2> QED BY ONLY <2>1, <2>2, <2>3, <1>12 DEF Observe, Refuse
<1>13. CASE BeginValidation
  BY <1>13, SourcesKept DEF BeginValidation, SetVal, Refuse, journal
<1>14. CASE Validator
  BY <1>14, SourcesKept DEF Validator, journal
<1>15. CASE EndValidation
  BY <1>15, SourcesKept DEF EndValidation, SetVal
<1>16. CASE MetaIntent
  BY <1>16, SourcesKept DEF MetaIntent, AdoptMeta, SetMeta, Refuse, journal,
      Pass
<1>17. CASE MetaWrite
  BY <1>17, SourcesKept DEF MetaWrite, journal
<1>18. CASE MetaCheck
  BY <1>18, SourcesKept DEF MetaCheck, AdoptMeta, SetMeta, Refuse, journal
<1>19. CASE Progress
  BY <1>19, SourcesKept DEF Progress
<1>20. CASE ForwardDone
  BY <1>20, SourcesKept DEF ForwardDone, Pass, journal
<1>21. CASE BeginPublication
  <2>1. CASE UNCHANGED journal
    BY <2>1, SourcesKept DEF journal
  <2>2. CASE \E e \in Entries : SetPub(Publishing(e))
    <3>1. PICK e \in Entries : SetPub(Publishing(e))
      BY <2>2
    <3>2. jref[e].exp # Nothing
      <4>1. jref[e].exp \in Commits
        BY ONLY <1>t DEF TypeOK, JournalTypeOK, RefEntry, Refs
      <4> QED BY ONLY <4>1 DEF Commits, UserWork, Nothing
    <3>a. pub \in Publication
      BY <1>t DEF TypeOK, JournalTypeOK
    <3>3. pub' = [durable |-> TRUE, cur |-> e, ok |-> pub.ok,
                  src |-> [pub.src EXCEPT ![e] = IF @ = Nothing THEN jref[e].exp ELSE @]]
      BY ONLY <3>1, <3>a DEF SetPub, Publishing, Publication
    <3>4. UNCHANGED jref /\ pub.src \in [Entries -> Contents] /\ pub.ok \subseteq Entries
      BY ONLY <3>1, <3>a DEF SetPub, Publication
    <3> QED BY ONLY SourcesAgree, <3>2, <3>3, <3>4 DEF SourcesAgree
  <2> QED BY ONLY <2>1, <2>2, <1>21 DEF BeginPublication, Refuse
<1>22. CASE Network
  BY <1>22, SourcesKept DEF Network, journal
<1>23. CASE PushResult
  <2>1. /\ UNCHANGED jref /\ pub'.src = pub.src /\ pub'.cur = 0
        /\ pub'.ok \subseteq pub.ok \cup {pub.cur} /\ pub.cur # 0
    BY <1>23, EntriesPositive
    DEF PushResult, SetPub, At, TypeInv, TargetsOK, TypeOK, JournalTypeOK,
        Publication
  <2> QED BY ONLY <2>1, SourcesAgree DEF SourcesAgree
<1>24. CASE PushDone
  BY <1>24, SourcesKept DEF PushDone, Pass, journal
<1>25. CASE Complete
  BY <1>25, SourcesKept DEF Complete, Refuse, journal
<1>26. CASE DeleteIntent
  <2>1. ASSUME NEW x, NEW p, NEW d, SetPin(x, p, d) PROVE SourcesAgree'
    BY <2>1, <1>t, PinsKeepSources
  <2>2. \E r \in Refs : SetPin(r, jref[r].pinned, TRUE) \/ SetPin(r, FALSE, FALSE)
    BY <1>26 DEF DeleteIntent, Unfinished
  <2> QED BY ONLY <2>1, <2>2
<1>27. CASE DeletePin
  BY <1>27, SourcesKept DEF DeletePin, journal
<1>28. CASE DeleteSave
  <2>1. SetPin(sel, FALSE, FALSE)
    BY <1>28 DEF DeleteSave
  <2> QED BY <2>1, <1>t, PinsKeepSources
<1>29. CASE RepoPinsGone
  BY <1>29, SourcesKept DEF RepoPinsGone
<1>30. CASE Clear
  BY <1>30, SourcesKept DEF Clear
<1>31. CASE RecoverPreflight
  BY <1>31, SourcesKept DEF RecoverPreflight, Check, Pass, journal, Refuse
<1>32. CASE ReconcileMeta
  BY <1>32, SourcesKept DEF ReconcileMeta, AdoptMeta, SetMeta, Pass, journal,
      Refuse
<1>33. CASE ReconcileValidation
  BY <1>33, SourcesKept DEF ReconcileValidation, Refuse, journal, SetVal, Pass
<1>34. CASE ReconcileAction
  <2>1. CASE UNCHANGED journal
    BY <2>1, SourcesKept DEF journal
  <2>2. CASE Pending /\ \E s \in {"observed", "failed"} : Adopt(s)
    BY <2>2, <1>t, AdoptUnpublished
  <2> QED BY ONLY <2>1, <2>2, <1>34 DEF ReconcileAction, Refuse, Pass
<1>35. CASE Resume
  BY <1>35, SourcesKept DEF Resume, Pass, journal
<1>36. CASE RollbackPreflight
  BY <1>36, SourcesKept DEF RollbackPreflight, Refuse, journal, Pass,
      SetRollback
<1>37. CASE RollbackAction
  <2>1. CASE UNCHANGED journal
    BY <2>1, SourcesKept DEF journal
  <2>2. CASE Pending /\ \E s \in {"observed", "failed"} : Adopt(s)
    BY <2>2, <1>t, AdoptUnpublished
  <2> QED BY ONLY <2>1, <2>2, <1>37 DEF RollbackAction, Refuse, Pass
<1>38. CASE RollbackPreflight2
  BY <1>38, SourcesKept DEF RollbackPreflight2, Check, Pass, journal, Refuse
<1>39. CASE DetachIntent
  BY <1>39, SourcesKept DEF DetachIntent, Pass, journal, SetHold
<1>40. CASE DetachSwitch
  BY <1>40, SourcesKept DEF DetachSwitch, journal, Refuse
<1>41. CASE DetachSave
  BY <1>41, SourcesKept DEF DetachSave, SetHold
<1>42. CASE RefsIntent
  BY <1>42, SourcesKept DEF RefsIntent, Pass, journal, Refuse
<1>43. CASE RefsRestore
  BY <1>43, SourcesKept DEF RefsRestore, journal, Refuse
<1>44. CASE RefsSave
  BY <1>44, SourcesUnpublished
  DEF RefsSave, At, Publishable, RollbackLabels, RefsLabels, SetRollback
<1>45. CASE RestoreMeta
  BY <1>45, SourcesKept DEF RestoreMeta, MetaRestored, SetMeta, Pass, journal,
      Refuse
<1>46. CASE RestoreMetaWrite
  BY <1>46, SourcesKept DEF RestoreMetaWrite, journal
<1>47. CASE RestoreMetaSave
  BY <1>47, SourcesKept DEF RestoreMetaSave, MetaRestored, SetMeta
<1>48. CASE RestoreHolder
  BY <1>48, SourcesKept DEF RestoreHolder, Pass, journal, SetHold, Refuse
<1>49. CASE RestoreHolderSwitch
  BY <1>49, SourcesKept DEF RestoreHolderSwitch, journal
<1>50. CASE RestoreHolderSave
  BY <1>50, SourcesKept DEF RestoreHolderSave, SetHold
<1>51. CASE RolledBack
  BY <1>51, SourcesKept DEF RolledBack
<1>52. CASE Crash
  BY <1>52, SourcesKept DEF Crash, journal
<1>53. CASE UserCommit
  BY <1>53, SourcesKept DEF UserCommit, Interferes, journal
<1>54. CASE UserEdit
  BY <1>54, SourcesKept DEF UserEdit, Interferes, journal
<1>55. CASE UserResolves
  BY <1>55, SourcesKept DEF UserResolves, journal
<1>56. CASE UserCleans
  BY <1>56, SourcesKept DEF UserCleans, journal
<1>57. CASE Over
  BY <1>57, SourcesKept DEF Over, vars, journal
<1> QED
  BY ONLY Next, <1>1, <1>2, <1>3, <1>4, <1>5, <1>6, <1>7, <1>8, <1>9, <1>10,
      <1>11, <1>12, <1>13, <1>14, <1>15, <1>16, <1>17, <1>18, <1>19, <1>20,
      <1>21, <1>22, <1>23, <1>24, <1>25, <1>26, <1>27, <1>28, <1>29, <1>30,
      <1>31, <1>32, <1>33, <1>34, <1>35, <1>36, <1>37, <1>38, <1>39, <1>40,
      <1>41, <1>42, <1>43, <1>44, <1>45, <1>46, <1>47, <1>48, <1>49, <1>50,
      <1>51, <1>52, <1>53, <1>54, <1>55, <1>56, <1>57
  DEF Next, CommandStep, ForwardSteps, CleanupSteps, RecoverySteps,
      RollbackSteps, UserSteps

LEMMA AdoptEffect ==
  ASSUME TypeOK, NEW s, Adopt(s)
  PROVE  /\ \A r \in Refs :
              /\ jref'[r].exp = IF RepoOf[r] = RepoOf[act.entry] THEN ref[r]
                                ELSE jref[r].exp
              /\ jref'[r].pinned = jref[r].pinned
              /\ jref'[r].del = jref[r].del
         /\ act'.entry = act.entry /\ act'.st = s
         /\ phase' \in {phase, "failed"}
         /\ UNCHANGED <<payload, cutoffs, ready, completion, jmeta, val, done, pub, rb>>
  <1>1. jref \in [Refs -> RefEntry] /\ act \in ActionEntry
    BY DEF TypeOK, JournalTypeOK
  <1> QED BY ONLY <1>1, Adopt(s) DEF Adopt, RefEntry, ActionEntry

LEMMA PendingIsEntry ==
  ASSUME TypeOK, ActionAgrees, Pending PROVE act.entry \in Entries
  <1>1. act.entry \in 0..N /\ act.entry # 0
    BY DEF TypeOK, JournalTypeOK, ActionEntry, ActionAgrees, Pending
  <1> QED BY ONLY <1>1, BoundsAreNaturals DEF Entries

LEMMA AdoptRef ==
  ASSUME TypeOK, Retreating, Pending, phase # "cleanup",
         NEW x \in Refs, RefAgrees(x), NEW s, Adopt(s)
  PROVE  RefAgrees(x)'
  <1>1. RepoOf[x] \notin rb.refs
    BY DEF Retreating
  <1>2. rb' = rb /\ phase' # "cleanup" /\ ready' = ready
        /\ jref'[x].pinned = jref[x].pinned /\ jref'[x].del = jref[x].del
    BY AdoptEffect
  <1> QED BY ONLY <1>1, <1>2, RefAgrees(x), phase # "cleanup" DEF RefAgrees

LEMMA AdoptExpected ==
  ASSUME TypeOK, ActionAgrees, Pending, Attributable,
         NEW x \in Refs, ExpectedAgrees(x), NEW s, Adopt(s)
  PROVE  ExpectedAgrees(x)'
  <1>1. act.entry \in 1..act.entry
    BY PendingIsEntry, BoundsAreNaturals DEF Entries
  <1>2. jref'[x].exp = jref[x].exp \/ x \in Allowed[act.entry]
    BY AdoptEffect DEF Attributable, RefsIn
  <1>3. act'.entry = act.entry
    BY AdoptEffect
  <1> QED BY ONLY <1>1, <1>2, <1>3, ExpectedAgrees(x) DEF ExpectedAgrees

\* What a saved journal says of a branch agrees with the run's progress.
LEMMA RefStep ==
  ASSUME TypeInv, CoreInv, Advance, Retreating, NEW x \in Refs, RefAgrees(x),
         Next
  PROVE  RefAgrees(x)'
<1> USE DEF CoreInv, GoingForward, GoingBack, Ending, ForwardLabels,
    CleanupLabels, Retreating, RefsLabels, LateLabels, RefAgrees, Rollback,
    RefEntry, Pending, Unfinished
<1>t. /\ rb \in Rollback /\ jref \in [Refs -> RefEntry]
      /\ RepoOf \in [Refs -> Repos]
  BY ConstantsAssumption DEF ConstantsAssumption, TypeInv, TypeOK, JournalTypeOK
<1>u. TypeOK  BY DEF TypeInv
<1>1. CASE Birth
  BY <1>1, <1>t DEF Birth, Start, git, bounds
<1>2. CASE ContinueCommand
  BY <1>2, <1>t DEF ContinueCommand, CleanupOnly, RollingBack, Start, git,
      journal, bounds
<1>3. CASE AbortCommand
  BY <1>3, <1>t DEF AbortCommand, CleanupOnly, Start, RollingBack, git,
      journal, bounds
<1>4. CASE PinCreate
  BY <1>4, <1>t DEF PinCreate, At, Goto, journal, bounds
<1>5. CASE PinSave
  BY <1>5, <1>t, ZenonT(60) DEF PinSave, At, Goto, git, bounds
<1>6. CASE PinsDone
  BY <1>6, <1>t DEF PinsDone, At, Pass, Goto, git, journal, bounds
<1>7. CASE FreezeCutoffs
  BY <1>7, <1>t DEF FreezeCutoffs, At, Goto, git, bounds
<1>8. CASE FreezeRefused
  <2>1. UNCHANGED <<jref, rb, ready>> /\ phase' \in {phase, "cleanup"}
    BY <1>8 DEF FreezeRefused, Refuse, journal
  <2>2. phase # "cleanup"
    BY <1>8 DEF FreezeRefused, At
  <2> QED BY <2>1, <2>2
<1>9. CASE SnapshotReady
  BY <1>9, <1>t DEF SnapshotReady, At, Goto, git, bounds
<1>10. CASE BeginAction
  BY <1>10, <1>t DEF BeginAction, At, Goto, bounds, Refuse, Exit, git, journal
<1>11. CASE Rebase
  BY <1>11, <1>t DEF Rebase, At, Goto, MoveTips, journal, bounds
<1>12. CASE Observe
  <2>1. CASE UNCHANGED journal
    BY <2>1 DEF journal
  <2>2. CASE TRUE /\ \E s \in {"observed", "failed"} : Adopt(s)
    <3>1. Pending /\ phase # "cleanup"
      BY <1>12, <2>2 DEF Observe, At, Advance
    <3> QED BY ONLY <2>2, <3>1, <1>u, Retreating, RefAgrees(x), AdoptRef
  <2> QED BY ONLY <2>1, <2>2, <1>12 DEF Observe, Refuse
<1>13. CASE BeginValidation
  BY <1>13, <1>t DEF BeginValidation, At, Goto, SetVal, git, bounds, Refuse,
      Exit, journal
<1>14. CASE Validator
  BY <1>14, <1>t DEF Validator, At, Goto, journal, bounds
<1>15. CASE EndValidation
  BY <1>15, <1>t DEF EndValidation, At, SetVal, Goto, Exit, git, bounds
<1>16. CASE MetaIntent
  <2>1. UNCHANGED <<jref, rb, ready, phase>>
    BY <1>16 DEF MetaIntent, AdoptMeta, SetMeta, Refuse, Pass, journal
  <2> QED BY <2>1
<1>17. CASE MetaWrite
  BY <1>17, <1>t DEF MetaWrite, At, Goto, journal, bounds
<1>18. CASE MetaCheck
  BY <1>18, <1>t DEF MetaCheck, At, AdoptMeta, SetMeta, Goto, git, bounds,
      Refuse, Exit, journal
<1>19. CASE Progress
  BY <1>19, <1>t DEF Progress, At, Goto, git, bounds
<1>20. CASE ForwardDone
  BY <1>20, <1>t DEF ForwardDone, At, Pass, Goto, git, journal, bounds
<1>21. CASE BeginPublication
  BY <1>21, <1>t DEF BeginPublication, At, Goto, SetPub, Publishing, git,
      bounds, Refuse, Exit, journal
<1>22. CASE Network
  BY <1>22, <1>t DEF Network, At, Goto, journal, bounds
<1>23. CASE PushResult
  BY <1>23, <1>t DEF PushResult, At, SetPub, Goto, Exit, git, bounds
<1>24. CASE PushDone
  BY <1>24, <1>t DEF PushDone, At, Pass, Goto, git, journal, bounds
<1>25. CASE Complete
  BY <1>25, <1>t DEF Complete, At, RollingBack, Refuse, Exit, git, journal,
      bounds, Goto
<1>26. CASE DeleteIntent
  <2>1. UNCHANGED <<rb, ready, phase>> /\ phase = "cleanup"
    BY <1>26 DEF DeleteIntent, SetPin, At
  <2>2. PICK r \in Unfinished : \E p, d : SetPin(r, p, d)
    BY <1>26 DEF DeleteIntent
  <2>3. PICK p, d : SetPin(r, p, d)
    BY <2>2
  <2>4. /\ jref'[x].exp = jref[x].exp
        /\ RepoOf[x] \in rb.pins => jref'[x] = jref[x]
    BY ONLY <2>2, <2>3, <1>t DEF SetPin, Unfinished, RefEntry
  <2> QED BY <2>1, <2>4
<1>27. CASE DeletePin
  BY <1>27, <1>t DEF DeletePin, At, Goto, journal, bounds
<1>28. CASE DeleteSave
  BY <1>28, <1>t, ZenonT(60) DEF DeleteSave, At, Goto, SetPin, git, bounds
<1>29. CASE RepoPinsGone
  <2>1. PICK p \in Repos : /\ \A r \in RefsIn(p) : ~jref[r].pinned /\ ~jref[r].del
                           /\ rb' = [rb EXCEPT !.pins = @ \cup {p}]
    BY <1>29 DEF RepoPinsGone
  <2>2. UNCHANGED <<jref, phase, ready>> /\ rb'.refs = rb.refs /\ rb'.pins = rb.pins \cup {p}
    BY <1>29, <2>1, <1>t DEF RepoPinsGone
  <2> QED BY <2>1, <2>2 DEF RefsIn
<1>30. CASE Clear
  BY <1>30, <1>t DEF Clear, At, Exit, git, bounds
<1>31. CASE RecoverPreflight
  BY <1>31, <1>t DEF RecoverPreflight, Check, At, Pass, Goto, git, journal,
      bounds, Refuse, Exit
<1>32. CASE ReconcileMeta
  BY <1>32, <1>t DEF ReconcileMeta, At, AdoptMeta, SetMeta, Goto, git, bounds,
      Pass, journal, Refuse, Exit
<1>33. CASE ReconcileValidation
  BY <1>33, <1>t DEF ReconcileValidation, At, Refuse, Exit, git, journal,
      bounds, SetVal, Goto, Pass
<1>34. CASE ReconcileAction
  <2>1. CASE UNCHANGED journal
    BY <2>1 DEF journal
  <2>2. CASE Pending /\ \E s \in {"observed", "failed"} : Adopt(s)
    <3>1. Pending /\ phase # "cleanup"
      BY <1>34, <2>2 DEF ReconcileAction, At, Advance
    <3> QED BY ONLY <2>2, <3>1, <1>u, Retreating, RefAgrees(x), AdoptRef
  <2> QED BY ONLY <2>1, <2>2, <1>34 DEF ReconcileAction, Refuse, Pass
<1>35. CASE Resume
  BY <1>35, <1>t DEF Resume, At, Pass, Goto, git, journal, bounds
<1>36. CASE RollbackPreflight
  BY <1>36, <1>t DEF RollbackPreflight, At, Refuse, Exit, git, journal,
      bounds, RollingBack, Pass, Goto, SetRollback
<1>37. CASE RollbackAction
  <2>1. CASE UNCHANGED journal
    BY <2>1 DEF journal
  <2>2. CASE Pending /\ \E s \in {"observed", "failed"} : Adopt(s)
    <3>1. Pending /\ phase # "cleanup"
      BY <1>37, <2>2 DEF RollbackAction, At, Advance
    <3> QED BY ONLY <2>2, <3>1, <1>u, Retreating, RefAgrees(x), AdoptRef
  <2> QED BY ONLY <2>1, <2>2, <1>37 DEF RollbackAction, Refuse, Pass
<1>38. CASE RollbackPreflight2
  BY <1>38, <1>t DEF RollbackPreflight2, Check, At, Pass, Goto, git, journal,
      bounds, Refuse, Exit
<1>39. CASE DetachIntent
  BY <1>39, <1>t DEF DetachIntent, At, Pass, Goto, git, journal, bounds,
      SetHold
<1>40. CASE DetachSwitch
  BY <1>40, <1>t DEF DetachSwitch, At, Goto, journal, bounds, Refuse, Exit,
      git
<1>41. CASE DetachSave
  BY <1>41, <1>t DEF DetachSave, At, Goto, SetHold, git, bounds
<1>42. CASE RefsIntent
  BY <1>42, <1>t DEF RefsIntent, At, Pass, Goto, git, journal, bounds, Refuse,
      Exit
<1>43. CASE RefsRestore
  BY <1>43, <1>t DEF RefsRestore, At, Goto, journal, bounds, Refuse, Exit, git
<1>44. CASE RefsSave
  BY <1>44, <1>t, ZenonT(60) DEF RefsSave, At, Goto, SetRollback, git, bounds
<1>45. CASE RestoreMeta
  BY <1>45, <1>t DEF RestoreMeta, At, MetaRestored, SetMeta, Goto, git,
      bounds, Pass, journal, Refuse, Exit
<1>46. CASE RestoreMetaWrite
  BY <1>46, <1>t DEF RestoreMetaWrite, At, Goto, journal, bounds
<1>47. CASE RestoreMetaSave
  BY <1>47, <1>t DEF RestoreMetaSave, At, Goto, MetaRestored, SetMeta, git,
      bounds
<1>48. CASE RestoreHolder
  BY <1>48, <1>t DEF RestoreHolder, At, Pass, Goto, git, journal, bounds,
      SetHold, Refuse, Exit
<1>49. CASE RestoreHolderSwitch
  BY <1>49, <1>t DEF RestoreHolderSwitch, At, Goto, journal, bounds
<1>50. CASE RestoreHolderSave
  BY <1>50, <1>t DEF RestoreHolderSave, At, Goto, SetHold, git, bounds
<1>51. CASE RolledBack
  BY <1>51, <1>t DEF RolledBack, At, Goto, git, bounds
<1>52. CASE Crash
  BY <1>52, <1>t DEF Crash, Exit, git, journal
<1>53. CASE UserCommit
  BY <1>53, <1>t DEF UserCommit, Interferes, journal
<1>54. CASE UserEdit
  BY <1>54, <1>t DEF UserEdit, Interferes, journal
<1>55. CASE UserResolves
  BY <1>55, <1>t DEF UserResolves, MoveTips, journal, bounds
<1>56. CASE UserCleans
  BY <1>56, <1>t DEF UserCleans, journal, bounds
<1>57. CASE Over
  BY <1>57, <1>t DEF Over, vars, git, journal, bounds
<1> QED
  BY ONLY Next, <1>1, <1>2, <1>3, <1>4, <1>5, <1>6, <1>7, <1>8, <1>9, <1>10,
      <1>11, <1>12, <1>13, <1>14, <1>15, <1>16, <1>17, <1>18, <1>19, <1>20,
      <1>21, <1>22, <1>23, <1>24, <1>25, <1>26, <1>27, <1>28, <1>29, <1>30,
      <1>31, <1>32, <1>33, <1>34, <1>35, <1>36, <1>37, <1>38, <1>39, <1>40,
      <1>41, <1>42, <1>43, <1>44, <1>45, <1>46, <1>47, <1>48, <1>49, <1>50,
      <1>51, <1>52, <1>53, <1>54, <1>55, <1>56, <1>57
  DEF Next, CommandStep, ForwardSteps, CleanupSteps, RecoverySteps,
      RollbackSteps, UserSteps

\* An expected tip is one the run can have made by then.
LEMMA ExpectedStep ==
  ASSUME TypeInv, Advance, ActionAgrees, NEW x \in Refs, ExpectedAgrees(x),
         Next
  PROVE  ExpectedAgrees(x)'
<1> USE DEF ExpectedAgrees, RefEntry, ActionEntry, Pending
<1>t. /\ act \in ActionEntry /\ done \in 0..N /\ N \in Nat
      /\ jref \in [Refs -> RefEntry]
  BY BoundsAreNaturals DEF TypeInv, TypeOK, JournalTypeOK
<1>u. TypeOK  BY DEF TypeInv
<1>1. CASE Birth
  BY <1>1, <1>t DEF Birth, Start, git, bounds
<1>2. CASE ContinueCommand
  BY <1>2, <1>t DEF ContinueCommand, CleanupOnly, RollingBack, Start, git,
      journal, bounds
<1>3. CASE AbortCommand
  BY <1>3, <1>t DEF AbortCommand, CleanupOnly, Start, RollingBack, git,
      journal, bounds
<1>4. CASE PinCreate
  BY <1>4, <1>t DEF PinCreate, At, Goto, journal, bounds
<1>5. CASE PinSave
  BY <1>5, <1>t DEF PinSave, At, Goto, git, bounds
<1>6. CASE PinsDone
  BY <1>6, <1>t DEF PinsDone, At, Pass, Goto, git, journal, bounds
<1>7. CASE FreezeCutoffs
  BY <1>7, <1>t DEF FreezeCutoffs, At, Goto, git, bounds
<1>8. CASE FreezeRefused
  BY <1>8, <1>t DEF FreezeRefused, At, RollingBack, Goto, git, bounds, Refuse,
      Exit, journal
<1>9. CASE SnapshotReady
  BY <1>9, <1>t DEF SnapshotReady, At, Goto, git, bounds
<1>10. CASE BeginAction
  <2>1. CASE UNCHANGED journal
    BY <2>1 DEF journal
  <2>2. CASE UNCHANGED jref /\ act' = [entry |-> done + 1, st |-> "intent"]
    <3>1. act.entry <= done + 1 /\ act.entry \in 0..N
      BY <1>t DEF Advance
    <3>2. 1..act.entry \subseteq 1..(done + 1)
      BY ONLY <3>1, <1>t
    <3> QED BY ONLY <2>2, <3>2, ExpectedAgrees(x) DEF ExpectedAgrees
  <2> QED BY ONLY <2>1, <2>2, <1>10 DEF BeginAction, Refuse
<1>11. CASE Rebase
  BY <1>11, <1>t DEF Rebase, At, Goto, MoveTips, journal, bounds
<1>12. CASE Observe
  <2>1. CASE UNCHANGED journal
    BY <2>1 DEF journal
  <2>2. CASE Attributable /\ \E s \in {"observed", "failed"} : Adopt(s)
    <3>1. Pending
      BY <1>12, <2>2 DEF Observe, At, Advance
    <3> QED BY ONLY <2>2, <3>1, <1>u, ActionAgrees, ExpectedAgrees(x), AdoptExpected
  <2> QED BY ONLY <2>1, <2>2, <1>12 DEF Observe, Refuse
<1>13. CASE BeginValidation
  BY <1>13, <1>t DEF BeginValidation, At, Goto, SetVal, git, bounds, Refuse,
      Exit, journal
<1>14. CASE Validator
  BY <1>14, <1>t DEF Validator, At, Goto, journal, bounds
<1>15. CASE EndValidation
  BY <1>15, <1>t DEF EndValidation, At, SetVal, Goto, Exit, git, bounds
<1>16. CASE MetaIntent
  BY <1>16, <1>t DEF MetaIntent, At, AdoptMeta, SetMeta, Goto, git, bounds,
      Refuse, Exit, journal, Pass
<1>17. CASE MetaWrite
  BY <1>17, <1>t DEF MetaWrite, At, Goto, journal, bounds
<1>18. CASE MetaCheck
  BY <1>18, <1>t DEF MetaCheck, At, AdoptMeta, SetMeta, Goto, git, bounds,
      Refuse, Exit, journal
<1>19. CASE Progress
  BY <1>19, <1>t DEF Progress, At, Goto, git, bounds
<1>20. CASE ForwardDone
  BY <1>20, <1>t DEF ForwardDone, At, Pass, Goto, git, journal, bounds
<1>21. CASE BeginPublication
  BY <1>21, <1>t DEF BeginPublication, At, Goto, SetPub, Publishing, git,
      bounds, Refuse, Exit, journal
<1>22. CASE Network
  BY <1>22, <1>t DEF Network, At, Goto, journal, bounds
<1>23. CASE PushResult
  BY <1>23, <1>t DEF PushResult, At, SetPub, Goto, Exit, git, bounds
<1>24. CASE PushDone
  BY <1>24, <1>t DEF PushDone, At, Pass, Goto, git, journal, bounds
<1>25. CASE Complete
  BY <1>25, <1>t DEF Complete, At, RollingBack, Refuse, Exit, git, journal,
      bounds, Goto
<1>26. CASE DeleteIntent
  BY <1>26, <1>t DEF DeleteIntent, At, SetPin, Goto, git, bounds
<1>27. CASE DeletePin
  BY <1>27, <1>t DEF DeletePin, At, Goto, journal, bounds
<1>28. CASE DeleteSave
  BY <1>28, <1>t DEF DeleteSave, At, Goto, SetPin, git, bounds
<1>29. CASE RepoPinsGone
  BY <1>29, <1>t DEF RepoPinsGone, At, Goto, git, bounds
<1>30. CASE Clear
  BY <1>30, <1>t DEF Clear, At, Exit, git, bounds
<1>31. CASE RecoverPreflight
  BY <1>31, <1>t DEF RecoverPreflight, Check, At, Pass, Goto, git, journal,
      bounds, Refuse, Exit
<1>32. CASE ReconcileMeta
  BY <1>32, <1>t DEF ReconcileMeta, At, AdoptMeta, SetMeta, Goto, git, bounds,
      Pass, journal, Refuse, Exit
<1>33. CASE ReconcileValidation
  BY <1>33, <1>t DEF ReconcileValidation, At, Refuse, Exit, git, journal,
      bounds, SetVal, Goto, Pass
<1>34. CASE ReconcileAction
  <2>1. CASE UNCHANGED journal
    BY <2>1 DEF journal
  <2>2. CASE Pending /\ Attributable /\ \E s \in {"observed", "failed"} : Adopt(s)
    <3>1. Pending
      BY <1>34, <2>2 DEF ReconcileAction, At, Advance
    <3> QED BY ONLY <2>2, <3>1, <1>u, ActionAgrees, ExpectedAgrees(x), AdoptExpected
  <2> QED BY ONLY <2>1, <2>2, <1>34 DEF ReconcileAction, Refuse, Pass
<1>35. CASE Resume
  BY <1>35, <1>t DEF Resume, At, Pass, Goto, git, journal, bounds
<1>36. CASE RollbackPreflight
  BY <1>36, <1>t DEF RollbackPreflight, At, Refuse, Exit, git, journal,
      bounds, RollingBack, Pass, Goto, SetRollback
<1>37. CASE RollbackAction
  <2>1. CASE UNCHANGED journal
    BY <2>1 DEF journal
  <2>2. CASE Pending /\ Attributable /\ \E s \in {"observed", "failed"} : Adopt(s)
    <3>1. Pending
      BY <1>37, <2>2 DEF RollbackAction, At, Advance
    <3> QED BY ONLY <2>2, <3>1, <1>u, ActionAgrees, ExpectedAgrees(x), AdoptExpected
  <2> QED BY ONLY <2>1, <2>2, <1>37 DEF RollbackAction, Refuse, Pass
<1>38. CASE RollbackPreflight2
  BY <1>38, <1>t DEF RollbackPreflight2, Check, At, Pass, Goto, git, journal,
      bounds, Refuse, Exit
<1>39. CASE DetachIntent
  BY <1>39, <1>t DEF DetachIntent, At, Pass, Goto, git, journal, bounds,
      SetHold
<1>40. CASE DetachSwitch
  BY <1>40, <1>t DEF DetachSwitch, At, Goto, journal, bounds, Refuse, Exit,
      git
<1>41. CASE DetachSave
  BY <1>41, <1>t DEF DetachSave, At, Goto, SetHold, git, bounds
<1>42. CASE RefsIntent
  BY <1>42, <1>t DEF RefsIntent, At, Pass, Goto, git, journal, bounds, Refuse,
      Exit
<1>43. CASE RefsRestore
  BY <1>43, <1>t DEF RefsRestore, At, Goto, journal, bounds, Refuse, Exit, git
<1>44. CASE RefsSave
  BY <1>44, <1>t DEF RefsSave, At, Goto, SetRollback, git, bounds
<1>45. CASE RestoreMeta
  BY <1>45, <1>t DEF RestoreMeta, At, MetaRestored, SetMeta, Goto, git,
      bounds, Pass, journal, Refuse, Exit
<1>46. CASE RestoreMetaWrite
  BY <1>46, <1>t DEF RestoreMetaWrite, At, Goto, journal, bounds
<1>47. CASE RestoreMetaSave
  BY <1>47, <1>t DEF RestoreMetaSave, At, Goto, MetaRestored, SetMeta, git,
      bounds
<1>48. CASE RestoreHolder
  BY <1>48, <1>t DEF RestoreHolder, At, Pass, Goto, git, journal, bounds,
      SetHold, Refuse, Exit
<1>49. CASE RestoreHolderSwitch
  BY <1>49, <1>t DEF RestoreHolderSwitch, At, Goto, journal, bounds
<1>50. CASE RestoreHolderSave
  BY <1>50, <1>t DEF RestoreHolderSave, At, Goto, SetHold, git, bounds
<1>51. CASE RolledBack
  BY <1>51, <1>t DEF RolledBack, At, Goto, git, bounds
<1>52. CASE Crash
  BY <1>52, <1>t DEF Crash, Exit, git, journal
<1>53. CASE UserCommit
  BY <1>53, <1>t DEF UserCommit, Interferes, journal
<1>54. CASE UserEdit
  BY <1>54, <1>t DEF UserEdit, Interferes, journal
<1>55. CASE UserResolves
  BY <1>55, <1>t DEF UserResolves, MoveTips, journal, bounds
<1>56. CASE UserCleans
  BY <1>56, <1>t DEF UserCleans, journal, bounds
<1>57. CASE Over
  BY <1>57, <1>t DEF Over, vars, git, journal, bounds
<1> QED
  BY ONLY Next, <1>1, <1>2, <1>3, <1>4, <1>5, <1>6, <1>7, <1>8, <1>9, <1>10,
      <1>11, <1>12, <1>13, <1>14, <1>15, <1>16, <1>17, <1>18, <1>19, <1>20,
      <1>21, <1>22, <1>23, <1>24, <1>25, <1>26, <1>27, <1>28, <1>29, <1>30,
      <1>31, <1>32, <1>33, <1>34, <1>35, <1>36, <1>37, <1>38, <1>39, <1>40,
      <1>41, <1>42, <1>43, <1>44, <1>45, <1>46, <1>47, <1>48, <1>49, <1>50,
      <1>51, <1>52, <1>53, <1>54, <1>55, <1>56, <1>57
  DEF Next, CommandStep, ForwardSteps, CleanupSteps, RecoverySteps,
      RollbackSteps, UserSteps

\* What a saved journal says of a worktree agrees with the rollback.
LEMMA HolderStep ==
  ASSUME TypeInv, CoreInv, NEW x \in Entries, HolderAgrees(x), Next
  PROVE  HolderAgrees(x)'
<1> USE DEF CoreInv, GoingForward, GoingBack, RefsLabels, LateLabels,
    HolderAgrees, HoldEntry, Rollback
<1>t. jhold \in [Entries -> HoldEntry] /\ rb \in Rollback
  BY DEF TypeInv, TypeOK, JournalTypeOK
<1>u. TypeOK  BY DEF TypeInv
<1>1. CASE Birth
  BY <1>1, <1>t DEF Birth, Start, git, bounds
<1>2. CASE ContinueCommand
  BY <1>2, <1>t DEF ContinueCommand, CleanupOnly, RollingBack, Start, git,
      journal, bounds
<1>3. CASE AbortCommand
  BY <1>3, <1>t DEF AbortCommand, CleanupOnly, Start, RollingBack, git,
      journal, bounds
<1>4. CASE PinCreate
  BY <1>4, <1>t DEF PinCreate, At, Goto, journal, bounds
<1>5. CASE PinSave
  BY <1>5, <1>t DEF PinSave, At, Goto, git, bounds
<1>6. CASE PinsDone
  BY <1>6, <1>t DEF PinsDone, At, Pass, Goto, git, journal, bounds
<1>7. CASE FreezeCutoffs
  BY <1>7, <1>t DEF FreezeCutoffs, At, Goto, git, bounds
<1>8. CASE FreezeRefused
  BY <1>8, <1>t DEF FreezeRefused, At, RollingBack, Goto, git, bounds, Refuse,
      Exit, journal
<1>9. CASE SnapshotReady
  BY <1>9, <1>t DEF SnapshotReady, At, Goto, git, bounds
<1>10. CASE BeginAction
  BY <1>10, <1>t DEF BeginAction, At, Goto, bounds, Refuse, Exit, git, journal
<1>11. CASE Rebase
  BY <1>11, <1>t DEF Rebase, At, Goto, MoveTips, journal, bounds
<1>12. CASE Observe
  BY <1>12, <1>t DEF Observe, At, Adopt, Exit, Goto, git, bounds, Refuse,
      journal
<1>13. CASE BeginValidation
  BY <1>13, <1>t DEF BeginValidation, At, Goto, SetVal, git, bounds, Refuse,
      Exit, journal
<1>14. CASE Validator
  BY <1>14, <1>t DEF Validator, At, Goto, journal, bounds
<1>15. CASE EndValidation
  BY <1>15, <1>t DEF EndValidation, At, SetVal, Goto, Exit, git, bounds
<1>16. CASE MetaIntent
  BY <1>16, <1>t DEF MetaIntent, At, AdoptMeta, SetMeta, Goto, git, bounds,
      Refuse, Exit, journal, Pass
<1>17. CASE MetaWrite
  BY <1>17, <1>t DEF MetaWrite, At, Goto, journal, bounds
<1>18. CASE MetaCheck
  BY <1>18, <1>t DEF MetaCheck, At, AdoptMeta, SetMeta, Goto, git, bounds,
      Refuse, Exit, journal
<1>19. CASE Progress
  BY <1>19, <1>t DEF Progress, At, Goto, git, bounds
<1>20. CASE ForwardDone
  BY <1>20, <1>t DEF ForwardDone, At, Pass, Goto, git, journal, bounds
<1>21. CASE BeginPublication
  BY <1>21, <1>t DEF BeginPublication, At, Goto, SetPub, Publishing, git,
      bounds, Refuse, Exit, journal
<1>22. CASE Network
  BY <1>22, <1>t DEF Network, At, Goto, journal, bounds
<1>23. CASE PushResult
  BY <1>23, <1>t DEF PushResult, At, SetPub, Goto, Exit, git, bounds
<1>24. CASE PushDone
  BY <1>24, <1>t DEF PushDone, At, Pass, Goto, git, journal, bounds
<1>25. CASE Complete
  BY <1>25, <1>t DEF Complete, At, RollingBack, Refuse, Exit, git, journal,
      bounds, Goto
<1>26. CASE DeleteIntent
  BY <1>26, <1>t DEF DeleteIntent, At, SetPin, Goto, git, bounds
<1>27. CASE DeletePin
  BY <1>27, <1>t DEF DeletePin, At, Goto, journal, bounds
<1>28. CASE DeleteSave
  BY <1>28, <1>t DEF DeleteSave, At, Goto, SetPin, git, bounds
<1>29. CASE RepoPinsGone
  BY <1>29, <1>t DEF RepoPinsGone, At, Goto, git, bounds
<1>30. CASE Clear
  BY <1>30, <1>t DEF Clear, At, Exit, git, bounds
<1>31. CASE RecoverPreflight
  BY <1>31, <1>t DEF RecoverPreflight, Check, At, Pass, Goto, git, journal,
      bounds, Refuse, Exit
<1>32. CASE ReconcileMeta
  BY <1>32, <1>t DEF ReconcileMeta, At, AdoptMeta, SetMeta, Goto, git, bounds,
      Pass, journal, Refuse, Exit
<1>33. CASE ReconcileValidation
  BY <1>33, <1>t DEF ReconcileValidation, At, Refuse, Exit, git, journal,
      bounds, SetVal, Goto, Pass
<1>34. CASE ReconcileAction
  BY <1>34, <1>t DEF ReconcileAction, At, Pass, Goto, git, journal, bounds,
      AfterReconcile, Adopt, Refuse, Exit
<1>35. CASE Resume
  BY <1>35, <1>t DEF Resume, At, Pass, Goto, git, journal, bounds
<1>36. CASE RollbackPreflight
  BY <1>36, <1>t DEF RollbackPreflight, At, Refuse, Exit, git, journal,
      bounds, RollingBack, Pass, Goto, SetRollback
<1>37. CASE RollbackAction
  BY <1>37, <1>t DEF RollbackAction, At, Goto, journal, bounds, Adopt, git,
      Refuse, Exit, Pass
<1>38. CASE RollbackPreflight2
  BY <1>38, <1>t DEF RollbackPreflight2, Check, At, Pass, Goto, git, journal,
      bounds, Refuse, Exit
<1>39. CASE DetachIntent
  BY <1>39, <1>t DEF DetachIntent, At, Pass, Goto, git, journal, bounds,
      SetHold
<1>40. CASE DetachSwitch
  BY <1>40, <1>t DEF DetachSwitch, At, Goto, journal, bounds, Refuse, Exit,
      git
<1>41. CASE DetachSave
  BY <1>41, <1>t DEF DetachSave, At, Goto, SetHold, git, bounds
<1>42. CASE RefsIntent
  BY <1>42, <1>t DEF RefsIntent, At, Pass, Goto, git, journal, bounds, Refuse,
      Exit
<1>43. CASE RefsRestore
  BY <1>43, <1>t DEF RefsRestore, At, Goto, journal, bounds, Refuse, Exit, git
<1>44. CASE RefsSave
  BY <1>44, <1>t DEF RefsSave, At, Goto, SetRollback, git, bounds
<1>45. CASE RestoreMeta
  BY <1>45, <1>t DEF RestoreMeta, At, MetaRestored, SetMeta, Goto, git,
      bounds, Pass, journal, Refuse, Exit
<1>46. CASE RestoreMetaWrite
  BY <1>46, <1>t DEF RestoreMetaWrite, At, Goto, journal, bounds
<1>47. CASE RestoreMetaSave
  BY <1>47, <1>t DEF RestoreMetaSave, At, Goto, MetaRestored, SetMeta, git,
      bounds
<1>48. CASE RestoreHolder
  BY <1>48, <1>t DEF RestoreHolder, At, Pass, Goto, git, journal, bounds,
      SetHold, Refuse, Exit
<1>49. CASE RestoreHolderSwitch
  BY <1>49, <1>t DEF RestoreHolderSwitch, At, Goto, journal, bounds
<1>50. CASE RestoreHolderSave
  BY <1>50, <1>t DEF RestoreHolderSave, At, Goto, SetHold, git, bounds
<1>51. CASE RolledBack
  BY <1>51, <1>t DEF RolledBack, At, Goto, git, bounds
<1>52. CASE Crash
  BY <1>52, <1>t DEF Crash, Exit, git, journal
<1>53. CASE UserCommit
  BY <1>53, <1>t DEF UserCommit, Interferes, journal
<1>54. CASE UserEdit
  BY <1>54, <1>t DEF UserEdit, Interferes, journal
<1>55. CASE UserResolves
  BY <1>55, <1>t DEF UserResolves, MoveTips, journal, bounds
<1>56. CASE UserCleans
  BY <1>56, <1>t DEF UserCleans, journal, bounds
<1>57. CASE Over
  BY <1>57, <1>t DEF Over, vars, git, journal, bounds
<1> QED
  BY ONLY Next, <1>1, <1>2, <1>3, <1>4, <1>5, <1>6, <1>7, <1>8, <1>9, <1>10,
      <1>11, <1>12, <1>13, <1>14, <1>15, <1>16, <1>17, <1>18, <1>19, <1>20,
      <1>21, <1>22, <1>23, <1>24, <1>25, <1>26, <1>27, <1>28, <1>29, <1>30,
      <1>31, <1>32, <1>33, <1>34, <1>35, <1>36, <1>37, <1>38, <1>39, <1>40,
      <1>41, <1>42, <1>43, <1>44, <1>45, <1>46, <1>47, <1>48, <1>49, <1>50,
      <1>51, <1>52, <1>53, <1>54, <1>55, <1>56, <1>57
  DEF Next, CommandStep, ForwardSteps, CleanupSteps, RecoverySteps,
      RollbackSteps, UserSteps

LEMMA ProgressInit == Init => ProgressInv
  <1> SUFFICES ASSUME Init PROVE ProgressInv  OBVIOUS
  <1>1. /\ payload = "none" /\ phase = "preparing" /\ ~ready /\ completion = ""
        /\ act = [entry |-> 0, st |-> "none"] /\ val = "none" /\ done = 0
        /\ pc = "idle" /\ verb = "none"
        /\ jmeta = [exp |-> 0, intent |-> Nothing, pend |-> FALSE, rest |-> FALSE]
        /\ rb = [on |-> FALSE, refs |-> {}, pins |-> {}]
        /\ pub = [durable |-> FALSE, cur |-> 0,
                  src |-> [e \in Entries |-> Nothing], ok |-> {}]
    BY DEF Init
  <1>2. \A r \in Refs : jref[r] = [exp |-> 0, pinned |-> FALSE, del |-> FALSE]
    BY DEF Init
  <1>3. \A e \in Entries : ~jhold[e].pend /\ ~jhold[e].det /\ ~jhold[e].rest
    BY DEF Init
  <1>4. Advance /\ Publishable /\ Retreating
    BY <1>1, <1>2 DEF Advance, Publishable, Retreating, BirthLabels,
        ObservedLabels, ReconcileLabels, RollbackLabels, RefsLabels, LateLabels,
        Pending
  <1>5. /\ ReadinessAgrees /\ CompletionAgrees /\ RollbackAgrees
        /\ PublicationAgrees /\ MetadataAgrees /\ ActionAgrees /\ ValidationAgrees
    BY <1>1 DEF ReadinessAgrees, CompletionAgrees, RollbackAgrees,
        PublicationAgrees, MetadataAgrees, ActionAgrees, ValidationAgrees
  <1>6. SourcesAgree
    BY <1>1 DEF SourcesAgree
  <1>7. \A r \in Refs : RefAgrees(r) /\ ExpectedAgrees(r)
    <2> TAKE r \in Refs
    <2>1. jref[r].exp = 0 /\ jref[r].pinned = FALSE /\ jref[r].del = FALSE
      BY <1>2
    <2>2. rb.refs = {} /\ rb.pins = {} /\ ~ready
      BY <1>1
    <2>3. RefAgrees(r)
      BY ONLY <2>1, <2>2 DEF RefAgrees
    <2>4. ExpectedAgrees(r)
      BY ONLY <2>1 DEF ExpectedAgrees
    <2> QED BY <2>3, <2>4
  <1>8. \A e \in Entries : HolderAgrees(e)
    BY <1>3 DEF HolderAgrees
  <1> QED BY <1>4, <1>5, <1>6, <1>7, <1>8 DEF ProgressInv, JournalReadable

LEMMA ProgressStep ==
  ASSUME TypeInv, CoreInv, ProgressInv, Next PROVE ProgressInv'
  <1>1. /\ TypeOK /\ Advance /\ Publishable /\ Retreating
        /\ ReadinessAgrees /\ CompletionAgrees /\ RollbackAgrees
        /\ PublicationAgrees /\ MetadataAgrees /\ ActionAgrees /\ ValidationAgrees
        /\ SourcesAgree
        /\ \A r \in Refs : RefAgrees(r) /\ ExpectedAgrees(r)
        /\ \A e \in Entries : HolderAgrees(e)
    BY DEF ProgressInv, JournalReadable, TypeInv
  <1>2. Advance' /\ ActionAgrees'
    BY <1>1, AdvanceStep
  <1>3. Publishable'
    BY <1>1, PublishableStep
  <1>4. Retreating'
    BY <1>1, RetreatingStep
  <1>5. /\ ReadinessAgrees' /\ CompletionAgrees' /\ RollbackAgrees'
        /\ MetadataAgrees' /\ ValidationAgrees'
    BY <1>1, FlagsStep
  <1>6. PublicationAgrees' /\ SourcesAgree'
    BY <1>1, PublicationStep, SourcesStep
  <1>7. \A r \in Refs : RefAgrees(r)' /\ ExpectedAgrees(r)'
    BY <1>1, RefStep, ExpectedStep
  <1>8. \A e \in Entries : HolderAgrees(e)'
    BY <1>1, HolderStep
  <1>9. UNCHANGED <<Refs, Entries>>
    BY DEF Refs, Entries
  <1> QED
    BY <1>2, <1>3, <1>4, <1>5, <1>6, <1>7, <1>8, <1>9
    DEF ProgressInv, JournalReadable

LEMMA ProgressStutter == ASSUME ProgressInv, UNCHANGED vars PROVE ProgressInv'
  <1>1. UNCHANGED <<journal, verb, pc>>
    BY DEF vars
  <1>2. Advance' /\ Publishable' /\ Retreating'
    BY <1>1, ZenonT(60) DEF ProgressInv, Advance, Publishable, Retreating, Pending, journal
  <1>3. JournalReadable'
    BY <1>1 DEF ProgressInv, JournalReadable, ReadinessAgrees, CompletionAgrees,
        RollbackAgrees, PublicationAgrees, MetadataAgrees, ActionAgrees,
        ValidationAgrees, SourcesAgree, RefAgrees, ExpectedAgrees,
        HolderAgrees, journal
  <1> QED BY <1>2, <1>3 DEF ProgressInv

\* ProgressInv is an invariant: however commands are killed and repeated, the
\* journal's account of its own progress stays consistent.
THEOREM ProgressInvariant == Spec => []ProgressInv
  <1>1. TypeInv /\ CoreInv /\ ProgressInv /\ [Next]_vars => ProgressInv'
    BY ProgressStep, ProgressStutter
  <1> QED BY ProgressInit, TypeInvariant, CoreInvariant, <1>1, PTL DEF Spec

\* JournalReadable is an invariant: no sequence of commands, crashes and
\* foreign commits leaves a journal that tws would refuse to load.
THEOREM JournalStaysReadable == Spec => []JournalReadable
  <1>1. ProgressInv => JournalReadable
    BY DEF ProgressInv
  <1> QED BY ProgressInvariant, <1>1, PTL
-----------------------------------------------------------------------------
(* Whatever a run did to branches, worktrees, stack.yaml and remotes is     *)
(* explained by its journal at every moment, so that a rollback recorded as *)
(* finished left nothing behind, a remote shows only recorded sources, and  *)
(* what was published is not rewound.                                       *)

\* What keeps the tips, the action and the label keeps RebaseConfined.
LEMMA ConfinedKept ==
  ASSUME RebaseConfined, UNCHANGED <<wt, act, ref, jref>>, pc' # "rebase"
  PROVE  RebaseConfined'
  BY DEF RebaseConfined, NobodyRebasing, Pending

LEMMA IdleConfined ==
  ASSUME RebaseConfined, ~ActiveRebase PROVE NobodyRebasing
  BY DEF RebaseConfined, NobodyRebasing, ActiveRebase, Pending

LEMMA NobodyConfined ==
  ASSUME NobodyRebasing', pc' # "rebase" PROVE RebaseConfined'
  BY DEF RebaseConfined, NobodyRebasing

\* The rebase that is under way touches its own branches only.
LEMMA ConfinedStep ==
  ASSUME TypeInv, CoreInv, Advance, ActionAgrees, RebaseConfined, Next
  PROVE  RebaseConfined'
<1> USE DEF CoreInv, GoingForward, GoingBack, ForwardLabels, RefsLabels,
    LateLabels, Advance, ObservedLabels, RebaseConfined, NobodyRebasing,
    Pending, ActionEntry, RefEntry
<1>t. /\ act \in ActionEntry /\ jref \in [Refs -> RefEntry]
      /\ ref \in [Refs -> Commits] /\ rb \in Rollback
      /\ wt \in [Entries -> {"branch", "detached", "rebasing"}]
  BY DEF TypeInv, TypeOK, JournalTypeOK, GitTypeOK
<1>u. \A e \in Entries : Allowed[e] \subseteq Refs
  BY ConstantsAssumption DEF ConstantsAssumption
<1>1. CASE Birth
  BY <1>1, <1>t, <1>u DEF Birth, Start, git, bounds
<1>2. CASE ContinueCommand
  BY <1>2, <1>t, <1>u DEF ContinueCommand, CleanupOnly, RollingBack, Start,
      git, journal, bounds
<1>3. CASE AbortCommand
  BY <1>3, <1>t, <1>u DEF AbortCommand, CleanupOnly, Start, RollingBack, git,
      journal, bounds
<1>4. CASE PinCreate
  BY <1>4, <1>t, <1>u DEF PinCreate, At, Goto, journal, bounds
<1>5. CASE PinSave
  BY <1>5, <1>t, <1>u DEF PinSave, At, Goto, git, bounds
<1>6. CASE PinsDone
  BY <1>6, <1>t, <1>u DEF PinsDone, At, Pass, Goto, git, journal, bounds
<1>7. CASE FreezeCutoffs
  BY <1>7, <1>t, <1>u DEF FreezeCutoffs, At, Goto, git, bounds
<1>8. CASE FreezeRefused
  BY <1>8, <1>t, <1>u DEF FreezeRefused, At, RollingBack, Goto, git, bounds,
      Refuse, Exit, journal
<1>9. CASE SnapshotReady
  BY <1>9, <1>t, <1>u DEF SnapshotReady, At, Goto, git, bounds
<1>10. CASE BeginAction
  <2>1. CASE UNCHANGED journal /\ UNCHANGED git /\ pc' = "idle"
    BY <2>1, ConfinedKept DEF git, journal
  <2>2. CASE /\ done < N /\ ~Pending /\ Images(RepoOf[done + 1])
             /\ act' = [entry |-> done + 1, st |-> "intent"]
             /\ UNCHANGED <<ref, wt, jref>>
    <3>1. NobodyRebasing'
      BY <2>2, IdleConfined DEF ActiveRebase, NobodyRebasing
    <3>2. done + 1 \in Entries
      <4>1. done \in 0..N
        BY DEF TypeInv, TypeOK, JournalTypeOK
      <4> QED BY ONLY <2>2, <4>1, BoundsAreNaturals DEF Entries
    <3>3. \A r \in Allowed[done + 1] : r \in Refs /\ ref[r] = jref[r].exp
      BY <2>2, <3>2, ConstantsAssumption
      DEF ConstantsAssumption, Images, RefImage, RefsIn
    <3> QED BY ONLY <2>2, <3>1, <3>3 DEF RebaseConfined, NobodyRebasing
  <2> QED BY ONLY <2>1, <2>2, <1>10 DEF BeginAction, Refuse, Exit
<1>11. CASE Rebase
  BY <1>11, <1>t, <1>u DEF Rebase, At, Goto, MoveTips, journal, bounds
<1>12. CASE Observe
  <2>1. pc' # "rebase" /\ (UNCHANGED journal \/ ~ActiveRebase) /\ UNCHANGED git
    BY <1>12 DEF Observe, Refuse, Pass, Goto, Exit, AfterReconcile
  <2>2. CASE UNCHANGED journal
    BY <2>1, <2>2, ConfinedKept DEF git, journal
  <2>3. CASE ~ActiveRebase
    <3>1. NobodyRebasing'
      BY <2>1, <2>3, IdleConfined DEF git
    <3> QED BY <2>1, <3>1, NobodyConfined
  <2> QED BY <2>1, <2>2, <2>3
<1>13. CASE BeginValidation
  BY <1>13, <1>t, <1>u DEF BeginValidation, At, Goto, SetVal, git, bounds,
      Refuse, Exit, journal
<1>14. CASE Validator
  BY <1>14, <1>t, <1>u DEF Validator, At, Goto, journal, bounds
<1>15. CASE EndValidation
  BY <1>15, <1>t, <1>u DEF EndValidation, At, SetVal, Goto, Exit, git, bounds
<1>16. CASE MetaIntent
  BY <1>16, <1>t, <1>u DEF MetaIntent, At, AdoptMeta, SetMeta, Goto, git,
      bounds, Refuse, Exit, journal, Pass
<1>17. CASE MetaWrite
  BY <1>17, <1>t, <1>u DEF MetaWrite, At, Goto, journal, bounds
<1>18. CASE MetaCheck
  BY <1>18, <1>t, <1>u DEF MetaCheck, At, AdoptMeta, SetMeta, Goto, git,
      bounds, Refuse, Exit, journal
<1>19. CASE Progress
  BY <1>19, <1>t, <1>u DEF Progress, At, Goto, git, bounds
<1>20. CASE ForwardDone
  BY <1>20, <1>t, <1>u DEF ForwardDone, At, Pass, Goto, git, journal, bounds
<1>21. CASE BeginPublication
  BY <1>21, <1>t, <1>u DEF BeginPublication, At, Goto, SetPub, Publishing,
      git, bounds, Refuse, Exit, journal
<1>22. CASE Network
  BY <1>22, <1>t, <1>u DEF Network, At, Goto, journal, bounds
<1>23. CASE PushResult
  BY <1>23, <1>t, <1>u DEF PushResult, At, SetPub, Goto, Exit, git, bounds
<1>24. CASE PushDone
  BY <1>24, <1>t, <1>u DEF PushDone, At, Pass, Goto, git, journal, bounds
<1>25. CASE Complete
  BY <1>25, ConfinedKept DEF Complete, Refuse, Goto, Exit, git, journal
<1>26. CASE DeleteIntent
  BY <1>26, <1>t, <1>u DEF DeleteIntent, At, SetPin, Goto, git, bounds
<1>27. CASE DeletePin
  BY <1>27, <1>t, <1>u DEF DeletePin, At, Goto, journal, bounds
<1>28. CASE DeleteSave
  BY <1>28, <1>t, <1>u DEF DeleteSave, At, Goto, SetPin, git, bounds
<1>29. CASE RepoPinsGone
  BY <1>29, <1>t, <1>u DEF RepoPinsGone, At, Goto, git, bounds
<1>30. CASE Clear
  BY <1>30, <1>t, <1>u DEF Clear, At, Exit, git, bounds
<1>31. CASE RecoverPreflight
  BY <1>31, <1>t, <1>u DEF RecoverPreflight, Check, At, Pass, Goto, git,
      journal, bounds, Refuse, Exit
<1>32. CASE ReconcileMeta
  BY <1>32, <1>t, <1>u DEF ReconcileMeta, At, AdoptMeta, SetMeta, Goto, git,
      bounds, Pass, journal, Refuse, Exit
<1>33. CASE ReconcileValidation
  BY <1>33, <1>t, <1>u DEF ReconcileValidation, At, Refuse, Exit, git,
      journal, bounds, SetVal, Goto, Pass
<1>34. CASE ReconcileAction
  <2>1. pc' # "rebase" /\ (UNCHANGED journal \/ ~ActiveRebase) /\ UNCHANGED git
    BY <1>34 DEF ReconcileAction, Refuse, Pass, Goto, Exit, AfterReconcile
  <2>2. CASE UNCHANGED journal
    BY <2>1, <2>2, ConfinedKept DEF git, journal
  <2>3. CASE ~ActiveRebase
    <3>1. NobodyRebasing'
      BY <2>1, <2>3, IdleConfined DEF git
    <3> QED BY <2>1, <3>1, NobodyConfined
  <2> QED BY <2>1, <2>2, <2>3
<1>35. CASE Resume
  BY <1>35, <1>t, <1>u DEF Resume, At, Pass, Goto, git, journal, bounds
<1>36. CASE RollbackPreflight
  BY <1>36, ConfinedKept
  DEF RollbackPreflight, SetRollback, Pass, Refuse, Goto, Exit, git, journal
<1>37. CASE RollbackAction
  <2>1. CASE ActiveRebase /\ pc' = "rbAct" /\ UNCHANGED <<ref, journal>>
                /\ wt' = [wt EXCEPT ![act.entry] = "branch"]
    <3>1. \A e \in Entries : wt'[e] = "rebasing" => wt[e] = "rebasing" /\ e # act.entry
      BY <2>1, <1>t
    <3>2. NobodyRebasing'
      BY ONLY <3>1, RebaseConfined DEF RebaseConfined, NobodyRebasing
    <3> QED BY <2>1, <3>2, NobodyConfined
  <2>2. CASE pc' # "rebase" /\ UNCHANGED journal /\ UNCHANGED git
    BY <2>2, ConfinedKept DEF git, journal
  <2>3. CASE ~ActiveRebase /\ pc' # "rebase" /\ UNCHANGED git
    <3>1. NobodyRebasing'
      BY <2>3, IdleConfined DEF git
    <3> QED BY <2>3, <3>1, NobodyConfined
  <2> QED BY ONLY <2>1, <2>2, <2>3, <1>37
  DEF RollbackAction, Refuse, Pass, Goto, Exit
<1>38. CASE RollbackPreflight2
  BY <1>38, <1>t, <1>u DEF RollbackPreflight2, Check, At, Pass, Goto, git,
      journal, bounds, Refuse, Exit
<1>39. CASE DetachIntent
  BY <1>39, <1>t, <1>u DEF DetachIntent, At, Pass, Goto, git, journal, bounds,
      SetHold
<1>40. CASE DetachSwitch
  BY <1>40, <1>t, <1>u DEF DetachSwitch, At, Goto, journal, bounds, Refuse,
      Exit, git
<1>41. CASE DetachSave
  BY <1>41, <1>t, <1>u DEF DetachSave, At, Goto, SetHold, git, bounds
<1>42. CASE RefsIntent
  BY <1>42, <1>t, <1>u DEF RefsIntent, At, Pass, Goto, git, journal, bounds,
      Refuse, Exit
<1>43. CASE RefsRestore
  BY <1>43, <1>t, <1>u DEF RefsRestore, At, Goto, journal, bounds, Refuse,
      Exit, git
<1>44. CASE RefsSave
  BY <1>44, <1>t, <1>u DEF RefsSave, At, Goto, SetRollback, git, bounds
<1>45. CASE RestoreMeta
  BY <1>45, <1>t, <1>u DEF RestoreMeta, At, MetaRestored, SetMeta, Goto, git,
      bounds, Pass, journal, Refuse, Exit
<1>46. CASE RestoreMetaWrite
  BY <1>46, <1>t, <1>u DEF RestoreMetaWrite, At, Goto, journal, bounds
<1>47. CASE RestoreMetaSave
  BY <1>47, <1>t, <1>u DEF RestoreMetaSave, At, Goto, MetaRestored, SetMeta,
      git, bounds
<1>48. CASE RestoreHolder
  <2>1. UNCHANGED <<wt, act, ref, jref>> /\ pc' \in {"rbDone", "rbHold", "rbHoldSwitch", "idle"}
    BY <1>48 DEF RestoreHolder, SetHold, Pass, Refuse, Goto, Exit, git, journal
  <2> QED BY <2>1, ConfinedKept
<1>49. CASE RestoreHolderSwitch
  BY <1>49, <1>t, <1>u DEF RestoreHolderSwitch, At, Goto, journal, bounds
<1>50. CASE RestoreHolderSave
  BY <1>50, <1>t, <1>u DEF RestoreHolderSave, At, Goto, SetHold, git, bounds
<1>51. CASE RolledBack
  BY <1>51, <1>t, <1>u DEF RolledBack, At, Goto, git, bounds
<1>52. CASE Crash
  BY <1>52, <1>t, <1>u DEF Crash, Exit, git, journal
<1>53. CASE UserCommit
  <2>1. UNCHANGED <<wt, act, jref, pc>>
        /\ \A r \in Refs : ref'[r] \in {UserWork, ref[r]}
    BY <1>53, <1>t DEF UserCommit, Interferes, journal
  <2>2. act.entry \in Entries => Allowed[act.entry] \subseteq Refs
    BY <1>u
  <2>3. pc = "rebase" \/ ~NobodyRebasing => act.entry \in Entries
    BY PendingIsEntry DEF TypeInv, RebaseConfined, NobodyRebasing, Advance
  <2> QED BY ONLY <2>1, <2>2, <2>3, <1>t, RebaseConfined
  DEF RebaseConfined, NobodyRebasing, Pending
<1>54. CASE UserEdit
  <2>1. /\ UNCHANGED <<act, ref, jref, pc>>
        /\ \A e \in Entries : wt'[e] = "rebasing" => wt[e] = "rebasing"
    BY <1>54, <1>t DEF UserEdit, Interferes, journal
  <2> QED BY ONLY <2>1, RebaseConfined DEF RebaseConfined, NobodyRebasing, Pending
<1>55. CASE UserResolves
  <2>1. pc' # "rebase"
    BY <1>55 DEF UserResolves, CoreInv, Idle
  <2>2. PICK x \in Entries : wt[x] = "rebasing" /\ wt' = [wt EXCEPT ![x] = "branch"]
    BY <1>55 DEF UserResolves
  <2>3. NobodyRebasing'
    BY ONLY <2>2, <1>t, RebaseConfined DEF RebaseConfined, NobodyRebasing
  <2> QED BY <2>1, <2>3, NobodyConfined
<1>56. CASE UserCleans
  BY <1>56, <1>t, <1>u DEF UserCleans, journal, bounds
<1>57. CASE Over
  BY <1>57, <1>t, <1>u DEF Over, vars, git, journal, bounds
<1> QED
  BY ONLY Next, <1>1, <1>2, <1>3, <1>4, <1>5, <1>6, <1>7, <1>8, <1>9, <1>10,
      <1>11, <1>12, <1>13, <1>14, <1>15, <1>16, <1>17, <1>18, <1>19, <1>20,
      <1>21, <1>22, <1>23, <1>24, <1>25, <1>26, <1>27, <1>28, <1>29, <1>30,
      <1>31, <1>32, <1>33, <1>34, <1>35, <1>36, <1>37, <1>38, <1>39, <1>40,
      <1>41, <1>42, <1>43, <1>44, <1>45, <1>46, <1>47, <1>48, <1>49, <1>50,
      <1>51, <1>52, <1>53, <1>54, <1>55, <1>56, <1>57
  DEF Next, CommandStep, ForwardSteps, CleanupSteps, RecoverySteps,
      RollbackSteps, UserSteps

\* stack.yaml and its record in the journal differ only while an entry is
\* being recorded.
LEMMA RecordingStep ==
  ASSUME TypeInv, CoreInv, Advance, RollbackAgrees, Recording, Next
  PROVE  Recording'
<1> USE DEF CoreInv, Idle, GoingForward, GoingBack, Ending, ForwardLabels,
    CleanupLabels, RefsLabels, LateLabels, Advance, ObservedLabels,
    RollbackAgrees, Recording, ActionEntry, MetaEntry, Rollback, UserWork
<1>t. /\ act \in ActionEntry /\ jmeta \in MetaEntry /\ meta \in Commits /\ rb \in Rollback
  BY DEF TypeInv, TypeOK, JournalTypeOK, GitTypeOK
<1>1. CASE Birth
  BY <1>1, <1>t DEF Birth, Start, git, bounds
<1>2. CASE ContinueCommand
  BY <1>2, <1>t DEF ContinueCommand, CleanupOnly, RollingBack, Start, git,
      journal, bounds
<1>3. CASE AbortCommand
  BY <1>3, <1>t DEF AbortCommand, CleanupOnly, Start, RollingBack, git,
      journal, bounds
<1>4. CASE PinCreate
  BY <1>4, <1>t DEF PinCreate, At, Goto, journal, bounds
<1>5. CASE PinSave
  BY <1>5, <1>t DEF PinSave, At, Goto, git, bounds
<1>6. CASE PinsDone
  BY <1>6, <1>t DEF PinsDone, At, Pass, Goto, git, journal, bounds
<1>7. CASE FreezeCutoffs
  BY <1>7, <1>t DEF FreezeCutoffs, At, Goto, git, bounds
<1>8. CASE FreezeRefused
  BY <1>8, <1>t DEF FreezeRefused, At, RollingBack, Goto, git, bounds, Refuse,
      Exit, journal
<1>9. CASE SnapshotReady
  BY <1>9, <1>t DEF SnapshotReady, At, Goto, git, bounds
<1>10. CASE BeginAction
  BY <1>10, <1>t DEF BeginAction, At, Goto, bounds, Refuse, Exit, git, journal
<1>11. CASE Rebase
  BY <1>11, <1>t DEF Rebase, At, Goto, MoveTips, journal, bounds
<1>12. CASE Observe
  BY <1>12, <1>t DEF Observe, At, Adopt, Exit, Goto, git, bounds, Refuse,
      journal
<1>13. CASE BeginValidation
  BY <1>13, <1>t DEF BeginValidation, At, Goto, SetVal, git, bounds, Refuse,
      Exit, journal
<1>14. CASE Validator
  BY <1>14, <1>t DEF Validator, At, Goto, journal, bounds
<1>15. CASE EndValidation
  BY <1>15, <1>t DEF EndValidation, At, SetVal, Goto, Exit, git, bounds
<1>16. CASE MetaIntent
  BY <1>16, <1>t DEF MetaIntent, At, AdoptMeta, SetMeta, Goto, git, bounds,
      Refuse, Exit, journal, Pass
<1>17. CASE MetaWrite
  BY <1>17, <1>t DEF MetaWrite, At, Goto, journal, bounds
<1>18. CASE MetaCheck
  BY <1>18, <1>t DEF MetaCheck, At, AdoptMeta, SetMeta, Goto, git, bounds,
      Refuse, Exit, journal
<1>19. CASE Progress
  BY <1>19, <1>t DEF Progress, At, Goto, git, bounds
<1>20. CASE ForwardDone
  BY <1>20, <1>t DEF ForwardDone, At, Pass, Goto, git, journal, bounds
<1>21. CASE BeginPublication
  BY <1>21, <1>t DEF BeginPublication, At, Goto, SetPub, Publishing, git,
      bounds, Refuse, Exit, journal
<1>22. CASE Network
  BY <1>22, <1>t DEF Network, At, Goto, journal, bounds
<1>23. CASE PushResult
  BY <1>23, <1>t DEF PushResult, At, SetPub, Goto, Exit, git, bounds
<1>24. CASE PushDone
  BY <1>24, <1>t DEF PushDone, At, Pass, Goto, git, journal, bounds
<1>25. CASE Complete
  BY <1>25, <1>t DEF Complete, At, RollingBack, Refuse, Exit, git, journal,
      bounds, Goto
<1>26. CASE DeleteIntent
  BY <1>26, <1>t DEF DeleteIntent, At, SetPin, Goto, git, bounds
<1>27. CASE DeletePin
  BY <1>27, <1>t DEF DeletePin, At, Goto, journal, bounds
<1>28. CASE DeleteSave
  BY <1>28, <1>t DEF DeleteSave, At, Goto, SetPin, git, bounds
<1>29. CASE RepoPinsGone
  BY <1>29, <1>t DEF RepoPinsGone, At, Goto, git, bounds
<1>30. CASE Clear
  BY <1>30, <1>t DEF Clear, At, Exit, git, bounds
<1>31. CASE RecoverPreflight
  BY <1>31, <1>t DEF RecoverPreflight, Check, At, Pass, Goto, git, journal,
      bounds, Refuse, Exit
<1>32. CASE ReconcileMeta
  BY <1>32, <1>t DEF ReconcileMeta, At, AdoptMeta, SetMeta, Goto, git, bounds,
      Pass, journal, Refuse, Exit
<1>33. CASE ReconcileValidation
  BY <1>33, <1>t DEF ReconcileValidation, At, Refuse, Exit, git, journal,
      bounds, SetVal, Goto, Pass
<1>34. CASE ReconcileAction
  BY <1>34, <1>t DEF ReconcileAction, At, Pass, Goto, git, journal, bounds,
      AfterReconcile, Adopt, Refuse, Exit
<1>35. CASE Resume
  BY <1>35, <1>t DEF Resume, At, Pass, Goto, git, journal, bounds
<1>36. CASE RollbackPreflight
  BY <1>36, <1>t DEF RollbackPreflight, At, Refuse, Exit, git, journal,
      bounds, RollingBack, Pass, Goto, SetRollback
<1>37. CASE RollbackAction
  BY <1>37, <1>t DEF RollbackAction, At, Goto, journal, bounds, Adopt, git,
      Refuse, Exit, Pass
<1>38. CASE RollbackPreflight2
  BY <1>38, <1>t DEF RollbackPreflight2, Check, At, Pass, Goto, git, journal,
      bounds, Refuse, Exit
<1>39. CASE DetachIntent
  BY <1>39, <1>t DEF DetachIntent, At, Pass, Goto, git, journal, bounds,
      SetHold
<1>40. CASE DetachSwitch
  BY <1>40, <1>t DEF DetachSwitch, At, Goto, journal, bounds, Refuse, Exit,
      git
<1>41. CASE DetachSave
  BY <1>41, <1>t DEF DetachSave, At, Goto, SetHold, git, bounds
<1>42. CASE RefsIntent
  BY <1>42, <1>t DEF RefsIntent, At, Pass, Goto, git, journal, bounds, Refuse,
      Exit
<1>43. CASE RefsRestore
  BY <1>43, <1>t DEF RefsRestore, At, Goto, journal, bounds, Refuse, Exit, git
<1>44. CASE RefsSave
  BY <1>44, <1>t DEF RefsSave, At, Goto, SetRollback, git, bounds
<1>45. CASE RestoreMeta
  <2>1. CASE MetaRestored /\ Goto("rbHold") /\ (jmeta.rest \/ meta = 0)
    <3>1. jmeta'.rest /\ pc' = "rbHold"
      BY <2>1, <1>t DEF MetaRestored, SetMeta, Goto
    <3>2. meta' = meta
      BY <1>45 DEF RestoreMeta, Refuse, Pass, git
    <3>3. meta <= 0
      BY ONLY <2>1, Recording DEF Recording
    <3> QED BY <3>1, <3>2, <3>3
  <2>2. CASE UNCHANGED <<git, journal>> /\ pc' \in {"rbMetaWrite", "idle"}
    BY <2>2 DEF git, journal
  <2> QED BY ONLY <2>1, <2>2, <1>45 DEF RestoreMeta, Pass, Refuse, Goto, Exit
<1>46. CASE RestoreMetaWrite
  <2>1. UNCHANGED <<jmeta, rb, phase>> /\ meta' = 0 /\ pc' = "rbMetaSave"
    BY <1>46 DEF RestoreMetaWrite, journal, Goto
  <2> QED BY ONLY <2>1, Recording DEF Recording
<1>47. CASE RestoreMetaSave
  BY <1>47, <1>t DEF RestoreMetaSave, At, Goto, MetaRestored, SetMeta, git,
      bounds
<1>48. CASE RestoreHolder
  BY <1>48, <1>t DEF RestoreHolder, At, Pass, Goto, git, journal, bounds,
      SetHold, Refuse, Exit
<1>49. CASE RestoreHolderSwitch
  BY <1>49, <1>t DEF RestoreHolderSwitch, At, Goto, journal, bounds
<1>50. CASE RestoreHolderSave
  BY <1>50, <1>t DEF RestoreHolderSave, At, Goto, SetHold, git, bounds
<1>51. CASE RolledBack
  BY <1>51, <1>t DEF RolledBack, At, Goto, git, bounds
<1>52. CASE Crash
  BY <1>52, <1>t DEF Crash, Exit, git, journal
<1>53. CASE UserCommit
  BY <1>53, <1>t DEF UserCommit, Interferes, journal
<1>54. CASE UserEdit
  <2>1. UNCHANGED <<jmeta, rb, phase, act, pc>> /\ meta' \in {meta, UserWork}
    BY <1>54 DEF UserEdit, Interferes, journal
  <2> QED BY ONLY <2>1, Recording DEF Recording, UserWork
<1>55. CASE UserResolves
  BY <1>55, <1>t DEF UserResolves, MoveTips, journal, bounds
<1>56. CASE UserCleans
  BY <1>56, <1>t DEF UserCleans, journal, bounds
<1>57. CASE Over
  BY <1>57, <1>t DEF Over, vars, git, journal, bounds
<1> QED
  BY ONLY Next, <1>1, <1>2, <1>3, <1>4, <1>5, <1>6, <1>7, <1>8, <1>9, <1>10,
      <1>11, <1>12, <1>13, <1>14, <1>15, <1>16, <1>17, <1>18, <1>19, <1>20,
      <1>21, <1>22, <1>23, <1>24, <1>25, <1>26, <1>27, <1>28, <1>29, <1>30,
      <1>31, <1>32, <1>33, <1>34, <1>35, <1>36, <1>37, <1>38, <1>39, <1>40,
      <1>41, <1>42, <1>43, <1>44, <1>45, <1>46, <1>47, <1>48, <1>49, <1>50,
      <1>51, <1>52, <1>53, <1>54, <1>55, <1>56, <1>57
  DEF Next, CommandStep, ForwardSteps, CleanupSteps, RecoverySteps,
      RollbackSteps, UserSteps

\* Every change of stack.yaml is explained by the journal.
LEMMA RecordStep ==
  ASSUME TypeInv, Advance, ActionAgrees, Recording, RecordExplained, Next
  PROVE  RecordExplained'
<1> USE DEF Advance, ObservedLabels, Recording, RecordExplained, ActionEntry,
    MetaEntry, UserWork, Commits, Pending, ActionAgrees
<1>t. /\ act \in ActionEntry /\ jmeta \in MetaEntry /\ meta \in Commits
      /\ done \in 0..N /\ N \in Nat
  BY BoundsAreNaturals DEF TypeInv, TypeOK, JournalTypeOK, GitTypeOK
<1>1. CASE Birth
  BY <1>1, <1>t DEF Birth, Start, git, bounds
<1>2. CASE ContinueCommand
  BY <1>2, <1>t DEF ContinueCommand, CleanupOnly, RollingBack, Start, git,
      journal, bounds
<1>3. CASE AbortCommand
  BY <1>3, <1>t DEF AbortCommand, CleanupOnly, Start, RollingBack, git,
      journal, bounds
<1>4. CASE PinCreate
  BY <1>4, <1>t DEF PinCreate, At, Goto, journal, bounds
<1>5. CASE PinSave
  BY <1>5, <1>t DEF PinSave, At, Goto, git, bounds
<1>6. CASE PinsDone
  BY <1>6, <1>t DEF PinsDone, At, Pass, Goto, git, journal, bounds
<1>7. CASE FreezeCutoffs
  BY <1>7, <1>t DEF FreezeCutoffs, At, Goto, git, bounds
<1>8. CASE FreezeRefused
  BY <1>8, <1>t DEF FreezeRefused, At, RollingBack, Goto, git, bounds, Refuse,
      Exit, journal
<1>9. CASE SnapshotReady
  BY <1>9, <1>t DEF SnapshotReady, At, Goto, git, bounds
<1>10. CASE BeginAction
  BY <1>10, <1>t DEF BeginAction, At, Goto, bounds, Refuse, Exit, git, journal
<1>11. CASE Rebase
  BY <1>11, <1>t DEF Rebase, At, Goto, MoveTips, journal, bounds
<1>12. CASE Observe
  BY <1>12, <1>t DEF Observe, At, Adopt, Exit, Goto, git, bounds, Refuse,
      journal
<1>13. CASE BeginValidation
  BY <1>13, <1>t DEF BeginValidation, At, Goto, SetVal, git, bounds, Refuse,
      Exit, journal
<1>14. CASE Validator
  BY <1>14, <1>t DEF Validator, At, Goto, journal, bounds
<1>15. CASE EndValidation
  BY <1>15, <1>t DEF EndValidation, At, SetVal, Goto, Exit, git, bounds
<1>16. CASE MetaIntent
  BY <1>16, <1>t DEF MetaIntent, At, AdoptMeta, SetMeta, Goto, git, bounds,
      Refuse, Exit, journal, Pass
<1>17. CASE MetaWrite
  BY <1>17, <1>t DEF MetaWrite, At, Goto, journal, bounds
<1>18. CASE MetaCheck
  BY <1>18, <1>t DEF MetaCheck, At, AdoptMeta, SetMeta, Goto, git, bounds,
      Refuse, Exit, journal
<1>19. CASE Progress
  BY <1>19, <1>t DEF Progress, At, Goto, git, bounds
<1>20. CASE ForwardDone
  BY <1>20, <1>t DEF ForwardDone, At, Pass, Goto, git, journal, bounds
<1>21. CASE BeginPublication
  BY <1>21, <1>t DEF BeginPublication, At, Goto, SetPub, Publishing, git,
      bounds, Refuse, Exit, journal
<1>22. CASE Network
  BY <1>22, <1>t DEF Network, At, Goto, journal, bounds
<1>23. CASE PushResult
  BY <1>23, <1>t DEF PushResult, At, SetPub, Goto, Exit, git, bounds
<1>24. CASE PushDone
  BY <1>24, <1>t DEF PushDone, At, Pass, Goto, git, journal, bounds
<1>25. CASE Complete
  BY <1>25, <1>t DEF Complete, At, RollingBack, Refuse, Exit, git, journal,
      bounds, Goto
<1>26. CASE DeleteIntent
  BY <1>26, <1>t DEF DeleteIntent, At, SetPin, Goto, git, bounds
<1>27. CASE DeletePin
  BY <1>27, <1>t DEF DeletePin, At, Goto, journal, bounds
<1>28. CASE DeleteSave
  BY <1>28, <1>t DEF DeleteSave, At, Goto, SetPin, git, bounds
<1>29. CASE RepoPinsGone
  BY <1>29, <1>t DEF RepoPinsGone, At, Goto, git, bounds
<1>30. CASE Clear
  BY <1>30, <1>t DEF Clear, At, Exit, git, bounds
<1>31. CASE RecoverPreflight
  BY <1>31, <1>t DEF RecoverPreflight, Check, At, Pass, Goto, git, journal,
      bounds, Refuse, Exit
<1>32. CASE ReconcileMeta
  BY <1>32, <1>t DEF ReconcileMeta, At, AdoptMeta, SetMeta, Goto, git, bounds,
      Pass, journal, Refuse, Exit
<1>33. CASE ReconcileValidation
  BY <1>33, <1>t DEF ReconcileValidation, At, Refuse, Exit, git, journal,
      bounds, SetVal, Goto, Pass
<1>34. CASE ReconcileAction
  BY <1>34, <1>t DEF ReconcileAction, At, Pass, Goto, git, journal, bounds,
      AfterReconcile, Adopt, Refuse, Exit
<1>35. CASE Resume
  BY <1>35, <1>t DEF Resume, At, Pass, Goto, git, journal, bounds
<1>36. CASE RollbackPreflight
  BY <1>36, <1>t DEF RollbackPreflight, At, Refuse, Exit, git, journal,
      bounds, RollingBack, Pass, Goto, SetRollback
<1>37. CASE RollbackAction
  BY <1>37, <1>t DEF RollbackAction, At, Goto, journal, bounds, Adopt, git,
      Refuse, Exit, Pass
<1>38. CASE RollbackPreflight2
  BY <1>38, <1>t DEF RollbackPreflight2, Check, At, Pass, Goto, git, journal,
      bounds, Refuse, Exit
<1>39. CASE DetachIntent
  BY <1>39, <1>t DEF DetachIntent, At, Pass, Goto, git, journal, bounds,
      SetHold
<1>40. CASE DetachSwitch
  BY <1>40, <1>t DEF DetachSwitch, At, Goto, journal, bounds, Refuse, Exit,
      git
<1>41. CASE DetachSave
  BY <1>41, <1>t DEF DetachSave, At, Goto, SetHold, git, bounds
<1>42. CASE RefsIntent
  BY <1>42, <1>t DEF RefsIntent, At, Pass, Goto, git, journal, bounds, Refuse,
      Exit
<1>43. CASE RefsRestore
  BY <1>43, <1>t DEF RefsRestore, At, Goto, journal, bounds, Refuse, Exit, git
<1>44. CASE RefsSave
  BY <1>44, <1>t DEF RefsSave, At, Goto, SetRollback, git, bounds
<1>45. CASE RestoreMeta
  BY <1>45, <1>t DEF RestoreMeta, At, MetaRestored, SetMeta, Goto, git,
      bounds, Pass, journal, Refuse, Exit
<1>46. CASE RestoreMetaWrite
  BY <1>46, <1>t DEF RestoreMetaWrite, At, Goto, journal, bounds
<1>47. CASE RestoreMetaSave
  BY <1>47, <1>t DEF RestoreMetaSave, At, Goto, MetaRestored, SetMeta, git,
      bounds
<1>48. CASE RestoreHolder
  BY <1>48, <1>t DEF RestoreHolder, At, Pass, Goto, git, journal, bounds,
      SetHold, Refuse, Exit
<1>49. CASE RestoreHolderSwitch
  BY <1>49, <1>t DEF RestoreHolderSwitch, At, Goto, journal, bounds
<1>50. CASE RestoreHolderSave
  BY <1>50, <1>t DEF RestoreHolderSave, At, Goto, SetHold, git, bounds
<1>51. CASE RolledBack
  BY <1>51, <1>t DEF RolledBack, At, Goto, git, bounds
<1>52. CASE Crash
  BY <1>52, <1>t DEF Crash, Exit, git, journal
<1>53. CASE UserCommit
  BY <1>53, <1>t DEF UserCommit, Interferes, journal
<1>54. CASE UserEdit
  BY <1>54, <1>t DEF UserEdit, Interferes, journal
<1>55. CASE UserResolves
  BY <1>55, <1>t DEF UserResolves, MoveTips, journal, bounds
<1>56. CASE UserCleans
  BY <1>56, <1>t DEF UserCleans, journal, bounds
<1>57. CASE Over
  BY <1>57, <1>t DEF Over, vars, git, journal, bounds
<1> QED
  BY ONLY Next, <1>1, <1>2, <1>3, <1>4, <1>5, <1>6, <1>7, <1>8, <1>9, <1>10,
      <1>11, <1>12, <1>13, <1>14, <1>15, <1>16, <1>17, <1>18, <1>19, <1>20,
      <1>21, <1>22, <1>23, <1>24, <1>25, <1>26, <1>27, <1>28, <1>29, <1>30,
      <1>31, <1>32, <1>33, <1>34, <1>35, <1>36, <1>37, <1>38, <1>39, <1>40,
      <1>41, <1>42, <1>43, <1>44, <1>45, <1>46, <1>47, <1>48, <1>49, <1>50,
      <1>51, <1>52, <1>53, <1>54, <1>55, <1>56, <1>57
  DEF Next, CommandStep, ForwardSteps, CleanupSteps, RecoverySteps,
      RollbackSteps, UserSteps

LEMMA AdoptTip ==
  ASSUME TypeOK, ActionAgrees, Pending, NEW x \in Refs, TipExplained(x),
         NEW s, Adopt(s), UNCHANGED ref
  PROVE  TipExplained(x)'
  <1>1. x \in Allowed[act.entry] => RepoOf[x] = RepoOf[act.entry]
    BY PendingIsEntry, ConstantsAssumption DEF ConstantsAssumption
  <1>2. jref'[x].exp = IF RepoOf[x] = RepoOf[act.entry] THEN ref[x]
                       ELSE jref[x].exp
    BY AdoptEffect
  <1> QED BY ONLY <1>1, <1>2, TipExplained(x), UNCHANGED ref DEF TipExplained

LEMMA ForeignTip ==
  ASSUME NEW x \in Refs, TipExplained(x), ref'[x] \in {UserWork, ref[x]},
         UNCHANGED <<jref, act>>
  PROVE  TipExplained(x)'
  BY DEF TipExplained, UserWork, Pending

LEMMA MoveTipsTip ==
  ASSUME TypeOK, Pending, RebaseConfined, pc = "rebase" \/ ~NobodyRebasing,
         NEW x \in Refs, TipExplained(x), MoveTips(act.entry),
         UNCHANGED <<jref, act>>
  PROVE  TipExplained(x)'
  <1>1. CASE x \in Movable(act.entry)
    <2>1. ref[x] \in {UserWork, jref[x].exp}
      BY <1>1 DEF RebaseConfined, Movable
    <2>2. ref'[x] = Replayed(ref[x])
      BY <1>1 DEF MoveTips
    <2>3. ref'[x] = UserWork \/ ref'[x] = jref[x].exp + 1
      BY ONLY <2>1, <2>2 DEF Replayed
    <2>4. x \in Allowed[act.entry]
      BY <1>1 DEF Movable
    <2> QED BY ONLY <2>3, <2>4, Pending, UNCHANGED <<jref, act>>
            DEF TipExplained, UserWork, Pending
  <1>2. CASE x \notin Movable(act.entry)
    BY <1>2, ForeignTip DEF MoveTips
  <1> QED BY <1>1, <1>2

\* Every change of a branch is explained by the journal.
LEMMA TipStep ==
  ASSUME TypeInv, CoreInv, Advance, ActionAgrees, Retreating, RebaseConfined,
         NEW x \in Refs, TipExplained(x), Next
  PROVE  TipExplained(x)'
<1> USE DEF TipExplained, Pending, ActionEntry, RefEntry
<1>t. /\ act \in ActionEntry /\ jref \in [Refs -> RefEntry]
      /\ ref \in [Refs -> Commits]
  BY DEF TypeInv, TypeOK, JournalTypeOK, GitTypeOK
<1>u. TypeOK
  BY DEF TypeInv
<1>1. CASE Birth
  BY <1>1, <1>t DEF Birth, Start, git, bounds
<1>2. CASE ContinueCommand
  BY <1>2, <1>t DEF ContinueCommand, CleanupOnly, RollingBack, Start, git,
      journal, bounds
<1>3. CASE AbortCommand
  BY <1>3, <1>t DEF AbortCommand, CleanupOnly, Start, RollingBack, git,
      journal, bounds
<1>4. CASE PinCreate
  BY <1>4, <1>t DEF PinCreate, At, Goto, journal, bounds
<1>5. CASE PinSave
  BY <1>5, <1>t DEF PinSave, At, Goto, git, bounds
<1>6. CASE PinsDone
  BY <1>6, <1>t DEF PinsDone, At, Pass, Goto, git, journal, bounds
<1>7. CASE FreezeCutoffs
  BY <1>7, <1>t DEF FreezeCutoffs, At, Goto, git, bounds
<1>8. CASE FreezeRefused
  BY <1>8, <1>t DEF FreezeRefused, At, RollingBack, Goto, git, bounds, Refuse,
      Exit, journal
<1>9. CASE SnapshotReady
  BY <1>9, <1>t DEF SnapshotReady, At, Goto, git, bounds
<1>10. CASE BeginAction
  BY <1>10, <1>t DEF BeginAction, At, Goto, bounds, Refuse, Exit, git, journal
<1>11. CASE Rebase
  <2>1. Pending /\ pc = "rebase" /\ UNCHANGED <<jref, act>>
    BY <1>11 DEF Rebase, At, Advance, journal
  <2>2. MoveTips(act.entry) \/ UNCHANGED ref
    BY <1>11 DEF Rebase
  <2> QED BY <2>1, <2>2, <1>u, MoveTipsTip, ForeignTip
<1>12. CASE Observe
  <2>1. CASE UNCHANGED journal /\ UNCHANGED git
    BY <2>1 DEF journal, git
  <2>2. CASE Pending /\ (\E s \in {"observed", "failed"} : Adopt(s)) /\ UNCHANGED git
    BY ONLY <2>2, <1>u, ActionAgrees, TipExplained(x), AdoptTip DEF git
  <2>3. Pending
    BY <1>12 DEF Observe, At, Advance
  <2> QED BY ONLY <2>1, <2>2, <2>3, <1>12 DEF Observe, Refuse, Pass
<1>13. CASE BeginValidation
  BY <1>13, <1>t DEF BeginValidation, At, Goto, SetVal, git, bounds, Refuse,
      Exit, journal
<1>14. CASE Validator
  <2>1. ref'[x] \in {UserWork, ref[x]} /\ UNCHANGED <<jref, act>>
    BY <1>14, <1>t DEF Validator, journal
  <2> QED BY <2>1, ForeignTip
<1>15. CASE EndValidation
  BY <1>15, <1>t DEF EndValidation, At, SetVal, Goto, Exit, git, bounds
<1>16. CASE MetaIntent
  BY <1>16, <1>t DEF MetaIntent, At, AdoptMeta, SetMeta, Goto, git, bounds,
      Refuse, Exit, journal, Pass
<1>17. CASE MetaWrite
  BY <1>17, <1>t DEF MetaWrite, At, Goto, journal, bounds
<1>18. CASE MetaCheck
  BY <1>18, <1>t DEF MetaCheck, At, AdoptMeta, SetMeta, Goto, git, bounds,
      Refuse, Exit, journal
<1>19. CASE Progress
  BY <1>19, <1>t DEF Progress, At, Goto, git, bounds
<1>20. CASE ForwardDone
  BY <1>20, <1>t DEF ForwardDone, At, Pass, Goto, git, journal, bounds
<1>21. CASE BeginPublication
  BY <1>21, <1>t DEF BeginPublication, At, Goto, SetPub, Publishing, git,
      bounds, Refuse, Exit, journal
<1>22. CASE Network
  BY <1>22, <1>t DEF Network, At, Goto, journal, bounds
<1>23. CASE PushResult
  BY <1>23, <1>t DEF PushResult, At, SetPub, Goto, Exit, git, bounds
<1>24. CASE PushDone
  BY <1>24, <1>t DEF PushDone, At, Pass, Goto, git, journal, bounds
<1>25. CASE Complete
  BY <1>25, <1>t DEF Complete, At, RollingBack, Refuse, Exit, git, journal,
      bounds, Goto
<1>26. CASE DeleteIntent
  BY <1>26, <1>t DEF DeleteIntent, At, SetPin, Goto, git, bounds
<1>27. CASE DeletePin
  BY <1>27, <1>t DEF DeletePin, At, Goto, journal, bounds
<1>28. CASE DeleteSave
  BY <1>28, <1>t DEF DeleteSave, At, Goto, SetPin, git, bounds
<1>29. CASE RepoPinsGone
  BY <1>29, <1>t DEF RepoPinsGone, At, Goto, git, bounds
<1>30. CASE Clear
  BY <1>30, <1>t DEF Clear, At, Exit, git, bounds
<1>31. CASE RecoverPreflight
  BY <1>31, <1>t DEF RecoverPreflight, Check, At, Pass, Goto, git, journal,
      bounds, Refuse, Exit
<1>32. CASE ReconcileMeta
  BY <1>32, <1>t DEF ReconcileMeta, At, AdoptMeta, SetMeta, Goto, git, bounds,
      Pass, journal, Refuse, Exit
<1>33. CASE ReconcileValidation
  BY <1>33, <1>t DEF ReconcileValidation, At, Refuse, Exit, git, journal,
      bounds, SetVal, Goto, Pass
<1>34. CASE ReconcileAction
  <2>1. CASE UNCHANGED journal /\ UNCHANGED git
    BY <2>1 DEF journal, git
  <2>2. CASE Pending /\ (\E s \in {"observed", "failed"} : Adopt(s)) /\ UNCHANGED git
    BY ONLY <2>2, <1>u, ActionAgrees, TipExplained(x), AdoptTip DEF git
  <2> QED BY ONLY <2>1, <2>2, <1>34 DEF ReconcileAction, Refuse, Pass
<1>35. CASE Resume
  BY <1>35, <1>t DEF Resume, At, Pass, Goto, git, journal, bounds
<1>36. CASE RollbackPreflight
  BY <1>36, <1>t DEF RollbackPreflight, At, Refuse, Exit, git, journal,
      bounds, RollingBack, Pass, Goto, SetRollback
<1>37. CASE RollbackAction
  <2>1. CASE UNCHANGED journal /\ UNCHANGED git
    BY <2>1 DEF journal, git
  <2>2. CASE Pending /\ (\E s \in {"observed", "failed"} : Adopt(s)) /\ UNCHANGED git
    BY ONLY <2>2, <1>u, ActionAgrees, TipExplained(x), AdoptTip DEF git
  <2>3. CASE UNCHANGED <<ref, journal>>
    BY <2>3 DEF journal
  <2> QED BY ONLY <2>3, <2>1, <2>2, <1>37 DEF RollbackAction, Refuse, Pass
<1>38. CASE RollbackPreflight2
  BY <1>38, <1>t DEF RollbackPreflight2, Check, At, Pass, Goto, git, journal,
      bounds, Refuse, Exit
<1>39. CASE DetachIntent
  BY <1>39, <1>t DEF DetachIntent, At, Pass, Goto, git, journal, bounds,
      SetHold
<1>40. CASE DetachSwitch
  BY <1>40, <1>t DEF DetachSwitch, At, Goto, journal, bounds, Refuse, Exit,
      git
<1>41. CASE DetachSave
  BY <1>41, <1>t DEF DetachSave, At, Goto, SetHold, git, bounds
<1>42. CASE RefsIntent
  BY <1>42, <1>t DEF RefsIntent, At, Pass, Goto, git, journal, bounds, Refuse,
      Exit
<1>43. CASE RefsRestore
  BY <1>43, <1>t DEF RefsRestore, At, Goto, journal, bounds, Refuse, Exit, git
<1>44. CASE RefsSave
  <2>1. UNCHANGED <<ref, act>> /\ (RepoOf[x] # sel => jref'[x] = jref[x])
    BY <1>44 DEF RefsSave, SetRollback, git
  <2>2. RepoOf[x] = sel => ref[x] <= 0
    BY <1>44 DEF RefsSave, At, CoreInv, Restored
  <2>3. ref[x] <= 0 => TipExplained(x)'
    BY ONLY <2>1, <1>t DEF TipExplained, Commits, UserWork
  <2> QED BY ONLY <2>1, <2>2, <2>3, TipExplained(x) DEF TipExplained, Pending
<1>45. CASE RestoreMeta
  BY <1>45, <1>t DEF RestoreMeta, At, MetaRestored, SetMeta, Goto, git,
      bounds, Pass, journal, Refuse, Exit
<1>46. CASE RestoreMetaWrite
  BY <1>46, <1>t DEF RestoreMetaWrite, At, Goto, journal, bounds
<1>47. CASE RestoreMetaSave
  BY <1>47, <1>t DEF RestoreMetaSave, At, Goto, MetaRestored, SetMeta, git,
      bounds
<1>48. CASE RestoreHolder
  BY <1>48, <1>t DEF RestoreHolder, At, Pass, Goto, git, journal, bounds,
      SetHold, Refuse, Exit
<1>49. CASE RestoreHolderSwitch
  BY <1>49, <1>t DEF RestoreHolderSwitch, At, Goto, journal, bounds
<1>50. CASE RestoreHolderSave
  BY <1>50, <1>t DEF RestoreHolderSave, At, Goto, SetHold, git, bounds
<1>51. CASE RolledBack
  BY <1>51, <1>t DEF RolledBack, At, Goto, git, bounds
<1>52. CASE Crash
  BY <1>52, <1>t DEF Crash, Exit, git, journal
<1>53. CASE UserCommit
  <2>1. ref'[x] \in {UserWork, ref[x]} /\ UNCHANGED <<jref, act>>
    BY <1>53, <1>t DEF UserCommit, Interferes, journal
  <2> QED BY <2>1, ForeignTip
<1>54. CASE UserEdit
  BY <1>54, <1>t DEF UserEdit, Interferes, journal
<1>55. CASE UserResolves
  <2>1. PICK e \in Entries : wt[e] = "rebasing" /\ (MoveTips(e) \/ UNCHANGED ref)
    BY <1>55 DEF UserResolves
  <2>2. Pending /\ e = act.entry /\ ~NobodyRebasing
    BY <2>1 DEF RebaseConfined, NobodyRebasing
  <2>3. UNCHANGED <<jref, act>>
    BY <1>55 DEF UserResolves, journal
  <2> QED BY <2>1, <2>2, <2>3, <1>u, MoveTipsTip, ForeignTip
<1>56. CASE UserCleans
  BY <1>56, <1>t DEF UserCleans, journal, bounds
<1>57. CASE Over
  BY <1>57, <1>t DEF Over, vars, git, journal, bounds
<1> QED
  BY ONLY Next, <1>1, <1>2, <1>3, <1>4, <1>5, <1>6, <1>7, <1>8, <1>9, <1>10,
      <1>11, <1>12, <1>13, <1>14, <1>15, <1>16, <1>17, <1>18, <1>19, <1>20,
      <1>21, <1>22, <1>23, <1>24, <1>25, <1>26, <1>27, <1>28, <1>29, <1>30,
      <1>31, <1>32, <1>33, <1>34, <1>35, <1>36, <1>37, <1>38, <1>39, <1>40,
      <1>41, <1>42, <1>43, <1>44, <1>45, <1>46, <1>47, <1>48, <1>49, <1>50,
      <1>51, <1>52, <1>53, <1>54, <1>55, <1>56, <1>57
  DEF Next, CommandStep, ForwardSteps, CleanupSteps, RecoverySteps,
      RollbackSteps, UserSteps

LEMMA RepoExists == Repos # {}
  <1>1. 1 \in Refs
    BY BoundsAreNaturals, ConstantsAssumption DEF ConstantsAssumption, Refs, Entries
  <1> QED BY <1>1, ConstantsAssumption DEF ConstantsAssumption

LEMMA RepoOfEntry == \A e \in Entries : e \in Refs /\ RepoOf[e] \in Repos
  BY ConstantsAssumption DEF ConstantsAssumption, Refs

LEMMA PosTip == \A e \in Entries : Pos(e)[2] = IF wt[e] = "branch" THEN ref[e] ELSE head[e]
  BY DEF Pos

LEMMA AdoptHold ==
  ASSUME TypeOK, NEW s, Adopt(s), NEW e \in Entries
  PROVE  jhold'[e].rest = jhold[e].rest /\ UNCHANGED rb /\ phase' \in {phase, "failed"}
  <1>1. jhold \in [Entries -> HoldEntry]
    BY DEF TypeOK, JournalTypeOK
  <1> QED BY ONLY <1>1, Adopt(s) DEF Adopt, HoldEntry

\* Once stack.yaml and the worktrees are being restored the branches show
\* nothing of the run, and nobody else adds to it.
LEMMA HolderUndoneKept ==
  ASSUME NEW x \in Entries, HolderUndone(x), UNCHANGED <<Pos(x), rb, phase>>,
         jhold'[x].rest = jhold[x].rest,
         pc' \notin {"rbHoldSave", "rbSwitch", "rbDone"}
  PROVE  HolderUndone(x)'
  BY DEF HolderUndone

LEMMA NotRestored ==
  ASSUME NEW x \in Entries, ~jhold'[x].rest, ~(rb'.on /\ phase' = "cleanup"),
         pc' \notin {"rbHoldSave", "rbDone"}
  PROVE  HolderUndone(x)'
  BY DEF HolderUndone

\* A worktree whose restoration is recorded shows no commit of the run.
LEMMA HolderUndoneStep ==
  ASSUME TypeInv, CoreInv, Retreating, NEW x \in Entries, RefAgrees(x),
         HolderUndone(x), Next
  PROVE  HolderUndone(x)'
<1> USE DEF HolderUndone, CoreInv, Idle, GoingForward, GoingBack,
    ForwardLabels, RefsLabels, LateLabels, Restored, UserWork, HoldEntry,
    Rollback
<1>t. /\ ref \in [Refs -> Commits] /\ head \in [Entries -> Commits]
      /\ wt \in [Entries -> {"branch", "detached", "rebasing"}]
      /\ jhold \in [Entries -> HoldEntry] /\ rb \in Rollback
  BY DEF TypeInv, TypeOK, JournalTypeOK, GitTypeOK
<1>u. jhold[x].rest => ~Pending /\ NobodyRebasing /\ rb.on
  BY RepoExists DEF HolderUndone, Retreating, CoreInv, GoingBack, GoingForward
<1>v. TypeOK  BY DEF TypeInv
<1>1. CASE Birth
  BY <1>1, <1>t, <1>u DEF Birth, Start, git, bounds, Pos
<1>2. CASE ContinueCommand
  BY <1>2, <1>t, <1>u DEF ContinueCommand, CleanupOnly, RollingBack, Start,
      git, journal, bounds, Pos
<1>3. CASE AbortCommand
  BY <1>3, <1>t, <1>u DEF AbortCommand, CleanupOnly, Start, RollingBack, git,
      journal, bounds, Pos
<1>4. CASE PinCreate
  BY <1>4, <1>t, <1>u DEF PinCreate, At, Goto, journal, bounds, Pos
<1>5. CASE PinSave
  BY <1>5, <1>t, <1>u DEF PinSave, At, Goto, git, bounds, Pos
<1>6. CASE PinsDone
  BY <1>6, <1>t, <1>u DEF PinsDone, At, Pass, Goto, git, journal, bounds, Pos
<1>7. CASE FreezeCutoffs
  BY <1>7, <1>t, <1>u DEF FreezeCutoffs, At, Goto, git, bounds, Pos
<1>8. CASE FreezeRefused
  BY <1>8, <1>t, <1>u DEF FreezeRefused, At, RollingBack, Goto, git, bounds,
      Refuse, Exit, journal, Pos
<1>9. CASE SnapshotReady
  BY <1>9, <1>t, <1>u DEF SnapshotReady, At, Goto, git, bounds, Pos
<1>10. CASE BeginAction
  BY <1>10, <1>t, <1>u DEF BeginAction, At, Goto, bounds, Refuse, Exit, git,
      journal, Pos
<1>11. CASE Rebase
  BY <1>11, <1>t, <1>u DEF Rebase, At, Goto, MoveTips, journal, bounds, Pos
<1>12. CASE Observe
  <2>1. ~rb.on /\ ~jhold[x].rest
    BY <1>12, <1>u DEF Observe, At
  <2>2. rb' = rb /\ jhold'[x].rest = jhold[x].rest
    BY <1>12, <1>v, AdoptHold DEF Observe, Refuse, journal
  <2>3. pc' \notin {"rbHoldSave", "rbDone"}
    BY <1>12 DEF Observe, Refuse, Exit, Goto
  <2> QED BY ONLY <2>1, <2>2, <2>3, NotRestored
<1>13. CASE BeginValidation
  BY <1>13, <1>t, <1>u DEF BeginValidation, At, Goto, SetVal, git, bounds,
      Refuse, Exit, journal, Pos
<1>14. CASE Validator
  BY <1>14, <1>t, <1>u DEF Validator, At, Goto, journal, bounds, Pos
<1>15. CASE EndValidation
  BY <1>15, <1>t, <1>u DEF EndValidation, At, SetVal, Goto, Exit, git, bounds,
      Pos
<1>16. CASE MetaIntent
  BY <1>16, <1>t, <1>u DEF MetaIntent, At, AdoptMeta, SetMeta, Goto, git,
      bounds, Refuse, Exit, journal, Pass, Pos
<1>17. CASE MetaWrite
  BY <1>17, <1>t, <1>u DEF MetaWrite, At, Goto, journal, bounds, Pos
<1>18. CASE MetaCheck
  BY <1>18, <1>t, <1>u DEF MetaCheck, At, AdoptMeta, SetMeta, Goto, git,
      bounds, Refuse, Exit, journal, Pos
<1>19. CASE Progress
  BY <1>19, <1>t, <1>u DEF Progress, At, Goto, git, bounds, Pos
<1>20. CASE ForwardDone
  BY <1>20, <1>t, <1>u DEF ForwardDone, At, Pass, Goto, git, journal, bounds,
      Pos
<1>21. CASE BeginPublication
  BY <1>21, <1>t, <1>u DEF BeginPublication, At, Goto, SetPub, Publishing,
      git, bounds, Refuse, Exit, journal, Pos
<1>22. CASE Network
  BY <1>22, <1>t, <1>u DEF Network, At, Goto, journal, bounds, Pos
<1>23. CASE PushResult
  BY <1>23, <1>t, <1>u DEF PushResult, At, SetPub, Goto, Exit, git, bounds,
      Pos
<1>24. CASE PushDone
  BY <1>24, <1>t, <1>u DEF PushDone, At, Pass, Goto, git, journal, bounds, Pos
<1>25. CASE Complete
  BY <1>25, <1>t, <1>u DEF Complete, At, RollingBack, Refuse, Exit, git,
      journal, bounds, Goto, Pos
<1>26. CASE DeleteIntent
  BY <1>26, <1>t, <1>u DEF DeleteIntent, At, SetPin, Goto, git, bounds, Pos
<1>27. CASE DeletePin
  BY <1>27, <1>t, <1>u DEF DeletePin, At, Goto, journal, bounds, Pos
<1>28. CASE DeleteSave
  BY <1>28, <1>t, <1>u DEF DeleteSave, At, Goto, SetPin, git, bounds, Pos
<1>29. CASE RepoPinsGone
  BY <1>29, <1>t, <1>u DEF RepoPinsGone, At, Goto, git, bounds, Pos
<1>30. CASE Clear
  BY <1>30, <1>t, <1>u DEF Clear, At, Exit, git, bounds, Pos
<1>31. CASE RecoverPreflight
  BY <1>31, <1>t, <1>u DEF RecoverPreflight, Check, At, Pass, Goto, git,
      journal, bounds, Refuse, Exit, Pos
<1>32. CASE ReconcileMeta
  BY <1>32, <1>t, <1>u DEF ReconcileMeta, At, AdoptMeta, SetMeta, Goto, git,
      bounds, Pass, journal, Refuse, Exit, Pos
<1>33. CASE ReconcileValidation
  BY <1>33, <1>t, <1>u DEF ReconcileValidation, At, Refuse, Exit, git,
      journal, bounds, SetVal, Goto, Pass, Pos
<1>34. CASE ReconcileAction
  BY <1>34, <1>t, <1>u DEF ReconcileAction, At, Pass, Goto, git, journal,
      bounds, AfterReconcile, Adopt, Refuse, Exit, Pos
<1>35. CASE Resume
  BY <1>35, <1>t, <1>u DEF Resume, At, Pass, Goto, git, journal, bounds, Pos
<1>36. CASE RollbackPreflight
  BY <1>36, <1>t, <1>u DEF RollbackPreflight, At, Refuse, Exit, git, journal,
      bounds, RollingBack, Pass, Goto, SetRollback, Pos
<1>37. CASE RollbackAction
  <2>1. pc' \in {"rbAct", "rbPre2", "idle"}
    BY <1>37 DEF RollbackAction, Refuse, Pass, Exit, Goto
  <2>2. rb' = rb /\ jhold'[x].rest = jhold[x].rest /\ phase' \in {phase, "failed"}
    BY <1>37, <1>v, AdoptHold DEF RollbackAction, Refuse, Pass, journal
  <2>3. CASE ~Pending \/ ~ActiveRebase
    <3>1. UNCHANGED git
      BY <1>37, <2>3 DEF RollbackAction, Refuse, Pass, ActiveRebase
    <3>2. UNCHANGED Pos(x)
      BY <3>1 DEF git, Pos
    <3>3. phase = "rolling-back"
      BY <1>37 DEF RollbackAction, At
    <3> QED BY ONLY <2>1, <2>2, <3>2, <3>3, HolderUndone(x) DEF HolderUndone
  <2>4. CASE Pending
    <3>1. ~jhold[x].rest /\ phase = "rolling-back"
      BY <1>37, <2>4, <1>u DEF RollbackAction, At
    <3> QED BY ONLY <2>1, <2>2, <3>1, NotRestored
  <2> QED BY <2>3, <2>4
<1>38. CASE RollbackPreflight2
  BY <1>38, <1>t, <1>u DEF RollbackPreflight2, Check, At, Pass, Goto, git,
      journal, bounds, Refuse, Exit, Pos
<1>39. CASE DetachIntent
  <2>1. CASE UNCHANGED <<git, journal>> /\ pc' = "rbRefs"
    BY <2>1, HolderUndoneKept DEF git, journal, Pos
  <2>2. CASE \E e \in Affected : /\ SetHold(e, [jhold[e] EXCEPT !.pend = TRUE])
                                 /\ sel' = e /\ pc' = "rbSwitch" /\ UNCHANGED git
    <3>1. PICK e \in Affected : /\ SetHold(e, [jhold[e] EXCEPT !.pend = TRUE])
                                /\ sel' = e /\ pc' = "rbSwitch" /\ UNCHANGED git
      BY <2>2
    <3>2. UNCHANGED <<Pos(x), rb, phase>> /\ jhold'[x].rest = jhold[x].rest
      <4>1. UNCHANGED <<Pos(x), rb, phase>>
        BY ONLY <3>1 DEF SetHold, git, Pos
      <4>2. jhold' = [jhold EXCEPT ![e] = [jhold[e] EXCEPT !.pend = TRUE]]
        BY ONLY <3>1 DEF SetHold
      <4> QED BY ONLY <4>1, <4>2, <1>t DEF HoldEntry
    <3>3. e = x => ~jhold[x].rest
      BY <3>1, RepoOfEntry DEF Affected, RefAgrees
    <3> QED BY ONLY <3>1, <3>2, <3>3, HolderUndone(x) DEF HolderUndone
  <2> QED BY ONLY <2>1, <2>2, <1>39 DEF DetachIntent, Pass, Goto
<1>40. CASE DetachSwitch
  BY <1>40, <1>t, <1>u DEF DetachSwitch, At, Goto, journal, bounds, Refuse,
      Exit, git, Pos
<1>41. CASE DetachSave
  BY <1>41, <1>t, <1>u DEF DetachSave, At, Goto, SetHold, git, bounds, Pos
<1>42. CASE RefsIntent
  BY <1>42, <1>t, <1>u DEF RefsIntent, At, Pass, Goto, git, journal, bounds,
      Refuse, Exit, Pos
<1>43. CASE RefsRestore
  <2>1. UNCHANGED <<jhold, rb, phase, wt, head, sel>> \/ UNCHANGED <<git, journal>>
    BY <1>43 DEF RefsRestore, Refuse, journal
  <2>2. UNCHANGED <<jhold, rb, phase, wt, head>> /\ pc' \in {"rbCasSave", "idle"}
    BY <1>43, <2>1 DEF RefsRestore, Refuse, Exit, Goto, git, journal
  <2>3. ref'[x] \in {0, ref[x]}
    BY <1>43 DEF RefsRestore, Refuse, git, Refs
  <2>4. Pos(x)[2] <= 0 => Pos(x)'[2] <= 0
    BY ONLY <2>2, <2>3 DEF Pos
  <2> QED BY ONLY <2>2, <2>4, HolderUndone(x) DEF HolderUndone
<1>44. CASE RefsSave
  BY <1>44, <1>t, <1>u DEF RefsSave, At, Goto, SetRollback, git, bounds, Pos
<1>45. CASE RestoreMeta
  BY <1>45, <1>t, <1>u DEF RestoreMeta, At, MetaRestored, SetMeta, Goto, git,
      bounds, Pass, journal, Refuse, Exit, Pos
<1>46. CASE RestoreMetaWrite
  BY <1>46, <1>t, <1>u DEF RestoreMetaWrite, At, Goto, journal, bounds, Pos
<1>47. CASE RestoreMetaSave
  BY <1>47, <1>t, <1>u DEF RestoreMetaSave, At, Goto, MetaRestored, SetMeta,
      git, bounds, Pos
<1>48. CASE RestoreHolder
  <2>1. /\ UNCHANGED <<Pos(x), rb, phase>> /\ pc' \in {"rbDone", "rbHold", "rbHoldSwitch", "idle"}
        /\ Repos \subseteq rb.refs /\ phase = "rolling-back"
    BY <1>48
    DEF RestoreHolder, Refuse, Pass, Exit, Goto, SetHold, At, Pos, git,
        journal
  <2>2. CASE UNCHANGED jhold
    <3>1. pc' = "rbDone" => jhold[x].rest
      BY <1>48 DEF RestoreHolder, Pass, Refuse, Exit, Goto
    <3> QED BY ONLY <2>1, <2>2, <3>1, HolderUndone(x) DEF HolderUndone
  <2>3. CASE \E e \in Entries : /\ Pos(e) = Home /\ pc' = "rbHold"
               /\ SetHold(e, [jhold[e] EXCEPT !.exp = Home, !.rest = TRUE])
    <3>1. PICK e \in Entries : /\ Pos(e) = Home
               /\ SetHold(e, [jhold[e] EXCEPT !.exp = Home, !.rest = TRUE])
      BY <2>3
    <3>2. CASE e = x
      <4>1. Pos(x)[2] = 0
        BY ONLY <3>1, <3>2 DEF Home
      <4> QED BY ONLY <2>1, <2>3, <4>1 DEF HolderUndone
    <3>3. CASE e # x
      <4>1. jhold'[x] = jhold[x]
        BY ONLY <3>1, <3>3, <1>t DEF SetHold
      <4> QED BY ONLY <2>1, <2>3, <4>1, HolderUndone(x) DEF HolderUndone
    <3> QED BY <3>2, <3>3
  <2> QED BY ONLY <2>2, <2>3, <1>48
  DEF RestoreHolder, Pass, Refuse, Goto, Exit, journal
<1>49. CASE RestoreHolderSwitch
  <2>1. /\ UNCHANGED <<jhold, rb, phase, ref, sel>> /\ pc' = "rbHoldSave" /\ phase = "rolling-back"
        /\ wt' = [wt EXCEPT ![sel] = "branch"] /\ head' = [head EXCEPT ![sel] = 0]
    BY <1>49 DEF RestoreHolderSwitch, At, Goto, journal
  <2>2. ref[x] <= 0
    BY <1>49, RepoOfEntry DEF RestoreHolderSwitch, At
  <2>3. CASE sel = x
    <3>1. Pos(x)'[2] <= 0
      BY ONLY <2>1, <2>2, <2>3, <1>t DEF Pos
    <3> QED BY ONLY <2>1, <3>1, HolderUndone(x) DEF HolderUndone
  <2>4. CASE sel # x
    <3>1. UNCHANGED Pos(x)
      BY ONLY <2>1, <2>4, <1>t DEF Pos
    <3> QED BY ONLY <2>1, <2>4, <3>1, HolderUndone(x) DEF HolderUndone
  <2> QED BY <2>3, <2>4
<1>50. CASE RestoreHolderSave
  BY <1>50, <1>t, <1>u DEF RestoreHolderSave, At, Goto, SetHold, git, bounds,
      Pos
<1>51. CASE RolledBack
  BY <1>51, <1>t, <1>u DEF RolledBack, At, Goto, git, bounds, Pos
<1>52. CASE Crash
  BY <1>52, <1>t, <1>u DEF Crash, Exit, git, journal, Pos
<1>53. CASE UserCommit
  <2>1. UNCHANGED <<jhold, rb, phase, pc, sel, wt>> /\ ref'[x] \in {ref[x], UserWork}
        /\ head'[x] \in {head[x], UserWork}
    BY <1>53, <1>t DEF UserCommit, Interferes, journal, Refs
  <2>2. Pos(x)[2] <= 0 => Pos(x)'[2] <= 0
    BY ONLY <2>1 DEF Pos, UserWork
  <2> QED BY ONLY <2>1, <2>2, HolderUndone(x) DEF HolderUndone
<1>54. CASE UserEdit
  <2>1. UNCHANGED <<jhold, rb, phase, pc, sel, ref>>
    BY <1>54 DEF UserEdit, Interferes, journal
  <2>2. \/ wt'[x] = wt[x] /\ head'[x] = head[x]
        \/ wt[x] = "branch" /\ wt'[x] = "detached" /\ head'[x] = ref[x]
    BY <1>54, <1>t, ZenonT(60) DEF UserEdit
  <2>3. Pos(x)'[2] = Pos(x)[2]
    BY ONLY <2>1, <2>2 DEF Pos
  <2> QED BY ONLY <2>1, <2>3, HolderUndone(x) DEF HolderUndone
<1>55. CASE UserResolves
  <2>1. ~NobodyRebasing /\ UNCHANGED <<jhold, rb, phase, pc>> /\ pc = "idle"
    BY <1>55 DEF UserResolves, NobodyRebasing, journal
  <2>2. ~jhold[x].rest /\ ~(rb.on /\ phase = "cleanup")
    BY <2>1, <1>u
  <2> QED BY ONLY <2>1, <2>2, NotRestored
<1>56. CASE UserCleans
  BY <1>56, <1>t, <1>u DEF UserCleans, journal, bounds, Pos
<1>57. CASE Over
  BY <1>57, <1>t, <1>u DEF Over, vars, git, journal, bounds, Pos
<1> QED
  BY ONLY Next, <1>1, <1>2, <1>3, <1>4, <1>5, <1>6, <1>7, <1>8, <1>9, <1>10,
      <1>11, <1>12, <1>13, <1>14, <1>15, <1>16, <1>17, <1>18, <1>19, <1>20,
      <1>21, <1>22, <1>23, <1>24, <1>25, <1>26, <1>27, <1>28, <1>29, <1>30,
      <1>31, <1>32, <1>33, <1>34, <1>35, <1>36, <1>37, <1>38, <1>39, <1>40,
      <1>41, <1>42, <1>43, <1>44, <1>45, <1>46, <1>47, <1>48, <1>49, <1>50,
      <1>51, <1>52, <1>53, <1>54, <1>55, <1>56, <1>57
  DEF Next, CommandStep, ForwardSteps, CleanupSteps, RecoverySteps,
      RollbackSteps, UserSteps

\* A rollback recorded as finished has left nothing behind.
LEMMA RestoredIsGone ==
  ASSUME CoreInv, Recording, \A e \in Entries : HolderUndone(e)
  PROVE  NothingLeft
  <1> SUFFICES ASSUME rb.on, phase = "cleanup"
               PROVE  /\ \A r \in Refs : ref[r] <= 0
                      /\ \A e \in Entries : Pos(e)[2] <= 0
                      /\ meta <= 0
    BY DEF NothingLeft
  <1>1. Repos \subseteq rb.refs
    BY DEF CoreInv, Ending
  <1>2. \A r \in Refs : RepoOf[r] \in Repos
    BY ConstantsAssumption DEF ConstantsAssumption
  <1>3. \A r \in Refs : ref[r] <= 0
    BY <1>1, <1>2 DEF CoreInv, Restored
  <1>4. \A e \in Entries : Pos(e)[2] <= 0
    BY DEF HolderUndone
  <1>5. meta <= 0
    BY DEF Recording
  <1> QED BY <1>3, <1>4, <1>5

LEMMA EffectInit == Init => EffectInv
  <1> SUFFICES ASSUME Init PROVE EffectInv  OBVIOUS
  <1>1. /\ meta = 0 /\ pc = "idle" /\ phase = "preparing"
        /\ jmeta = [exp |-> 0, intent |-> Nothing, pend |-> FALSE, rest |-> FALSE]
    BY DEF Init
  <1>2. /\ \A e \in Entries : wt[e] = "branch" /\ ~jhold[e].rest
        /\ \A r \in Refs : ref[r] = 0
    BY DEF Init
  <1>3. RebaseConfined
    BY <1>1, <1>2 DEF RebaseConfined, NobodyRebasing
  <1>4. Recording /\ RecordExplained /\ NothingLeft
    BY <1>1 DEF Recording, RecordExplained, NothingLeft
  <1>5. \A e \in Entries : HolderUndone(e)
    BY <1>1, <1>2 DEF HolderUndone
  <1>6. \A r \in Refs : TipExplained(r)
    BY <1>2 DEF TipExplained
  <1> QED BY <1>3, <1>4, <1>5, <1>6 DEF EffectInv, EffectsExplained

LEMMA EffectStep ==
  ASSUME TypeInv, CoreInv, CoreInv', ProgressInv, EffectInv, Next
  PROVE  EffectInv'
  <1>1. /\ Advance /\ Retreating /\ ActionAgrees /\ RollbackAgrees
        /\ \A r \in Refs : RefAgrees(r)
        /\ RebaseConfined /\ Recording /\ RecordExplained
        /\ \A e \in Entries : HolderUndone(e)
        /\ \A r \in Refs : TipExplained(r)
    BY DEF ProgressInv, JournalReadable, EffectInv, EffectsExplained
  <1>2. RebaseConfined'
    BY <1>1, ConfinedStep
  <1>3. Recording' /\ RecordExplained'
    BY <1>1, RecordingStep, RecordStep
  <1>4. \A e \in Entries : HolderUndone(e)'
    BY <1>1, HolderUndoneStep, RepoOfEntry
  <1>5. \A r \in Refs : TipExplained(r)'
    BY <1>1, TipStep
  <1>6. UNCHANGED <<Refs, Entries>>
    BY DEF Refs, Entries
  <1>7. (\A e \in Entries : HolderUndone(e))'
    BY <1>4
  <1>8. NothingLeft'
    BY <1>3, <1>7, RestoredIsGone, PTL
  <1> QED BY <1>2, <1>3, <1>4, <1>5, <1>6, <1>8 DEF EffectInv, EffectsExplained

LEMMA EffectStutter == ASSUME EffectInv, UNCHANGED vars PROVE EffectInv'
  <1>1. UNCHANGED <<git, journal, verb, pc, sel>>
    BY DEF vars
  <1>2. RebaseConfined' /\ Recording' /\ RecordExplained' /\ NothingLeft'
    BY <1>1 DEF EffectInv, EffectsExplained, RebaseConfined, NobodyRebasing,
        Recording, RecordExplained, NothingLeft, Pending, Pos, git, journal
  <1>3. \A e \in Entries : HolderUndone(e)'
    BY <1>1 DEF EffectInv, HolderUndone, Pos, git, journal
  <1>4. \A r \in Refs : TipExplained(r)'
    BY <1>1 DEF EffectInv, EffectsExplained, TipExplained, Pending, git, journal
  <1> QED BY <1>2, <1>3, <1>4 DEF EffectInv, EffectsExplained

\* EffectInv is an invariant: rebases stay inside what their action may move,
\* and what a rollback restored stays restored.
THEOREM EffectInvariant == Spec => []EffectInv
  <1>1. TypeInv /\ CoreInv /\ CoreInv' /\ ProgressInv /\ EffectInv /\ [Next]_vars
          => EffectInv'
    BY EffectStep, EffectStutter
  <1> QED
    BY EffectInit, TypeInvariant, CoreInvariant, ProgressInvariant, <1>1, PTL
    DEF Spec

\* EffectsExplained is an invariant: at every moment the journal accounts for
\* every commit of the run and every line of stack.yaml it wrote, and a
\* rollback that is recorded as finished left nothing behind.
THEOREM EffectsStayExplained == Spec => []EffectsExplained
  <1>1. EffectInv => EffectsExplained
    BY DEF EffectInv
  <1> QED BY EffectInvariant, <1>1, PTL
-----------------------------------------------------------------------------
LEMMA DeliveredKept ==
  ASSUME Delivered, UNCHANGED <<remote, pub>> PROVE Delivered'
  BY DEF Delivered

\* A remote shows the recorded source or nothing.
LEMMA DeliveredStep ==
  ASSUME TypeInv, Publishable, Delivered, Next PROVE Delivered'
<1>t. pub \in Publication /\ remote \in [Entries -> Contents]
  BY DEF TypeInv, TypeOK, JournalTypeOK, GitTypeOK
<1>1. CASE Birth
  BY <1>1, DeliveredKept DEF Birth, git
<1>2. CASE ContinueCommand
  BY <1>2, DeliveredKept DEF ContinueCommand, git, journal
<1>3. CASE AbortCommand
  BY <1>3, DeliveredKept DEF AbortCommand, git, journal
<1>4. CASE PinCreate
  BY <1>4, DeliveredKept DEF PinCreate, journal
<1>5. CASE PinSave
  BY <1>5, DeliveredKept DEF PinSave, git
<1>6. CASE PinsDone
  BY <1>6, DeliveredKept DEF PinsDone, Pass, git, journal
<1>7. CASE FreezeCutoffs
  BY <1>7, DeliveredKept DEF FreezeCutoffs, git
<1>8. CASE FreezeRefused
  BY <1>8, DeliveredKept DEF FreezeRefused, git, Refuse, journal
<1>9. CASE SnapshotReady
  BY <1>9, DeliveredKept DEF SnapshotReady, git
<1>10. CASE BeginAction
  BY <1>10, DeliveredKept DEF BeginAction, Refuse, git, journal
<1>11. CASE Rebase
  BY <1>11, DeliveredKept DEF Rebase, journal
<1>12. CASE Observe
  BY <1>12, DeliveredKept DEF Observe, Adopt, git, Refuse, journal
<1>13. CASE BeginValidation
  BY <1>13, DeliveredKept DEF BeginValidation, SetVal, git, Refuse, journal
<1>14. CASE Validator
  BY <1>14, DeliveredKept DEF Validator, journal
<1>15. CASE EndValidation
  BY <1>15, DeliveredKept DEF EndValidation, SetVal, git
<1>16. CASE MetaIntent
  BY <1>16, DeliveredKept DEF MetaIntent, AdoptMeta, SetMeta, git, Refuse,
      journal, Pass
<1>17. CASE MetaWrite
  BY <1>17, DeliveredKept DEF MetaWrite, journal
<1>18. CASE MetaCheck
  BY <1>18, DeliveredKept DEF MetaCheck, AdoptMeta, SetMeta, git, Refuse,
      journal
<1>19. CASE Progress
  BY <1>19, DeliveredKept DEF Progress, git
<1>20. CASE ForwardDone
  BY <1>20, DeliveredKept DEF ForwardDone, Pass, git, journal
<1>21. CASE BeginPublication
  <2>1. CASE UNCHANGED <<git, journal>>
    BY <2>1, DeliveredKept DEF git, journal
  <2>2. CASE \E e \in Entries : UNCHANGED git /\ SetPub(Publishing(e))
    <3>1. PICK e \in Entries : UNCHANGED git /\ SetPub(Publishing(e))
      BY <2>2
    <3>2. /\ pub'.durable /\ remote' = remote
          /\ pub'.src = [pub.src EXCEPT ![e] = IF @ = Nothing THEN jref[e].exp ELSE @]
      BY ONLY <3>1, <1>t DEF SetPub, Publishing, Publication, git
    <3>3. pub.src \in [Entries -> Contents]
      BY <1>t DEF Publication
    <3> QED BY ONLY <3>2, <3>3, Delivered DEF Delivered
  <2> QED BY ONLY <2>1, <2>2, <1>21 DEF BeginPublication, Refuse
<1>22. CASE Network
  <2>1. pub.durable /\ UNCHANGED pub
    BY <1>22 DEF Network, At, Publishable, journal
  <2>2. \A e \in Entries : remote'[e] \in {remote[e], pub.src[e]}
    BY <1>22, <1>t DEF Network
  <2> QED BY ONLY <2>1, <2>2, Delivered DEF Delivered
<1>23. CASE PushResult
  <2>1. pub'.durable = pub.durable /\ pub'.src = pub.src /\ remote' = remote
    BY <1>23, <1>t DEF PushResult, SetPub, Publication, git
  <2> QED BY ONLY <2>1, Delivered DEF Delivered
<1>24. CASE PushDone
  BY <1>24, DeliveredKept DEF PushDone, Pass, git, journal
<1>25. CASE Complete
  BY <1>25, DeliveredKept DEF Complete, Refuse, git, journal
<1>26. CASE DeleteIntent
  BY <1>26, DeliveredKept DEF DeleteIntent, SetPin, git
<1>27. CASE DeletePin
  BY <1>27, DeliveredKept DEF DeletePin, journal
<1>28. CASE DeleteSave
  BY <1>28, DeliveredKept DEF DeleteSave, SetPin, git
<1>29. CASE RepoPinsGone
  BY <1>29, DeliveredKept DEF RepoPinsGone, git
<1>30. CASE Clear
  BY <1>30, DeliveredKept DEF Clear, git
<1>31. CASE RecoverPreflight
  BY <1>31, DeliveredKept DEF RecoverPreflight, Check, Pass, git, journal,
      Refuse
<1>32. CASE ReconcileMeta
  BY <1>32, DeliveredKept DEF ReconcileMeta, AdoptMeta, SetMeta, git, Pass,
      journal, Refuse
<1>33. CASE ReconcileValidation
  BY <1>33, DeliveredKept DEF ReconcileValidation, Refuse, git, journal,
      SetVal, Pass
<1>34. CASE ReconcileAction
  BY <1>34, DeliveredKept DEF ReconcileAction, Pass, git, journal, Adopt,
      Refuse
<1>35. CASE Resume
  BY <1>35, DeliveredKept DEF Resume, Pass, git, journal
<1>36. CASE RollbackPreflight
  BY <1>36, DeliveredKept DEF RollbackPreflight, Refuse, git, journal, Pass,
      SetRollback
<1>37. CASE RollbackAction
  BY <1>37, DeliveredKept DEF RollbackAction, journal, Adopt, git, Refuse,
      Pass
<1>38. CASE RollbackPreflight2
  BY <1>38, DeliveredKept DEF RollbackPreflight2, Check, Pass, git, journal,
      Refuse
<1>39. CASE DetachIntent
  BY <1>39, DeliveredKept DEF DetachIntent, Pass, git, journal, SetHold
<1>40. CASE DetachSwitch
  BY <1>40, DeliveredKept DEF DetachSwitch, journal, Refuse, git
<1>41. CASE DetachSave
  BY <1>41, DeliveredKept DEF DetachSave, SetHold, git
<1>42. CASE RefsIntent
  BY <1>42, DeliveredKept DEF RefsIntent, Pass, git, journal, Refuse
<1>43. CASE RefsRestore
  BY <1>43, DeliveredKept DEF RefsRestore, journal, Refuse, git
<1>44. CASE RefsSave
  BY <1>44, DeliveredKept DEF RefsSave, SetRollback, git
<1>45. CASE RestoreMeta
  BY <1>45, DeliveredKept DEF RestoreMeta, MetaRestored, SetMeta, git, Pass,
      journal, Refuse
<1>46. CASE RestoreMetaWrite
  BY <1>46, DeliveredKept DEF RestoreMetaWrite, journal
<1>47. CASE RestoreMetaSave
  BY <1>47, DeliveredKept DEF RestoreMetaSave, MetaRestored, SetMeta, git
<1>48. CASE RestoreHolder
  BY <1>48, DeliveredKept DEF RestoreHolder, Pass, git, journal, SetHold,
      Refuse
<1>49. CASE RestoreHolderSwitch
  BY <1>49, DeliveredKept DEF RestoreHolderSwitch, journal
<1>50. CASE RestoreHolderSave
  BY <1>50, DeliveredKept DEF RestoreHolderSave, SetHold, git
<1>51. CASE RolledBack
  BY <1>51, DeliveredKept DEF RolledBack, git
<1>52. CASE Crash
  BY <1>52, DeliveredKept DEF Crash, git, journal
<1>53. CASE UserCommit
  BY <1>53, DeliveredKept DEF UserCommit, Interferes, journal
<1>54. CASE UserEdit
  BY <1>54, DeliveredKept DEF UserEdit, Interferes, journal
<1>55. CASE UserResolves
  BY <1>55, DeliveredKept DEF UserResolves, journal
<1>56. CASE UserCleans
  BY <1>56, DeliveredKept DEF UserCleans, journal
<1>57. CASE Over
  BY <1>57, DeliveredKept DEF Over, vars, git, journal
<1> QED
  BY ONLY Next, <1>1, <1>2, <1>3, <1>4, <1>5, <1>6, <1>7, <1>8, <1>9, <1>10,
      <1>11, <1>12, <1>13, <1>14, <1>15, <1>16, <1>17, <1>18, <1>19, <1>20,
      <1>21, <1>22, <1>23, <1>24, <1>25, <1>26, <1>27, <1>28, <1>29, <1>30,
      <1>31, <1>32, <1>33, <1>34, <1>35, <1>36, <1>37, <1>38, <1>39, <1>40,
      <1>41, <1>42, <1>43, <1>44, <1>45, <1>46, <1>47, <1>48, <1>49, <1>50,
      <1>51, <1>52, <1>53, <1>54, <1>55, <1>56, <1>57
  DEF Next, CommandStep, ForwardSteps, CleanupSteps, RecoverySteps,
      RollbackSteps, UserSteps

\* Delivered is an invariant.
THEOREM DeliveredInvariant == Spec => []Delivered
  <1>1. ASSUME Init PROVE Delivered
    <2>1. \A e \in Entries : remote[e] = Nothing
      BY <1>1 DEF Init
    <2> QED BY <2>1 DEF Delivered
  <1>2. TypeInv /\ ProgressInv /\ Delivered /\ [Next]_vars => Delivered'
    BY DeliveredStep, DeliveredKept DEF ProgressInv, vars, git, journal
  <1> QED BY <1>1, <1>2, TypeInvariant, ProgressInvariant, PTL DEF Spec

\* PublicationOrdered is an invariant: a remote shows nothing before the whole
\* selection is rebased and recorded and the publication is on record, and then
\* only the recorded source, which is never somebody else's commit.
THEOREM PublicationStaysOrdered == Spec => []PublicationOrdered
  <1>1. ProgressInv /\ ForeignTips /\ Delivered => PublicationOrdered
    <2> SUFFICES ASSUME ProgressInv, ForeignTips, Delivered,
                        NEW e \in Entries, remote[e] # Nothing
                 PROVE  /\ pub.durable /\ done = N /\ ~rb.on
                        /\ remote[e] = pub.src[e] /\ pub.src[e] # UserWork
      BY DEF PublicationOrdered
    <2>1. pub.durable /\ remote[e] = pub.src[e]
      BY DEF Delivered
    <2>2. done = N /\ ~rb.on
      BY <2>1 DEF ProgressInv, Publishable, JournalReadable, PublicationAgrees
    <2>3. pub.src[e] = jref[e].exp
      BY <2>1 DEF ProgressInv, JournalReadable, SourcesAgree
    <2>4. pub.src[e] # UserWork
      BY <2>3, RepoOfEntry DEF ForeignTips
    <2> QED BY <2>1, <2>2, <2>4
  <1> QED
    BY <1>1, DeliveredInvariant, ProgressInvariant, ForeignInvariant, PTL

\* No command moves anything once the run publishes or is over.
LEMMA RewindStep ==
  ASSUME TypeInv, CoreInv, Advance, Publishable, PublicationAgrees, Next, verb
         # "none", moves' = moves, pub.durable \/ CleanupOnly
  PROVE  UNCHANGED <<ref, wt, head, meta>>
<1>t. act \in ActionEntry /\ done \in 0..N /\ N \in Nat
  BY BoundsAreNaturals DEF TypeInv, TypeOK, JournalTypeOK
<1>u. pc \notin {"rebase", "valRun", "metaWrite", "rbAct"} \cup RefsLabels
                \cup LateLabels
  <2>1. CASE pub.durable
    <3>1. act.entry # done + 1
      BY ONLY <2>1, <1>t, Publishable DEF ActionEntry, Publishable
    <3>2. pc \notin {"rebase", "valRun", "metaWrite"}
      BY <3>1 DEF Advance, ObservedLabels
    <3> QED BY <2>1, <3>2 DEF Publishable, RollbackLabels
  <2>2. CASE CleanupOnly
    BY <2>2 DEF CleanupOnly, CoreInv, GoingForward, GoingBack, ForwardLabels
  <2> QED BY <2>1, <2>2
<1>1. CASE Birth
  BY <1>1, <1>u DEF Birth, git
<1>2. CASE ContinueCommand
  BY <1>2, <1>u DEF ContinueCommand, git
<1>3. CASE AbortCommand
  BY <1>3, <1>u DEF AbortCommand, git
<1>4. CASE PinCreate
  BY <1>4, <1>u DEF PinCreate, At
<1>5. CASE PinSave
  BY <1>5, <1>u DEF PinSave, At, git
<1>6. CASE PinsDone
  BY <1>6, <1>u DEF PinsDone, At, Pass, git
<1>7. CASE FreezeCutoffs
  BY <1>7, <1>u DEF FreezeCutoffs, At, git
<1>8. CASE FreezeRefused
  BY <1>8, <1>u DEF FreezeRefused, At, git, Refuse
<1>9. CASE SnapshotReady
  BY <1>9, <1>u DEF SnapshotReady, At, git
<1>10. CASE BeginAction
  BY <1>10, <1>u DEF BeginAction, At, Refuse, git
<1>11. CASE Rebase
  BY <1>11, <1>u DEF Rebase, At
<1>12. CASE Observe
  BY <1>12, <1>u DEF Observe, At, git, Refuse
<1>13. CASE BeginValidation
  BY <1>13, <1>u DEF BeginValidation, At, SetVal, git, Refuse
<1>14. CASE Validator
  BY <1>14, <1>u DEF Validator, At
<1>15. CASE EndValidation
  BY <1>15, <1>u DEF EndValidation, At, SetVal, git
<1>16. CASE MetaIntent
  BY <1>16, <1>u DEF MetaIntent, At, AdoptMeta, SetMeta, git, Refuse, Pass
<1>17. CASE MetaWrite
  BY <1>17, <1>u DEF MetaWrite, At
<1>18. CASE MetaCheck
  BY <1>18, <1>u DEF MetaCheck, At, AdoptMeta, SetMeta, git, Refuse
<1>19. CASE Progress
  BY <1>19, <1>u DEF Progress, At, git
<1>20. CASE ForwardDone
  BY <1>20, <1>u DEF ForwardDone, At, Pass, git
<1>21. CASE BeginPublication
  BY <1>21, <1>u DEF BeginPublication, At, SetPub, git, Refuse
<1>22. CASE Network
  BY <1>22, <1>u DEF Network, At
<1>23. CASE PushResult
  BY <1>23, <1>u DEF PushResult, At, SetPub, git
<1>24. CASE PushDone
  BY <1>24, <1>u DEF PushDone, At, Pass, git
<1>25. CASE Complete
  BY <1>25, <1>u DEF Complete, At, Refuse, git
<1>26. CASE DeleteIntent
  BY <1>26, <1>u DEF DeleteIntent, At, SetPin, git
<1>27. CASE DeletePin
  BY <1>27, <1>u DEF DeletePin, At
<1>28. CASE DeleteSave
  BY <1>28, <1>u DEF DeleteSave, At, SetPin, git
<1>29. CASE RepoPinsGone
  BY <1>29, <1>u DEF RepoPinsGone, At, git
<1>30. CASE Clear
  BY <1>30, <1>u DEF Clear, At, git
<1>31. CASE RecoverPreflight
  BY <1>31, <1>u DEF RecoverPreflight, Check, At, Pass, git, Refuse
<1>32. CASE ReconcileMeta
  BY <1>32, <1>u DEF ReconcileMeta, At, AdoptMeta, SetMeta, git, Pass, Refuse
<1>33. CASE ReconcileValidation
  BY <1>33, <1>u DEF ReconcileValidation, At, Refuse, git, SetVal, Pass
<1>34. CASE ReconcileAction
  BY <1>34, <1>u DEF ReconcileAction, At, Pass, git, Refuse
<1>35. CASE Resume
  BY <1>35, <1>u DEF Resume, At, Pass, git
<1>36. CASE RollbackPreflight
  BY <1>36, <1>u DEF RollbackPreflight, At, Refuse, git, Pass, SetRollback
<1>37. CASE RollbackAction
  BY <1>37, <1>u DEF RollbackAction, At, git, Refuse, Pass
<1>38. CASE RollbackPreflight2
  BY <1>38, <1>u DEF RollbackPreflight2, Check, At, Pass, git, Refuse
<1>39. CASE DetachIntent
  BY <1>39, <1>u DEF DetachIntent, At, Pass, git, SetHold
<1>40. CASE DetachSwitch
  BY <1>40, <1>u DEF DetachSwitch, At, Refuse, git, RefsLabels, LateLabels
<1>41. CASE DetachSave
  BY <1>41, <1>u DEF DetachSave, At, SetHold, git
<1>42. CASE RefsIntent
  BY <1>42, <1>u DEF RefsIntent, At, Pass, git, Refuse
<1>43. CASE RefsRestore
  BY <1>43, <1>u DEF RefsRestore, At, Refuse, git, RefsLabels, LateLabels
<1>44. CASE RefsSave
  BY <1>44, <1>u DEF RefsSave, At, SetRollback, git
<1>45. CASE RestoreMeta
  BY <1>45, <1>u DEF RestoreMeta, At, MetaRestored, SetMeta, git, Pass, Refuse
<1>46. CASE RestoreMetaWrite
  BY <1>46, <1>u DEF RestoreMetaWrite, At, RefsLabels, LateLabels
<1>47. CASE RestoreMetaSave
  BY <1>47, <1>u DEF RestoreMetaSave, At, MetaRestored, SetMeta, git
<1>48. CASE RestoreHolder
  BY <1>48, <1>u DEF RestoreHolder, At, Pass, git, SetHold, Refuse
<1>49. CASE RestoreHolderSwitch
  BY <1>49, <1>u DEF RestoreHolderSwitch, At, RefsLabels, LateLabels
<1>50. CASE RestoreHolderSave
  BY <1>50, <1>u DEF RestoreHolderSave, At, SetHold, git
<1>51. CASE RolledBack
  BY <1>51, <1>u DEF RolledBack, At, git
<1>52. CASE Crash
  BY <1>52, <1>u DEF Crash, git
<1>53. CASE UserCommit
  BY <1>53, <1>u DEF UserCommit, Interferes
<1>54. CASE UserEdit
  BY <1>54, <1>u DEF UserEdit, Interferes
<1>55. CASE UserResolves
  BY <1>55, <1>u DEF UserResolves
<1>56. CASE UserCleans
  BY <1>56, <1>u DEF UserCleans
<1>57. CASE Over
  BY <1>57, <1>u DEF Over, vars, git
<1> QED
  BY ONLY Next, <1>1, <1>2, <1>3, <1>4, <1>5, <1>6, <1>7, <1>8, <1>9, <1>10,
      <1>11, <1>12, <1>13, <1>14, <1>15, <1>16, <1>17, <1>18, <1>19, <1>20,
      <1>21, <1>22, <1>23, <1>24, <1>25, <1>26, <1>27, <1>28, <1>29, <1>30,
      <1>31, <1>32, <1>33, <1>34, <1>35, <1>36, <1>37, <1>38, <1>39, <1>40,
      <1>41, <1>42, <1>43, <1>44, <1>45, <1>46, <1>47, <1>48, <1>49, <1>50,
      <1>51, <1>52, <1>53, <1>54, <1>55, <1>56, <1>57
  DEF Next, CommandStep, ForwardSteps, CleanupSteps, RecoverySteps,
      RollbackSteps, UserSteps

\* NoRewind: after publication has begun or completion is recorded, no step of
\* any command moves a branch, a worktree or stack.yaml.
THEOREM NothingRewound == Spec => NoRewind
  <1>1. TypeInv /\ CoreInv /\ ProgressInv /\ [Next]_vars =>
          [payload = "live" /\ (pub.durable \/ CleanupOnly) /\ verb # "none"
           /\ moves' = moves => UNCHANGED <<ref, wt, head, meta>>]_vars
    BY RewindStep DEF ProgressInv, JournalReadable
  <1> QED
    BY <1>1, TypeInvariant, CoreInvariant, ProgressInvariant, PTL
    DEF Spec, NoRewind
-----------------------------------------------------------------------------
(* stack.yaml and the remotes agree with the journal.                       *)

LEMMA RecordsStep ==
  ASSUME TypeInv, CoreInv, Advance, ActionAgrees, Recording, RecordsAgree,
         Next
  PROVE  RecordsAgree'
<1> USE DEF CoreInv, GoingForward, GoingBack, ForwardLabels, RefsLabels,
    LateLabels, Advance, ActionAgrees, ObservedLabels, Recording,
    RecordsAgree, Pending, UserWork, ActionEntry, MetaEntry, Rollback
<1>t. /\ act \in ActionEntry /\ jmeta \in MetaEntry /\ meta \in Commits
      /\ done \in 0..N /\ N \in Nat /\ rb \in Rollback
  BY BoundsAreNaturals DEF TypeInv, TypeOK, JournalTypeOK, GitTypeOK
<1>1. CASE Birth
  BY <1>1, <1>t DEF Birth, Start, git, bounds
<1>2. CASE ContinueCommand
  BY <1>2, <1>t DEF ContinueCommand, CleanupOnly, RollingBack, Start, git,
      journal, bounds
<1>3. CASE AbortCommand
  BY <1>3, <1>t DEF AbortCommand, CleanupOnly, Start, RollingBack, git,
      journal, bounds
<1>4. CASE PinCreate
  BY <1>4, <1>t DEF PinCreate, At, Goto, journal, bounds
<1>5. CASE PinSave
  BY <1>5, <1>t DEF PinSave, At, Goto, git, bounds
<1>6. CASE PinsDone
  BY <1>6, <1>t DEF PinsDone, At, Pass, Goto, git, journal, bounds
<1>7. CASE FreezeCutoffs
  BY <1>7, <1>t DEF FreezeCutoffs, At, Goto, git, bounds
<1>8. CASE FreezeRefused
  BY <1>8, <1>t DEF FreezeRefused, At, RollingBack, Goto, git, bounds, Refuse,
      Exit, journal
<1>9. CASE SnapshotReady
  BY <1>9, <1>t DEF SnapshotReady, At, Goto, git, bounds
<1>10. CASE BeginAction
  BY <1>10, <1>t DEF BeginAction, At, Goto, bounds, Refuse, Exit, git, journal
<1>11. CASE Rebase
  BY <1>11, <1>t DEF Rebase, At, Goto, MoveTips, journal, bounds
<1>12. CASE Observe
  BY <1>12, <1>t DEF Observe, At, Adopt, Exit, Goto, git, bounds, Refuse,
      journal
<1>13. CASE BeginValidation
  BY <1>13, <1>t DEF BeginValidation, At, Goto, SetVal, git, bounds, Refuse,
      Exit, journal
<1>14. CASE Validator
  BY <1>14, <1>t DEF Validator, At, Goto, journal, bounds
<1>15. CASE EndValidation
  BY <1>15, <1>t DEF EndValidation, At, SetVal, Goto, Exit, git, bounds
<1>16. CASE MetaIntent
  <2>1. /\ UNCHANGED <<meta, rb, done, act>>
        /\ pc' = "progress" => meta = act.entry
    BY <1>16
    DEF MetaIntent, AdoptMeta, SetMeta, Refuse, Pass, Goto, Exit, git, journal
  <2>2. \/ UNCHANGED jmeta
        \/ jmeta' = [jmeta EXCEPT !.exp = meta, !.pend = FALSE] /\ meta = jmeta.intent
        \/ jmeta' = [jmeta EXCEPT !.intent = act.entry, !.pend = TRUE]
    BY <1>16 DEF MetaIntent, AdoptMeta, SetMeta, Refuse, Pass, MetaLanded, journal
  <2>3. act.entry # UserWork
    BY ONLY <1>t DEF ActionEntry, UserWork
  <2>4. jmeta'.exp # UserWork /\ jmeta'.intent # UserWork
    BY ONLY <2>2, <2>3, <1>t, RecordsAgree DEF RecordsAgree, MetaEntry
  <2> QED BY ONLY <2>1, <2>4, RecordsAgree DEF RecordsAgree
<1>17. CASE MetaWrite
  BY <1>17, <1>t DEF MetaWrite, At, Goto, journal, bounds
<1>18. CASE MetaCheck
  BY <1>18, <1>t, ZenonT(60) DEF MetaCheck, At, AdoptMeta, SetMeta, Goto, git, bounds,
      Refuse, Exit, journal, MetaLanded, MetaImage
<1>19. CASE Progress
  BY <1>19, <1>t DEF Progress, At, Goto, git, bounds
<1>20. CASE ForwardDone
  BY <1>20, <1>t DEF ForwardDone, At, Pass, Goto, git, journal, bounds
<1>21. CASE BeginPublication
  BY <1>21, <1>t DEF BeginPublication, At, Goto, SetPub, Publishing, git,
      bounds, Refuse, Exit, journal
<1>22. CASE Network
  BY <1>22, <1>t DEF Network, At, Goto, journal, bounds
<1>23. CASE PushResult
  BY <1>23, <1>t DEF PushResult, At, SetPub, Goto, Exit, git, bounds
<1>24. CASE PushDone
  BY <1>24, <1>t DEF PushDone, At, Pass, Goto, git, journal, bounds
<1>25. CASE Complete
  BY <1>25, <1>t DEF Complete, At, RollingBack, Refuse, Exit, git, journal,
      bounds, Goto
<1>26. CASE DeleteIntent
  BY <1>26, <1>t DEF DeleteIntent, At, SetPin, Goto, git, bounds
<1>27. CASE DeletePin
  BY <1>27, <1>t DEF DeletePin, At, Goto, journal, bounds
<1>28. CASE DeleteSave
  BY <1>28, <1>t DEF DeleteSave, At, Goto, SetPin, git, bounds
<1>29. CASE RepoPinsGone
  BY <1>29, <1>t DEF RepoPinsGone, At, Goto, git, bounds
<1>30. CASE Clear
  BY <1>30, <1>t DEF Clear, At, Exit, git, bounds
<1>31. CASE RecoverPreflight
  BY <1>31, <1>t DEF RecoverPreflight, Check, At, Pass, Goto, git, journal,
      bounds, Refuse, Exit
<1>32. CASE ReconcileMeta
  BY <1>32, <1>t, ZenonT(60) DEF ReconcileMeta, At, AdoptMeta, SetMeta, Goto, git, bounds,
      Pass, journal, Refuse, Exit, MetaLanded, MetaImage
<1>33. CASE ReconcileValidation
  BY <1>33, <1>t DEF ReconcileValidation, At, Refuse, Exit, git, journal,
      bounds, SetVal, Goto, Pass
<1>34. CASE ReconcileAction
  BY <1>34, <1>t DEF ReconcileAction, At, Pass, Goto, git, journal, bounds,
      AfterReconcile, Adopt, Refuse, Exit
<1>35. CASE Resume
  BY <1>35, <1>t DEF Resume, At, Pass, Goto, git, journal, bounds
<1>36. CASE RollbackPreflight
  BY <1>36, <1>t DEF RollbackPreflight, At, Refuse, Exit, git, journal,
      bounds, RollingBack, Pass, Goto, SetRollback
<1>37. CASE RollbackAction
  BY <1>37, <1>t DEF RollbackAction, At, Goto, journal, bounds, Adopt, git,
      Refuse, Exit, Pass
<1>38. CASE RollbackPreflight2
  BY <1>38, <1>t DEF RollbackPreflight2, Check, At, Pass, Goto, git, journal,
      bounds, Refuse, Exit
<1>39. CASE DetachIntent
  BY <1>39, <1>t DEF DetachIntent, At, Pass, Goto, git, journal, bounds,
      SetHold
<1>40. CASE DetachSwitch
  BY <1>40, <1>t DEF DetachSwitch, At, Goto, journal, bounds, Refuse, Exit,
      git
<1>41. CASE DetachSave
  BY <1>41, <1>t DEF DetachSave, At, Goto, SetHold, git, bounds
<1>42. CASE RefsIntent
  BY <1>42, <1>t DEF RefsIntent, At, Pass, Goto, git, journal, bounds, Refuse,
      Exit
<1>43. CASE RefsRestore
  BY <1>43, <1>t DEF RefsRestore, At, Goto, journal, bounds, Refuse, Exit, git
<1>44. CASE RefsSave
  BY <1>44, <1>t DEF RefsSave, At, Goto, SetRollback, git, bounds
<1>45. CASE RestoreMeta
  <2>1. UNCHANGED <<meta, rb, done, act>> /\ pc' # "progress" /\ rb.on
    BY <1>45
    DEF RestoreMeta, MetaRestored, SetMeta, Refuse, Pass, Goto, Exit, At, git,
        journal
  <2>2. jmeta' = jmeta \/ MetaRestored
    BY <1>45 DEF RestoreMeta, Refuse, Pass, journal
  <2>3. jmeta'.exp # UserWork /\ jmeta'.intent # UserWork
    <3>1. jmeta'.exp \in {0, jmeta.exp} /\ jmeta'.intent = jmeta.intent
      BY ONLY <2>2, <1>t DEF MetaRestored, SetMeta, MetaEntry
    <3> QED BY ONLY <3>1, RecordsAgree DEF RecordsAgree, UserWork
  <2> QED BY ONLY <2>1, <2>3, RecordsAgree DEF RecordsAgree
<1>46. CASE RestoreMetaWrite
  BY <1>46, <1>t DEF RestoreMetaWrite, At, Goto, journal, bounds
<1>47. CASE RestoreMetaSave
  BY <1>47, <1>t DEF RestoreMetaSave, At, Goto, MetaRestored, SetMeta, git,
      bounds
<1>48. CASE RestoreHolder
  BY <1>48, <1>t DEF RestoreHolder, At, Pass, Goto, git, journal, bounds,
      SetHold, Refuse, Exit
<1>49. CASE RestoreHolderSwitch
  BY <1>49, <1>t DEF RestoreHolderSwitch, At, Goto, journal, bounds
<1>50. CASE RestoreHolderSave
  BY <1>50, <1>t DEF RestoreHolderSave, At, Goto, SetHold, git, bounds
<1>51. CASE RolledBack
  BY <1>51, <1>t DEF RolledBack, At, Goto, git, bounds
<1>52. CASE Crash
  BY <1>52, <1>t DEF Crash, Exit, git, journal
<1>53. CASE UserCommit
  BY <1>53, <1>t DEF UserCommit, Interferes, journal
<1>54. CASE UserEdit
  BY <1>54, <1>t DEF UserEdit, Interferes, journal
<1>55. CASE UserResolves
  BY <1>55, <1>t DEF UserResolves, MoveTips, journal, bounds
<1>56. CASE UserCleans
  BY <1>56, <1>t DEF UserCleans, journal, bounds
<1>57. CASE Over
  BY <1>57, <1>t DEF Over, vars, git, journal, bounds
<1> QED
  BY ONLY Next, <1>1, <1>2, <1>3, <1>4, <1>5, <1>6, <1>7, <1>8, <1>9, <1>10,
      <1>11, <1>12, <1>13, <1>14, <1>15, <1>16, <1>17, <1>18, <1>19, <1>20,
      <1>21, <1>22, <1>23, <1>24, <1>25, <1>26, <1>27, <1>28, <1>29, <1>30,
      <1>31, <1>32, <1>33, <1>34, <1>35, <1>36, <1>37, <1>38, <1>39, <1>40,
      <1>41, <1>42, <1>43, <1>44, <1>45, <1>46, <1>47, <1>48, <1>49, <1>50,
      <1>51, <1>52, <1>53, <1>54, <1>55, <1>56, <1>57
  DEF Next, CommandStep, ForwardSteps, CleanupSteps, RecoverySteps,
      RollbackSteps, UserSteps

\* An entry is recorded as pushed only after its push.
LEMMA RemotesStep ==
  ASSUME TypeInv, CoreInv, Publishable, SourcesAgree, RemotesAgree, Next
  PROVE  RemotesAgree'
<1> USE DEF RemotesAgree, CoreInv, Idle, GoingForward
<1>t. /\ pub \in Publication /\ remote \in [Entries -> Contents]
  BY DEF TypeInv, TypeOK, JournalTypeOK, GitTypeOK
<1>1. CASE Birth
  BY <1>1, <1>t DEF Birth, Start, git, bounds
<1>2. CASE ContinueCommand
  BY <1>2, <1>t DEF ContinueCommand, CleanupOnly, RollingBack, Start, git,
      journal, bounds
<1>3. CASE AbortCommand
  BY <1>3, <1>t DEF AbortCommand, CleanupOnly, Start, RollingBack, git,
      journal, bounds
<1>4. CASE PinCreate
  BY <1>4, <1>t DEF PinCreate, At, Goto, journal, bounds
<1>5. CASE PinSave
  BY <1>5, <1>t DEF PinSave, At, Goto, git, bounds
<1>6. CASE PinsDone
  BY <1>6, <1>t DEF PinsDone, At, Pass, Goto, git, journal, bounds
<1>7. CASE FreezeCutoffs
  BY <1>7, <1>t DEF FreezeCutoffs, At, Goto, git, bounds
<1>8. CASE FreezeRefused
  BY <1>8, <1>t DEF FreezeRefused, At, RollingBack, Goto, git, bounds, Refuse,
      Exit, journal
<1>9. CASE SnapshotReady
  BY <1>9, <1>t DEF SnapshotReady, At, Goto, git, bounds
<1>10. CASE BeginAction
  BY <1>10, <1>t DEF BeginAction, At, Goto, bounds, Refuse, Exit, git, journal
<1>11. CASE Rebase
  BY <1>11, <1>t DEF Rebase, At, Goto, MoveTips, journal, bounds
<1>12. CASE Observe
  BY <1>12, <1>t DEF Observe, At, Adopt, Exit, Goto, git, bounds, Refuse,
      journal
<1>13. CASE BeginValidation
  BY <1>13, <1>t DEF BeginValidation, At, Goto, SetVal, git, bounds, Refuse,
      Exit, journal
<1>14. CASE Validator
  BY <1>14, <1>t DEF Validator, At, Goto, journal, bounds
<1>15. CASE EndValidation
  BY <1>15, <1>t DEF EndValidation, At, SetVal, Goto, Exit, git, bounds
<1>16. CASE MetaIntent
  BY <1>16, <1>t DEF MetaIntent, At, AdoptMeta, SetMeta, Goto, git, bounds,
      Refuse, Exit, journal, Pass
<1>17. CASE MetaWrite
  BY <1>17, <1>t DEF MetaWrite, At, Goto, journal, bounds
<1>18. CASE MetaCheck
  BY <1>18, <1>t DEF MetaCheck, At, AdoptMeta, SetMeta, Goto, git, bounds,
      Refuse, Exit, journal
<1>19. CASE Progress
  BY <1>19, <1>t DEF Progress, At, Goto, git, bounds
<1>20. CASE ForwardDone
  BY <1>20, <1>t DEF ForwardDone, At, Pass, Goto, git, journal, bounds
<1>21. CASE BeginPublication
  <2>1. pc = "push" /\ UNCHANGED remote /\ pc' \notin {"pushResult", "complete"}
    BY <1>21 DEF BeginPublication, Refuse, Goto, Exit, At, git
  <2>2. pub'.ok = pub.ok
    BY <1>21, <1>t
    DEF BeginPublication, SetPub, Publishing, Refuse, Publication, journal
  <2> QED BY ONLY <2>1, <2>2, RemotesAgree DEF RemotesAgree
<1>22. CASE Network
  <2>1. /\ UNCHANGED <<pub, completion>> /\ pc = "network" /\ pc' = "pushResult"
        /\ pub.cur \in Entries
    BY <1>22 DEF Network, Goto, At, journal, TypeInv, TargetsOK
  <2>2. pub.src[pub.cur] # Nothing
    BY <2>1, EntriesPositive DEF SourcesAgree
  <2>3. \/ remote' = [remote EXCEPT ![pub.cur] = pub.src[pub.cur]]
        \/ UNCHANGED remote /\ res' = "err"
    BY <1>22 DEF Network
  <2>4. \A e \in Entries : remote[e] # Nothing => remote'[e] # Nothing
    BY ONLY <1>t, <2>1, <2>2, <2>3
  <2>5. res' = "ok" => remote'[pub.cur] # Nothing
    BY ONLY <1>t, <2>1, <2>2, <2>3
  <2>6. pub.ok \subseteq Entries
    BY <1>t DEF Publication
  <2> QED BY ONLY <2>1, <2>4, <2>5, <2>6, RemotesAgree DEF RemotesAgree
<1>23. CASE PushResult
  <2>1. pc = "pushResult" /\ UNCHANGED remote /\ pc' \in {"push", "idle"}
    BY <1>23 DEF PushResult, Goto, Exit, At, git
  <2>2. \A e \in pub'.ok : e \in pub.ok \/ (res = "ok" /\ e = pub.cur)
    BY <1>23, <1>t DEF PushResult, SetPub, Publication
  <2> QED BY ONLY <2>1, <2>2, RemotesAgree DEF RemotesAgree
<1>24. CASE PushDone
  BY <1>24, <1>t DEF PushDone, At, Pass, Goto, git, journal, bounds
<1>25. CASE Complete
  BY <1>25, <1>t DEF Complete, At, RollingBack, Refuse, Exit, git, journal,
      bounds, Goto
<1>26. CASE DeleteIntent
  BY <1>26, <1>t DEF DeleteIntent, At, SetPin, Goto, git, bounds
<1>27. CASE DeletePin
  BY <1>27, <1>t DEF DeletePin, At, Goto, journal, bounds
<1>28. CASE DeleteSave
  BY <1>28, <1>t DEF DeleteSave, At, Goto, SetPin, git, bounds
<1>29. CASE RepoPinsGone
  BY <1>29, <1>t DEF RepoPinsGone, At, Goto, git, bounds
<1>30. CASE Clear
  BY <1>30, <1>t DEF Clear, At, Exit, git, bounds
<1>31. CASE RecoverPreflight
  BY <1>31, <1>t DEF RecoverPreflight, Check, At, Pass, Goto, git, journal,
      bounds, Refuse, Exit
<1>32. CASE ReconcileMeta
  BY <1>32, <1>t DEF ReconcileMeta, At, AdoptMeta, SetMeta, Goto, git, bounds,
      Pass, journal, Refuse, Exit
<1>33. CASE ReconcileValidation
  BY <1>33, <1>t DEF ReconcileValidation, At, Refuse, Exit, git, journal,
      bounds, SetVal, Goto, Pass
<1>34. CASE ReconcileAction
  BY <1>34, <1>t DEF ReconcileAction, At, Pass, Goto, git, journal, bounds,
      AfterReconcile, Adopt, Refuse, Exit
<1>35. CASE Resume
  BY <1>35, <1>t DEF Resume, At, Pass, Goto, git, journal, bounds
<1>36. CASE RollbackPreflight
  BY <1>36, <1>t DEF RollbackPreflight, At, Refuse, Exit, git, journal,
      bounds, RollingBack, Pass, Goto, SetRollback
<1>37. CASE RollbackAction
  BY <1>37, <1>t DEF RollbackAction, At, Goto, journal, bounds, Adopt, git,
      Refuse, Exit, Pass
<1>38. CASE RollbackPreflight2
  BY <1>38, <1>t DEF RollbackPreflight2, Check, At, Pass, Goto, git, journal,
      bounds, Refuse, Exit
<1>39. CASE DetachIntent
  BY <1>39, <1>t DEF DetachIntent, At, Pass, Goto, git, journal, bounds,
      SetHold
<1>40. CASE DetachSwitch
  BY <1>40, <1>t DEF DetachSwitch, At, Goto, journal, bounds, Refuse, Exit,
      git
<1>41. CASE DetachSave
  BY <1>41, <1>t DEF DetachSave, At, Goto, SetHold, git, bounds
<1>42. CASE RefsIntent
  BY <1>42, <1>t DEF RefsIntent, At, Pass, Goto, git, journal, bounds, Refuse,
      Exit
<1>43. CASE RefsRestore
  BY <1>43, <1>t DEF RefsRestore, At, Goto, journal, bounds, Refuse, Exit, git
<1>44. CASE RefsSave
  BY <1>44, <1>t DEF RefsSave, At, Goto, SetRollback, git, bounds
<1>45. CASE RestoreMeta
  BY <1>45, <1>t DEF RestoreMeta, At, MetaRestored, SetMeta, Goto, git,
      bounds, Pass, journal, Refuse, Exit
<1>46. CASE RestoreMetaWrite
  BY <1>46, <1>t DEF RestoreMetaWrite, At, Goto, journal, bounds
<1>47. CASE RestoreMetaSave
  BY <1>47, <1>t DEF RestoreMetaSave, At, Goto, MetaRestored, SetMeta, git,
      bounds
<1>48. CASE RestoreHolder
  BY <1>48, <1>t DEF RestoreHolder, At, Pass, Goto, git, journal, bounds,
      SetHold, Refuse, Exit
<1>49. CASE RestoreHolderSwitch
  BY <1>49, <1>t DEF RestoreHolderSwitch, At, Goto, journal, bounds
<1>50. CASE RestoreHolderSave
  BY <1>50, <1>t DEF RestoreHolderSave, At, Goto, SetHold, git, bounds
<1>51. CASE RolledBack
  BY <1>51, <1>t DEF RolledBack, At, Goto, git, bounds
<1>52. CASE Crash
  BY <1>52, <1>t DEF Crash, Exit, git, journal
<1>53. CASE UserCommit
  BY <1>53, <1>t DEF UserCommit, Interferes, journal
<1>54. CASE UserEdit
  BY <1>54, <1>t DEF UserEdit, Interferes, journal
<1>55. CASE UserResolves
  BY <1>55, <1>t DEF UserResolves, MoveTips, journal, bounds
<1>56. CASE UserCleans
  BY <1>56, <1>t DEF UserCleans, journal, bounds
<1>57. CASE Over
  BY <1>57, <1>t DEF Over, vars, git, journal, bounds
<1> QED
  BY ONLY Next, <1>1, <1>2, <1>3, <1>4, <1>5, <1>6, <1>7, <1>8, <1>9, <1>10,
      <1>11, <1>12, <1>13, <1>14, <1>15, <1>16, <1>17, <1>18, <1>19, <1>20,
      <1>21, <1>22, <1>23, <1>24, <1>25, <1>26, <1>27, <1>28, <1>29, <1>30,
      <1>31, <1>32, <1>33, <1>34, <1>35, <1>36, <1>37, <1>38, <1>39, <1>40,
      <1>41, <1>42, <1>43, <1>44, <1>45, <1>46, <1>47, <1>48, <1>49, <1>50,
      <1>51, <1>52, <1>53, <1>54, <1>55, <1>56, <1>57
  DEF Next, CommandStep, ForwardSteps, CleanupSteps, RecoverySteps,
      RollbackSteps, UserSteps

LEMMA AgreementInit == Init => RecordsAgree /\ RemotesAgree
  <1> SUFFICES ASSUME Init PROVE RecordsAgree /\ RemotesAgree
    OBVIOUS
  <1>1. meta = 0 /\ jmeta.exp = 0 /\ jmeta.intent = Nothing /\ ~rb.on /\ done = 0
        /\ pc = "idle" /\ ~pub.durable /\ pub.ok = {}
    BY DEF Init
  <1>2. RecordsAgree
    BY ONLY <1>1 DEF RecordsAgree, UserWork, Nothing
  <1>3. RemotesAgree
    BY ONLY <1>1 DEF RemotesAgree
  <1> QED BY <1>2, <1>3

\* What holds of stack.yaml and of the remotes even if the file is edited
\* under tws's hands.
LEMMA AgreementInvariant == Spec => [](RecordsAgree /\ RemotesAgree)
  <1>1. Init => RecordsAgree /\ RemotesAgree
    BY AgreementInit
  <1>2. TypeInv /\ CoreInv /\ ProgressInv /\ EffectInv
        /\ RecordsAgree /\ RemotesAgree /\ [Next]_vars
          => (RecordsAgree /\ RemotesAgree)'
    <2> SUFFICES ASSUME TypeInv, CoreInv, ProgressInv, EffectInv,
                        RecordsAgree, RemotesAgree, [Next]_vars
                 PROVE  (RecordsAgree /\ RemotesAgree)'
      OBVIOUS
    <2>1. CASE Next
      BY <2>1, RecordsStep, RemotesStep
      DEF ProgressInv, JournalReadable, EffectInv
    <2>2. CASE UNCHANGED vars
      BY <2>2 DEF vars, git, journal, RecordsAgree, RemotesAgree
    <2> QED BY <2>1, <2>2
  <1> QED
    BY <1>1, <1>2, TypeInvariant, CoreInvariant, ProgressInvariant,
       EffectInvariant, PTL
    DEF Spec
-----------------------------------------------------------------------------
(* The journal never takes a worktree over from somebody else.              *)

LEMMA HoldersKept ==
  ASSUME ForeignHolders, UNCHANGED <<jhold, wt, head>> PROVE ForeignHolders'
  BY DEF ForeignHolders

\* Adoption never takes a worktree somebody else moved.
LEMMA AdoptHolders ==
  ASSUME TypeOK, ForeignTips, ForeignHolders, Attributable, NEW s, Adopt(s),
         UNCHANGED git
  PROVE  ForeignHolders'
  <1>1. UNCHANGED <<wt, head, ref>>
    BY DEF git
  <1> SUFFICES ASSUME NEW e \in Entries PROVE jhold'[e].exp[2] # UserWork
    BY <1>1 DEF ForeignHolders
  <1>2. jhold \in [Entries -> HoldEntry]
    BY DEF TypeOK, JournalTypeOK
  <1>3. CASE RepoOf[e] # RepoOf[act.entry] \/ Pos(e) = jhold[e].exp
    <2>1. jhold'[e].exp = jhold[e].exp
      BY ONLY <1>2, <1>3, Adopt(s) DEF Adopt, HoldEntry
    <2> QED BY <2>1 DEF ForeignHolders
  <1>4. CASE RepoOf[e] = RepoOf[act.entry] /\ Pos(e) # jhold[e].exp
    <2>1. e \in Refs /\ e \in RefsIn(RepoOf[act.entry])
      BY <1>4 DEF Refs, RefsIn
    <2>2. e = act.entry /\ wt[e] = "branch"
      BY <1>4, <2>1 DEF Attributable
    <2>3. ref[e] # UserWork
      BY <2>1 DEF Attributable, ForeignTips
    <2>4. jhold'[e].exp = Pos(e)
      BY ONLY <1>2, <1>4, Adopt(s) DEF Adopt, HoldEntry
    <2>5. jhold'[e].exp = <<"branch", ref[e]>>
      BY ONLY <2>2, <2>4 DEF Pos
    <2> QED BY <2>3, <2>5
  <1> QED BY <1>3, <1>4

\* The journal never expects a worktree where somebody else put it.
LEMMA ForeignHoldersStep ==
  ASSUME TypeOK, ForeignTips, ForeignHolders, Next PROVE ForeignHolders'
<1>t. jhold \in [Entries -> HoldEntry] /\ head \in [Entries -> Commits]
      /\ wt \in [Entries -> {"branch", "detached", "rebasing"}]
  BY DEF TypeOK, GitTypeOK, JournalTypeOK
<1>o. ForeignHolders /\ TypeOK /\ ForeignTips
  OBVIOUS
<1>1. CASE Birth
  BY <1>1, HoldersKept DEF Birth, git
<1>2. CASE ContinueCommand
  BY <1>2, HoldersKept DEF ContinueCommand, git, journal
<1>3. CASE AbortCommand
  BY <1>3, HoldersKept DEF AbortCommand, git, journal
<1>4. CASE PinCreate
  BY <1>4, HoldersKept DEF PinCreate, journal
<1>5. CASE PinSave
  BY <1>5, HoldersKept DEF PinSave, git
<1>6. CASE PinsDone
  BY <1>6, HoldersKept DEF PinsDone, Pass, git, journal
<1>7. CASE FreezeCutoffs
  BY <1>7, HoldersKept DEF FreezeCutoffs, git
<1>8. CASE FreezeRefused
  BY <1>8, HoldersKept DEF FreezeRefused, git, Refuse, journal
<1>9. CASE SnapshotReady
  BY <1>9, HoldersKept DEF SnapshotReady, git
<1>10. CASE BeginAction
  BY <1>10, HoldersKept DEF BeginAction, Refuse, git, journal
<1>11. CASE Rebase
  BY <1>11, <1>o, <1>t DEF ForeignHolders, Rebase, journal, git, Refuse, UserWork
<1>12. CASE Observe
  BY <1>12, HoldersKept, AdoptHolders, <1>o DEF Observe, Refuse, Pass, git,
      journal
<1>13. CASE BeginValidation
  BY <1>13, HoldersKept DEF BeginValidation, SetVal, git, Refuse, journal
<1>14. CASE Validator
  BY <1>14, HoldersKept DEF Validator, journal
<1>15. CASE EndValidation
  BY <1>15, HoldersKept DEF EndValidation, SetVal, git
<1>16. CASE MetaIntent
  BY <1>16, HoldersKept DEF MetaIntent, AdoptMeta, SetMeta, git, Refuse,
      journal, Pass
<1>17. CASE MetaWrite
  BY <1>17, HoldersKept DEF MetaWrite, journal
<1>18. CASE MetaCheck
  BY <1>18, HoldersKept DEF MetaCheck, AdoptMeta, SetMeta, git, Refuse,
      journal
<1>19. CASE Progress
  BY <1>19, HoldersKept DEF Progress, git
<1>20. CASE ForwardDone
  BY <1>20, HoldersKept DEF ForwardDone, Pass, git, journal
<1>21. CASE BeginPublication
  BY <1>21, HoldersKept DEF BeginPublication, SetPub, git, Refuse, journal
<1>22. CASE Network
  BY <1>22, HoldersKept DEF Network, journal
<1>23. CASE PushResult
  BY <1>23, HoldersKept DEF PushResult, SetPub, git
<1>24. CASE PushDone
  BY <1>24, HoldersKept DEF PushDone, Pass, git, journal
<1>25. CASE Complete
  BY <1>25, HoldersKept DEF Complete, Refuse, git, journal
<1>26. CASE DeleteIntent
  BY <1>26, HoldersKept DEF DeleteIntent, SetPin, git
<1>27. CASE DeletePin
  BY <1>27, HoldersKept DEF DeletePin, journal
<1>28. CASE DeleteSave
  BY <1>28, HoldersKept DEF DeleteSave, SetPin, git
<1>29. CASE RepoPinsGone
  BY <1>29, HoldersKept DEF RepoPinsGone, git
<1>30. CASE Clear
  BY <1>30, HoldersKept DEF Clear, git
<1>31. CASE RecoverPreflight
  BY <1>31, HoldersKept DEF RecoverPreflight, Check, Pass, git, journal,
      Refuse
<1>32. CASE ReconcileMeta
  BY <1>32, HoldersKept DEF ReconcileMeta, AdoptMeta, SetMeta, git, Pass,
      journal, Refuse
<1>33. CASE ReconcileValidation
  BY <1>33, HoldersKept DEF ReconcileValidation, Refuse, git, journal, SetVal,
      Pass
<1>34. CASE ReconcileAction
  BY <1>34, HoldersKept, AdoptHolders, <1>o DEF ReconcileAction, Refuse, Pass,
      git, journal
<1>35. CASE Resume
  BY <1>35, HoldersKept DEF Resume, Pass, git, journal
<1>36. CASE RollbackPreflight
  BY <1>36, HoldersKept DEF RollbackPreflight, Refuse, git, journal, Pass,
      SetRollback
<1>37. CASE RollbackAction
  <2>1. CASE ActiveRebase
    <3>1. /\ UNCHANGED jhold /\ wt' = [wt EXCEPT ![act.entry] = "branch"]
          /\ head' = [head EXCEPT ![act.entry] = 0]
      BY <1>37, <2>1 DEF RollbackAction, ActiveRebase, journal
    <3> QED BY ONLY <3>1, <1>t, <1>o DEF ForeignHolders, UserWork
  <2>2. CASE ~ActiveRebase
    BY <1>37, <2>2, <1>o, HoldersKept, AdoptHolders
    DEF RollbackAction, Refuse, Pass, git, journal
  <2> QED BY <2>1, <2>2
<1>38. CASE RollbackPreflight2
  BY <1>38, HoldersKept DEF RollbackPreflight2, Check, Pass, git, journal,
      Refuse
<1>39. CASE DetachIntent
  BY <1>39, <1>o, <1>t DEF ForeignHolders, DetachIntent, journal, git, Pass,
      Refuse, SetHold, HoldEntry, Home, UserWork
<1>40. CASE DetachSwitch
  BY <1>40, <1>o, <1>t DEF ForeignHolders, DetachSwitch, journal, git, Refuse,
      UserWork
<1>41. CASE DetachSave
  BY <1>41, <1>o, <1>t DEF ForeignHolders, DetachSave, journal, git, Pass, Refuse,
      SetHold, HoldEntry, Home, UserWork
<1>42. CASE RefsIntent
  BY <1>42, HoldersKept DEF RefsIntent, Pass, git, journal, Refuse
<1>43. CASE RefsRestore
  BY <1>43, HoldersKept DEF RefsRestore, journal, Refuse, git
<1>44. CASE RefsSave
  BY <1>44, HoldersKept DEF RefsSave, SetRollback, git
<1>45. CASE RestoreMeta
  BY <1>45, HoldersKept DEF RestoreMeta, MetaRestored, SetMeta, git, Pass,
      journal, Refuse
<1>46. CASE RestoreMetaWrite
  BY <1>46, HoldersKept DEF RestoreMetaWrite, journal
<1>47. CASE RestoreMetaSave
  BY <1>47, HoldersKept DEF RestoreMetaSave, MetaRestored, SetMeta, git
<1>48. CASE RestoreHolder
  <2>1. UNCHANGED git
    BY <1>48 DEF RestoreHolder, SetHold, Pass, Refuse, git
  <2>2. \/ UNCHANGED jhold
        \/ \E e \in Entries :
             jhold' = [jhold EXCEPT ![e] = [jhold[e] EXCEPT !.exp = Home,
                                                            !.rest = TRUE]]
    <3>1. CASE \E e \in Entries :
             SetHold(e, [jhold[e] EXCEPT !.exp = Home, !.rest = TRUE])
      BY ONLY <3>1 DEF SetHold
    <3> QED BY <1>48, <3>1 DEF RestoreHolder, Pass, Refuse, journal
  <2>3. \A e \in Entries : jhold'[e].exp = Home \/ jhold'[e].exp = jhold[e].exp
    BY ONLY <2>2, <1>t DEF HoldEntry
  <2>4. Home[2] # UserWork
    BY DEF Home, UserWork
  <2> QED BY <2>1, <2>3, <2>4 DEF ForeignHolders, git
<1>49. CASE RestoreHolderSwitch
  BY <1>49, <1>o, <1>t DEF ForeignHolders, RestoreHolderSwitch, journal, git,
      Refuse, UserWork
<1>50. CASE RestoreHolderSave
  BY <1>50, <1>o, <1>t DEF ForeignHolders, RestoreHolderSave, journal, git, Pass,
      Refuse, SetHold, HoldEntry, Home, UserWork
<1>51. CASE RolledBack
  BY <1>51, HoldersKept DEF RolledBack, git
<1>52. CASE Crash
  BY <1>52, HoldersKept DEF Crash, git, journal
<1>53. CASE UserCommit
  BY <1>53, <1>o, <1>t DEF ForeignHolders, UserCommit, Interferes, journal, git,
      Refuse, UserWork
<1>54. CASE UserEdit
  BY <1>54, <1>o, <1>t DEF ForeignHolders, UserEdit, Interferes, journal, git,
      Refuse, UserWork
<1>55. CASE UserResolves
  BY <1>55, <1>o, <1>t DEF ForeignHolders, UserResolves, journal, git, Refuse,
      UserWork
<1>56. CASE UserCleans
  BY <1>56, HoldersKept DEF UserCleans, journal
<1>57. CASE Over
  BY <1>57, HoldersKept DEF Over, vars, git, journal
<1> QED
  BY ONLY Next, <1>1, <1>2, <1>3, <1>4, <1>5, <1>6, <1>7, <1>8, <1>9, <1>10,
      <1>11, <1>12, <1>13, <1>14, <1>15, <1>16, <1>17, <1>18, <1>19, <1>20,
      <1>21, <1>22, <1>23, <1>24, <1>25, <1>26, <1>27, <1>28, <1>29, <1>30,
      <1>31, <1>32, <1>33, <1>34, <1>35, <1>36, <1>37, <1>38, <1>39, <1>40,
      <1>41, <1>42, <1>43, <1>44, <1>45, <1>46, <1>47, <1>48, <1>49, <1>50,
      <1>51, <1>52, <1>53, <1>54, <1>55, <1>56, <1>57
  DEF Next, CommandStep, ForwardSteps, CleanupSteps, RecoverySteps,
      RollbackSteps, UserSteps

\* What a command has checked stays as it was, if people wait for it.
LEMMA UndisturbedStep ==
  ASSUME TypeOK, CoreInv, ForeignTips, RebaseConfined, ForeignHolders,
         Undisturbed, ~Concurrent, Next PROVE Undisturbed'
<1> USE DEF Undisturbed, CoreInv, Idle, RefsLabels, LateLabels
<1>u. UNCHANGED <<ref, wt, head>> => \A e \in Entries : Pos(e)' = Pos(e)
  BY DEF Pos
<1>p. \A e \in Entries :
        Pos(e)'[2] = IF wt'[e] = "branch" THEN ref'[e] ELSE head'[e]
  BY DEF Pos
<1>o. CoreInv /\ ForeignTips /\ ForeignHolders /\ Undisturbed
  OBVIOUS
<1>t. /\ ref \in [Refs -> Commits] /\ wt \in [Entries -> {"branch", "detached", "rebasing"}]
      /\ head \in [Entries -> Commits] /\ jhold \in [Entries -> HoldEntry]
  BY DEF TypeOK, GitTypeOK, JournalTypeOK
<1>1. CASE Birth
  BY <1>1, <1>u, <1>o DEF Birth, Start, git, bounds
<1>2. CASE ContinueCommand
  BY <1>2, <1>u, <1>o DEF ContinueCommand, CleanupOnly, RollingBack, Start,
      git, journal, bounds
<1>3. CASE AbortCommand
  BY <1>3, <1>u, <1>o DEF AbortCommand, CleanupOnly, Start, RollingBack, git,
      journal, bounds
<1>4. CASE PinCreate
  BY <1>4, <1>u, <1>o DEF PinCreate, At, Goto, journal, bounds
<1>5. CASE PinSave
  BY <1>5, <1>u, <1>o DEF PinSave, At, Goto, git, bounds
<1>6. CASE PinsDone
  BY <1>6, <1>u, <1>o DEF PinsDone, At, Pass, Goto, git, journal, bounds
<1>7. CASE FreezeCutoffs
  BY <1>7, <1>u, <1>o DEF FreezeCutoffs, At, Goto, git, bounds
<1>8. CASE FreezeRefused
  BY <1>8, <1>u, <1>o DEF FreezeRefused, At, RollingBack, Goto, git, bounds,
      Refuse, Exit, journal
<1>9. CASE SnapshotReady
  BY <1>9, <1>u, <1>o DEF SnapshotReady, At, Goto, git, bounds
<1>10. CASE BeginAction
  <2>1. UNCHANGED <<ref, jref>> /\ (pc' = "rebase" => act'.entry = done + 1 /\
            Images(RepoOf[done + 1]))
        /\ pc' \in {"rebase", "idle"} /\ done < N
    BY <1>10 DEF BeginAction, Goto, Refuse, Exit, git, journal
  <2>2. done \in 0..N
    BY DEF TypeOK, JournalTypeOK
  <2>3. done + 1 \in Entries
    BY ONLY <2>1, <2>2, BoundsAreNaturals DEF Entries
  <2>4. Images(RepoOf[done + 1]) => ref[done + 1] = jref[done + 1].exp
    BY <2>3 DEF Images, RefImage, RefsIn, Refs
  <2>5. pc' = "rebase" => ref'[act'.entry] # UserWork
    BY <2>1, <2>3, <2>4 DEF ForeignTips, Refs
  <2> QED BY <2>1, <2>5
<1>11. CASE Rebase
  BY <1>11, <1>u, <1>o DEF Rebase, At, Goto, journal, bounds
<1>12. CASE Observe
  BY <1>12, <1>u, <1>o DEF Observe, At, Exit, Goto, git, bounds, Refuse,
      journal
<1>13. CASE BeginValidation
  BY <1>13, <1>u, <1>o DEF BeginValidation, At, Goto, git, bounds, Refuse,
      Exit, journal
<1>14. CASE Validator
  BY <1>14, <1>u, <1>o DEF Validator, At, Goto, journal, bounds
<1>15. CASE EndValidation
  BY <1>15, <1>u, <1>o DEF EndValidation, At, Goto, Exit, git, bounds
<1>16. CASE MetaIntent
  BY <1>16, <1>u, <1>o DEF MetaIntent, At, Goto, git, bounds, Refuse, Exit,
      journal, Pass
<1>17. CASE MetaWrite
  BY <1>17, <1>u, <1>o DEF MetaWrite, At, Goto, journal, bounds
<1>18. CASE MetaCheck
  BY <1>18, <1>u, <1>o DEF MetaCheck, At, Goto, git, bounds, Refuse, Exit,
      journal
<1>19. CASE Progress
  BY <1>19, <1>u, <1>o DEF Progress, At, Goto, git, bounds
<1>20. CASE ForwardDone
  BY <1>20, <1>u, <1>o DEF ForwardDone, At, Pass, Goto, git, journal, bounds
<1>21. CASE BeginPublication
  BY <1>21, <1>u, <1>o DEF BeginPublication, At, Goto, git, bounds, Refuse,
      Exit, journal
<1>22. CASE Network
  BY <1>22, <1>u, <1>o DEF Network, At, Goto, journal, bounds
<1>23. CASE PushResult
  BY <1>23, <1>u, <1>o DEF PushResult, At, Goto, Exit, git, bounds
<1>24. CASE PushDone
  BY <1>24, <1>u, <1>o DEF PushDone, At, Pass, Goto, git, journal, bounds
<1>25. CASE Complete
  BY <1>25, <1>u, <1>o DEF Complete, At, RollingBack, Refuse, Exit, git,
      journal, bounds, Goto
<1>26. CASE DeleteIntent
  BY <1>26, <1>u, <1>o DEF DeleteIntent, At, Goto, git, bounds
<1>27. CASE DeletePin
  BY <1>27, <1>u, <1>o DEF DeletePin, At, Goto, journal, bounds
<1>28. CASE DeleteSave
  BY <1>28, <1>u, <1>o DEF DeleteSave, At, Goto, git, bounds
<1>29. CASE RepoPinsGone
  BY <1>29, <1>u, <1>o DEF RepoPinsGone, At, Goto, git, bounds
<1>30. CASE Clear
  BY <1>30, <1>u, <1>o DEF Clear, At, Exit, git, bounds
<1>31. CASE RecoverPreflight
  BY <1>31, <1>u, <1>o DEF RecoverPreflight, Check, At, Pass, Goto, git,
      journal, bounds, Refuse, Exit
<1>32. CASE ReconcileMeta
  BY <1>32, <1>u, <1>o DEF ReconcileMeta, At, Goto, git, bounds, Pass,
      journal, Refuse, Exit
<1>33. CASE ReconcileValidation
  BY <1>33, <1>u, <1>o DEF ReconcileValidation, At, Refuse, Exit, git,
      journal, bounds, Goto, Pass
<1>34. CASE ReconcileAction
  BY <1>34, <1>u, <1>o DEF ReconcileAction, At, Pass, Goto, git, journal,
      bounds, AfterReconcile, Refuse, Exit
<1>35. CASE Resume
  BY <1>35, <1>u, <1>o DEF Resume, At, Pass, Goto, git, journal, bounds
<1>36. CASE RollbackPreflight
  BY <1>36, <1>u, <1>o DEF RollbackPreflight, At, Refuse, Exit, git, journal,
      bounds, RollingBack, Pass, Goto
<1>37. CASE RollbackAction
  BY <1>37, <1>u, <1>o DEF RollbackAction, At, Goto, journal, bounds, git,
      Refuse, Exit, Pass
<1>38. CASE RollbackPreflight2
  <2>1. CASE Preflight /\ UNCHANGED git
    <3>1. NobodyRebasing
      BY <1>38 DEF RollbackPreflight2, Check, At, GoingBack, NobodyRebasing,
          RebaseConfined, Pending
    <3>2. \A r \in Refs : ref[r] # UserWork
      BY <2>1 DEF Preflight, ForeignTips, UserWork
    <3>3. \A e \in Entries : Pos(e)[2] # UserWork
      <4> SUFFICES ASSUME NEW e \in Entries PROVE Pos(e)[2] # UserWork
        OBVIOUS
      <4>1. CASE wt[e] = "branch"
        BY <3>2, <4>1 DEF Pos, Refs
      <4>2. CASE wt[e] # "branch"
        <5>1. Pos(e) = <<"detached", head[e]>> /\ wt[e] # "rebasing"
          BY <3>1, <4>2 DEF Pos, NobodyRebasing
        <5>2. \/ Pos(e) \in {jhold[e].exp, <<"branch", 0>>}
              \/ head[e] = jhold[e].exp[2]
          BY <2>1, <3>1, <5>1 DEF Preflight, NobodyRebasing, ActiveRebase
        <5> QED BY <5>1, <5>2 DEF ForeignHolders
      <4> QED BY <4>1, <4>2
    <3>4. UNCHANGED <<ref, wt, head>> /\ pc' # "rebase"
      BY <1>38, <2>1 DEF RollbackPreflight2, Check, Pass, Goto, Refuse, Exit, git
    <3> QED BY <3>2, <3>3, <3>4, <1>u
  <2>2. CASE pc' = "idle"
    BY <2>2
  <2> QED BY <1>38, <2>1, <2>2 DEF RollbackPreflight2, Check, Pass, Refuse, Exit
<1>39. CASE DetachIntent
  BY <1>39, <1>u, <1>o DEF DetachIntent, At, Pass, Goto, git, journal, bounds
<1>40. CASE DetachSwitch
  <2>1. CASE UNCHANGED git
    BY <1>40, <2>1, <1>u DEF DetachSwitch, At, Goto, Refuse, Exit, git, journal
  <2>2. CASE ~UNCHANGED git
    <3>1. /\ UNCHANGED ref /\ wt' = [wt EXCEPT ![sel] = "detached"]
          /\ head' = [head EXCEPT ![sel] = jhold[sel].exp[2]]
          /\ pc = "rbSwitch" /\ pc' = "rbDetSave"
      BY <1>40, <2>2 DEF DetachSwitch, At, Goto, Refuse
    <3>2. \A e \in Entries : Pos(e)'[2] # UserWork
      <4> SUFFICES ASSUME NEW e \in Entries PROVE Pos(e)'[2] # UserWork
        OBVIOUS
      <4>1. Pos(e)'[2] = IF wt'[e] = "branch" THEN ref'[e] ELSE head'[e]
        BY <1>p
      <4>2. CASE e = sel
        <5>1. Pos(e)'[2] = jhold[e].exp[2]
          BY ONLY <3>1, <1>t, <4>1, <4>2
        <5> QED BY <5>1 DEF ForeignHolders
      <4>3. CASE e # sel
        <5>1. Pos(e)'[2] = Pos(e)[2]
          BY ONLY <3>1, <1>t, <4>1, <4>3 DEF Pos
        <5>2. Pos(e)[2] # UserWork
          BY <3>1
        <5> QED BY <5>1, <5>2
      <4> QED BY <4>2, <4>3
    <3> QED BY <3>1, <3>2
  <2> QED BY <2>1, <2>2
<1>41. CASE DetachSave
  BY <1>41, <1>u, <1>o DEF DetachSave, At, Goto, git, bounds
<1>42. CASE RefsIntent
  BY <1>42, <1>u, <1>o DEF RefsIntent, At, Pass, Goto, git, journal, bounds,
      Refuse, Exit
<1>43. CASE RefsRestore
  <2>1. CASE UNCHANGED git
    BY <1>43, <2>1, <1>u DEF RefsRestore, At, Goto, Refuse, Exit, git, journal
  <2>2. CASE ~UNCHANGED git
    <3>1. /\ UNCHANGED <<wt, head>> /\ pc = "rbCas" /\ pc' = "rbCasSave"
          /\ \A r \in Refs : ref'[r] \in {0, ref[r]}
      BY <1>43, <2>2, <1>t DEF RefsRestore, At, Goto, Refuse
    <3>2. \A e \in Entries : Pos(e)'[2] # UserWork
      <4> SUFFICES ASSUME NEW e \in Entries PROVE Pos(e)'[2] # UserWork
        OBVIOUS
      <4>1. Pos(e)'[2] \in {0, Pos(e)[2]}
        BY ONLY <3>1, e \in Entries DEF Pos, Refs
      <4>2. Pos(e)[2] # UserWork
        BY <3>1
      <4> QED BY ONLY <4>1, <4>2 DEF UserWork
    <3> QED BY <3>1, <3>2 DEF UserWork
  <2> QED BY <2>1, <2>2
<1>44. CASE RefsSave
  BY <1>44, <1>u, <1>o DEF RefsSave, At, Goto, git, bounds
<1>45. CASE RestoreMeta
  BY <1>45, <1>u, <1>o DEF RestoreMeta, At, Goto, git, bounds, Pass, journal,
      Refuse, Exit
<1>46. CASE RestoreMetaWrite
  BY <1>46, <1>u, <1>o DEF RestoreMetaWrite, At, Goto, journal, bounds
<1>47. CASE RestoreMetaSave
  BY <1>47, <1>u, <1>o DEF RestoreMetaSave, At, Goto, git, bounds
<1>48. CASE RestoreHolder
  BY <1>48, <1>u, <1>o DEF RestoreHolder, At, Pass, Goto, git, journal,
      bounds, Refuse, Exit
<1>49. CASE RestoreHolderSwitch
  <2>1. /\ UNCHANGED ref /\ wt' = [wt EXCEPT ![sel] = "branch"]
        /\ head' = [head EXCEPT ![sel] = 0]
        /\ pc = "rbHoldSwitch" /\ pc' = "rbHoldSave"
    BY <1>49 DEF RestoreHolderSwitch, At, Goto
  <2>2. \A e \in Entries : Pos(e)'[2] # UserWork
    <3> SUFFICES ASSUME NEW e \in Entries PROVE Pos(e)'[2] # UserWork
      OBVIOUS
    <3>1. Pos(e)'[2] = IF wt'[e] = "branch" THEN ref'[e] ELSE head'[e]
      BY <1>p
    <3>2. Pos(e)'[2] = ref[e] \/ Pos(e)'[2] = Pos(e)[2]
      BY ONLY <2>1, <1>t, <3>1 DEF Pos
    <3>3. Pos(e)[2] # UserWork /\ ref[e] # UserWork
      BY <2>1 DEF Refs
    <3> QED BY ONLY <3>2, <3>3
  <2> QED BY <2>1, <2>2
<1>50. CASE RestoreHolderSave
  BY <1>50, <1>u, <1>o DEF RestoreHolderSave, At, Goto, git, bounds
<1>51. CASE RolledBack
  BY <1>51, <1>u, <1>o DEF RolledBack, At, Goto, git, bounds
<1>52. CASE Crash
  BY <1>52, <1>u, <1>o DEF Crash, Exit, git, journal
<1>53. CASE UserCommit
  BY <1>53, <1>u, <1>o DEF UserCommit, Interferes, journal
<1>54. CASE UserEdit
  BY <1>54, <1>u, <1>o DEF UserEdit, Interferes, journal
<1>55. CASE UserResolves
  BY <1>55, <1>u, <1>o DEF UserResolves, journal, bounds
<1>56. CASE UserCleans
  BY <1>56, <1>u, <1>o DEF UserCleans, journal, bounds
<1>57. CASE Over
  BY <1>57, <1>u, <1>o DEF Over, vars, git, journal, bounds
<1> QED
  BY ONLY Next, <1>1, <1>2, <1>3, <1>4, <1>5, <1>6, <1>7, <1>8, <1>9, <1>10,
      <1>11, <1>12, <1>13, <1>14, <1>15, <1>16, <1>17, <1>18, <1>19, <1>20,
      <1>21, <1>22, <1>23, <1>24, <1>25, <1>26, <1>27, <1>28, <1>29, <1>30,
      <1>31, <1>32, <1>33, <1>34, <1>35, <1>36, <1>37, <1>38, <1>39, <1>40,
      <1>41, <1>42, <1>43, <1>44, <1>45, <1>46, <1>47, <1>48, <1>49, <1>50,
      <1>51, <1>52, <1>53, <1>54, <1>55, <1>56, <1>57
  DEF Next, CommandStep, ForwardSteps, CleanupSteps, RecoverySteps,
      RollbackSteps, UserSteps

\* HolderInv is an invariant.
THEOREM HolderInvariant == Spec => []HolderInv
  <1>1. Init => HolderInv
    <2> SUFFICES ASSUME Init PROVE HolderInv
      OBVIOUS
    <2>1. \A e \in Entries : jhold[e].exp = <<"branch", 0>> /\ wt[e] = "branch"
      BY DEF Init
    <2>2. \A e \in Entries : jhold[e].exp[2] = 0
      BY <2>1
    <2>3. ForeignHolders
      BY ONLY <2>1, <2>2 DEF ForeignHolders, UserWork
    <2>4. pc = "idle"
      BY DEF Init
    <2>5. Undisturbed
      BY <2>4 DEF Undisturbed, RefsLabels, LateLabels
    <2> QED BY <2>3, <2>5 DEF HolderInv
  <1>2. TypeInv /\ CoreInv /\ ForeignTips /\ EffectInv /\ HolderInv
        /\ [Next]_vars => HolderInv'
    <2> SUFFICES ASSUME TypeInv, CoreInv, ForeignTips, EffectInv, HolderInv,
                        [Next]_vars
                 PROVE  HolderInv'
      OBVIOUS
    <2>1. CASE Next
      <3>1. ForeignHolders'
        BY <2>1, ForeignHoldersStep DEF TypeInv, HolderInv
      <3>2. CASE Concurrent
        BY <3>1, <3>2 DEF HolderInv, Undisturbed
      <3>3. CASE ~Concurrent
        BY <2>1, <3>1, <3>3, UndisturbedStep
        DEF TypeInv, HolderInv, EffectInv
      <3> QED BY <3>2, <3>3
    <2>2. CASE UNCHANGED vars
      <3>1. UNCHANGED <<ref, wt, head, jhold, act, pc>>
        BY <2>2 DEF vars, git, journal
      <3> QED BY <3>1
          DEF HolderInv, ForeignHolders, Undisturbed, Pos
    <2> QED BY <2>1, <2>2
  <1> QED
    BY <1>1, <1>2, TypeInvariant, CoreInvariant, ForeignInvariant,
       EffectInvariant, PTL
    DEF Spec

\* SafetyInv is an invariant: all of what a command may rely on when it takes
\* up a journal.
THEOREM SafetyInvariant == Spec => []SafetyInv
  <1>1. /\ CoreInv /\ ForeignTips /\ ProgressInv /\ EffectInv /\ Delivered
        /\ RecordsAgree /\ RemotesAgree /\ HolderInv
        => SafetyInv
    BY DEF SafetyInv
  <1> QED
    BY <1>1, CoreInvariant, ForeignInvariant, ProgressInvariant,
       EffectInvariant, DeliveredInvariant, AgreementInvariant,
       HolderInvariant, PTL
-----------------------------------------------------------------------------
(* A transactional sync keeps the promise of SyncPromise: its every step is *)
(* a step of the promise or shows nothing, whatever is killed and repeated; *)
(* and it overwrites nothing that anybody else did.                         *)

\* What tws overwrites in stack.yaml is its own.
LEMMA WritesStep ==
  ASSUME CoreInv, RecordsAgree, WritesOwn, Next, EditsWait PROVE WritesOwn'
<1> USE DEF CoreInv, Idle, WritesOwn, RecordsAgree
<1>1. CASE Birth
  BY <1>1 DEF Birth, Start, git, bounds
<1>2. CASE ContinueCommand
  BY <1>2 DEF ContinueCommand, CleanupOnly, RollingBack, Start, git, journal,
      bounds
<1>3. CASE AbortCommand
  BY <1>3 DEF AbortCommand, CleanupOnly, Start, RollingBack, git, journal,
      bounds
<1>4. CASE PinCreate
  BY <1>4 DEF PinCreate, At, Goto, journal, bounds
<1>5. CASE PinSave
  BY <1>5 DEF PinSave, At, Goto, git, bounds
<1>6. CASE PinsDone
  BY <1>6 DEF PinsDone, At, Pass, Goto, git, journal, bounds
<1>7. CASE FreezeCutoffs
  BY <1>7 DEF FreezeCutoffs, At, Goto, git, bounds
<1>8. CASE FreezeRefused
  BY <1>8 DEF FreezeRefused, At, RollingBack, Goto, git, bounds, Refuse, Exit,
      journal
<1>9. CASE SnapshotReady
  BY <1>9 DEF SnapshotReady, At, Goto, git, bounds
<1>10. CASE BeginAction
  BY <1>10 DEF BeginAction, At, Goto, bounds, Refuse, Exit, git, journal
<1>11. CASE Rebase
  BY <1>11 DEF Rebase, At, Goto, MoveTips, journal, bounds
<1>12. CASE Observe
  BY <1>12 DEF Observe, At, Adopt, Exit, Goto, git, bounds, Refuse, journal
<1>13. CASE BeginValidation
  BY <1>13 DEF BeginValidation, At, Goto, SetVal, git, bounds, Refuse, Exit,
      journal
<1>14. CASE Validator
  BY <1>14 DEF Validator, At, Goto, journal, bounds
<1>15. CASE EndValidation
  BY <1>15 DEF EndValidation, At, SetVal, Goto, Exit, git, bounds
<1>16. CASE MetaIntent
  BY <1>16 DEF MetaIntent, At, AdoptMeta, SetMeta, Goto, git, bounds, Refuse,
      Exit, journal, Pass, MetaImage
<1>17. CASE MetaWrite
  BY <1>17 DEF MetaWrite, At, Goto, journal, bounds
<1>18. CASE MetaCheck
  BY <1>18 DEF MetaCheck, At, AdoptMeta, SetMeta, Goto, git, bounds, Refuse,
      Exit, journal
<1>19. CASE Progress
  BY <1>19 DEF Progress, At, Goto, git, bounds
<1>20. CASE ForwardDone
  BY <1>20 DEF ForwardDone, At, Pass, Goto, git, journal, bounds
<1>21. CASE BeginPublication
  BY <1>21 DEF BeginPublication, At, Goto, SetPub, Publishing, git, bounds,
      Refuse, Exit, journal
<1>22. CASE Network
  BY <1>22 DEF Network, At, Goto, journal, bounds
<1>23. CASE PushResult
  BY <1>23 DEF PushResult, At, SetPub, Goto, Exit, git, bounds
<1>24. CASE PushDone
  BY <1>24 DEF PushDone, At, Pass, Goto, git, journal, bounds
<1>25. CASE Complete
  BY <1>25 DEF Complete, At, RollingBack, Refuse, Exit, git, journal, bounds,
      Goto
<1>26. CASE DeleteIntent
  BY <1>26 DEF DeleteIntent, At, SetPin, Goto, git, bounds
<1>27. CASE DeletePin
  BY <1>27 DEF DeletePin, At, Goto, journal, bounds
<1>28. CASE DeleteSave
  BY <1>28 DEF DeleteSave, At, Goto, SetPin, git, bounds
<1>29. CASE RepoPinsGone
  BY <1>29 DEF RepoPinsGone, At, Goto, git, bounds
<1>30. CASE Clear
  BY <1>30 DEF Clear, At, Exit, git, bounds
<1>31. CASE RecoverPreflight
  BY <1>31 DEF RecoverPreflight, Check, At, Pass, Goto, git, journal, bounds,
      Refuse, Exit
<1>32. CASE ReconcileMeta
  BY <1>32 DEF ReconcileMeta, At, AdoptMeta, SetMeta, Goto, git, bounds, Pass,
      journal, Refuse, Exit
<1>33. CASE ReconcileValidation
  BY <1>33 DEF ReconcileValidation, At, Refuse, Exit, git, journal, bounds,
      SetVal, Goto, Pass
<1>34. CASE ReconcileAction
  BY <1>34 DEF ReconcileAction, At, Pass, Goto, git, journal, bounds,
      AfterReconcile, Adopt, Refuse, Exit
<1>35. CASE Resume
  BY <1>35 DEF Resume, At, Pass, Goto, git, journal, bounds
<1>36. CASE RollbackPreflight
  BY <1>36 DEF RollbackPreflight, At, Refuse, Exit, git, journal, bounds,
      RollingBack, Pass, Goto, SetRollback
<1>37. CASE RollbackAction
  BY <1>37 DEF RollbackAction, At, Goto, journal, bounds, Adopt, git, Refuse,
      Exit, Pass
<1>38. CASE RollbackPreflight2
  BY <1>38 DEF RollbackPreflight2, Check, At, Pass, Goto, git, journal,
      bounds, Refuse, Exit
<1>39. CASE DetachIntent
  BY <1>39 DEF DetachIntent, At, Pass, Goto, git, journal, bounds, SetHold
<1>40. CASE DetachSwitch
  BY <1>40 DEF DetachSwitch, At, Goto, journal, bounds, Refuse, Exit, git
<1>41. CASE DetachSave
  BY <1>41 DEF DetachSave, At, Goto, SetHold, git, bounds
<1>42. CASE RefsIntent
  BY <1>42 DEF RefsIntent, At, Pass, Goto, git, journal, bounds, Refuse, Exit
<1>43. CASE RefsRestore
  BY <1>43 DEF RefsRestore, At, Goto, journal, bounds, Refuse, Exit, git
<1>44. CASE RefsSave
  BY <1>44 DEF RefsSave, At, Goto, SetRollback, git, bounds
<1>45. CASE RestoreMeta
  BY <1>45 DEF RestoreMeta, At, MetaRestored, SetMeta, Goto, git, bounds,
      Pass, journal, Refuse, Exit, UserWork
<1>46. CASE RestoreMetaWrite
  BY <1>46 DEF RestoreMetaWrite, At, Goto, journal, bounds
<1>47. CASE RestoreMetaSave
  BY <1>47 DEF RestoreMetaSave, At, Goto, MetaRestored, SetMeta, git, bounds
<1>48. CASE RestoreHolder
  BY <1>48 DEF RestoreHolder, At, Pass, Goto, git, journal, bounds, SetHold,
      Refuse, Exit
<1>49. CASE RestoreHolderSwitch
  BY <1>49 DEF RestoreHolderSwitch, At, Goto, journal, bounds
<1>50. CASE RestoreHolderSave
  BY <1>50 DEF RestoreHolderSave, At, Goto, SetHold, git, bounds
<1>51. CASE RolledBack
  BY <1>51 DEF RolledBack, At, Goto, git, bounds
<1>52. CASE Crash
  BY <1>52 DEF Crash, Exit, git, journal
<1>53. CASE UserCommit
  BY <1>53 DEF UserCommit, Interferes, journal
<1>54. CASE UserEdit
  BY <1>54 DEF UserEdit, Interferes, journal, EditsWait
<1>55. CASE UserResolves
  BY <1>55 DEF UserResolves, MoveTips, journal, bounds
<1>56. CASE UserCleans
  BY <1>56 DEF UserCleans, journal, bounds
<1>57. CASE Over
  BY <1>57 DEF Over, vars, git, journal, bounds
<1> QED
  BY ONLY Next, <1>1, <1>2, <1>3, <1>4, <1>5, <1>6, <1>7, <1>8, <1>9, <1>10,
      <1>11, <1>12, <1>13, <1>14, <1>15, <1>16, <1>17, <1>18, <1>19, <1>20,
      <1>21, <1>22, <1>23, <1>24, <1>25, <1>26, <1>27, <1>28, <1>29, <1>30,
      <1>31, <1>32, <1>33, <1>34, <1>35, <1>36, <1>37, <1>38, <1>39, <1>40,
      <1>41, <1>42, <1>43, <1>44, <1>45, <1>46, <1>47, <1>48, <1>49, <1>50,
      <1>51, <1>52, <1>53, <1>54, <1>55, <1>56, <1>57
  DEF Next, CommandStep, ForwardSteps, CleanupSteps, RecoverySteps,
      RollbackSteps, UserSteps
-----------------------------------------------------------------------------
(* Every step of the run is a step of the promise, or none.                 *)

Maps == Promise!Next \/ UNCHANGED Promise!vars

\* A step that shows nothing is a stutter of the promise.
LEMMA QuietStep ==
  ASSUME UNCHANGED <<ref, meta, remote>>, UNCHANGED Stage PROVE Maps
  BY DEF Maps, Promise!vars, Tip

\* The stage depends on these fields only.
LEMMA StageKept ==
  ASSUME UNCHANGED <<payload, completion>>, rb'.on = rb.on,
         pub'.durable = pub.durable, phase' = "cleanup" <=> phase = "cleanup"
  PROVE  UNCHANGED Stage
  BY DEF Stage

LEMMA QuietJournal ==
  ASSUME UNCHANGED <<ref, meta, remote, payload, completion>>, rb'.on = rb.on,
         pub'.durable = pub.durable, phase' = "cleanup" <=> phase = "cleanup"
  PROVE  Maps
  BY QuietStep, StageKept

LEMMA Alive ==
  ASSUME CoreInv, verb # "none" PROVE payload # "none"
  BY DEF CoreInv, Unborn

\* A run that has decided nothing goes forward.
LEMMA StageForward ==
  ASSUME payload # "none", completion = "", ~rb.on, ~pub.durable
  PROVE  Stage = "forward"
  BY DEF Stage

\* Before the last entry is done nothing has been decided but, perhaps, to
\* roll back.
LEMMA PendingForward ==
  ASSUME TypeInv, CoreInv, ProgressInv, payload # "none", ~rb.on,
         Pending \/ act.entry = done + 1
  PROVE  Stage = "forward"
  <1>1. completion \in {"", "forward-complete", "cancelled-before-mutation"}
    BY DEF TypeInv, TypeOK, JournalTypeOK
  <1>n. act.entry \in 0..N /\ done \in 0..N /\ N \in Nat
    BY BoundsAreNaturals DEF TypeInv, TypeOK, JournalTypeOK, ActionEntry
  <1>2. done # N
    <2>1. CASE Pending
      <3>1. act.entry # 0 /\ act.entry \in {done, done + 1} /\ act.entry # done
        BY <2>1 DEF ProgressInv, JournalReadable, ActionAgrees, Advance, Pending
      <3> QED BY ONLY <1>n, <3>1
    <2>2. CASE act.entry = done + 1
      BY ONLY <1>n, <2>2
    <2> QED BY <2>1, <2>2
  <1>3. ~pub.durable /\ completion # "forward-complete"
    BY <1>2 DEF ProgressInv, Publishable
  <1>4. act.entry # 0
    <2>1. Pending => act.entry # 0
      BY DEF ProgressInv, JournalReadable, ActionAgrees, Pending
    <2> QED BY ONLY <1>n, <2>1, Pending \/ act.entry = done + 1
  <1>5. completion # "cancelled-before-mutation"
    BY <1>4 DEF ProgressInv, JournalReadable, CompletionAgrees, ActionAgrees
  <1> QED BY <1>1, <1>3, <1>5, StageForward

\* Commits of the run, as the promise sees them.
LEMMA TipsMove ==
  ASSUME TypeOK, NEW e, MoveTips(e), Stage = "forward",
         UNCHANGED <<Stage, meta, remote>>
  PROVE  Maps
  <1>1. ref \in [Refs -> Commits]
    BY DEF TypeOK, GitTypeOK
  <1> DEFINE moved == {r \in Refs : r \in Movable(e) /\ Tip[r] # "other"}
  <1>2. \A r \in Refs : Tip'[r] = IF r \in moved THEN "run" ELSE Tip[r]
    <2> SUFFICES ASSUME NEW r \in Refs
                 PROVE  Tip'[r] = IF r \in moved THEN "run" ELSE Tip[r]
      OBVIOUS
    <2>1. ref'[r] = IF r \in Movable(e) THEN Replayed(ref[r]) ELSE ref[r]
      BY DEF MoveTips
    <2>2. ref[r] \in Commits
      BY <1>1
    <2>3. CASE ref[r] = UserWork
      BY <2>1, <2>3 DEF Tip, Replayed, UserWork
    <2>4. CASE ref[r] \in Nat
      BY <2>1, <2>4 DEF Tip, Replayed, UserWork
    <2> QED BY <2>2, <2>3, <2>4 DEF Commits
  <1>3. Tip' = [r \in Refs |-> IF r \in moved THEN "run" ELSE Tip[r]]
    BY <1>2 DEF Tip
  <1>4. moved \in SUBSET {r \in Refs : Tip[r] # "other"}
    OBVIOUS
  <1>5. Promise!Rewrite
    BY <1>3, <1>4 DEF Promise!Rewrite
  <1> QED BY <1>5 DEF Maps, Promise!Next

LEMMA OutsideCommit ==
  ASSUME TypeOK, NEW x \in Refs, ref' = [ref EXCEPT ![x] = UserWork],
         UNCHANGED <<Stage, meta, remote>>
  PROVE  Maps
  <1>1. ref \in [Refs -> Commits]
    BY DEF TypeOK, GitTypeOK
  <1>2. Tip' = [Tip EXCEPT ![x] = "other"]
    <2>1. \A r \in Refs : Tip'[r] = IF r = x THEN "other" ELSE Tip[r]
      BY ONLY <1>1, ref' = [ref EXCEPT ![x] = UserWork] DEF Tip, UserWork
    <2> QED BY <2>1 DEF Tip
  <1>3. Promise!Outside
    BY <1>2 DEF Promise!Outside
  <1> QED BY <1>3 DEF Maps, Promise!Next

LEMMA OutsideEdit ==
  ASSUME meta' = UserWork, UNCHANGED <<Stage, ref, remote>> PROVE Maps
  <1>1. Promise!Outside
    BY DEF Promise!Outside, Promise!Other, UserWork, Tip
  <1> QED BY <1>1 DEF Maps, Promise!Next

\* Untouched, said of the repositories.
LEMMA NothingShows ==
  ASSUME TypeOK, meta <= 0, \A r \in Refs : ref[r] <= 0
  PROVE  Promise!Untouched
  <1>1. meta \in Commits /\ ref \in [Refs -> Commits]
    BY DEF TypeOK, GitTypeOK
  <1>2. meta \in {0, -1}
    BY ONLY <1>1, meta <= 0 DEF Commits, UserWork
  <1>3. \A r \in Refs : Tip[r] # "run"
    <2> TAKE r \in Refs
    <2>1. ~(ref[r] > 0)
      BY ONLY <1>1, \A q \in Refs : ref[q] <= 0 DEF Commits, UserWork
    <2> QED BY ONLY <2>1 DEF Tip
  <1> QED BY <1>2, <1>3 DEF Promise!Untouched, Promise!Other

\* What a step may rely on.
RunInv ==
  /\ TypeInv /\ CoreInv /\ ForeignTips /\ ProgressInv /\ EffectInv
  /\ PromiseInv

LEMMA RunParts ==
  ASSUME RunInv
  PROVE  /\ TypeInv /\ TypeOK /\ CoreInv /\ ForeignTips /\ ProgressInv
         /\ EffectInv /\ RecordsAgree /\ RemotesAgree /\ WritesOwn
         /\ Advance /\ Publishable /\ ActionAgrees /\ CompletionAgrees
         /\ SourcesAgree /\ RebaseConfined /\ Recording /\ RecordExplained
         /\ \A r \in Refs : TipExplained(r) /\ ExpectedAgrees(r)
  BY DEF RunInv, PromiseInv, ProgressInv, JournalReadable, EffectInv,
         EffectsExplained, TypeInv

LEMMA BirthMaps == ASSUME RunInv, Birth PROVE Maps
  <1>1. payload = "none" /\ payload' = "live"
        /\ UNCHANGED <<ref, meta, remote, completion, rb, pub, phase>>
    BY DEF Birth, git
  <1>2. ~rb.on /\ completion = ""
    BY <1>1, RunParts DEF CoreInv, Unborn, Ending
  <1>3. act.entry = 0 /\ done \in 0..N /\ N \in Nat \ {0}
    BY <1>1, RunParts, ConstantsAssumption
    DEF Advance, ActionAgrees, TypeOK, JournalTypeOK, ConstantsAssumption
  <1>4. done # N
    BY ONLY <1>3, RunParts, RunInv DEF Advance
  <1>5. ~pub.durable
    BY <1>4, RunParts DEF Publishable
  <1>6. Stage = "idle" /\ Stage' = "forward"
    BY ONLY <1>1, <1>2, <1>5 DEF Stage
  <1>7. Promise!Begin
    BY <1>1, <1>6 DEF Promise!Begin, Tip
  <1> QED BY <1>7 DEF Maps, Promise!Next

LEMMA CancelMaps == ASSUME RunInv, FreezeRefused PROVE Maps
  <1>1. CASE UNCHANGED <<git, journal>>
    BY <1>1, QuietJournal DEF git, journal
  <1>2. CASE /\ ~RollingBack /\ act.st = "none" /\ ~pub.durable
             /\ completion' = "cancelled-before-mutation"
             /\ UNCHANGED <<git, payload, rb, pub>>
    <2>1. pc = "freeze" /\ verb # "none"
      BY DEF FreezeRefused, At
    <2>2. payload # "none" /\ completion = "" /\ ~rb.on
      BY <1>2, <2>1, Alive, RunParts
      DEF CoreInv, GoingForward, Ending, ForwardLabels
    <2>3. Stage = "forward" /\ Stage' = "cancelled"
      BY ONLY <1>2, <2>2 DEF Stage
    <2>4. act.entry = 0
      BY <1>2, RunParts DEF ActionAgrees
    <2>5. meta <= 0
      <3>1. meta \in Commits
        BY RunParts DEF TypeOK, GitTypeOK
      <3>2. meta > 0 => meta <= 0
        BY <2>4, RunParts DEF RecordExplained
      <3> QED BY ONLY <3>1, <3>2 DEF Commits, UserWork
    <2>6. \A r \in Refs : ref[r] <= 0
      <3> TAKE r \in Refs
      <3>1. ref[r] \in Commits
        BY RunParts DEF TypeOK, GitTypeOK
      <3>2. jref[r].exp = 0
        BY ONLY <2>4, RunParts, RunInv DEF ExpectedAgrees
      <3>3. ref[r] > 0 => ref[r] = jref[r].exp
        BY <1>2, RunParts DEF TipExplained, Pending
      <3> QED BY ONLY <3>1, <3>2, <3>3 DEF Commits, UserWork
    <2>7. Promise!Untouched
      BY <2>5, <2>6, RunParts, NothingShows
    <2>8. Promise!Finish
      BY <1>2, <2>3, <2>7 DEF Promise!Finish, Tip, git
    <2> QED BY <2>8 DEF Maps, Promise!Next
  <1> QED BY ONLY <1>1, <1>2, FreezeRefused DEF FreezeRefused, Refuse

LEMMA RebaseMaps == ASSUME RunInv, Rebase PROVE Maps
  <1>1. UNCHANGED <<meta, remote, journal>> /\ pc = "rebase" /\ verb # "none"
    BY DEF Rebase, At
  <1>2. UNCHANGED Stage
    BY <1>1, StageKept DEF journal
  <1>3. Stage = "forward"
    BY <1>1, Alive, PendingForward, RunParts
    DEF Advance, CoreInv, GoingForward, ForwardLabels
  <1>4. MoveTips(act.entry) \/ UNCHANGED ref
    BY DEF Rebase
  <1> QED BY <1>1, <1>2, <1>3, <1>4, TipsMove, QuietStep, RunParts

LEMMA ValidatorMaps == ASSUME RunInv, Validator PROVE Maps
  <1>1. UNCHANGED <<meta, remote, journal>> /\ pc = "valRun"
    BY DEF Validator, At
  <1>2. UNCHANGED Stage
    BY <1>1, StageKept DEF journal
  <1>3. act.entry \in Refs
    <2>1. act.entry \in 0..N /\ done \in 0..N /\ N \in Nat
      BY RunParts, BoundsAreNaturals DEF TypeOK, JournalTypeOK, ActionEntry
    <2>2. act.entry = done + 1
      BY <1>1, RunParts DEF Advance, ObservedLabels
    <2>3. act.entry \in Entries
      BY ONLY <2>1, <2>2 DEF Entries
    <2> QED BY <2>3 DEF Refs
  <1>4. UNCHANGED ref \/ ref' = [ref EXCEPT ![act.entry] = UserWork]
    BY DEF Validator
  <1> QED BY <1>1, <1>2, <1>3, <1>4, OutsideCommit, QuietStep, RunParts

LEMMA MetaWriteMaps == ASSUME RunInv, MetaWrite PROVE Maps
  <1>1. /\ UNCHANGED <<ref, remote, journal>> /\ pc = "metaWrite"
        /\ verb # "none" /\ meta' = jmeta.intent
    BY DEF MetaWrite, At
  <1>2. UNCHANGED Stage
    BY <1>1, StageKept DEF journal
  <1>3. act.entry = done + 1 /\ meta' = act.entry /\ meta # UserWork /\ ~rb.on
    BY <1>1, RunParts
    DEF Advance, ObservedLabels, Recording, WritesOwn, CoreInv, GoingForward,
        ForwardLabels
  <1>4. Stage = "forward"
    BY <1>1, <1>3, Alive, PendingForward, RunParts
  <1>5. meta = done \/ meta = act.entry
    BY <1>3, RunParts DEF RecordsAgree
  <1>6. CASE meta = act.entry
    BY <1>1, <1>2, <1>3, <1>6, QuietStep
  <1>7. CASE meta = done
    <2>1. meta' = meta + 1 /\ meta' <= N
      <3>1. act.entry \in 0..N /\ N \in Nat
        BY RunParts, BoundsAreNaturals DEF TypeOK, JournalTypeOK, ActionEntry
      <3> QED BY ONLY <3>1, <1>3, <1>7
    <2>2. Promise!Record
      BY <1>1, <1>2, <1>3, <1>4, <2>1
      DEF Promise!Record, Promise!Other, UserWork, Tip
    <2> QED BY <2>2 DEF Maps, Promise!Next
  <1> QED BY <1>5, <1>6, <1>7

LEMMA BeginPublicationMaps == ASSUME RunInv, BeginPublication PROVE Maps
  <1>1. CASE UNCHANGED <<git, journal>>
    BY <1>1, QuietJournal DEF git, journal
  <1>2. CASE \E e \in Entries : /\ Images(RepoOf[e]) /\ SetPub(Publishing(e))
                                /\ UNCHANGED git
    <2>1. PICK e \in Entries : /\ Images(RepoOf[e]) /\ SetPub(Publishing(e))
                               /\ UNCHANGED git
      BY <1>2
    <2>2. pc = "push" /\ verb # "none" /\ meta = jmeta.exp
      BY <2>1 DEF BeginPublication, At, Images, MetaImage
    <2>3. pub \in Publication
      BY RunParts DEF TypeOK, JournalTypeOK
    <2>4. /\ UNCHANGED <<ref, meta, remote, payload, completion, rb>>
          /\ pub'.durable /\ phase' = "published"
      BY ONLY <2>1, <2>3 DEF SetPub, Publishing, Publication, git
    <2>5. ~rb.on /\ phase # "cleanup" /\ payload # "none" /\ completion = ""
      BY <2>2, Alive, RunParts DEF CoreInv, GoingForward, Ending, ForwardLabels
    <2>6. CASE pub.durable
      BY <2>3, <2>4, <2>5, <2>6, QuietStep DEF Stage
    <2>7. CASE ~pub.durable
      <3>1. Stage = "forward" /\ Stage' = "publishing"
        BY ONLY <2>4, <2>5, <2>7 DEF Stage
      <3>2. done = N /\ meta # UserWork
        BY <2>2, RunParts DEF Publishable, RecordsAgree
      <3>3. act.entry \in 0..N /\ act.entry \in {done, done + 1} /\ N \in Nat
        BY RunParts, BoundsAreNaturals
        DEF TypeOK, JournalTypeOK, ActionEntry, Advance
      <3>4. act.entry = N
        BY ONLY <3>2, <3>3
      <3>5. meta = N
        BY <2>5, <3>2, <3>4, RunParts DEF RecordsAgree
      <3>6. Promise!Publish
        BY <2>4, <3>1, <3>5 DEF Promise!Publish, Tip
      <3> QED BY <3>6 DEF Maps, Promise!Next
    <2> QED BY <2>6, <2>7
  <1> QED BY ONLY <1>1, <1>2, BeginPublication DEF BeginPublication, Refuse

LEMMA NetworkMaps == ASSUME RunInv, Network PROVE Maps
  <1>1. /\ UNCHANGED <<ref, meta, journal>> /\ pc = "network" /\ verb # "none"
        /\ pub.cur \in Entries
    BY RunParts DEF Network, At, TypeInv, TargetsOK
  <1>2. UNCHANGED Stage
    BY <1>1, StageKept DEF journal
  <1>3. CASE UNCHANGED remote
    BY <1>1, <1>2, <1>3, QuietStep
  <1>4. CASE remote' = [remote EXCEPT ![pub.cur] = pub.src[pub.cur]]
    <2>1. pub.src[pub.cur] # Nothing
      BY <1>1, EntriesPositive, RunParts DEF SourcesAgree
    <2>2. Stage = "publishing"
      BY <1>1, Alive, RunParts
      DEF Stage, Publishable, CoreInv, GoingForward, Ending, ForwardLabels
    <2>3. remote \in [Entries -> Contents]
      BY RunParts DEF TypeOK, GitTypeOK
    <2>4. \A e \in Entries :
            remote'[e] # Nothing <=> remote[e] # Nothing \/ e = pub.cur
      BY ONLY <1>1, <1>4, <2>1, <2>3
    <2>5. Promise!Deliver
      BY <1>1, <1>2, <2>2, <2>4
      DEF Promise!Deliver, Promise!Entries, Entries, Tip
    <2> QED BY <2>5 DEF Maps, Promise!Next
  <1> QED BY <1>3, <1>4 DEF Network

LEMMA CompleteMaps == ASSUME RunInv, Complete PROVE Maps
  <1>1. CASE UNCHANGED <<git, journal>>
    BY <1>1, QuietJournal DEF git, journal
  <1>2. CASE /\ ~RollingBack /\ phase' = "cleanup"
             /\ completion' = IF completion = "" THEN "forward-complete"
                                                 ELSE completion
             /\ UNCHANGED <<git, payload, rb, pub>>
    <2>1. pc = "complete" /\ verb # "none" /\ payload # "none" /\ ~rb.on
      BY <1>2, Alive, RunParts DEF Complete, At, CoreInv, GoingForward
    <2>2. CASE completion # ""
      BY <1>2, <2>1, <2>2, QuietStep DEF Stage, git
    <2>3. CASE completion = ""
      <3>1. Stage' = "completed"
            /\ Stage = IF pub.durable THEN "publishing" ELSE "forward"
        BY ONLY <1>2, <2>1, <2>3 DEF Stage
      <3>2. done = N
        BY <2>1, <2>3, RunParts DEF Publishable
      <3>3. CASE pub.durable
        <4>1. pub.ok = Entries
          BY <2>1, <2>3, <3>3, RunParts DEF RemotesAgree
        <4>2. \A e \in Entries : remote[e] # Nothing
          BY <4>1, RunParts DEF RemotesAgree
        <4>3. Stage = "publishing"
          BY ONLY <3>1, <3>3
        <4>4. UNCHANGED <<meta, remote>> /\ Tip' = Tip
          <5>1. UNCHANGED <<ref, meta, remote>>
            BY <1>2 DEF git
          <5> QED BY ONLY <5>1 DEF Tip
        <4>5. {e \in Entries : remote[e] # Nothing} = Promise!Entries
          BY <4>2 DEF Promise!Entries, Entries
        <4>6. Promise!Finish
          BY ONLY <3>1, <4>3, <4>4, <4>5 DEF Promise!Finish
        <4> QED BY ONLY <4>6 DEF Maps, Promise!Next
      <3>4. CASE ~pub.durable
        <4>1. act.entry \in 0..N /\ act.entry \in {done, done + 1} /\ N \in Nat
          BY RunParts, BoundsAreNaturals
          DEF TypeOK, JournalTypeOK, ActionEntry, Advance
        <4>2. act.entry = N
          BY ONLY <3>2, <4>1
        <4>3. meta \in {N, UserWork}
          BY <2>1, <3>2, <4>2, RunParts DEF RecordsAgree
        <4>4. Stage = "forward"
          BY ONLY <3>1, <3>4
        <4>5. UNCHANGED <<meta, remote>> /\ Tip' = Tip
          <5>1. UNCHANGED <<ref, meta, remote>>
            BY <1>2 DEF git
          <5> QED BY ONLY <5>1 DEF Tip
        <4>6. Promise!Finish
          BY ONLY <3>1, <4>3, <4>4, <4>5
          DEF Promise!Finish, Promise!Other, UserWork
        <4> QED BY ONLY <4>6 DEF Maps, Promise!Next
      <3> QED BY <3>3, <3>4
    <2> QED BY <2>2, <2>3
  <1> QED BY ONLY <1>1, <1>2, Complete DEF Complete, Refuse

LEMMA RollbackPreflightMaps == ASSUME RunInv, RollbackPreflight PROVE Maps
  <1>1. CASE UNCHANGED <<git, journal>>
    BY <1>1, QuietJournal DEF git, journal
  <1>2. CASE /\ ~(phase = "cleanup" /\ RollingBack)
             /\ SetRollback([rb EXCEPT !.on = TRUE])
             /\ phase' = "rolling-back" /\ UNCHANGED git
    <2>1. pc = "rbPre" /\ verb # "none"
      BY DEF RollbackPreflight, At
    <2>2. rb \in Rollback
      BY RunParts DEF TypeOK, JournalTypeOK
    <2>3. /\ rb'.on
          /\ UNCHANGED <<ref, meta, remote, payload, completion, pub>>
      BY ONLY <1>2, <2>2 DEF SetRollback, Rollback, git
    <2>4. payload # "none" /\ completion = "" /\ ~pub.durable
      BY <2>1, Alive, RunParts
      DEF CoreInv, GoingForward, Publishable, RollbackLabels
    <2>5. CASE rb.on
      <3>1. phase # "cleanup"
        BY <1>2, <2>5 DEF RollingBack
      <3> QED BY <1>2, <2>3, <2>4, <2>5, <3>1, QuietStep DEF Stage
    <2>6. CASE ~rb.on
      <3>1. Stage = "forward" /\ Stage' = "rollback"
        BY ONLY <1>2, <2>3, <2>4, <2>6 DEF Stage
      <3>2. Promise!RollBack
        BY <2>3, <3>1 DEF Promise!RollBack, Tip
      <3> QED BY <3>2 DEF Maps, Promise!Next
    <2> QED BY <2>5, <2>6
  <1> QED BY ONLY <1>1, <1>2, RollbackPreflight
      DEF RollbackPreflight, Refuse, Pass

\* While branches and stack.yaml are restored the decision is to roll back.
LEMMA RestoringStage ==
  ASSUME RunInv, verb # "none", pc \in RefsLabels \cup LateLabels
  PROVE  Stage = "rollback" /\ rb.on /\ phase = "rolling-back"
  <1>1. rb.on /\ phase = "rolling-back" /\ payload # "none"
    BY Alive, RunParts DEF CoreInv, GoingBack
  <1>2. completion = ""
    BY <1>1, RunParts DEF CoreInv, Ending
  <1> QED BY <1>1, <1>2 DEF Stage

LEMMA RefsRestoreMaps == ASSUME RunInv, RefsRestore PROVE Maps
  <1>1. CASE UNCHANGED <<git, journal>>
    BY <1>1, QuietJournal DEF git, journal
  <1>2. CASE /\ RestorableRefs(sel) /\ UNCHANGED <<meta, remote, journal>>
             /\ ref' = [r \in Refs |-> IF RepoOf[r] = sel THEN 0 ELSE ref[r]]
    <2>1. Stage = "rollback"
      BY RestoringStage DEF RefsRestore, At, RefsLabels
    <2>2. UNCHANGED Stage
      BY <1>2, StageKept DEF journal
    <2> DEFINE back == {r \in Refs : RepoOf[r] = sel /\ Tip[r] = "run"}
    <2>3. \A r \in Refs : Tip'[r] = IF r \in back THEN "before" ELSE Tip[r]
      <3> SUFFICES ASSUME NEW r \in Refs
                   PROVE  Tip'[r] = IF r \in back THEN "before" ELSE Tip[r]
        OBVIOUS
      <3>1. CASE RepoOf[r] = sel
        <4>1. ref[r] # UserWork /\ ref[r] \in Commits
          <5>1. ref[r] \in {0, jref[r].exp}
            BY <1>2, <3>1 DEF RestorableRefs, RefsIn
          <5> QED BY <5>1, RunParts DEF ForeignTips, UserWork, TypeOK, GitTypeOK
        <4>2. Tip[r] \in {"run", "before"}
          BY ONLY <4>1 DEF Tip, Commits
        <4>3. Tip'[r] = "before"
          BY ONLY <1>2, <3>1 DEF Tip
        <4> QED BY <3>1, <4>2, <4>3
      <3>2. CASE RepoOf[r] # sel
        BY <1>2, <3>2 DEF Tip
      <3> QED BY <3>1, <3>2
    <2>4. Tip' = [r \in Refs |-> IF r \in back THEN "before" ELSE Tip[r]]
      BY <2>3 DEF Tip
    <2>5. back \in SUBSET {r \in Refs : Tip[r] = "run"}
      OBVIOUS
    <2>6. Promise!Undo
      BY <1>2, <2>1, <2>2, <2>4, <2>5 DEF Promise!Undo
    <2> QED BY <2>6 DEF Maps, Promise!Next
  <1> QED BY ONLY <1>1, <1>2, RefsRestore DEF RefsRestore, Refuse

LEMMA RestoreMetaWriteMaps == ASSUME RunInv, RestoreMetaWrite PROVE Maps
  <1>1. /\ UNCHANGED <<ref, remote, journal>> /\ meta' = 0 /\ meta # UserWork
    BY RunParts DEF RestoreMetaWrite, At, WritesOwn
  <1>2. UNCHANGED Stage
    BY <1>1, StageKept DEF journal
  <1>3. Stage = "rollback"
    BY RestoringStage DEF RestoreMetaWrite, At, LateLabels
  <1>4. Promise!Undo
    BY <1>1, <1>2, <1>3 DEF Promise!Undo, Promise!Other, UserWork, Tip
  <1> QED BY <1>4 DEF Maps, Promise!Next

LEMMA RolledBackMaps == ASSUME RunInv, RolledBack PROVE Maps
  <1>1. /\ UNCHANGED <<ref, meta, remote, payload, completion, rb, pub>>
        /\ phase' = "cleanup" /\ pc = "rbDone" /\ verb # "none"
    BY DEF RolledBack, At, git
  <1>2. Stage = "rollback" /\ rb.on /\ phase = "rolling-back"
    BY <1>1, RestoringStage DEF LateLabels
  <1>3. Stage' = "restored"
    BY ONLY <1>1, <1>2 DEF Stage
  <1>4. Repos \subseteq rb.refs /\ jmeta.rest
    BY <1>1, RunParts DEF CoreInv, GoingBack, LateLabels, Recording
  <1>5. \A r \in Refs : ref[r] <= 0
    BY <1>4, RunParts, ConstantsAssumption
    DEF CoreInv, Restored, ConstantsAssumption
  <1>6. meta <= 0
    BY <1>4, RunParts DEF Recording
  <1>7. Promise!Finish
    BY <1>1, <1>2, <1>3, <1>5, <1>6, RunParts, NothingShows
    DEF Promise!Finish, Tip
  <1> QED BY <1>7 DEF Maps, Promise!Next

LEMMA ClearMaps == ASSUME RunInv, Clear PROVE Maps
  <1>1. /\ UNCHANGED <<ref, meta, remote, completion, rb, pub, phase>>
        /\ payload' = "gone" /\ payload # "none"
    BY Alive, RunParts DEF Clear, At, git
  <1>2. UNCHANGED Stage
    BY ONLY <1>1 DEF Stage
  <1> QED BY <1>1, <1>2, QuietStep

LEMMA UserCommitMaps == ASSUME RunInv, UserCommit PROVE Maps
  <1>1. UNCHANGED <<meta, remote, journal>>
    BY DEF UserCommit, Interferes
  <1>2. UNCHANGED Stage
    BY <1>1, StageKept DEF journal
  <1>3. UNCHANGED ref \/ \E r \in Refs : ref' = [ref EXCEPT ![r] = UserWork]
    BY DEF UserCommit
  <1> QED BY <1>1, <1>2, <1>3, OutsideCommit, QuietStep, RunParts

LEMMA UserEditMaps == ASSUME RunInv, UserEdit PROVE Maps
  <1>1. UNCHANGED <<ref, remote, journal>> /\ (meta' = UserWork \/ UNCHANGED meta)
    BY DEF UserEdit, Interferes
  <1>2. UNCHANGED Stage
    BY <1>1, StageKept DEF journal
  <1> QED BY <1>1, <1>2, OutsideEdit, QuietStep

LEMMA UserResolvesMaps == ASSUME RunInv, UserResolves, HandsOff PROVE Maps
  <1>1. UNCHANGED <<meta, remote, journal>> /\ payload # "none" /\ verb = "none"
    BY DEF UserResolves
  <1>2. UNCHANGED Stage
    BY <1>1, StageKept DEF journal
  <1>3. PICK e \in Entries : wt[e] = "rebasing" /\ (MoveTips(e) \/ UNCHANGED ref)
    BY DEF UserResolves
  <1>4. CASE UNCHANGED ref
    BY <1>1, <1>2, <1>4, QuietStep
  <1>5. CASE MoveTips(e) /\ ~rb.on
    <2>1. Stage = "forward"
      BY <1>1, <1>3, <1>5, PendingForward, RunParts DEF RebaseConfined
    <2> QED BY <1>1, <1>2, <1>5, <2>1, TipsMove, RunParts
  <1>6. CASE MoveTips(e) /\ rb.on
    <2>1. \A r \in Refs : ref[r] = UserWork <=> ref'[r] = UserWork
      BY <1>1, <1>6, MoveTipsForeign, RunParts DEF journal
    <2>2. \A r \in Refs : ref'[r] = ref[r]
      BY <1>1, <1>6, <2>1 DEF HandsOff
    <2>3. Tip' = Tip
      BY <2>2 DEF Tip
    <2> QED BY <1>1, <1>2, <2>3 DEF Maps, Promise!vars
  <1> QED BY <1>3, <1>4, <1>5, <1>6

\* Every step of the run maps to a step of the promise or to a stutter.
LEMMA MapsStep ==
  ASSUME RunInv, Next, HandsOff PROVE Maps
<1>t. /\ pub \in Publication /\ rb \in Rollback
      /\ pc \in ForwardLabels => phase # "cleanup"
      /\ pc \in RefsLabels \cup LateLabels => phase # "cleanup"
      /\ pc \in {"rbAct", "rbPre2"} => phase # "cleanup"
      /\ pc \in CleanupLabels => phase = "cleanup"
  BY RunParts
  DEF TypeOK, JournalTypeOK, CoreInv, GoingForward, GoingBack, Ending
<1>1. CASE Birth
  BY ONLY <1>1, RunInv, BirthMaps
<1>2. CASE ContinueCommand
  BY <1>2, <1>t, QuietJournal DEF ContinueCommand, CleanupOnly, RollingBack,
      Start, git, journal, bounds, ForwardLabels, RefsLabels, LateLabels,
      CleanupLabels
<1>3. CASE AbortCommand
  BY <1>3, <1>t, QuietJournal DEF AbortCommand, CleanupOnly, Start,
      RollingBack, git, journal, bounds, ForwardLabels, RefsLabels,
      LateLabels, CleanupLabels
<1>4. CASE PinCreate
  BY <1>4, <1>t, QuietJournal DEF PinCreate, At, Goto, journal, bounds,
      ForwardLabels, RefsLabels, LateLabels, CleanupLabels
<1>5. CASE PinSave
  BY <1>5, <1>t, QuietJournal DEF PinSave, At, Goto, git, bounds,
      ForwardLabels, RefsLabels, LateLabels, CleanupLabels
<1>6. CASE PinsDone
  BY <1>6, <1>t, QuietJournal DEF PinsDone, At, Pass, Goto, git, journal,
      bounds, ForwardLabels, RefsLabels, LateLabels, CleanupLabels
<1>7. CASE FreezeCutoffs
  BY <1>7, <1>t, QuietJournal DEF FreezeCutoffs, At, Goto, git, bounds,
      ForwardLabels, RefsLabels, LateLabels, CleanupLabels
<1>8. CASE FreezeRefused
  BY ONLY <1>8, RunInv, CancelMaps
<1>9. CASE SnapshotReady
  BY <1>9, <1>t, QuietJournal DEF SnapshotReady, At, Goto, git, bounds,
      ForwardLabels, RefsLabels, LateLabels, CleanupLabels
<1>10. CASE BeginAction
  BY <1>10, <1>t, QuietJournal DEF BeginAction, At, Goto, bounds, Refuse,
      Exit, git, journal, ForwardLabels, RefsLabels, LateLabels, CleanupLabels
<1>11. CASE Rebase
  BY ONLY <1>11, RunInv, RebaseMaps
<1>12. CASE Observe
  BY <1>12, <1>t, QuietJournal DEF Observe, At, Adopt, Exit, Goto, git,
      bounds, Refuse, journal, ForwardLabels, RefsLabels, LateLabels,
      CleanupLabels
<1>13. CASE BeginValidation
  BY <1>13, <1>t, QuietJournal DEF BeginValidation, At, Goto, SetVal, git,
      bounds, Refuse, Exit, journal, ForwardLabels, RefsLabels, LateLabels,
      CleanupLabels
<1>14. CASE Validator
  BY ONLY <1>14, RunInv, ValidatorMaps
<1>15. CASE EndValidation
  BY <1>15, <1>t, QuietJournal DEF EndValidation, At, SetVal, Goto, Exit, git,
      bounds, ForwardLabels, RefsLabels, LateLabels, CleanupLabels
<1>16. CASE MetaIntent
  BY <1>16, <1>t, QuietJournal DEF MetaIntent, At, AdoptMeta, SetMeta, Refuse,
      Pass, git, journal
<1>17. CASE MetaWrite
  BY ONLY <1>17, RunInv, MetaWriteMaps
<1>18. CASE MetaCheck
  BY <1>18, <1>t, QuietJournal DEF MetaCheck, At, AdoptMeta, SetMeta, Goto,
      git, bounds, Refuse, Exit, journal, ForwardLabels, RefsLabels,
      LateLabels, CleanupLabels
<1>19. CASE Progress
  BY <1>19, <1>t, QuietJournal DEF Progress, At, Goto, git, bounds,
      ForwardLabels, RefsLabels, LateLabels, CleanupLabels
<1>20. CASE ForwardDone
  BY <1>20, <1>t, QuietJournal DEF ForwardDone, At, Pass, Goto, git, journal,
      bounds, ForwardLabels, RefsLabels, LateLabels, CleanupLabels
<1>21. CASE BeginPublication
  BY ONLY <1>21, RunInv, BeginPublicationMaps
<1>22. CASE Network
  BY ONLY <1>22, RunInv, NetworkMaps
<1>23. CASE PushResult
  BY <1>23, <1>t, QuietJournal DEF PushResult, At, SetPub, Goto, Exit, git,
      bounds, ForwardLabels, RefsLabels, LateLabels, CleanupLabels,
      Publication
<1>24. CASE PushDone
  BY <1>24, <1>t, QuietJournal DEF PushDone, At, Pass, Goto, git, journal,
      bounds, ForwardLabels, RefsLabels, LateLabels, CleanupLabels
<1>25. CASE Complete
  BY ONLY <1>25, RunInv, CompleteMaps
<1>26. CASE DeleteIntent
  BY <1>26, <1>t, QuietJournal DEF DeleteIntent, At, SetPin, Goto, git,
      bounds, ForwardLabels, RefsLabels, LateLabels, CleanupLabels
<1>27. CASE DeletePin
  BY <1>27, <1>t, QuietJournal DEF DeletePin, At, Goto, journal, bounds,
      ForwardLabels, RefsLabels, LateLabels, CleanupLabels
<1>28. CASE DeleteSave
  BY <1>28, <1>t, QuietJournal DEF DeleteSave, At, Goto, SetPin, git, bounds,
      ForwardLabels, RefsLabels, LateLabels, CleanupLabels
<1>29. CASE RepoPinsGone
  BY <1>29, <1>t, QuietJournal DEF RepoPinsGone, At, Goto, git, bounds,
      ForwardLabels, RefsLabels, LateLabels, CleanupLabels, Rollback
<1>30. CASE Clear
  BY ONLY <1>30, RunInv, ClearMaps
<1>31. CASE RecoverPreflight
  BY <1>31, <1>t, QuietJournal DEF RecoverPreflight, Check, At, Pass, Goto,
      git, journal, bounds, Refuse, Exit, ForwardLabels, RefsLabels,
      LateLabels, CleanupLabels
<1>32. CASE ReconcileMeta
  BY <1>32, <1>t, QuietJournal DEF ReconcileMeta, At, AdoptMeta, SetMeta,
      Goto, git, bounds, Pass, journal, Refuse, Exit, ForwardLabels,
      RefsLabels, LateLabels, CleanupLabels
<1>33. CASE ReconcileValidation
  BY <1>33, <1>t, QuietJournal DEF ReconcileValidation, At, Refuse, Exit, git,
      journal, bounds, SetVal, Goto, Pass, ForwardLabels, RefsLabels,
      LateLabels, CleanupLabels
<1>34. CASE ReconcileAction
  BY <1>34, <1>t, QuietJournal DEF ReconcileAction, At, Pass, Goto, git,
      journal, bounds, AfterReconcile, Adopt, Refuse, Exit, ForwardLabels,
      RefsLabels, LateLabels, CleanupLabels
<1>35. CASE Resume
  BY <1>35, <1>t, QuietJournal DEF Resume, At, Pass, Goto, git, journal,
      bounds, ForwardLabels, RefsLabels, LateLabels, CleanupLabels
<1>36. CASE RollbackPreflight
  BY ONLY <1>36, RunInv, RollbackPreflightMaps
<1>37. CASE RollbackAction
  BY <1>37, <1>t, QuietJournal DEF RollbackAction, At, Goto, journal, bounds,
      Adopt, git, Refuse, Exit, Pass, ForwardLabels, RefsLabels, LateLabels,
      CleanupLabels
<1>38. CASE RollbackPreflight2
  BY <1>38, <1>t, QuietJournal DEF RollbackPreflight2, Check, At, Pass, Goto,
      git, journal, bounds, Refuse, Exit, ForwardLabels, RefsLabels,
      LateLabels, CleanupLabels
<1>39. CASE DetachIntent
  BY <1>39, <1>t, QuietJournal DEF DetachIntent, At, Pass, Goto, git, journal,
      bounds, SetHold, ForwardLabels, RefsLabels, LateLabels, CleanupLabels
<1>40. CASE DetachSwitch
  BY <1>40, <1>t, QuietJournal DEF DetachSwitch, At, Goto, journal, bounds,
      Refuse, Exit, git, ForwardLabels, RefsLabels, LateLabels, CleanupLabels
<1>41. CASE DetachSave
  BY <1>41, <1>t, QuietJournal DEF DetachSave, At, Goto, SetHold, git, bounds,
      ForwardLabels, RefsLabels, LateLabels, CleanupLabels
<1>42. CASE RefsIntent
  BY <1>42, <1>t, QuietJournal DEF RefsIntent, At, Pass, Goto, git, journal,
      bounds, Refuse, Exit, ForwardLabels, RefsLabels, LateLabels,
      CleanupLabels
<1>43. CASE RefsRestore
  BY ONLY <1>43, RunInv, RefsRestoreMaps
<1>44. CASE RefsSave
  BY <1>44, <1>t, QuietJournal DEF RefsSave, At, Goto, SetRollback, git,
      bounds, ForwardLabels, RefsLabels, LateLabels, CleanupLabels, Rollback
<1>45. CASE RestoreMeta
  BY <1>45, <1>t, QuietJournal DEF RestoreMeta, At, MetaRestored, SetMeta,
      Goto, git, bounds, Pass, journal, Refuse, Exit, ForwardLabels,
      RefsLabels, LateLabels, CleanupLabels
<1>46. CASE RestoreMetaWrite
  BY ONLY <1>46, RunInv, RestoreMetaWriteMaps
<1>47. CASE RestoreMetaSave
  BY <1>47, <1>t, QuietJournal DEF RestoreMetaSave, At, Goto, MetaRestored,
      SetMeta, git, bounds, ForwardLabels, RefsLabels, LateLabels,
      CleanupLabels
<1>48. CASE RestoreHolder
  BY <1>48, <1>t, QuietJournal DEF RestoreHolder, At, Pass, Goto, git,
      journal, bounds, SetHold, Refuse, Exit, ForwardLabels, RefsLabels,
      LateLabels, CleanupLabels
<1>49. CASE RestoreHolderSwitch
  BY <1>49, <1>t, QuietJournal DEF RestoreHolderSwitch, At, Goto, journal,
      bounds, ForwardLabels, RefsLabels, LateLabels, CleanupLabels
<1>50. CASE RestoreHolderSave
  BY <1>50, <1>t, QuietJournal DEF RestoreHolderSave, At, Goto, SetHold, git,
      bounds, ForwardLabels, RefsLabels, LateLabels, CleanupLabels
<1>51. CASE RolledBack
  BY ONLY <1>51, RunInv, RolledBackMaps
<1>52. CASE Crash
  BY <1>52, <1>t, QuietJournal DEF Crash, Exit, git, journal, ForwardLabels,
      RefsLabels, LateLabels, CleanupLabels
<1>53. CASE UserCommit
  BY ONLY <1>53, RunInv, UserCommitMaps
<1>54. CASE UserEdit
  BY ONLY <1>54, RunInv, UserEditMaps
<1>55. CASE UserResolves
  BY ONLY <1>55, RunInv, HandsOff, UserResolvesMaps
<1>56. CASE UserCleans
  BY <1>56, <1>t, QuietJournal DEF UserCleans, journal, bounds, ForwardLabels,
      RefsLabels, LateLabels, CleanupLabels
<1>57. CASE Over
  BY <1>57, <1>t, QuietJournal DEF Over, vars, git, journal, bounds,
      ForwardLabels, RefsLabels, LateLabels, CleanupLabels
<1> QED
  BY ONLY Next, <1>1, <1>2, <1>3, <1>4, <1>5, <1>6, <1>7, <1>8, <1>9, <1>10,
      <1>11, <1>12, <1>13, <1>14, <1>15, <1>16, <1>17, <1>18, <1>19, <1>20,
      <1>21, <1>22, <1>23, <1>24, <1>25, <1>26, <1>27, <1>28, <1>29, <1>30,
      <1>31, <1>32, <1>33, <1>34, <1>35, <1>36, <1>37, <1>38, <1>39, <1>40,
      <1>41, <1>42, <1>43, <1>44, <1>45, <1>46, <1>47, <1>48, <1>49, <1>50,
      <1>51, <1>52, <1>53, <1>54, <1>55, <1>56, <1>57
  DEF Next, CommandStep, ForwardSteps, CleanupSteps, RecoverySteps,
      RollbackSteps, UserSteps

\* Nothing is held but the promise holds.
LEMMA PromiseStarts == Init => Promise!Init /\ PromiseInv
  <1> SUFFICES ASSUME Init PROVE Promise!Init /\ PromiseInv
    OBVIOUS
  <1>1. Stage = "idle" /\ meta = 0 /\ \A r \in Refs : ref[r] = 0
    BY DEF Init, Stage
  <1>2. Tip = [r \in Refs |-> "before"]
    BY <1>1 DEF Tip
  <1>3. {e \in Entries : remote[e] # Nothing} = {}
    BY DEF Init
  <1>4. Promise!Init
    BY <1>1, <1>2, <1>3 DEF Promise!Init
  <1>5. WritesOwn
    BY DEF Init, WritesOwn
  <1> QED BY <1>4, <1>5, AgreementInit DEF PromiseInv

LEMMA EditsWaitIsSpec == EditsWaitSpec => Spec
  <1>1. [Next /\ HandsOff /\ EditsWait]_vars => [Next]_vars
    OBVIOUS
  <1> QED BY <1>1, PTL DEF EditsWaitSpec, Spec

\* PromiseInv is an invariant as long as nobody edits stack.yaml between tws's
\* look at it and its overwrite: what tws overwrites is its own.
THEOREM PromiseInvariant == EditsWaitSpec => []PromiseInv
  <1>1. Init => WritesOwn
    BY PromiseStarts DEF PromiseInv
  <1>2. CoreInv /\ RecordsAgree /\ WritesOwn
        /\ [Next /\ HandsOff /\ EditsWait]_vars => WritesOwn'
    BY WritesStep DEF vars, git, WritesOwn
  <1>3. EditsWaitSpec => []WritesOwn
    BY <1>1, <1>2, EditsWaitIsSpec, CoreInvariant, AgreementInvariant, PTL
    DEF EditsWaitSpec
  <1>4. RecordsAgree /\ RemotesAgree /\ WritesOwn => PromiseInv
    BY DEF PromiseInv
  <1> QED BY <1>3, <1>4, EditsWaitIsSpec, AgreementInvariant, PTL

\* KeepsPromise: every behaviour of SyncTransaction is one of SyncPromise, step
\* by step, whatever is killed and whoever commits meanwhile, if nobody edits
\* stack.yaml between tws's look at it and its overwrite and nobody finishes a
\* rebase that --abort has begun to undo.
THEOREM PromiseKept == EditsWaitSpec => KeepsPromise
  <1>1. Init => Promise!Init
    BY PromiseStarts
  <1>2. RunInv /\ [Next /\ HandsOff /\ EditsWait]_vars
          => [Promise!Next]_(Promise!vars)
    <2> SUFFICES ASSUME RunInv, [Next /\ HandsOff /\ EditsWait]_vars
                 PROVE  Maps
      BY DEF Maps
    <2>1. CASE Next /\ HandsOff /\ EditsWait
      BY <2>1, MapsStep
    <2>2. CASE UNCHANGED vars
      <3>1. UNCHANGED <<ref, meta, remote, payload, completion, rb, pub, phase>>
        BY <2>2 DEF vars, git, journal
      <3> QED BY ONLY <3>1, QuietJournal
    <2> QED BY <2>1, <2>2
  <1>3. EditsWaitSpec => []RunInv
    <2>1. /\ EditsWaitSpec => []TypeInv
          /\ EditsWaitSpec => []CoreInv
          /\ EditsWaitSpec => []ForeignTips
          /\ EditsWaitSpec => []ProgressInv
          /\ EditsWaitSpec => []EffectInv
      BY EditsWaitIsSpec, TypeInvariant, CoreInvariant, ForeignInvariant,
         ProgressInvariant, EffectInvariant, PTL
    <2>2. TypeInv /\ CoreInv /\ ForeignTips /\ ProgressInv /\ EffectInv
          /\ PromiseInv => RunInv
      BY DEF RunInv
    <2> QED BY <2>1, <2>2, PromiseInvariant, PTL
  <1> QED BY <1>1, <1>2, <1>3, PTL DEF EditsWaitSpec, KeepsPromise, Promise!Spec

\* Who waits for the command does not edit while it overwrites.
LEMMA AloneStep ==
  ASSUME ~Concurrent, CoreInv, RecordsAgree, Next PROVE EditsWait
<1> USE DEF EditsWait
<1>u. UNCHANGED meta => EditsWait OBVIOUS
<1>1. CASE Birth
  BY <1>1, <1>u DEF Birth, git
<1>2. CASE ContinueCommand
  BY <1>2, <1>u DEF ContinueCommand, git
<1>3. CASE AbortCommand
  BY <1>3, <1>u DEF AbortCommand, git
<1>4. CASE PinCreate
  BY <1>4, <1>u DEF PinCreate
<1>5. CASE PinSave
  BY <1>5, <1>u DEF PinSave, git
<1>6. CASE PinsDone
  BY <1>6, <1>u DEF PinsDone, Pass, git
<1>7. CASE FreezeCutoffs
  BY <1>7, <1>u DEF FreezeCutoffs, git
<1>8. CASE FreezeRefused
  BY <1>8, <1>u DEF FreezeRefused, git, Refuse
<1>9. CASE SnapshotReady
  BY <1>9, <1>u DEF SnapshotReady, git
<1>10. CASE BeginAction
  BY <1>10, <1>u DEF BeginAction, Refuse, git
<1>11. CASE Rebase
  BY <1>11, <1>u DEF Rebase
<1>12. CASE Observe
  BY <1>12, <1>u DEF Observe, git, Refuse
<1>13. CASE BeginValidation
  BY <1>13, <1>u DEF BeginValidation, git, Refuse
<1>14. CASE Validator
  BY <1>14, <1>u DEF Validator
<1>15. CASE EndValidation
  BY <1>15, <1>u DEF EndValidation, git
<1>16. CASE MetaIntent
  BY <1>16, <1>u DEF MetaIntent, git, Refuse, Pass
<1>17. CASE MetaWrite
  BY <1>17 DEF MetaWrite, At, RecordsAgree
<1>18. CASE MetaCheck
  BY <1>18, <1>u DEF MetaCheck, git, Refuse
<1>19. CASE Progress
  BY <1>19, <1>u DEF Progress, git
<1>20. CASE ForwardDone
  BY <1>20, <1>u DEF ForwardDone, Pass, git
<1>21. CASE BeginPublication
  BY <1>21, <1>u DEF BeginPublication, git, Refuse
<1>22. CASE Network
  BY <1>22, <1>u DEF Network
<1>23. CASE PushResult
  BY <1>23, <1>u DEF PushResult, git
<1>24. CASE PushDone
  BY <1>24, <1>u DEF PushDone, Pass, git
<1>25. CASE Complete
  BY <1>25, <1>u DEF Complete, Refuse, git
<1>26. CASE DeleteIntent
  BY <1>26, <1>u DEF DeleteIntent, git
<1>27. CASE DeletePin
  BY <1>27, <1>u DEF DeletePin
<1>28. CASE DeleteSave
  BY <1>28, <1>u DEF DeleteSave, git
<1>29. CASE RepoPinsGone
  BY <1>29, <1>u DEF RepoPinsGone, git
<1>30. CASE Clear
  BY <1>30, <1>u DEF Clear, git
<1>31. CASE RecoverPreflight
  BY <1>31, <1>u DEF RecoverPreflight, Check, Pass, git, Refuse
<1>32. CASE ReconcileMeta
  BY <1>32, <1>u DEF ReconcileMeta, git, Pass, Refuse
<1>33. CASE ReconcileValidation
  BY <1>33, <1>u DEF ReconcileValidation, Refuse, git, Pass
<1>34. CASE ReconcileAction
  BY <1>34, <1>u DEF ReconcileAction, Pass, git, Refuse
<1>35. CASE Resume
  BY <1>35, <1>u DEF Resume, Pass, git
<1>36. CASE RollbackPreflight
  BY <1>36, <1>u DEF RollbackPreflight, Refuse, git, Pass
<1>37. CASE RollbackAction
  BY <1>37, <1>u DEF RollbackAction, git, Refuse, Pass
<1>38. CASE RollbackPreflight2
  BY <1>38, <1>u DEF RollbackPreflight2, Check, Pass, git, Refuse
<1>39. CASE DetachIntent
  BY <1>39, <1>u DEF DetachIntent, Pass, git
<1>40. CASE DetachSwitch
  BY <1>40, <1>u DEF DetachSwitch, Refuse, git
<1>41. CASE DetachSave
  BY <1>41, <1>u DEF DetachSave, git
<1>42. CASE RefsIntent
  BY <1>42, <1>u DEF RefsIntent, Pass, git, Refuse
<1>43. CASE RefsRestore
  BY <1>43, <1>u DEF RefsRestore, Refuse, git
<1>44. CASE RefsSave
  BY <1>44, <1>u DEF RefsSave, git
<1>45. CASE RestoreMeta
  BY <1>45, <1>u DEF RestoreMeta, git, Pass, Refuse
<1>46. CASE RestoreMetaWrite
  BY <1>46 DEF RestoreMetaWrite, At, UserWork
<1>47. CASE RestoreMetaSave
  BY <1>47, <1>u DEF RestoreMetaSave, git
<1>48. CASE RestoreHolder
  BY <1>48, <1>u DEF RestoreHolder, Pass, git, Refuse
<1>49. CASE RestoreHolderSwitch
  BY <1>49, <1>u DEF RestoreHolderSwitch
<1>50. CASE RestoreHolderSave
  BY <1>50, <1>u DEF RestoreHolderSave, git
<1>51. CASE RolledBack
  BY <1>51, <1>u DEF RolledBack, git
<1>52. CASE Crash
  BY <1>52, <1>u DEF Crash, git
<1>53. CASE UserCommit
  BY <1>53, <1>u DEF UserCommit
<1>54. CASE UserEdit
  BY <1>54 DEF UserEdit, Interferes, CoreInv, Idle
<1>55. CASE UserResolves
  BY <1>55, <1>u DEF UserResolves
<1>56. CASE UserCleans
  BY <1>56, <1>u DEF UserCleans
<1>57. CASE Over
  BY <1>57, <1>u DEF Over, vars, git
<1> QED
  BY ONLY Next, <1>1, <1>2, <1>3, <1>4, <1>5, <1>6, <1>7, <1>8, <1>9, <1>10,
      <1>11, <1>12, <1>13, <1>14, <1>15, <1>16, <1>17, <1>18, <1>19, <1>20,
      <1>21, <1>22, <1>23, <1>24, <1>25, <1>26, <1>27, <1>28, <1>29, <1>30,
      <1>31, <1>32, <1>33, <1>34, <1>35, <1>36, <1>37, <1>38, <1>39, <1>40,
      <1>41, <1>42, <1>43, <1>44, <1>45, <1>46, <1>47, <1>48, <1>49, <1>50,
      <1>51, <1>52, <1>53, <1>54, <1>55, <1>56, <1>57
  DEF Next, CommandStep, ForwardSteps, CleanupSteps, RecoverySteps,
      RollbackSteps, UserSteps

\* KeepsPromise again, for people who leave the repositories alone while a
\* command runs: then nothing is assumed of when they edit.
THEOREM PromiseKeptAlone == ~Concurrent => (HandsOffSpec => KeepsPromise)
  <1> SUFFICES ASSUME ~Concurrent PROVE HandsOffSpec => KeepsPromise
    OBVIOUS
  <1>1. HandsOffSpec => Spec
    <2>1. [Next /\ HandsOff]_vars => [Next]_vars
      OBVIOUS
    <2> QED BY <2>1, PTL DEF HandsOffSpec, Spec
  <1>2. CoreInv /\ RecordsAgree /\ [Next /\ HandsOff]_vars
          => [Next /\ HandsOff /\ EditsWait]_vars
    BY AloneStep
  <1>3. HandsOffSpec => EditsWaitSpec
    BY <1>1, <1>2, CoreInvariant, AgreementInvariant, PTL
    DEF HandsOffSpec, EditsWaitSpec
  <1> QED BY <1>3, PromiseKept, PTL
-----------------------------------------------------------------------------
(* Nothing anybody else did is overwritten, if they wait for the command.   *)

LEMMA PositionsStep ==
  ASSUME TypeOK, ForeignTips, ForeignHolders, Undisturbed, ~Concurrent,
         Advance, ActionAgrees, Next PROVE \A e \in Entries : Pos(e)[2] = UserWork => Pos(e)'[2] = UserWork
<1>r. \A r \in Refs : ref[r] = UserWork => ref'[r] = UserWork
  BY WorkStep
<1>q. UNCHANGED <<wt, head>> =>
        \A e \in Entries : Pos(e)[2] = UserWork => Pos(e)'[2] = UserWork
  BY <1>r DEF Pos, Refs
<1>p. /\ \A e \in Entries : Pos(e)[2] = IF wt[e] = "branch" THEN ref[e] ELSE
          head[e]
      /\ \A e \in Entries : Pos(e)'[2] = IF wt'[e] = "branch" THEN ref'[e]
          ELSE head'[e]
  BY DEF Pos
<1>t. /\ ref \in [Refs -> Commits] /\ head \in [Entries -> Commits]
      /\ wt \in [Entries -> {"branch", "detached", "rebasing"}]
  BY DEF TypeOK, GitTypeOK
<1>s. Entries \subseteq Refs
  BY DEF Refs
<1>1. CASE Birth
  BY <1>1, <1>q DEF Birth, git
<1>2. CASE ContinueCommand
  BY <1>2, <1>q DEF ContinueCommand, git
<1>3. CASE AbortCommand
  BY <1>3, <1>q DEF AbortCommand, git
<1>4. CASE PinCreate
  BY <1>4, <1>q DEF PinCreate
<1>5. CASE PinSave
  BY <1>5, <1>q DEF PinSave, git
<1>6. CASE PinsDone
  BY <1>6, <1>q DEF PinsDone, Pass, git
<1>7. CASE FreezeCutoffs
  BY <1>7, <1>q DEF FreezeCutoffs, git
<1>8. CASE FreezeRefused
  BY <1>8, <1>q DEF FreezeRefused, git, Refuse
<1>9. CASE SnapshotReady
  BY <1>9, <1>q DEF SnapshotReady, git
<1>10. CASE BeginAction
  BY <1>10, <1>q DEF BeginAction, Refuse, git
<1>11. CASE Rebase
  <2>1. CASE UNCHANGED <<wt, head>>
    BY <2>1, <1>q
  <2>2. CASE ~UNCHANGED <<wt, head>>
    <3>0. /\ pc = "rebase" /\ wt[act.entry] = "branch" /\ wt' = [wt EXCEPT
              ![act.entry] = "rebasing"]
          /\ head' = [head EXCEPT ![act.entry] = 0]
      BY <1>11, <2>2 DEF Rebase, At
    <3>e. act.entry \in Entries
      <4>1. act.entry = done + 1 /\ act.entry \in 0..N /\ done \in 0..N /\ N
                \in Nat
        BY <3>0, BoundsAreNaturals DEF Advance, TypeOK, JournalTypeOK,
            ActionEntry
      <4> QED BY ONLY <4>1 DEF Entries
    <3>1. \E x \in Entries : Pos(x)[2] # UserWork /\ \A e \in Entries : e # x
              => wt'[e] = wt[e] /\ head'[e] = head[e]
      <4>1. ref[act.entry] # UserWork
        BY <3>0 DEF Undisturbed
      <4> QED BY ONLY <3>0, <3>e, <4>1, <1>p, <1>t
    <3> QED BY ONLY <3>1, <1>r, <1>p, <1>s
  <2> QED BY <2>1, <2>2
<1>12. CASE Observe
  BY <1>12, <1>q DEF Observe, git, Refuse
<1>13. CASE BeginValidation
  BY <1>13, <1>q DEF BeginValidation, git, Refuse
<1>14. CASE Validator
  BY <1>14, <1>q DEF Validator
<1>15. CASE EndValidation
  BY <1>15, <1>q DEF EndValidation, git
<1>16. CASE MetaIntent
  BY <1>16, <1>q DEF MetaIntent, git, Refuse, Pass
<1>17. CASE MetaWrite
  BY <1>17, <1>q DEF MetaWrite
<1>18. CASE MetaCheck
  BY <1>18, <1>q DEF MetaCheck, git, Refuse
<1>19. CASE Progress
  BY <1>19, <1>q DEF Progress, git
<1>20. CASE ForwardDone
  BY <1>20, <1>q DEF ForwardDone, Pass, git
<1>21. CASE BeginPublication
  BY <1>21, <1>q DEF BeginPublication, git, Refuse
<1>22. CASE Network
  BY <1>22, <1>q DEF Network
<1>23. CASE PushResult
  BY <1>23, <1>q DEF PushResult, git
<1>24. CASE PushDone
  BY <1>24, <1>q DEF PushDone, Pass, git
<1>25. CASE Complete
  BY <1>25, <1>q DEF Complete, Refuse, git
<1>26. CASE DeleteIntent
  BY <1>26, <1>q DEF DeleteIntent, git
<1>27. CASE DeletePin
  BY <1>27, <1>q DEF DeletePin
<1>28. CASE DeleteSave
  BY <1>28, <1>q DEF DeleteSave, git
<1>29. CASE RepoPinsGone
  BY <1>29, <1>q DEF RepoPinsGone, git
<1>30. CASE Clear
  BY <1>30, <1>q DEF Clear, git
<1>31. CASE RecoverPreflight
  BY <1>31, <1>q DEF RecoverPreflight, Check, Pass, git, Refuse
<1>32. CASE ReconcileMeta
  BY <1>32, <1>q DEF ReconcileMeta, git, Pass, Refuse
<1>33. CASE ReconcileValidation
  BY <1>33, <1>q DEF ReconcileValidation, Refuse, git, Pass
<1>34. CASE ReconcileAction
  BY <1>34, <1>q DEF ReconcileAction, Pass, git, Refuse
<1>35. CASE Resume
  BY <1>35, <1>q DEF Resume, Pass, git
<1>36. CASE RollbackPreflight
  BY <1>36, <1>q DEF RollbackPreflight, Refuse, git, Pass
<1>37. CASE RollbackAction
  <2>1. CASE UNCHANGED <<wt, head>>
    BY <2>1, <1>q
  <2>2. CASE ~UNCHANGED <<wt, head>>
    <3>0. /\ Pending /\ wt[act.entry] = "rebasing" /\ wt' = [wt EXCEPT
              ![act.entry] = "branch"]
          /\ head' = [head EXCEPT ![act.entry] = 0]
      BY <1>37, <2>2 DEF RollbackAction, ActiveRebase, Refuse, Pass, git, journal
    <3>e. act.entry \in Entries
      <4>1. act.entry \in 0..N /\ act.entry # 0 /\ N \in Nat
        BY <3>0, BoundsAreNaturals DEF ActionAgrees, Pending, TypeOK,
            JournalTypeOK, ActionEntry
      <4> QED BY ONLY <4>1 DEF Entries
    <3>1. \E x \in Entries : Pos(x)[2] # UserWork /\ \A e \in Entries : e # x
              => wt'[e] = wt[e] /\ head'[e] = head[e]
      <4>1. head[act.entry] # UserWork
        BY <3>0, <3>e DEF ForeignHolders
      <4> QED BY ONLY <3>0, <3>e, <4>1, <1>p, <1>t
    <3> QED BY ONLY <3>1, <1>r, <1>p, <1>s
  <2> QED BY <2>1, <2>2
<1>38. CASE RollbackPreflight2
  BY <1>38, <1>q DEF RollbackPreflight2, Check, Pass, git, Refuse
<1>39. CASE DetachIntent
  BY <1>39, <1>q DEF DetachIntent, Pass, git
<1>40. CASE DetachSwitch
  <2>1. CASE UNCHANGED <<wt, head>>
    BY <2>1, <1>q
  <2>2. CASE ~UNCHANGED <<wt, head>>
    <3>0. pc = "rbSwitch" /\ \A e \in Entries : e # sel => wt'[e] = wt[e] /\
              head'[e] = head[e]
      BY <1>40, <2>2, <1>t DEF DetachSwitch, At, Refuse, git
    <3>e. \A e \in Entries : Pos(e)[2] # UserWork
      BY <3>0 DEF Undisturbed, RefsLabels, LateLabels
    <3>0a. 1 \in Entries
      BY ConstantsAssumption DEF ConstantsAssumption, Entries
    <3>1. \E x \in Entries : Pos(x)[2] # UserWork /\ \A e \in Entries : e # x
              => wt'[e] = wt[e] /\ head'[e] = head[e]
      BY ONLY <3>0, <3>e, <3>0a
    <3> QED BY ONLY <3>1, <1>r, <1>p, <1>s
  <2> QED BY <2>1, <2>2
<1>41. CASE DetachSave
  BY <1>41, <1>q DEF DetachSave, git
<1>42. CASE RefsIntent
  BY <1>42, <1>q DEF RefsIntent, Pass, git, Refuse
<1>43. CASE RefsRestore
  BY <1>43, <1>q DEF RefsRestore, Refuse, git
<1>44. CASE RefsSave
  BY <1>44, <1>q DEF RefsSave, git
<1>45. CASE RestoreMeta
  BY <1>45, <1>q DEF RestoreMeta, git, Pass, Refuse
<1>46. CASE RestoreMetaWrite
  BY <1>46, <1>q DEF RestoreMetaWrite
<1>47. CASE RestoreMetaSave
  BY <1>47, <1>q DEF RestoreMetaSave, git
<1>48. CASE RestoreHolder
  BY <1>48, <1>q DEF RestoreHolder, Pass, git, Refuse
<1>49. CASE RestoreHolderSwitch
  <2>1. CASE UNCHANGED <<wt, head>>
    BY <2>1, <1>q
  <2>2. CASE ~UNCHANGED <<wt, head>>
    <3>0. pc = "rbHoldSwitch" /\ \A e \in Entries : e # sel => wt'[e] = wt[e]
              /\ head'[e] = head[e]
      BY <1>49, <2>2, <1>t DEF RestoreHolderSwitch, At, Refuse, git
    <3>e. \A e \in Entries : Pos(e)[2] # UserWork
      BY <3>0 DEF Undisturbed, RefsLabels, LateLabels
    <3>0a. 1 \in Entries
      BY ConstantsAssumption DEF ConstantsAssumption, Entries
    <3>1. \E x \in Entries : Pos(x)[2] # UserWork /\ \A e \in Entries : e # x
              => wt'[e] = wt[e] /\ head'[e] = head[e]
      BY ONLY <3>0, <3>e, <3>0a
    <3> QED BY ONLY <3>1, <1>r, <1>p, <1>s
  <2> QED BY <2>1, <2>2
<1>50. CASE RestoreHolderSave
  BY <1>50, <1>q DEF RestoreHolderSave, git
<1>51. CASE RolledBack
  BY <1>51, <1>q DEF RolledBack, git
<1>52. CASE Crash
  BY <1>52, <1>q DEF Crash, git
<1>53. CASE UserCommit
  <2>1. CASE UNCHANGED <<wt, head>>
    BY <2>1, <1>q
  <2>2. CASE ~UNCHANGED <<wt, head>>
    <3>1. PICK e \in Entries : wt' = wt /\ ref' = ref /\ wt[e] = "detached" /\
              head' = [head EXCEPT ![e] = UserWork]
      BY <1>53, <2>2 DEF UserCommit
    <3> QED BY ONLY <3>1, <1>t, <1>p
  <2> QED BY <2>1, <2>2
<1>54. CASE UserEdit
  <2>1. CASE UNCHANGED <<wt, head>>
    BY <2>1, <1>q
  <2>2. CASE ~UNCHANGED <<wt, head>>
    <3>1. PICK e \in Entries : ref' = ref /\ wt[e] = "branch" /\ wt' = [wt
              EXCEPT ![e] = "detached"] /\ head' = [head EXCEPT ![e] = ref[e]]
      BY <1>54, <2>2 DEF UserEdit
    <3> QED BY ONLY <3>1, <1>t, <1>p
  <2> QED BY <2>1, <2>2
<1>55. CASE UserResolves
  <2>1. PICK e \in Entries : wt[e] = "rebasing" /\ wt' = [wt EXCEPT ![e] =
            "branch"] /\ head' = [head EXCEPT ![e] = 0]
    BY <1>55 DEF UserResolves
  <2>2. head[e] # UserWork
    BY <2>1 DEF ForeignHolders
  <2> QED BY ONLY <2>1, <2>2, <1>t, <1>p, <1>r, <1>s
<1>56. CASE UserCleans
  BY <1>56, <1>q DEF UserCleans
<1>57. CASE Over
  BY <1>57, <1>q DEF Over, vars, git
<1> QED
  BY ONLY Next, <1>1, <1>2, <1>3, <1>4, <1>5, <1>6, <1>7, <1>8, <1>9, <1>10,
      <1>11, <1>12, <1>13, <1>14, <1>15, <1>16, <1>17, <1>18, <1>19, <1>20,
      <1>21, <1>22, <1>23, <1>24, <1>25, <1>26, <1>27, <1>28, <1>29, <1>30,
      <1>31, <1>32, <1>33, <1>34, <1>35, <1>36, <1>37, <1>38, <1>39, <1>40,
      <1>41, <1>42, <1>43, <1>44, <1>45, <1>46, <1>47, <1>48, <1>49, <1>50,
      <1>51, <1>52, <1>53, <1>54, <1>55, <1>56, <1>57
  DEF Next, CommandStep, ForwardSteps, CleanupSteps, RecoverySteps,
      RollbackSteps, UserSteps

\* No command overwrites an edit of stack.yaml.
LEMMA RecordKeptStep ==
  ASSUME RecordsAgree, WritesOwn, EditsWait, Next
  PROVE  meta = UserWork => meta' = UserWork
<1>u. UNCHANGED meta => (meta = UserWork => meta' = UserWork)  OBVIOUS
<1>1. CASE Birth
  BY <1>1, <1>u DEF Birth, git
<1>2. CASE ContinueCommand
  BY <1>2, <1>u DEF ContinueCommand, git
<1>3. CASE AbortCommand
  BY <1>3, <1>u DEF AbortCommand, git
<1>4. CASE PinCreate
  BY <1>4, <1>u DEF PinCreate
<1>5. CASE PinSave
  BY <1>5, <1>u DEF PinSave, git
<1>6. CASE PinsDone
  BY <1>6, <1>u DEF PinsDone, Pass, git
<1>7. CASE FreezeCutoffs
  BY <1>7, <1>u DEF FreezeCutoffs, git
<1>8. CASE FreezeRefused
  BY <1>8, <1>u DEF FreezeRefused, git, Refuse
<1>9. CASE SnapshotReady
  BY <1>9, <1>u DEF SnapshotReady, git
<1>10. CASE BeginAction
  BY <1>10, <1>u DEF BeginAction, Refuse, git
<1>11. CASE Rebase
  BY <1>11, <1>u DEF Rebase
<1>12. CASE Observe
  BY <1>12, <1>u DEF Observe, git, Refuse
<1>13. CASE BeginValidation
  BY <1>13, <1>u DEF BeginValidation, git, Refuse
<1>14. CASE Validator
  BY <1>14, <1>u DEF Validator
<1>15. CASE EndValidation
  BY <1>15, <1>u DEF EndValidation, git
<1>16. CASE MetaIntent
  BY <1>16, <1>u DEF MetaIntent, git, Refuse, Pass
<1>17. CASE MetaWrite
  BY <1>17 DEF MetaWrite, At, WritesOwn
<1>18. CASE MetaCheck
  BY <1>18, <1>u DEF MetaCheck, git, Refuse
<1>19. CASE Progress
  BY <1>19, <1>u DEF Progress, git
<1>20. CASE ForwardDone
  BY <1>20, <1>u DEF ForwardDone, Pass, git
<1>21. CASE BeginPublication
  BY <1>21, <1>u DEF BeginPublication, git, Refuse
<1>22. CASE Network
  BY <1>22, <1>u DEF Network
<1>23. CASE PushResult
  BY <1>23, <1>u DEF PushResult, git
<1>24. CASE PushDone
  BY <1>24, <1>u DEF PushDone, Pass, git
<1>25. CASE Complete
  BY <1>25, <1>u DEF Complete, Refuse, git
<1>26. CASE DeleteIntent
  BY <1>26, <1>u DEF DeleteIntent, git
<1>27. CASE DeletePin
  BY <1>27, <1>u DEF DeletePin
<1>28. CASE DeleteSave
  BY <1>28, <1>u DEF DeleteSave, git
<1>29. CASE RepoPinsGone
  BY <1>29, <1>u DEF RepoPinsGone, git
<1>30. CASE Clear
  BY <1>30, <1>u DEF Clear, git
<1>31. CASE RecoverPreflight
  BY <1>31, <1>u DEF RecoverPreflight, Check, Pass, git, Refuse
<1>32. CASE ReconcileMeta
  BY <1>32, <1>u DEF ReconcileMeta, git, Pass, Refuse
<1>33. CASE ReconcileValidation
  BY <1>33, <1>u DEF ReconcileValidation, Refuse, git, Pass
<1>34. CASE ReconcileAction
  BY <1>34, <1>u DEF ReconcileAction, Pass, git, Refuse
<1>35. CASE Resume
  BY <1>35, <1>u DEF Resume, Pass, git
<1>36. CASE RollbackPreflight
  BY <1>36, <1>u DEF RollbackPreflight, Refuse, git, Pass
<1>37. CASE RollbackAction
  BY <1>37, <1>u DEF RollbackAction, git, Refuse, Pass
<1>38. CASE RollbackPreflight2
  BY <1>38, <1>u DEF RollbackPreflight2, Check, Pass, git, Refuse
<1>39. CASE DetachIntent
  BY <1>39, <1>u DEF DetachIntent, Pass, git
<1>40. CASE DetachSwitch
  BY <1>40, <1>u DEF DetachSwitch, Refuse, git
<1>41. CASE DetachSave
  BY <1>41, <1>u DEF DetachSave, git
<1>42. CASE RefsIntent
  BY <1>42, <1>u DEF RefsIntent, Pass, git, Refuse
<1>43. CASE RefsRestore
  BY <1>43, <1>u DEF RefsRestore, Refuse, git
<1>44. CASE RefsSave
  BY <1>44, <1>u DEF RefsSave, git
<1>45. CASE RestoreMeta
  BY <1>45, <1>u DEF RestoreMeta, git, Pass, Refuse
<1>46. CASE RestoreMetaWrite
  BY <1>46 DEF RestoreMetaWrite, At, WritesOwn
<1>47. CASE RestoreMetaSave
  BY <1>47, <1>u DEF RestoreMetaSave, git
<1>48. CASE RestoreHolder
  BY <1>48, <1>u DEF RestoreHolder, Pass, git, Refuse
<1>49. CASE RestoreHolderSwitch
  BY <1>49, <1>u DEF RestoreHolderSwitch
<1>50. CASE RestoreHolderSave
  BY <1>50, <1>u DEF RestoreHolderSave, git
<1>51. CASE RolledBack
  BY <1>51, <1>u DEF RolledBack, git
<1>52. CASE Crash
  BY <1>52, <1>u DEF Crash, git
<1>53. CASE UserCommit
  BY <1>53, <1>u DEF UserCommit
<1>54. CASE UserEdit
  BY <1>54 DEF UserEdit
<1>55. CASE UserResolves
  BY <1>55, <1>u DEF UserResolves
<1>56. CASE UserCleans
  BY <1>56, <1>u DEF UserCleans
<1>57. CASE Over
  BY <1>57, <1>u DEF Over, vars, git
<1> QED
  BY ONLY Next, <1>1, <1>2, <1>3, <1>4, <1>5, <1>6, <1>7, <1>8, <1>9, <1>10,
      <1>11, <1>12, <1>13, <1>14, <1>15, <1>16, <1>17, <1>18, <1>19, <1>20,
      <1>21, <1>22, <1>23, <1>24, <1>25, <1>26, <1>27, <1>28, <1>29, <1>30,
      <1>31, <1>32, <1>33, <1>34, <1>35, <1>36, <1>37, <1>38, <1>39, <1>40,
      <1>41, <1>42, <1>43, <1>44, <1>45, <1>46, <1>47, <1>48, <1>49, <1>50,
      <1>51, <1>52, <1>53, <1>54, <1>55, <1>56, <1>57
  DEF Next, CommandStep, ForwardSteps, CleanupSteps, RecoverySteps,
      RollbackSteps, UserSteps

\* UserWorkKept: as long as people wait for a running command to end, nothing
\* they did after birth is ever overwritten: no commit on a branch, no commit
\* on a detached worktree, no edit of stack.yaml.
THEOREM UserWorkStays == ~Concurrent => (Spec => UserWorkKept)
  <1> SUFFICES ASSUME ~Concurrent PROVE Spec => UserWorkKept
    OBVIOUS
  <1>1. Init => WritesOwn
    BY PromiseStarts DEF PromiseInv
  <1>2. CoreInv /\ RecordsAgree /\ WritesOwn /\ [Next]_vars => WritesOwn'
    BY WritesStep, AloneStep DEF vars, git, WritesOwn
  <1>3. Spec => []WritesOwn
    BY <1>1, <1>2, CoreInvariant, AgreementInvariant, PTL DEF Spec
  <1>4. TypeInv /\ CoreInv /\ ForeignTips /\ ProgressInv /\ HolderInv
        /\ RecordsAgree /\ WritesOwn /\ [Next]_vars =>
          [/\ \A r \in Refs : ref[r] = UserWork => ref'[r] = UserWork
           /\ \A e \in Entries : Pos(e)[2] = UserWork => Pos(e)'[2] = UserWork
           /\ meta = UserWork => meta' = UserWork]_vars
    <2> SUFFICES ASSUME TypeInv, CoreInv, ForeignTips, ProgressInv, HolderInv,
                        RecordsAgree, WritesOwn, Next
                 PROVE  /\ \A r \in Refs : ref[r] = UserWork => ref'[r] = UserWork
                        /\ \A e \in Entries : Pos(e)[2] = UserWork
                                                => Pos(e)'[2] = UserWork
                        /\ meta = UserWork => meta' = UserWork
      OBVIOUS
    <2>1. \A r \in Refs : ref[r] = UserWork => ref'[r] = UserWork
      BY WorkStep DEF TypeInv
    <2>2. \A e \in Entries : Pos(e)[2] = UserWork => Pos(e)'[2] = UserWork
      BY PositionsStep
      DEF TypeInv, ProgressInv, JournalReadable, HolderInv
    <2>3. meta = UserWork => meta' = UserWork
      BY RecordKeptStep, AloneStep
    <2> QED BY <2>1, <2>2, <2>3
  <1> QED
    BY <1>3, <1>4, TypeInvariant, CoreInvariant, ForeignInvariant,
       ProgressInvariant, HolderInvariant, AgreementInvariant, PTL
    DEF Spec, UserWorkKept
==============================================================================
