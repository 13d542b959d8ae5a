-------------------------- MODULE ScopedPush_proofs --------------------------
(* A publication is never left unreadable, unprotected or out of order, and *)
(* what it claims of the remote is true, for any number of entries and      *)
(* terminals, any kills and any interference.                               *)
EXTENDS ScopedPush, TLAPS, WellFoundedInduction

Own == Commit \ Theirs
Row0 == [source : Commit \cup {None}, expected : Commit \cup {None},
         witness : Commit \cup {None}, followup : BOOLEAN]
Plans == [Entries -> Row0]
Journals ==
  [token : Nat,
   phase : {"none", "preparing", "publishing", "cleaning", "completed",
            "canceling", "canceled"},
   plan : Plans,
   rows : [Entries -> {"skipped", "pending", "intent", "succeeded"}],
   pins : [Entries ->
            [Kinds -> {"none", "pending", "creating", "held", "deleting", "removed"}]],
   decision : [Entries -> {"", "clear", "keep"}]]
Preparing == {"protect", "create", "hold"}
Publishing == {"publish", "push", "pushed"}
Cleaning == {"decide", "clear", "clean", "delete", "removed"}
Outside == {"idle", "planned", "claim"}
Labels == Outside \cup Preparing \cup Publishing \cup Cleaning
            \cup {"guarded", "plain", "release"}

GitTypes ==
  /\ local \in [Entries -> Own] /\ track \in [Entries -> Commit]
  /\ recent \in [Entries -> SUBSET Own]
  /\ remote \in [Entries -> Commit] /\ shown \in [Entries -> SUBSET Commit]
JournalTypes ==
  /\ rec \in [Entries -> {"none", "pending", "cleared"}]
  /\ j \in Journals /\ (j.phase = "none" => j.plan = NoPlan)
  /\ other \in BOOLEAN
ProcTypes ==
  /\ guard \in Procs \cup {"free", "dead"}
  /\ pc \in [Procs -> Labels]
  /\ verb \in [Procs -> {"push", "plain", "sync", "continue", "cancel"}]
  /\ mine \in [Procs -> [plan : Plans, prior : Nat, token : Nat]]
  /\ cur \in [Procs -> Int]
  /\ plans \in Nat /\ gtok \in Nat
Types == GitTypes /\ JournalTypes /\ ProcTypes

\* Whoever is past the claim has the guard.
Inside(p) == pc[p] \notin Outside
Guarded == \A p \in Procs : Inside(p) <=> guard = p

\* A plan has a source, an expected tip and, where the record has a row, the
\* proof that a tip of the branch contained what the remote had.
Proven(plan) ==
  /\ \A e \in Archived : plan[e] = NoPlan[e]
  /\ \A e \in Selected :
       /\ plan[e].source \in Own /\ plan[e].expected \in Commit
       /\ plan[e].followup <=> plan[e].witness # None
       /\ plan[e].followup =>
            plan[e].witness \in Own /\ <<plan[e].expected, plan[e].witness>> \in Within
PlanOK(plan) ==
  Proven(plan) /\ \A e \in Selected : rec[e] = "pending" => plan[e].followup
PlansOK ==
  /\ \A p \in Procs :
       pc[p] \in {"planned", "claim", "guarded"} /\ verb[p] = "push" => PlanOK(mine[p].plan)
  /\ j.phase # "none" => PlanOK(j.plan)

\* Where a command stands says what the journal says.
LabelOK(p) ==
  /\ pc[p] \in {"planned", "claim"} => verb[p] \notin {"continue", "cancel"}
  /\ pc[p] = "guarded" /\ verb[p] = "continue" => j.phase # "canceling"
  /\ pc[p] \in Preparing \cup Publishing => verb[p] # "cancel"
  /\ pc[p] \in Preparing => j.phase = "preparing"
  /\ pc[p] \in {"create", "hold"} => Unheld # {}
  /\ pc[p] = "hold" => FirstPin(Unheld) \in ref
  /\ pc[p] \in Publishing => j.phase = "publishing"
  /\ pc[p] \in {"push", "pushed"} => cur[p] \in Selected /\ j.rows[cur[p]] = "intent"
  /\ pc[p] = "pushed" => j.plan[cur[p]].source \in shown[cur[p]]
  /\ pc[p] \in Cleaning =>
       j.phase = IF verb[p] = "cancel" THEN "canceling" ELSE "cleaning"
  /\ pc[p] \in Cleaning \ {"decide"} => Undecided = {}
  /\ pc[p] \in {"delete", "removed"} => Left # {}
  /\ pc[p] = "delete" => Pin(FirstPin(Left)) = "deleting"
  /\ pc[p] = "removed" => FirstPin(Left) \notin ref
LabelsOK == \A p \in Procs : LabelOK(p)

RowsOK == j.phase # "none" =>
  /\ \A e \in Archived : j.rows[e] = "skipped"
  /\ \A e \in Selected : j.rows[e] # "skipped"
  /\ RowsAgree
PinsOK == j.phase # "none" => \A x \in Pins(j.plan) : PinAgrees(x) /\ Pin(x) # "none"
DecisionsOK == j.phase # "none" =>
  /\ DecisionsAgree
  /\ \A e \in Selected : j.decision[e] = "clear" => <<New, j.plan[e].source>> \in Within
RefsOK ==
  /\ ref \subseteq Pins(j.plan)
  /\ \A x \in Pins(j.plan) : /\ Pin(x) = "held" => x \in ref
                             /\ Pin(x) = "removed" => x \notin ref
ShownOK ==
  /\ \A e \in Entries : remote[e] \in shown[e] /\ track[e] \in shown[e]
  /\ j.phase # "none" =>
       \A e \in Selected : j.rows[e] = "succeeded" => j.plan[e].source \in shown[e]

PushInv ==
  /\ Types /\ Guarded /\ PlansOK /\ LabelsOK /\ RowsOK /\ PinsOK /\ DecisionsOK
  /\ RefsOK /\ ShownOK /\ ClearedIsPublished /\ ParentsFirst /\ NeverBothPending
-----------------------------------------------------------------------------
(* Pins.                                                                    *)

PinStates == {"none", "pending", "creating", "held", "deleting", "removed"}
AllPins == Selected \X Kinds

\* The first of some pins is one of them.
LEMMA FirstPinIn ==
  ASSUME NEW S \in SUBSET AllPins, S # {} PROVE FirstPin(S) \in S
<1> DEFINE Rank(x) == 4 * x[1] + x[2]
           Ranks == {Rank(x) : x \in S}
           Less == OpToRel(<, Nat)
<1>1. \A x \in S : Rank(x) \in Nat
  BY PushAssumption DEF AllPins, Selected, Entries, Kinds
<1>2. IsWellFoundedOn(Less, Nat)
  BY NatLessThanWellFounded
<1>3. \A s, r \in Nat : s < r => <<s, r>> \in Less
  BY DEF OpToRel
<1>4. Ranks \subseteq Nat /\ Ranks # {}
  BY <1>1
<1> HIDE DEF Less
<1>5. PICK r \in Ranks : \A s \in Ranks : <<s, r>> \notin Less
  BY <1>2, <1>4, WFMin
<1>6. PICK x \in S : r = Rank(x)
  BY <1>5
<1>7. \A y \in S : Rank(x) =< Rank(y)
  <2> SUFFICES ASSUME NEW y \in S PROVE Rank(x) =< Rank(y)
    OBVIOUS
  <2>1. Rank(x) \in Nat /\ Rank(y) \in Nat /\ ~(Rank(y) < Rank(x))
    BY <1>1, <1>3, <1>5, <1>6
  <2> HIDE DEF Rank
  <2> QED BY <2>1
<1> QED BY <1>7 DEF FirstPin

\* The next of some entries is one of them, and the first.
LEMMA NextEntryIn ==
  ASSUME Unfinished # {}
  PROVE  /\ NextEntry \in Selected /\ NextEntry \in Unfinished
         /\ \A d \in Selected : d < NextEntry => d \notin Unfinished
<1> DEFINE Less == OpToRel(<, Nat)
<1>1. Unfinished \subseteq Nat /\ Unfinished \subseteq Selected /\ Selected \subseteq Nat
  BY DEF Unfinished, Selected, Entries
<1>2. IsWellFoundedOn(Less, Nat)
  BY NatLessThanWellFounded
<1>3. \A s, r \in Nat : s < r => <<s, r>> \in Less
  BY DEF OpToRel
<1> HIDE DEF Less
<1>5. PICK r \in Unfinished : \A s \in Unfinished : <<s, r>> \notin Less
  BY <1>1, <1>2, WFMin
<1>6. \A s \in Unfinished : r =< s
  <2> SUFFICES ASSUME NEW s \in Unfinished PROVE r =< s
    OBVIOUS
  <2>1. s \in Nat /\ r \in Nat /\ ~(s < r)
    BY <1>1, <1>3, <1>5
  <2> QED BY <2>1
<1>7. NextEntry \in Unfinished /\ \A d \in Unfinished : NextEntry =< d
  BY <1>6 DEF NextEntry
<1>8. \A d \in Selected : d < NextEntry => d \notin Unfinished
  <2> SUFFICES ASSUME NEW d \in Selected, d < NextEntry, d \in Unfinished PROVE FALSE
    OBVIOUS
  <2>1. d \in Nat /\ NextEntry \in Nat /\ NextEntry =< d
    BY <1>1, <1>7
  <2> QED BY <2>1
<1> QED BY <1>1, <1>7, <1>8

\* The pins of any plan are among the pins there can be.
LEMMA PinsAre == \A plan : Pins(plan) \subseteq AllPins
  BY DEF Pins, AllPins

\* Without a plan there is nothing to pin.
LEMMA NoPlanNoPins == Pins(NoPlan) = {}
<1>1. ASSUME NEW y \in AllPins PROVE Object(NoPlan, y) = None
  <2>1. y[1] \in Entries /\ y[2] \in {1, 2, 3, 4}
    BY DEF AllPins, Kinds, Selected
  <2>2. NoPlan[y[1]] = [source |-> None, expected |-> None, witness |-> None,
                        followup |-> FALSE]
    BY <2>1 DEF NoPlan
  <2> QED BY <2>1, <2>2 DEF Object
<1> QED BY <1>1 DEF Pins, AllPins

\* Saving the state of one pin changes nothing else in the journal.
LEMMA SavedPin ==
  ASSUME j \in Journals, NEW x \in AllPins, NEW s \in PinStates, j' = Saved(x, s)
  PROVE  /\ j' \in Journals
         /\ j'.phase = j.phase /\ j'.plan = j.plan /\ j'.rows = j.rows
         /\ j'.decision = j.decision
         /\ \A y \in AllPins : Pin(y)' = IF y = x THEN s ELSE Pin(y)
<1>1. x[1] \in Entries /\ x[2] \in Kinds /\ x = <<x[1], x[2]>>
  BY DEF AllPins, Selected
<1>0. /\ j.pins \in [Entries -> [Kinds -> PinStates]]
      /\ j.token \in Nat /\ j.plan \in Plans
      /\ j.phase \in {"none", "preparing", "publishing", "cleaning", "completed",
                      "canceling", "canceled"}
      /\ j.rows \in [Entries -> {"skipped", "pending", "intent", "succeeded"}]
      /\ j.decision \in [Entries -> {"", "clear", "keep"}]
  BY DEF Journals, PinStates
<1>2. j' = [j EXCEPT !.pins = [j.pins EXCEPT ![x[1]] = [j.pins[x[1]] EXCEPT ![x[2]] = s]]]
  BY DEF Saved, Journals
<1>3. j' = [token |-> j.token, phase |-> j.phase, plan |-> j.plan, rows |-> j.rows,
            pins |-> [j.pins EXCEPT ![x[1]] = [j.pins[x[1]] EXCEPT ![x[2]] = s]],
            decision |-> j.decision]
  BY <1>2 DEF Journals
<1>4. [j.pins EXCEPT ![x[1]] = [j.pins[x[1]] EXCEPT ![x[2]] = s]] \in [Entries -> [Kinds -> PinStates]]
  BY <1>0, <1>1
<1>5. j' \in Journals
  BY ONLY <1>0, <1>3, <1>4 DEF Journals, PinStates
<1>6. ASSUME NEW y \in AllPins PROVE Pin(y)' = IF y = x THEN s ELSE Pin(y)
  <2>1. y[1] \in Entries /\ y[2] \in Kinds /\ y = <<y[1], y[2]>>
    BY DEF AllPins, Selected
  <2>2. y = x <=> y[1] = x[1] /\ y[2] = x[2]
    BY <1>1, <2>1
  <2>3. j'.pins[y[1]][y[2]] = IF y[1] = x[1] /\ y[2] = x[2] THEN s ELSE j.pins[y[1]][y[2]]
    BY ONLY <1>0, <1>1, <1>3, <2>1, s \in PinStates
  <2> QED BY <2>2, <2>3 DEF Pin
<1> QED BY <1>3, <1>5, <1>6

-----------------------------------------------------------------------------
(* Types, and who has the guard.                                            *)

\* The values of an empty journal have their types.
LEMMA PlainTypes ==
  /\ Nothing \in [Entries -> [Kinds -> PinStates]] /\ NoPlan \in Plans
  /\ Blank \in [plan : Plans, prior : Nat, token : Nat]
<1>1. NoPlan \in Plans
  BY DEF NoPlan, Plans, Row0
<1> QED BY <1>1 DEF Nothing, Blank, PinStates

\* What is still to be held, and still to be removed, are pins.
LEMMA UnheldIn == Unheld \in SUBSET AllPins
  BY PinsAre DEF Unheld
LEMMA LeftIn == Left \in SUBSET AllPins
  BY PinsAre DEF Left

\* The types at the start.
LEMMA TypesInit == Init => Types
<1> SUFFICES ASSUME Init PROVE Types
  OBVIOUS
<1>1. GitTypes
  BY PushAssumption DEF Init, GitTypes, Own
<1>2. j \in Journals
  BY PlainTypes DEF Init, Journals, PinStates
<1>3. JournalTypes
  BY <1>2 DEF Init, JournalTypes
<1>4. ProcTypes
  <2>1. plans \in Nat /\ gtok \in Nat /\ guard \in Procs \cup {"free", "dead"}
    BY DEF Init
  <2>2. "idle" \in Labels
    BY DEF Labels, Outside
  <2>3. mine \in [Procs -> [plan : Plans, prior : Nat, token : Nat]]
    BY PlainTypes DEF Init
  <2>4. cur \in [Procs -> Int]
    <3>1. cur = [p \in Procs |-> 0]
      BY DEF Init
    <3> QED BY ONLY <3>1
  <2>5. pc \in [Procs -> Labels]
    BY <2>2 DEF Init
  <2>6. verb \in [Procs -> {"push", "plain", "sync", "continue", "cancel"}]
    BY DEF Init
  <2> QED BY <2>1, <2>3, <2>4, <2>5, <2>6 DEF ProcTypes
<1> QED BY <1>1, <1>3, <1>4 DEF Types

\* Every step keeps the types.
LEMMA GitTypesStep ==
  ASSUME Types, PlansOK, LabelsOK, Next
  PROVE  GitTypes'
<1> USE DEF GitTypes
<1>t. GitTypes /\ Selected \subseteq Entries /\ JournalTypes /\ ProcTypes
  BY DEF Types, Selected
<1>a. Own \subseteq Commit /\ Theirs \subseteq Commit
  BY PushAssumption DEF Own
<1>1. ASSUME NEW p \in Procs, BuildPlan(p) PROVE GitTypes'
  BY <1>1, <1>t DEF BuildPlan, Go, git
<1>2. ASSUME NEW p \in Procs, NEW v \in {"plain", "sync"}, Start(p, v) PROVE
    GitTypes'
  BY <1>2, <1>t DEF Start, Go, git
<1>3. ASSUME NEW p \in Procs, NEW v \in {"continue", "cancel"}, Recover(p, v)
    PROVE GitTypes'
  BY <1>3, <1>t DEF Recover, Go, git, bounds
<1>4. ASSUME NEW p \in Procs, ClaimCheck(p) PROVE GitTypes'
  BY <1>4, <1>t DEF ClaimCheck, Go, Gone, Blank, git, bounds
<1>5. ASSUME NEW p \in Procs, Claim(p) PROVE GitTypes'
  BY <1>5, <1>t DEF Claim, Go, Gone, Blank, git, bounds
<1>6. ASSUME NEW p \in Procs, FirstSave(p) PROVE GitTypes'
  BY <1>6, <1>t DEF FirstSave, Holds, Go, Exit, Blank, git, bounds
<1>7. ASSUME NEW p \in Procs, Resume(p) PROVE GitTypes'
  BY <1>7, <1>t DEF Resume, Holds, Exit, Go, git, bounds
<1>8. ASSUME NEW p \in Procs, PinIntent(p) PROVE GitTypes'
  BY <1>8, <1>t DEF PinIntent, Holds, Go, git, bounds
<1>9. ASSUME NEW p \in Procs, PinCreate(p) PROVE GitTypes'
  BY <1>9, <1>t DEF PinCreate, Holds, Go, git, bounds
<1>10. ASSUME NEW p \in Procs, PinHold(p) PROVE GitTypes'
  BY <1>10, <1>t DEF PinHold, Holds, Go, git, bounds
<1>11. ASSUME NEW p \in Procs, Protected(p) PROVE GitTypes'
  BY <1>11, <1>t DEF Protected, Holds, Go, git, bounds
<1>12. ASSUME NEW p \in Procs, EntryIntent(p) PROVE GitTypes'
  BY <1>12, <1>t DEF EntryIntent, Holds, Exit, Go, git, bounds
<1>13. ASSUME NEW p \in Procs, Push(p) PROVE GitTypes'
  <2>1. cur[p] \in Selected /\ j.phase # "none"
    BY <1>13, <1>t DEF Push, Holds, LabelsOK, LabelOK, Publishing
  <2>2. j.plan[cur[p]].source \in Commit
    BY <1>a, <2>1 DEF PlansOK, PlanOK, Proven
  <2> QED BY <1>13, <1>t, <2>1, <2>2 DEF Push, Show, bounds
<1>14. ASSUME NEW p \in Procs, Recorded(p) PROVE GitTypes'
  BY <1>14, <1>t DEF Recorded, Holds, Go, git, bounds
<1>15. ASSUME NEW p \in Procs, Published(p) PROVE GitTypes'
  BY <1>15, <1>t DEF Published, Holds, Go, git, bounds
<1>16. ASSUME NEW p \in Procs, DecideFollowups(p) PROVE GitTypes'
  BY <1>16, <1>t DEF DecideFollowups, Holds, Go, Exit, git, bounds
<1>17. ASSUME NEW p \in Procs, ClearPublished(p) PROVE GitTypes'
  BY <1>17, <1>t DEF ClearPublished, Holds, Exit, Go, git, bounds
<1>18. ASSUME NEW p \in Procs, CleanIntent(p) PROVE GitTypes'
  BY <1>18, <1>t DEF CleanIntent, Holds, Exit, Go, git, bounds
<1>19. ASSUME NEW p \in Procs, CleanDelete(p) PROVE GitTypes'
  BY <1>19, <1>t DEF CleanDelete, Holds, Go, git, bounds
<1>20. ASSUME NEW p \in Procs, CleanSave(p) PROVE GitTypes'
  BY <1>20, <1>t DEF CleanSave, Holds, Go, git, bounds
<1>21. ASSUME NEW p \in Procs, Finish(p) PROVE GitTypes'
  BY <1>21, <1>t DEF Finish, Holds, Exit, Go, git, bounds
<1>22. ASSUME NEW p \in Procs, PlainPrepare(p) PROVE GitTypes'
  BY <1>22, <1>t DEF PlainPrepare, Holds, Go, git, bounds
<1>23. ASSUME NEW p \in Procs, PlainPush(p) PROVE GitTypes'
  <2>1. \A e \in Entries : local[e] \in Own /\ local[e] \in Commit
    BY <1>a, <1>t
  <2>2. UNCHANGED local /\ cur[p] \in Entries
    BY <1>23 DEF PlainPush
  <2>3. track' \in [Entries -> Commit] /\ recent' \in [Entries -> SUBSET Own]
    BY <1>23, <1>t, <2>1, <2>2 DEF PlainPush
  <2>4. remote' \in [Entries -> Commit] /\ shown' \in [Entries -> SUBSET Commit]
    BY <1>23, <1>t, <2>1, <2>2 DEF PlainPush, Show
  <2> QED BY <1>t, <2>2, <2>3, <2>4
<1>24. ASSUME NEW p \in Procs, PlainClear(p) PROVE GitTypes'
  BY <1>24, <1>t DEF PlainClear, Holds, Exit, Go, git, bounds
<1>25. ASSUME NEW p \in Procs, SyncStops(p) PROVE GitTypes'
  BY <1>25, <1>t DEF SyncStops, Holds, Gone, Go, Blank, git, bounds
<1>26. ASSUME NEW p \in Procs, SyncRefused(p) PROVE GitTypes'
  BY <1>26, <1>t DEF SyncRefused, Holds, Exit, Go, git, bounds
<1>27. ASSUME NEW p \in Procs, Release(p) PROVE GitTypes'
  BY <1>27, <1>t DEF Release, Holds, Gone, Go, Blank, git, bounds
<1>28. ASSUME NEW p \in Procs, Crash(p) PROVE GitTypes'
  BY <1>28, <1>t DEF Crash, Gone, Go, Blank, git
<1>29. ASSUME NEW p \in Procs, SyncRecovered(p) PROVE GitTypes'
  BY <1>29, <1>t DEF SyncRecovered, git, bounds
<1>30. ASSUME NEW e \in Selected, NEW c \in Commit \ Theirs, UserMoves(e, c)
    PROVE GitTypes'
  BY <1>30, <1>t DEF UserMoves, Own
<1>31. ASSUME NEW e \in Selected, Fetch(e) PROVE GitTypes'
  BY <1>31, <1>t DEF Fetch, bounds
<1>32. ASSUME NEW e \in Selected, NEW c \in Theirs, OthersPush(e, c) PROVE
    GitTypes'
  BY <1>32, <1>t, <1>a DEF OthersPush, Show
<1>33. ASSUME NEW e \in Selected, NEW m \in {"same", "rebased", "remapped"},
    MetaEdit(e, m) PROVE GitTypes'
  BY <1>33, <1>t DEF MetaEdit, Interferes, git
<1> QED
  BY ONLY Next, <1>1, <1>2, <1>3, <1>4, <1>5, <1>6, <1>7, <1>8, <1>9, <1>10,
      <1>11, <1>12, <1>13, <1>14, <1>15, <1>16, <1>17, <1>18, <1>19, <1>20,
      <1>21, <1>22, <1>23, <1>24, <1>25, <1>26, <1>27, <1>28, <1>29, <1>30,
      <1>31, <1>32, <1>33
  DEF Next, Step, People


(* How the journal is saved.                                                *)

Phases == {"none", "preparing", "publishing", "cleaning", "completed",
           "canceling", "canceled"}
Outcomes == {"skipped", "pending", "intent", "succeeded"}

\* The fields of a journal.
LEMMA JournalIs ==
  ASSUME j \in Journals
  PROVE  /\ j.phase \in Phases /\ j.token \in Nat /\ j.plan \in Plans
         /\ j.rows \in [Entries -> Outcomes]
         /\ j.pins \in [Entries -> [Kinds -> PinStates]]
         /\ j.decision \in [Entries -> {"", "clear", "keep"}]
  BY DEF Journals, Phases, Outcomes, PinStates

\* What a save of a new phase, and of a row, leaves alone.
LEMMA PhaseSaved ==
  ASSUME j \in Journals, NEW s \in Phases, j' = [j EXCEPT !.phase = s]
  PROVE  /\ j' \in Journals /\ j'.phase = s /\ j'.plan = j.plan
         /\ j'.rows = j.rows /\ j'.decision = j.decision /\ j'.pins = j.pins
         /\ \A y : Pin(y)' = Pin(y)
<1>1. j' = [token |-> j.token, phase |-> s, plan |-> j.plan, rows |-> j.rows,
            pins |-> j.pins, decision |-> j.decision]
  BY DEF Journals
<1>2. j' \in Journals
  BY <1>1, JournalIs DEF Journals, Phases, Outcomes, PinStates
<1> QED BY <1>1, <1>2 DEF Pin

\* Saving the outcome of one row changes nothing else in the journal.
LEMMA RowSaved ==
  ASSUME j \in Journals, NEW e \in Selected, NEW s \in Outcomes, j' = Row(e, s)
  PROVE  /\ j' \in Journals /\ j'.phase = j.phase /\ j'.plan = j.plan
         /\ j'.decision = j.decision /\ j'.pins = j.pins
         /\ \A d \in Entries : j'.rows[d] = IF d = e THEN s ELSE j.rows[d]
         /\ \A y : Pin(y)' = Pin(y)
<1>1. j' = [token |-> j.token, phase |-> j.phase, plan |-> j.plan,
            rows |-> [j.rows EXCEPT ![e] = s],
            pins |-> j.pins, decision |-> j.decision]
  BY DEF Journals, Row
<1>2. [j.rows EXCEPT ![e] = s] \in [Entries -> Outcomes]
  BY JournalIs
<1>j. /\ j.phase \in Phases /\ j.token \in Nat /\ j.plan \in Plans
      /\ j.rows \in [Entries -> Outcomes]
      /\ j.pins \in [Entries -> [Kinds -> PinStates]]
      /\ j.decision \in [Entries -> {"", "clear", "keep"}]
  BY JournalIs
<1>3. j' \in Journals
  BY ONLY <1>1, <1>2, <1>j DEF Journals, Phases, Outcomes, PinStates
<1>4. \A d \in Entries : [j.rows EXCEPT ![e] = s][d] = IF d = e THEN s ELSE j.rows[d]
  BY JournalIs
<1> QED BY <1>1, <1>3, <1>4 DEF Pin

\* Saving the decisions changes nothing else in the journal.
LEMMA DecisionSaved ==
  ASSUME j \in Journals,
         j' = [j EXCEPT !.decision = [e \in Entries |->
                 IF e \in Undecided THEN Decision(e) ELSE @[e]]]
  PROVE  /\ j' \in Journals /\ j'.phase = j.phase /\ j'.plan = j.plan
         /\ j'.rows = j.rows /\ j'.pins = j.pins
         /\ \A e \in Entries : j'.decision[e] =
              IF e \in Undecided THEN Decision(e) ELSE j.decision[e]
         /\ \A y : Pin(y)' = Pin(y)
<1> DEFINE ds == [e \in Entries |-> IF e \in Undecided THEN Decision(e) ELSE j.decision[e]]
<1>1. j' = [token |-> j.token, phase |-> j.phase, plan |-> j.plan, rows |-> j.rows,
            pins |-> j.pins, decision |-> ds]
  BY DEF Journals
<1>2. ds \in [Entries -> {"", "clear", "keep"}]
  BY JournalIs DEF Decision
<1> HIDE DEF ds
<1>j. /\ j.phase \in Phases /\ j.token \in Nat /\ j.plan \in Plans
      /\ j.rows \in [Entries -> Outcomes]
      /\ j.pins \in [Entries -> [Kinds -> PinStates]]
      /\ j.decision \in [Entries -> {"", "clear", "keep"}]
  BY JournalIs
<1>3. j' \in Journals
  BY ONLY <1>1, <1>2, <1>j DEF Journals, Phases, Outcomes, PinStates
<1>4. j'.decision = ds /\ j'.phase = j.phase /\ j'.plan = j.plan /\ j'.rows = j.rows
      /\ j'.pins = j.pins
  BY <1>1
<1>5. \A e \in Entries : ds[e] = IF e \in Undecided THEN Decision(e) ELSE j.decision[e]
  BY DEF ds
<1> QED BY <1>3, <1>4, <1>5 DEF Pin

\* What a first save writes.
LEMMA FirstSaved ==
  ASSUME Types, NEW p \in Procs, FirstSave(p), PlanStillTrue(p)
  PROVE  /\ j' \in Journals /\ j'.phase = "preparing" /\ j'.plan = mine[p].plan
         /\ \A e \in Entries :
              /\ j'.rows[e] = IF e \in Archived THEN "skipped" ELSE "pending"
              /\ j'.decision[e] = ""
         /\ \A x \in AllPins :
              Pin(x)' = IF x \in Pins(mine[p].plan) THEN "pending" ELSE "none"
<1> DEFINE rs == [e \in Entries |-> IF e \in Archived THEN "skipped" ELSE "pending"]
           ps == [e \in Entries |-> [k \in Kinds |->
                    IF <<e, k>> \in Pins(mine[p].plan) THEN "pending" ELSE "none"]]
           ds == [e \in Entries |-> ""]
<1>1. j' = [token |-> mine[p].token, phase |-> "preparing", plan |-> mine[p].plan,
            rows |-> rs, pins |-> ps, decision |-> ds]
  BY DEF FirstSave
<1>2. /\ rs \in [Entries -> Outcomes] /\ ps \in [Entries -> [Kinds -> PinStates]]
      /\ ds \in [Entries -> {"", "clear", "keep"}]
      /\ mine[p].token \in Nat /\ mine[p].plan \in Plans
  BY DEF Outcomes, PinStates, Types, ProcTypes
<1>3. \A x \in AllPins : ps[x[1]][x[2]] =
         IF x \in Pins(mine[p].plan) THEN "pending" ELSE "none"
  <2> SUFFICES ASSUME NEW x \in AllPins
               PROVE  ps[x[1]][x[2]] = IF x \in Pins(mine[p].plan) THEN "pending" ELSE "none"
    OBVIOUS
  <2>1. x[1] \in Entries /\ x[2] \in Kinds /\ x = <<x[1], x[2]>>
    BY DEF AllPins, Selected
  <2> QED BY <2>1
<1>4. \A e \in Entries :
        rs[e] = (IF e \in Archived THEN "skipped" ELSE "pending") /\ ds[e] = ""
  OBVIOUS
<1> HIDE DEF rs, ps, ds
<1>5. j' \in Journals
  BY <1>1, <1>2 DEF Journals, Phases, Outcomes, PinStates
<1> QED BY <1>1, <1>3, <1>4, <1>5 DEF Pin

\* Every step keeps the type of the journal and of the record.
LEMMA JournalTypesStep ==
  ASSUME Types, PlansOK, LabelsOK, Next
  PROVE  JournalTypes'
<1> USE DEF JournalTypes
<1>t. Types /\ Selected \subseteq Entries /\ ProcTypes /\ GitTypes
  BY DEF Types, Selected
<1>j. JournalTypes
  BY DEF Types
<1>l. LabelsOK
  OBVIOUS
<1>1. ASSUME NEW p \in Procs, BuildPlan(p) PROVE JournalTypes'
  BY <1>1, <1>j DEF BuildPlan, Go, git
<1>2. ASSUME NEW p \in Procs, NEW v \in {"plain", "sync"}, Start(p, v) PROVE
    JournalTypes'
  BY <1>2, <1>j DEF Start, Go, git
<1>3. ASSUME NEW p \in Procs, NEW v \in {"continue", "cancel"}, Recover(p, v)
    PROVE JournalTypes'
  BY <1>3, <1>j DEF Recover, Go, git, bounds
<1>4. ASSUME NEW p \in Procs, ClaimCheck(p) PROVE JournalTypes'
  BY <1>4, <1>j DEF ClaimCheck, Go, Gone, Blank, git, bounds
<1>5. ASSUME NEW p \in Procs, Claim(p) PROVE JournalTypes'
  BY <1>5, <1>j DEF Claim, Go, Gone, Blank, git, bounds
<1>6. ASSUME NEW p \in Procs, FirstSave(p) PROVE JournalTypes'
  <2>1. CASE PlanStillTrue(p)
    BY <1>6, <1>j, <2>1, FirstSaved DEF FirstSave
  <2>2. CASE ~PlanStillTrue(p)
    BY <1>6, <1>j, <2>2 DEF FirstSave
  <2> QED BY <2>1, <2>2
<1>7. ASSUME NEW p \in Procs, Resume(p) PROVE JournalTypes'
  <2>1. CASE UNCHANGED j
    BY <1>7, <1>j, <2>1 DEF Resume
  <2>2. CASE j' = [j EXCEPT !.phase = "canceling"]
    BY <1>7, <1>j, <2>2, PhaseSaved DEF Resume, Phases
  <2> QED BY <1>7, <2>1, <2>2 DEF Resume
<1>8. ASSUME NEW p \in Procs, PinIntent(p) PROVE JournalTypes'
  <2>1. CASE UNCHANGED j
    BY <1>8, <1>j, <2>1 DEF PinIntent
  <2>2. CASE ~UNCHANGED j
    <3>1. FirstPin(Unheld) \in AllPins
      BY <1>8, <2>2, UnheldIn, FirstPinIn DEF PinIntent
    <3> QED BY <1>8, <1>j, <2>2, <3>1, SavedPin DEF PinIntent, PinStates
  <2> QED BY <2>1, <2>2
<1>9. ASSUME NEW p \in Procs, PinCreate(p) PROVE JournalTypes'
  BY <1>9, <1>j DEF PinCreate, Holds, Go, git, bounds
<1>10. ASSUME NEW p \in Procs, PinHold(p) PROVE JournalTypes'
  <2>1. FirstPin(Unheld) \in AllPins
    BY <1>10, <1>l, UnheldIn, FirstPinIn DEF PinHold, Holds, LabelsOK, LabelOK
  <2> QED BY <1>10, <1>j, <2>1, SavedPin DEF PinHold, PinStates
<1>11. ASSUME NEW p \in Procs, Protected(p) PROVE JournalTypes'
  <2>1. j' \in Journals /\ j'.phase # "none"
    BY <1>11, <1>j, PhaseSaved DEF Protected, Phases
  <2> QED BY <1>11, <1>j, <2>1 DEF Protected
<1>12. ASSUME NEW p \in Procs, EntryIntent(p) PROVE JournalTypes'
  <2>1. NextEntry \in Selected
    BY <1>12, NextEntryIn DEF EntryIntent
  <2>2. CASE UNCHANGED j
    BY <1>12, <1>j, <2>2 DEF EntryIntent
  <2>3. CASE j' = Row(NextEntry, "intent") \/ j' = Row(NextEntry, "succeeded")
    BY <1>12, <1>j, <2>1, <2>3, RowSaved DEF EntryIntent, Outcomes
  <2> QED BY <1>12, <2>2, <2>3 DEF EntryIntent
<1>13. ASSUME NEW p \in Procs, Push(p) PROVE JournalTypes'
  BY <1>13, <1>j DEF Push, Holds, Show, Go, Exit, bounds
<1>14. ASSUME NEW p \in Procs, Recorded(p) PROVE JournalTypes'
  <2>1. cur[p] \in Selected
    BY <1>14, <1>l DEF Recorded, Holds, LabelsOK, LabelOK
  <2> QED BY <1>14, <1>j, <2>1, RowSaved DEF Recorded, Outcomes
<1>15. ASSUME NEW p \in Procs, Published(p) PROVE JournalTypes'
  <2>1. j' \in Journals /\ j'.phase # "none"
    BY <1>15, <1>j, PhaseSaved DEF Published, Phases
  <2> QED BY <1>15, <1>j, <2>1 DEF Published
<1>16. ASSUME NEW p \in Procs, DecideFollowups(p) PROVE JournalTypes'
  <2>1. CASE UNCHANGED j
    BY <1>16, <1>j, <2>1 DEF DecideFollowups
  <2>2. CASE ~UNCHANGED j
    BY <1>16, <1>j, <2>2, DecisionSaved DEF DecideFollowups
  <2> QED BY <2>1, <2>2
<1>17. ASSUME NEW p \in Procs, ClearPublished(p) PROVE JournalTypes'
  BY <1>17, <1>j DEF ClearPublished, Holds, Exit, Go, git, bounds
<1>18. ASSUME NEW p \in Procs, CleanIntent(p) PROVE JournalTypes'
  <2>1. CASE UNCHANGED j
    BY <1>18, <1>j, <2>1 DEF CleanIntent
  <2>2. CASE ~UNCHANGED j
    <3>1. FirstPin(Left) \in AllPins
      BY <1>18, <2>2, LeftIn, FirstPinIn DEF CleanIntent
    <3> QED BY <1>18, <1>j, <2>2, <3>1, SavedPin DEF CleanIntent, PinStates
  <2> QED BY <2>1, <2>2
<1>19. ASSUME NEW p \in Procs, CleanDelete(p) PROVE JournalTypes'
  BY <1>19, <1>j DEF CleanDelete, Holds, Go, git, bounds
<1>20. ASSUME NEW p \in Procs, CleanSave(p) PROVE JournalTypes'
  <2>1. FirstPin(Left) \in AllPins
    BY <1>20, <1>l, LeftIn, FirstPinIn DEF CleanSave, Holds, LabelsOK, LabelOK
  <2> QED BY <1>20, <1>j, <2>1, SavedPin DEF CleanSave, PinStates
<1>21. ASSUME NEW p \in Procs, Finish(p) PROVE JournalTypes'
  <2>1. j' \in Journals /\ j'.phase # "none"
    BY <1>21, <1>j, PhaseSaved DEF Finish, Phases
  <2> QED BY <1>21, <1>j, <2>1 DEF Finish
<1>22. ASSUME NEW p \in Procs, PlainPrepare(p) PROVE JournalTypes'
  BY <1>22, <1>j DEF PlainPrepare, ClearObserved
<1>23. ASSUME NEW p \in Procs, PlainPush(p) PROVE JournalTypes'
  BY <1>23, <1>j DEF PlainPush, Holds, Show, bounds
<1>24. ASSUME NEW p \in Procs, PlainClear(p) PROVE JournalTypes'
  BY <1>24, <1>j DEF PlainClear, ClearObserved
<1>25. ASSUME NEW p \in Procs, SyncStops(p) PROVE JournalTypes'
  BY <1>25, <1>j DEF SyncStops, Holds, Gone, Go, Blank, git, bounds
<1>26. ASSUME NEW p \in Procs, SyncRefused(p) PROVE JournalTypes'
  BY <1>26, <1>j DEF SyncRefused, Holds, Exit, Go, git, bounds
<1>27. ASSUME NEW p \in Procs, Release(p) PROVE JournalTypes'
  BY <1>27, <1>j DEF Release, Holds, Gone, Go, Blank, git, bounds
<1>28. ASSUME NEW p \in Procs, Crash(p) PROVE JournalTypes'
  BY <1>28, <1>j DEF Crash, Gone, Go, Blank, git
<1>29. ASSUME NEW p \in Procs, SyncRecovered(p) PROVE JournalTypes'
  BY <1>29, <1>j DEF SyncRecovered, git, bounds
<1>30. ASSUME NEW e \in Selected, NEW c \in Commit \ Theirs, UserMoves(e, c)
    PROVE JournalTypes'
  BY <1>30, <1>j DEF UserMoves, Interferes
<1>31. ASSUME NEW e \in Selected, Fetch(e) PROVE JournalTypes'
  BY <1>31, <1>j DEF Fetch, bounds
<1>32. ASSUME NEW e \in Selected, NEW c \in Theirs, OthersPush(e, c) PROVE
    JournalTypes'
  BY <1>32, <1>j DEF OthersPush, Interferes, Show
<1>33. ASSUME NEW e \in Selected, NEW m \in {"same", "rebased", "remapped"},
    MetaEdit(e, m) PROVE JournalTypes'
  BY <1>33, <1>j DEF MetaEdit, Interferes, git
<1> QED
  BY ONLY Next, <1>1, <1>2, <1>3, <1>4, <1>5, <1>6, <1>7, <1>8, <1>9, <1>10,
      <1>11, <1>12, <1>13, <1>14, <1>15, <1>16, <1>17, <1>18, <1>19, <1>20,
      <1>21, <1>22, <1>23, <1>24, <1>25, <1>26, <1>27, <1>28, <1>29, <1>30,
      <1>31, <1>32, <1>33
  DEF Next, Step, People

\* A command that is over.
LEMMA GoneTypes ==
  ASSUME ProcTypes, NEW p \in Procs, Gone(p)
  PROVE  /\ pc' \in [Procs -> Labels] /\ cur' \in [Procs -> Int]
         /\ verb' \in [Procs -> {"push", "plain", "sync", "continue", "cancel"}]
         /\ mine' \in [Procs -> [plan : Plans, prior : Nat, token : Nat]]
<1>1. "idle" \in Labels
  BY DEF Labels, Outside
<1> QED BY <1>1, PlainTypes DEF ProcTypes, Gone, Go

\* Every step keeps the types of the guard and the terminals.
LEMMA ProcTypesStep ==
  ASSUME Types, PlansOK, LabelsOK, Next
  PROVE  ProcTypes'
<1> USE DEF ProcTypes, Labels, Outside, Preparing, Publishing, Cleaning
<1>t. ProcTypes /\ JournalTypes /\ Selected \subseteq Entries
  BY DEF Types, Selected
<1>b. Blank \in [plan : Plans, prior : Nat, token : Nat]
  BY PlainTypes
<1>n. \A e \in Entries : e \in Int
  BY DEF Entries
<1>1. ASSUME NEW p \in Procs, BuildPlan(p) PROVE ProcTypes'
  <2> DEFINE plan == [e \in Entries |->
               IF e \in Archived THEN NoPlan[e]
               ELSE [source |-> local[e], expected |-> track[e],
                     witness |-> Witness(e), followup |-> rec[e] = "pending"]]
  <2>1. \A e \in Entries : Witness(e) \in Commit \cup {None}
    BY DEF Witness, Containing, Types, GitTypes, Own
  <2>2. plan \in Plans
    BY <2>1, PlainTypes DEF Plans, Row0, Types, GitTypes, Own
  <2> HIDE DEF plan
  <2>3. mine' = [mine EXCEPT ![p] = [plan |-> plan, prior |-> j.token, token |-> plans + 1]]
    BY <1>1 DEF BuildPlan, plan
  <2>j. j \in Journals
    BY <1>t DEF JournalTypes
  <2>4. j.token \in Nat /\ plans + 1 \in Nat
    <3>1. j.token \in Nat
      BY ONLY <2>j, JournalIs
    <3>2. plans \in Nat
      BY <1>t
    <3> QED BY ONLY <3>1, <3>2
  <2>5. [plan |-> plan, prior |-> j.token, token |-> plans + 1]
          \in [plan : Plans, prior : Nat, token : Nat]
    BY <2>2, <2>4
  <2>6. mine' \in [Procs -> [plan : Plans, prior : Nat, token : Nat]]
    BY <1>t, <2>3, <2>5
  <2> QED BY <1>1, <1>t, <2>4, <2>6 DEF BuildPlan, Go
<1>2. ASSUME NEW p \in Procs, NEW v \in {"plain", "sync"}, Start(p, v) PROVE
    ProcTypes'
  BY <1>2, <1>t DEF Start, Go, git
<1>3. ASSUME NEW p \in Procs, NEW v \in {"continue", "cancel"}, Recover(p, v)
    PROVE ProcTypes'
  <2>1. j.token \in Nat
    BY <1>t, JournalIs DEF JournalTypes
  <2> QED BY <1>3, <1>t, <2>1 DEF Recover, Go, bounds
<1>4. ASSUME NEW p \in Procs, ClaimCheck(p) PROVE ProcTypes'
  <2>1. CASE Gone(p)
    BY <1>4, <1>t, <2>1, GoneTypes DEF ClaimCheck, bounds
  <2>2. CASE ~Gone(p)
    BY <1>4, <1>t, <2>2 DEF ClaimCheck, Go, bounds, Labels, Outside
  <2> QED BY <2>1, <2>2
<1>5. ASSUME NEW p \in Procs, Claim(p) PROVE ProcTypes'
  <2>1. CASE Gone(p)
    BY <1>5, <1>t, <2>1, GoneTypes DEF Claim, bounds
  <2>2. CASE ~Gone(p)
    BY <1>5, <1>t, <2>2 DEF Claim, Go, bounds, Labels, Outside
  <2> QED BY <2>1, <2>2
<1>6. ASSUME NEW p \in Procs, FirstSave(p) PROVE ProcTypes'
  BY <1>6, <1>t, <1>b DEF FirstSave, Go, Exit, bounds
<1>7. ASSUME NEW p \in Procs, Resume(p) PROVE ProcTypes'
  <2>1. \E l \in Labels : pc' = [pc EXCEPT ![p] = l]
    BY <1>7 DEF Resume, Go, Exit
  <2> QED BY <1>7, <1>t, <2>1 DEF Resume, bounds
<1>8. ASSUME NEW p \in Procs, PinIntent(p) PROVE ProcTypes'
  BY <1>8, <1>t DEF PinIntent, Holds, Go, git, bounds
<1>9. ASSUME NEW p \in Procs, PinCreate(p) PROVE ProcTypes'
  BY <1>9, <1>t DEF PinCreate, Holds, Go, git, bounds
<1>10. ASSUME NEW p \in Procs, PinHold(p) PROVE ProcTypes'
  BY <1>10, <1>t DEF PinHold, Holds, Go, git, bounds
<1>11. ASSUME NEW p \in Procs, Protected(p) PROVE ProcTypes'
  BY <1>11, <1>t DEF Protected, Holds, Go, git, bounds
<1>12. ASSUME NEW p \in Procs, EntryIntent(p) PROVE ProcTypes'
  <2>1. \E l \in Labels : pc' = [pc EXCEPT ![p] = l]
    BY <1>12, <1>t DEF EntryIntent, Go, Exit, JournalTypes, Holds
  <2>2. NextEntry \in Selected
    BY <1>12, NextEntryIn DEF EntryIntent
  <2> QED BY <1>12, <1>t, <1>n, <2>1, <2>2 DEF EntryIntent, bounds
<1>13. ASSUME NEW p \in Procs, Push(p) PROVE ProcTypes'
  BY <1>13, <1>t DEF Push, Holds, Show, Go, Exit, bounds
<1>14. ASSUME NEW p \in Procs, Recorded(p) PROVE ProcTypes'
  BY <1>14, <1>t DEF Recorded, Holds, Go, git, bounds
<1>15. ASSUME NEW p \in Procs, Published(p) PROVE ProcTypes'
  BY <1>15, <1>t DEF Published, Holds, Go, git, bounds
<1>16. ASSUME NEW p \in Procs, DecideFollowups(p) PROVE ProcTypes'
  BY <1>16, <1>t DEF DecideFollowups, Holds, Go, Exit, git, bounds
<1>17. ASSUME NEW p \in Procs, ClearPublished(p) PROVE ProcTypes'
  BY <1>17, <1>t DEF ClearPublished, Holds, Exit, Go, git, bounds
<1>18. ASSUME NEW p \in Procs, CleanIntent(p) PROVE ProcTypes'
  BY <1>18, <1>t DEF CleanIntent, Holds, Exit, Go, git, bounds
<1>19. ASSUME NEW p \in Procs, CleanDelete(p) PROVE ProcTypes'
  BY <1>19, <1>t DEF CleanDelete, Holds, Go, git, bounds
<1>20. ASSUME NEW p \in Procs, CleanSave(p) PROVE ProcTypes'
  BY <1>20, <1>t DEF CleanSave, Holds, Go, git, bounds
<1>21. ASSUME NEW p \in Procs, Finish(p) PROVE ProcTypes'
  BY <1>21, <1>t DEF Finish, Holds, Exit, Go, git, bounds
<1>22. ASSUME NEW p \in Procs, PlainPrepare(p) PROVE ProcTypes'
  BY <1>22, <1>t DEF PlainPrepare, Holds, Go, git, bounds
<1>23. ASSUME NEW p \in Procs, PlainPush(p) PROVE ProcTypes'
  BY <1>23, <1>t DEF PlainPush, Holds, Show, bounds
<1>24. ASSUME NEW p \in Procs, PlainClear(p) PROVE ProcTypes'
  BY <1>24, <1>t DEF PlainClear, Holds, Exit, Go, git, bounds
<1>25. ASSUME NEW p \in Procs, SyncStops(p) PROVE ProcTypes'
  <2>1. CASE Gone(p)
    BY <1>25, <1>t, <2>1, GoneTypes DEF SyncStops, bounds
  <2>2. CASE ~Gone(p)
    BY <1>25, <1>t, <2>2 DEF SyncStops, Go, bounds, Labels, Outside
  <2> QED BY <2>1, <2>2
<1>26. ASSUME NEW p \in Procs, SyncRefused(p) PROVE ProcTypes'
  BY <1>26, <1>t DEF SyncRefused, Holds, Exit, Go, git, bounds
<1>27. ASSUME NEW p \in Procs, Release(p) PROVE ProcTypes'
  <2>1. CASE Gone(p)
    BY <1>27, <1>t, <2>1, GoneTypes DEF Release, bounds
  <2>2. CASE ~Gone(p)
    BY <1>27, <1>t, <2>2 DEF Release, Go, bounds, Labels, Outside
  <2> QED BY <2>1, <2>2
<1>28. ASSUME NEW p \in Procs, Crash(p) PROVE ProcTypes'
  <2>1. CASE Gone(p)
    BY <1>28, <1>t, <2>1, GoneTypes DEF Crash, bounds
  <2>2. CASE ~Gone(p)
    BY <1>28, <1>t, <2>2 DEF Crash, Go, bounds, Labels, Outside
  <2> QED BY <2>1, <2>2
<1>29. ASSUME NEW p \in Procs, SyncRecovered(p) PROVE ProcTypes'
  BY <1>29, <1>t DEF SyncRecovered, git, bounds
<1>30. ASSUME NEW e \in Selected, NEW c \in Commit \ Theirs, UserMoves(e, c)
    PROVE ProcTypes'
  BY <1>30, <1>t DEF UserMoves, Interferes
<1>31. ASSUME NEW e \in Selected, Fetch(e) PROVE ProcTypes'
  BY <1>31, <1>t DEF Fetch, bounds
<1>32. ASSUME NEW e \in Selected, NEW c \in Theirs, OthersPush(e, c) PROVE
    ProcTypes'
  BY <1>32, <1>t DEF OthersPush, Interferes, Show
<1>33. ASSUME NEW e \in Selected, NEW m \in {"same", "rebased", "remapped"},
    MetaEdit(e, m) PROVE ProcTypes'
  BY <1>33, <1>t DEF MetaEdit, Interferes, git
<1> QED
  BY ONLY Next, <1>1, <1>2, <1>3, <1>4, <1>5, <1>6, <1>7, <1>8, <1>9, <1>10,
      <1>11, <1>12, <1>13, <1>14, <1>15, <1>16, <1>17, <1>18, <1>19, <1>20,
      <1>21, <1>22, <1>23, <1>24, <1>25, <1>26, <1>27, <1>28, <1>29, <1>30,
      <1>31, <1>32, <1>33
  DEF Next, Step, People

\* The guard has one owner.
LEMMA GuardedStep ==
  ASSUME Types, Guarded, Next
  PROVE  Guarded'
<1> USE DEF Guarded, Inside, Outside
<1>t. ProcTypes /\ \A q \in Procs : q # "free" /\ q # "dead"
  BY PushAssumption DEF Types
<1> USE DEF ProcTypes
<1>1. ASSUME NEW p \in Procs, BuildPlan(p) PROVE Guarded'
  BY <1>1, <1>t DEF BuildPlan, Go, git
<1>2. ASSUME NEW p \in Procs, NEW v \in {"plain", "sync"}, Start(p, v) PROVE
    Guarded'
  BY <1>2, <1>t DEF Start, Go, git
<1>3. ASSUME NEW p \in Procs, NEW v \in {"continue", "cancel"}, Recover(p, v)
    PROVE Guarded'
  BY <1>3, <1>t DEF Recover, Go, git, bounds
<1>4. ASSUME NEW p \in Procs, ClaimCheck(p) PROVE Guarded'
  BY <1>4, <1>t DEF ClaimCheck, Go, Gone, git, bounds
<1>5. ASSUME NEW p \in Procs, Claim(p) PROVE Guarded'
  BY <1>5, <1>t DEF Claim, Go, Gone, git, bounds
<1>6. ASSUME NEW p \in Procs, FirstSave(p) PROVE Guarded'
  BY <1>6, <1>t DEF FirstSave, Holds, Go, Exit, git, bounds
<1>7. ASSUME NEW p \in Procs, Resume(p) PROVE Guarded'
  BY <1>7, <1>t DEF Resume, Holds, Exit, Go, git, bounds
<1>8. ASSUME NEW p \in Procs, PinIntent(p) PROVE Guarded'
  BY <1>8, <1>t DEF PinIntent, Holds, Go, git, bounds
<1>9. ASSUME NEW p \in Procs, PinCreate(p) PROVE Guarded'
  BY <1>9, <1>t DEF PinCreate, Holds, Go, git, bounds
<1>10. ASSUME NEW p \in Procs, PinHold(p) PROVE Guarded'
  BY <1>10, <1>t DEF PinHold, Holds, Go, git, bounds
<1>11. ASSUME NEW p \in Procs, Protected(p) PROVE Guarded'
  BY <1>11, <1>t DEF Protected, Holds, Go, git, bounds
<1>12. ASSUME NEW p \in Procs, EntryIntent(p) PROVE Guarded'
  BY <1>12, <1>t DEF EntryIntent, Holds, Exit, Go, git, bounds
<1>13. ASSUME NEW p \in Procs, Push(p) PROVE Guarded'
  BY <1>13, <1>t DEF Push, Holds, Show, Go, Exit, bounds
<1>14. ASSUME NEW p \in Procs, Recorded(p) PROVE Guarded'
  BY <1>14, <1>t DEF Recorded, Holds, Go, git, bounds
<1>15. ASSUME NEW p \in Procs, Published(p) PROVE Guarded'
  BY <1>15, <1>t DEF Published, Holds, Go, git, bounds
<1>16. ASSUME NEW p \in Procs, DecideFollowups(p) PROVE Guarded'
  BY <1>16, <1>t DEF DecideFollowups, Holds, Go, Exit, git, bounds
<1>17. ASSUME NEW p \in Procs, ClearPublished(p) PROVE Guarded'
  BY <1>17, <1>t DEF ClearPublished, Holds, Exit, Go, git, bounds
<1>18. ASSUME NEW p \in Procs, CleanIntent(p) PROVE Guarded'
  BY <1>18, <1>t DEF CleanIntent, Holds, Exit, Go, git, bounds
<1>19. ASSUME NEW p \in Procs, CleanDelete(p) PROVE Guarded'
  BY <1>19, <1>t DEF CleanDelete, Holds, Go, git, bounds
<1>20. ASSUME NEW p \in Procs, CleanSave(p) PROVE Guarded'
  BY <1>20, <1>t DEF CleanSave, Holds, Go, git, bounds
<1>21. ASSUME NEW p \in Procs, Finish(p) PROVE Guarded'
  BY <1>21, <1>t DEF Finish, Holds, Exit, Go, git, bounds
<1>22. ASSUME NEW p \in Procs, PlainPrepare(p) PROVE Guarded'
  BY <1>22, <1>t DEF PlainPrepare, Holds, Go, git, bounds
<1>23. ASSUME NEW p \in Procs, PlainPush(p) PROVE Guarded'
  BY <1>23, <1>t DEF PlainPush, Holds, Show, bounds
<1>24. ASSUME NEW p \in Procs, PlainClear(p) PROVE Guarded'
  BY <1>24, <1>t DEF PlainClear, Holds, Exit, Go, git, bounds
<1>25. ASSUME NEW p \in Procs, SyncStops(p) PROVE Guarded'
  BY <1>25, <1>t DEF SyncStops, Holds, Gone, Go, git, bounds
<1>26. ASSUME NEW p \in Procs, SyncRefused(p) PROVE Guarded'
  BY <1>26, <1>t DEF SyncRefused, Holds, Exit, Go, git, bounds
<1>27. ASSUME NEW p \in Procs, Release(p) PROVE Guarded'
  BY <1>27, <1>t DEF Release, Holds, Gone, Go, git, bounds
<1>28. ASSUME NEW p \in Procs, Crash(p) PROVE Guarded'
  BY <1>28, <1>t DEF Crash, Gone, Go, git
<1>29. ASSUME NEW p \in Procs, SyncRecovered(p) PROVE Guarded'
  BY <1>29, <1>t DEF SyncRecovered, git, bounds
<1>30. ASSUME NEW e \in Selected, NEW c \in Commit \ Theirs, UserMoves(e, c)
    PROVE Guarded'
  BY <1>30, <1>t DEF UserMoves, Interferes
<1>31. ASSUME NEW e \in Selected, Fetch(e) PROVE Guarded'
  BY <1>31, <1>t DEF Fetch, bounds
<1>32. ASSUME NEW e \in Selected, NEW c \in Theirs, OthersPush(e, c) PROVE
    Guarded'
  BY <1>32, <1>t DEF OthersPush, Interferes, Show
<1>33. ASSUME NEW e \in Selected, NEW m \in {"same", "rebased", "remapped"},
    MetaEdit(e, m) PROVE Guarded'
  BY <1>33, <1>t DEF MetaEdit, Interferes, git
<1> QED
  BY ONLY Next, <1>1, <1>2, <1>3, <1>4, <1>5, <1>6, <1>7, <1>8, <1>9, <1>10,
      <1>11, <1>12, <1>13, <1>14, <1>15, <1>16, <1>17, <1>18, <1>19, <1>20,
      <1>21, <1>22, <1>23, <1>24, <1>25, <1>26, <1>27, <1>28, <1>29, <1>30,
      <1>31, <1>32, <1>33
  DEF Next, Step, People

-----------------------------------------------------------------------------
(* Plans and labels.                                                        *)

\* A row of the reparent record is never opened again.
LEMMA RecordCloses ==
  ASSUME Types, NEW e \in Selected, rec'[e] = "pending", Next PROVE rec[e] = "pending"
<1>1. ASSUME NEW p \in Procs, Step(p)
      PROVE  UNCHANGED rec \/ ClearPublished(p) \/ PlainPrepare(p) \/ PlainClear(p)
  <2>1. CASE ClaimCheck(p) \/ Claim(p) \/ FirstSave(p) \/ Resume(p)
    BY <2>1 DEF ClaimCheck, Claim, FirstSave, Resume
  <2>2. CASE PinIntent(p) \/ PinCreate(p) \/ PinHold(p) \/ Protected(p)
    BY <2>2 DEF PinIntent, PinCreate, PinHold, Protected
  <2>3. CASE EntryIntent(p) \/ Push(p) \/ Recorded(p) \/ Published(p)
    BY <2>3 DEF EntryIntent, Push, Recorded, Published
  <2>4. CASE DecideFollowups(p) \/ CleanIntent(p) \/ CleanDelete(p) \/ CleanSave(p)
    BY <2>4 DEF DecideFollowups, CleanIntent, CleanDelete, CleanSave
  <2>5. CASE Finish(p) \/ PlainPush(p) \/ SyncStops(p) \/ SyncRefused(p) \/ Release(p)
    BY <2>5 DEF Finish, PlainPush, SyncStops, SyncRefused, Release
  <2> QED BY <1>1, <2>1, <2>2, <2>3, <2>4, <2>5 DEF Step
<1>2. People => UNCHANGED rec
  BY DEF People, UserMoves, Fetch, OthersPush, MetaEdit
<1>3. ASSUME NEW p \in Procs, BuildPlan(p) \/ Crash(p) \/ SyncRecovered(p) PROVE UNCHANGED rec
  BY <1>3 DEF BuildPlan, Crash, SyncRecovered
<1>4. ASSUME NEW p \in Procs, NEW v \in {"plain", "sync"}, Start(p, v) PROVE UNCHANGED rec
  BY <1>4 DEF Start
<1>5. ASSUME NEW p \in Procs, NEW v \in {"continue", "cancel"}, Recover(p, v) PROVE UNCHANGED rec
  BY <1>5 DEF Recover
<1>6. UNCHANGED rec \/ \E p \in Procs : ClearPublished(p) \/ PlainPrepare(p) \/ PlainClear(p)
  BY <1>1, <1>2, <1>3, <1>4, <1>5 DEF Next
<1> QED BY <1>6 DEF ClearPublished, PlainPrepare, PlainClear, ClearObserved, Selected

\* What a plan promises when it is built.
LEMMA BuiltPlan ==
  ASSUME Types, NEW p \in Procs, BuildPlan(p) PROVE PlanOK(mine'[p].plan)
<1> DEFINE plan == [e \in Entries |->
              IF e \in Archived THEN NoPlan[e]
              ELSE [source |-> local[e], expected |-> track[e],
                    witness |-> Witness(e), followup |-> rec[e] = "pending"]]
<1>1. mine'[p].plan = plan
  BY DEF BuildPlan, Types, ProcTypes
<1>2. \A e \in Archived : plan[e] = NoPlan[e]
  BY PushAssumption
<1>3. ASSUME NEW e \in Selected
      PROVE  /\ plan[e].source \in Own /\ plan[e].expected \in Commit
             /\ plan[e].followup <=> plan[e].witness # None
             /\ plan[e].followup =>
                  plan[e].witness \in Own /\ <<plan[e].expected, plan[e].witness>> \in Within
             /\ rec[e] = "pending" => plan[e].followup
  <2>1. /\ plan[e].source = local[e] /\ plan[e].expected = track[e]
        /\ plan[e].witness = Witness(e) /\ plan[e].followup = (rec[e] = "pending")
    BY DEF Selected
  <2>2. local[e] \in Own /\ track[e] \in Commit /\ Containing(e) \subseteq Own
    BY DEF Selected, Types, GitTypes, Containing
  <2>3. rec[e] = "pending" =>
          Witness(e) \in Own /\ <<track[e], Witness(e)>> \in Within
    <3> SUFFICES ASSUME rec[e] = "pending"
                 PROVE  Witness(e) \in Own /\ <<track[e], Witness(e)>> \in Within
      OBVIOUS
    <3>1. Containing(e) # {}
      BY DEF BuildPlan, Includes
    <3>2. Witness(e) \in Containing(e)
      BY <3>1 DEF Witness
    <3> QED BY <2>2, <3>2 DEF Containing
  <2>4. rec[e] # "pending" => Witness(e) = None
    BY DEF Witness
  <2>5. None \notin Own
    BY PushAssumption DEF Own
  <2> HIDE DEF plan
  <2> QED BY <2>1, <2>2, <2>3, <2>4, <2>5
<1> HIDE DEF plan
<1> QED BY <1>1, <1>2, <1>3 DEF PlanOK, Proven

\* The plan of a journal changes only when one is born.
LEMMA PlanStays ==
  ASSUME Types, LabelsOK, Next, \A p \in Procs : ~(FirstSave(p) /\ PlanStillTrue(p))
  PROVE  j'.plan = j.plan /\ (j'.phase = "none" <=> j.phase = "none")
<1>t. j \in Journals
  BY DEF Types, JournalTypes
<1>l. LabelsOK
  OBVIOUS
<1>1. ASSUME NEW p \in Procs, BuildPlan(p) PROVE j'.plan = j.plan /\ (j'.phase
    = "none" <=> j.phase = "none")
  BY <1>1, <1>t DEF BuildPlan, Go, git
<1>2. ASSUME NEW p \in Procs, NEW v \in {"plain", "sync"}, Start(p, v) PROVE
    j'.plan = j.plan /\ (j'.phase = "none" <=> j.phase = "none")
  BY <1>2, <1>t DEF Start, Go, git
<1>3. ASSUME NEW p \in Procs, NEW v \in {"continue", "cancel"}, Recover(p, v)
    PROVE j'.plan = j.plan /\ (j'.phase = "none" <=> j.phase = "none")
  BY <1>3, <1>t DEF Recover, Go, git, bounds
<1>4. ASSUME NEW p \in Procs, ClaimCheck(p) PROVE j'.plan = j.plan /\
    (j'.phase = "none" <=> j.phase = "none")
  BY <1>4, <1>t DEF ClaimCheck, Go, Gone, Blank, git, bounds
<1>5. ASSUME NEW p \in Procs, Claim(p) PROVE j'.plan = j.plan /\ (j'.phase =
    "none" <=> j.phase = "none")
  BY <1>5, <1>t DEF Claim, Go, Gone, Blank, git, bounds
<1>6. ASSUME NEW p \in Procs, FirstSave(p) PROVE j'.plan = j.plan /\ (j'.phase
    = "none" <=> j.phase = "none")
  BY <1>6 DEF FirstSave
<1>7. ASSUME NEW p \in Procs, Resume(p) PROVE j'.plan = j.plan /\ (j'.phase =
    "none" <=> j.phase = "none")
  BY <1>7, <1>t, PhaseSaved DEF Resume, Phases, Pending, Terminal
<1>8. ASSUME NEW p \in Procs, PinIntent(p) PROVE j'.plan = j.plan /\ (j'.phase
    = "none" <=> j.phase = "none")
  <2>1. FirstPin(Unheld) \in AllPins
    BY <1>8, UnheldIn, FirstPinIn DEF PinIntent
  <2> QED BY <1>8, <1>t, <2>1, SavedPin DEF PinIntent, PinStates
<1>9. ASSUME NEW p \in Procs, PinCreate(p) PROVE j'.plan = j.plan /\ (j'.phase
    = "none" <=> j.phase = "none")
  BY <1>9, <1>t DEF PinCreate, Holds, Go, git, bounds
<1>10. ASSUME NEW p \in Procs, PinHold(p) PROVE j'.plan = j.plan /\ (j'.phase
    = "none" <=> j.phase = "none")
  <2>1. FirstPin(Unheld) \in AllPins
    BY <1>10, <1>l, UnheldIn, FirstPinIn DEF PinHold, Holds, LabelsOK, LabelOK
  <2> QED BY <1>10, <1>t, <2>1, SavedPin DEF PinHold, PinStates
<1>11. ASSUME NEW p \in Procs, Protected(p) PROVE j'.plan = j.plan /\
    (j'.phase = "none" <=> j.phase = "none")
  BY <1>11, <1>t, <1>l, PhaseSaved DEF Protected, Holds, Phases, LabelsOK, LabelOK, Preparing
<1>12. ASSUME NEW p \in Procs, EntryIntent(p) PROVE j'.plan = j.plan /\
    (j'.phase = "none" <=> j.phase = "none")
  <2>1. NextEntry \in Selected
    BY <1>12, NextEntryIn DEF EntryIntent
  <2> QED BY <1>12, <1>t, <2>1, RowSaved DEF EntryIntent, Outcomes
<1>13. ASSUME NEW p \in Procs, Push(p) PROVE j'.plan = j.plan /\ (j'.phase =
    "none" <=> j.phase = "none")
  BY <1>13, <1>t DEF Push, Holds, Show, Go, Exit, bounds
<1>14. ASSUME NEW p \in Procs, Recorded(p) PROVE j'.plan = j.plan /\ (j'.phase
    = "none" <=> j.phase = "none")
  <2>1. cur[p] \in Selected
    BY <1>14, <1>l DEF Recorded, Holds, LabelsOK, LabelOK
  <2> QED BY <1>14, <1>t, <2>1, RowSaved DEF Recorded, Outcomes
<1>15. ASSUME NEW p \in Procs, Published(p) PROVE j'.plan = j.plan /\
    (j'.phase = "none" <=> j.phase = "none")
  BY <1>15, <1>t, <1>l, PhaseSaved DEF Published, Holds, Phases, LabelsOK, LabelOK, Publishing
<1>16. ASSUME NEW p \in Procs, DecideFollowups(p) PROVE j'.plan = j.plan /\
    (j'.phase = "none" <=> j.phase = "none")
  BY <1>16, <1>t, DecisionSaved DEF DecideFollowups
<1>17. ASSUME NEW p \in Procs, ClearPublished(p) PROVE j'.plan = j.plan /\
    (j'.phase = "none" <=> j.phase = "none")
  BY <1>17, <1>t DEF ClearPublished, Holds, Exit, Go, git, bounds
<1>18. ASSUME NEW p \in Procs, CleanIntent(p) PROVE j'.plan = j.plan /\
    (j'.phase = "none" <=> j.phase = "none")
  <2>1. FirstPin(Left) \in AllPins
    BY <1>18, LeftIn, FirstPinIn DEF CleanIntent
  <2> QED BY <1>18, <1>t, <2>1, SavedPin DEF CleanIntent, PinStates
<1>19. ASSUME NEW p \in Procs, CleanDelete(p) PROVE j'.plan = j.plan /\
    (j'.phase = "none" <=> j.phase = "none")
  BY <1>19, <1>t DEF CleanDelete, Holds, Go, git, bounds
<1>20. ASSUME NEW p \in Procs, CleanSave(p) PROVE j'.plan = j.plan /\
    (j'.phase = "none" <=> j.phase = "none")
  <2>1. FirstPin(Left) \in AllPins
    BY <1>20, <1>l, LeftIn, FirstPinIn DEF CleanSave, Holds, LabelsOK, LabelOK
  <2> QED BY <1>20, <1>t, <2>1, SavedPin DEF CleanSave, PinStates
<1>21. ASSUME NEW p \in Procs, Finish(p) PROVE j'.plan = j.plan /\ (j'.phase =
    "none" <=> j.phase = "none")
  BY <1>21, <1>t, <1>l, PhaseSaved DEF Finish, Holds, Phases, LabelsOK, LabelOK, Cleaning
<1>22. ASSUME NEW p \in Procs, PlainPrepare(p) PROVE j'.plan = j.plan /\
    (j'.phase = "none" <=> j.phase = "none")
  BY <1>22, <1>t DEF PlainPrepare, Holds, Go, git, bounds
<1>23. ASSUME NEW p \in Procs, PlainPush(p) PROVE j'.plan = j.plan /\
    (j'.phase = "none" <=> j.phase = "none")
  BY <1>23, <1>t DEF PlainPush, Holds, Show, bounds
<1>24. ASSUME NEW p \in Procs, PlainClear(p) PROVE j'.plan = j.plan /\
    (j'.phase = "none" <=> j.phase = "none")
  BY <1>24, <1>t DEF PlainClear, Holds, Exit, Go, git, bounds
<1>25. ASSUME NEW p \in Procs, SyncStops(p) PROVE j'.plan = j.plan /\
    (j'.phase = "none" <=> j.phase = "none")
  BY <1>25, <1>t DEF SyncStops, Holds, Gone, Go, Blank, git, bounds
<1>26. ASSUME NEW p \in Procs, SyncRefused(p) PROVE j'.plan = j.plan /\
    (j'.phase = "none" <=> j.phase = "none")
  BY <1>26, <1>t DEF SyncRefused, Holds, Exit, Go, git, bounds
<1>27. ASSUME NEW p \in Procs, Release(p) PROVE j'.plan = j.plan /\ (j'.phase
    = "none" <=> j.phase = "none")
  BY <1>27, <1>t DEF Release, Holds, Gone, Go, Blank, git, bounds
<1>28. ASSUME NEW p \in Procs, Crash(p) PROVE j'.plan = j.plan /\ (j'.phase =
    "none" <=> j.phase = "none")
  BY <1>28, <1>t DEF Crash, Gone, Go, Blank, git
<1>29. ASSUME NEW p \in Procs, SyncRecovered(p) PROVE j'.plan = j.plan /\
    (j'.phase = "none" <=> j.phase = "none")
  BY <1>29, <1>t DEF SyncRecovered, git, bounds
<1>30. ASSUME NEW e \in Selected, NEW c \in Commit \ Theirs, UserMoves(e, c)
    PROVE j'.plan = j.plan /\ (j'.phase = "none" <=> j.phase = "none")
  BY <1>30, <1>t DEF UserMoves, Interferes
<1>31. ASSUME NEW e \in Selected, Fetch(e) PROVE j'.plan = j.plan /\ (j'.phase
    = "none" <=> j.phase = "none")
  BY <1>31, <1>t DEF Fetch, bounds
<1>32. ASSUME NEW e \in Selected, NEW c \in Theirs, OthersPush(e, c) PROVE
    j'.plan = j.plan /\ (j'.phase = "none" <=> j.phase = "none")
  BY <1>32, <1>t DEF OthersPush, Interferes, Show
<1>33. ASSUME NEW e \in Selected, NEW m \in {"same", "rebased", "remapped"},
    MetaEdit(e, m) PROVE j'.plan = j.plan /\ (j'.phase = "none" <=> j.phase =
    "none")
  BY <1>33, <1>t DEF MetaEdit, Interferes, git
<1> QED
  BY ONLY Next, <1>1, <1>2, <1>3, <1>4, <1>5, <1>6, <1>7, <1>8, <1>9, <1>10,
      <1>11, <1>12, <1>13, <1>14, <1>15, <1>16, <1>17, <1>18, <1>19, <1>20,
      <1>21, <1>22, <1>23, <1>24, <1>25, <1>26, <1>27, <1>28, <1>29, <1>30,
      <1>31, <1>32, <1>33
  DEF Next, Step, People

\* A command that has a plan and has not saved it.
Planning(p) == pc[p] \in {"planned", "claim", "guarded"} /\ verb[p] = "push"

\* A plan is kept as it was built.
LEMMA PlanningStep ==
  ASSUME Types, Next
  PROVE  \A q \in Procs : Planning(q)' => BuildPlan(q) \/ (Planning(q) /\ mine'[q] = mine[q])
<1> USE DEF Planning
<1>t. ProcTypes
  BY DEF Types
<1> USE DEF ProcTypes
<1>1. ASSUME NEW p \in Procs, BuildPlan(p) PROVE \A q \in Procs : Planning(q)'
    => BuildPlan(q) \/ (Planning(q) /\ mine'[q] = mine[q])
  BY <1>1, <1>t DEF BuildPlan, Go, git
<1>2. ASSUME NEW p \in Procs, NEW v \in {"plain", "sync"}, Start(p, v) PROVE
    \A q \in Procs : Planning(q)' => BuildPlan(q) \/ (Planning(q) /\ mine'[q]
    = mine[q])
  BY <1>2, <1>t DEF Start, Go, git
<1>3. ASSUME NEW p \in Procs, NEW v \in {"continue", "cancel"}, Recover(p, v)
    PROVE \A q \in Procs : Planning(q)' => BuildPlan(q) \/ (Planning(q) /\
    mine'[q] = mine[q])
  BY <1>3, <1>t DEF Recover, Go, git, bounds
<1>4. ASSUME NEW p \in Procs, ClaimCheck(p) PROVE \A q \in Procs :
    Planning(q)' => BuildPlan(q) \/ (Planning(q) /\ mine'[q] = mine[q])
  <2>1. \A q \in Procs \ {p} : pc'[q] = pc[q] /\ verb'[q] = verb[q] /\ mine'[q] = mine[q]
    BY <1>4, <1>t DEF ClaimCheck, Gone, Go
  <2>2. pc'[p] = "idle" \/ (pc[p] = "planned" /\ pc'[p] = "claim" /\ UNCHANGED <<verb, mine>>)
          \/ (pc[p] = "claim" /\ pc'[p] = "guarded" /\ UNCHANGED <<verb, mine>>)
    BY <1>4, <1>t DEF ClaimCheck, Gone, Go
  <2> QED BY <2>1, <2>2
<1>5. ASSUME NEW p \in Procs, Claim(p) PROVE \A q \in Procs : Planning(q)' =>
    BuildPlan(q) \/ (Planning(q) /\ mine'[q] = mine[q])
  <2>1. \A q \in Procs \ {p} : pc'[q] = pc[q] /\ verb'[q] = verb[q] /\ mine'[q] = mine[q]
    BY <1>5, <1>t DEF Claim, Gone, Go
  <2>2. pc'[p] = "idle" \/ (pc[p] = "planned" /\ pc'[p] = "claim" /\ UNCHANGED <<verb, mine>>)
          \/ (pc[p] = "claim" /\ pc'[p] = "guarded" /\ UNCHANGED <<verb, mine>>)
    BY <1>5, <1>t DEF Claim, Gone, Go
  <2> QED BY <2>1, <2>2
<1>6. ASSUME NEW p \in Procs, FirstSave(p) PROVE \A q \in Procs : Planning(q)'
    => BuildPlan(q) \/ (Planning(q) /\ mine'[q] = mine[q])
  BY <1>6, <1>t DEF FirstSave, Holds, Go, Exit, git, bounds
<1>7. ASSUME NEW p \in Procs, Resume(p) PROVE \A q \in Procs : Planning(q)' =>
    BuildPlan(q) \/ (Planning(q) /\ mine'[q] = mine[q])
  BY <1>7, <1>t DEF Resume, Holds, Exit, Go, git, bounds
<1>8. ASSUME NEW p \in Procs, PinIntent(p) PROVE \A q \in Procs : Planning(q)'
    => BuildPlan(q) \/ (Planning(q) /\ mine'[q] = mine[q])
  BY <1>8, <1>t DEF PinIntent, Holds, Go, git, bounds
<1>9. ASSUME NEW p \in Procs, PinCreate(p) PROVE \A q \in Procs : Planning(q)'
    => BuildPlan(q) \/ (Planning(q) /\ mine'[q] = mine[q])
  BY <1>9, <1>t DEF PinCreate, Holds, Go, git, bounds
<1>10. ASSUME NEW p \in Procs, PinHold(p) PROVE \A q \in Procs : Planning(q)'
    => BuildPlan(q) \/ (Planning(q) /\ mine'[q] = mine[q])
  BY <1>10, <1>t DEF PinHold, Holds, Go, git, bounds
<1>11. ASSUME NEW p \in Procs, Protected(p) PROVE \A q \in Procs :
    Planning(q)' => BuildPlan(q) \/ (Planning(q) /\ mine'[q] = mine[q])
  BY <1>11, <1>t DEF Protected, Holds, Go, git, bounds
<1>12. ASSUME NEW p \in Procs, EntryIntent(p) PROVE \A q \in Procs :
    Planning(q)' => BuildPlan(q) \/ (Planning(q) /\ mine'[q] = mine[q])
  BY <1>12, <1>t DEF EntryIntent, Holds, Exit, Go, git, bounds
<1>13. ASSUME NEW p \in Procs, Push(p) PROVE \A q \in Procs : Planning(q)' =>
    BuildPlan(q) \/ (Planning(q) /\ mine'[q] = mine[q])
  BY <1>13, <1>t DEF Push, Holds, Show, Go, Exit, bounds
<1>14. ASSUME NEW p \in Procs, Recorded(p) PROVE \A q \in Procs : Planning(q)'
    => BuildPlan(q) \/ (Planning(q) /\ mine'[q] = mine[q])
  BY <1>14, <1>t DEF Recorded, Holds, Go, git, bounds
<1>15. ASSUME NEW p \in Procs, Published(p) PROVE \A q \in Procs :
    Planning(q)' => BuildPlan(q) \/ (Planning(q) /\ mine'[q] = mine[q])
  BY <1>15, <1>t DEF Published, Holds, Go, git, bounds
<1>16. ASSUME NEW p \in Procs, DecideFollowups(p) PROVE \A q \in Procs :
    Planning(q)' => BuildPlan(q) \/ (Planning(q) /\ mine'[q] = mine[q])
  BY <1>16, <1>t DEF DecideFollowups, Holds, Go, Exit, git, bounds
<1>17. ASSUME NEW p \in Procs, ClearPublished(p) PROVE \A q \in Procs :
    Planning(q)' => BuildPlan(q) \/ (Planning(q) /\ mine'[q] = mine[q])
  BY <1>17, <1>t DEF ClearPublished, Holds, Exit, Go, git, bounds
<1>18. ASSUME NEW p \in Procs, CleanIntent(p) PROVE \A q \in Procs :
    Planning(q)' => BuildPlan(q) \/ (Planning(q) /\ mine'[q] = mine[q])
  BY <1>18, <1>t DEF CleanIntent, Holds, Exit, Go, git, bounds
<1>19. ASSUME NEW p \in Procs, CleanDelete(p) PROVE \A q \in Procs :
    Planning(q)' => BuildPlan(q) \/ (Planning(q) /\ mine'[q] = mine[q])
  BY <1>19, <1>t DEF CleanDelete, Holds, Go, git, bounds
<1>20. ASSUME NEW p \in Procs, CleanSave(p) PROVE \A q \in Procs :
    Planning(q)' => BuildPlan(q) \/ (Planning(q) /\ mine'[q] = mine[q])
  BY <1>20, <1>t DEF CleanSave, Holds, Go, git, bounds
<1>21. ASSUME NEW p \in Procs, Finish(p) PROVE \A q \in Procs : Planning(q)'
    => BuildPlan(q) \/ (Planning(q) /\ mine'[q] = mine[q])
  BY <1>21, <1>t DEF Finish, Holds, Exit, Go, git, bounds
<1>22. ASSUME NEW p \in Procs, PlainPrepare(p) PROVE \A q \in Procs :
    Planning(q)' => BuildPlan(q) \/ (Planning(q) /\ mine'[q] = mine[q])
  BY <1>22, <1>t DEF PlainPrepare, Holds, Go, git, bounds
<1>23. ASSUME NEW p \in Procs, PlainPush(p) PROVE \A q \in Procs :
    Planning(q)' => BuildPlan(q) \/ (Planning(q) /\ mine'[q] = mine[q])
  BY <1>23, <1>t DEF PlainPush, Holds, Show, bounds
<1>24. ASSUME NEW p \in Procs, PlainClear(p) PROVE \A q \in Procs :
    Planning(q)' => BuildPlan(q) \/ (Planning(q) /\ mine'[q] = mine[q])
  BY <1>24, <1>t DEF PlainClear, Holds, Exit, Go, git, bounds
<1>25. ASSUME NEW p \in Procs, SyncStops(p) PROVE \A q \in Procs :
    Planning(q)' => BuildPlan(q) \/ (Planning(q) /\ mine'[q] = mine[q])
  <2>1. \A q \in Procs \ {p} : pc'[q] = pc[q] /\ verb'[q] = verb[q] /\ mine'[q] = mine[q]
    BY <1>25, <1>t DEF SyncStops, Gone, Go
  <2>2. pc'[p] = "idle" \/ (pc[p] = "planned" /\ pc'[p] = "claim" /\ UNCHANGED <<verb, mine>>)
          \/ (pc[p] = "claim" /\ pc'[p] = "guarded" /\ UNCHANGED <<verb, mine>>)
    BY <1>25, <1>t DEF SyncStops, Gone, Go
  <2> QED BY <2>1, <2>2
<1>26. ASSUME NEW p \in Procs, SyncRefused(p) PROVE \A q \in Procs :
    Planning(q)' => BuildPlan(q) \/ (Planning(q) /\ mine'[q] = mine[q])
  BY <1>26, <1>t DEF SyncRefused, Holds, Exit, Go, git, bounds
<1>27. ASSUME NEW p \in Procs, Release(p) PROVE \A q \in Procs : Planning(q)'
    => BuildPlan(q) \/ (Planning(q) /\ mine'[q] = mine[q])
  <2>1. \A q \in Procs \ {p} : pc'[q] = pc[q] /\ verb'[q] = verb[q] /\ mine'[q] = mine[q]
    BY <1>27, <1>t DEF Release, Gone, Go
  <2>2. pc'[p] = "idle" \/ (pc[p] = "planned" /\ pc'[p] = "claim" /\ UNCHANGED <<verb, mine>>)
          \/ (pc[p] = "claim" /\ pc'[p] = "guarded" /\ UNCHANGED <<verb, mine>>)
    BY <1>27, <1>t DEF Release, Gone, Go
  <2> QED BY <2>1, <2>2
<1>28. ASSUME NEW p \in Procs, Crash(p) PROVE \A q \in Procs : Planning(q)' =>
    BuildPlan(q) \/ (Planning(q) /\ mine'[q] = mine[q])
  <2>1. \A q \in Procs \ {p} : pc'[q] = pc[q] /\ verb'[q] = verb[q] /\ mine'[q] = mine[q]
    BY <1>28, <1>t DEF Crash, Gone, Go
  <2>2. pc'[p] = "idle" \/ (pc[p] = "planned" /\ pc'[p] = "claim" /\ UNCHANGED <<verb, mine>>)
          \/ (pc[p] = "claim" /\ pc'[p] = "guarded" /\ UNCHANGED <<verb, mine>>)
    BY <1>28, <1>t DEF Crash, Gone, Go
  <2> QED BY <2>1, <2>2
<1>29. ASSUME NEW p \in Procs, SyncRecovered(p) PROVE \A q \in Procs :
    Planning(q)' => BuildPlan(q) \/ (Planning(q) /\ mine'[q] = mine[q])
  BY <1>29, <1>t DEF SyncRecovered, git, bounds
<1>30. ASSUME NEW e \in Selected, NEW c \in Commit \ Theirs, UserMoves(e, c)
    PROVE \A q \in Procs : Planning(q)' => BuildPlan(q) \/ (Planning(q) /\
    mine'[q] = mine[q])
  BY <1>30, <1>t DEF UserMoves, Interferes
<1>31. ASSUME NEW e \in Selected, Fetch(e) PROVE \A q \in Procs : Planning(q)'
    => BuildPlan(q) \/ (Planning(q) /\ mine'[q] = mine[q])
  BY <1>31, <1>t DEF Fetch, bounds
<1>32. ASSUME NEW e \in Selected, NEW c \in Theirs, OthersPush(e, c) PROVE \A
    q \in Procs : Planning(q)' => BuildPlan(q) \/ (Planning(q) /\ mine'[q] =
    mine[q])
  BY <1>32, <1>t DEF OthersPush, Interferes, Show
<1>33. ASSUME NEW e \in Selected, NEW m \in {"same", "rebased", "remapped"},
    MetaEdit(e, m) PROVE \A q \in Procs : Planning(q)' => BuildPlan(q) \/
    (Planning(q) /\ mine'[q] = mine[q])
  BY <1>33, <1>t DEF MetaEdit, Interferes, git
<1> QED
  BY ONLY Next, <1>1, <1>2, <1>3, <1>4, <1>5, <1>6, <1>7, <1>8, <1>9, <1>10,
      <1>11, <1>12, <1>13, <1>14, <1>15, <1>16, <1>17, <1>18, <1>19, <1>20,
      <1>21, <1>22, <1>23, <1>24, <1>25, <1>26, <1>27, <1>28, <1>29, <1>30,
      <1>31, <1>32, <1>33
  DEF Next, Step, People

\* Every plan that may still be used has its proofs.
LEMMA PlansStep ==
  ASSUME Types, LabelsOK, PlansOK, Next PROVE PlansOK'
<1>r. \A e \in Selected : rec'[e] = "pending" => rec[e] = "pending"
  BY RecordCloses
<1>k. ASSUME NEW plan, PlanOK(plan)
      PROVE  Proven(plan) /\ \A e \in Selected : rec'[e] = "pending" => plan[e].followup
  BY <1>k, <1>r DEF PlanOK
<1>1. ASSUME NEW q \in Procs, Planning(q)' PROVE PlanOK(mine[q].plan)'
  <2>1. PlanOK(mine'[q].plan)
    <3>1. CASE BuildPlan(q)
      BY <3>1, BuiltPlan
    <3>2. CASE Planning(q) /\ mine'[q] = mine[q]
      BY <3>2 DEF PlansOK, Planning
    <3> QED BY <1>1, <3>1, <3>2, PlanningStep
  <2>2. Proven(mine'[q].plan) /\ \A e \in Selected : rec'[e] = "pending" => mine'[q].plan[e].followup
    BY ONLY <2>1, <1>k
  <2> QED BY <2>2 DEF PlanOK, Proven
<1>2. ASSUME j'.phase # "none" PROVE PlanOK(j.plan)'
  <2>1. PlanOK(j'.plan)
    <3>1. CASE \E p \in Procs : FirstSave(p) /\ PlanStillTrue(p)
      <4> PICK p \in Procs : FirstSave(p) /\ PlanStillTrue(p)
        BY <3>1
      <4>1. PlanOK(mine[p].plan)
        BY DEF FirstSave, Holds, PlansOK
      <4>2. j'.plan = mine[p].plan
        BY FirstSaved
      <4> QED BY <4>1, <4>2
    <3>2. CASE ~ \E p \in Procs : FirstSave(p) /\ PlanStillTrue(p)
      BY <1>2, <3>2, PlanStays DEF PlansOK
    <3> QED BY <3>1, <3>2
  <2>2. Proven(j'.plan) /\ \A e \in Selected : rec'[e] = "pending" => j'.plan[e].followup
    BY ONLY <2>1, <1>k
  <2> QED BY <2>2 DEF PlanOK, Proven
<1> QED BY <1>1, <1>2 DEF PlansOK, Planning

-----------------------------------------------------------------------------
(* Labels: where a command stands says what the journal says.               *)

\* Nothing is asked of a command that is outside.
LEMMA OutsideOK ==
  ASSUME NEW q, pc'[q] \in Outside, pc'[q] = "idle" \/ verb'[q] \notin {"continue", "cancel"}
  PROVE  LabelOK(q)'
  BY DEF LabelOK, Outside, Preparing, Publishing, Cleaning

\* Nobody but its owner passes the guard.
LEMMA OthersOK ==
  ASSUME Guarded, LabelsOK, NEW p \in Procs, Inside(p),
         \A q \in Procs \ {p} : pc'[q] = pc[q] /\ verb'[q] = verb[q]
  PROVE  \A q \in Procs \ {p} : LabelOK(q)'
<1> SUFFICES ASSUME NEW q \in Procs \ {p} PROVE LabelOK(q)'
  OBVIOUS
<1>1. pc[q] \in Outside
  BY DEF Guarded, Inside
<1>2. pc[q] = "idle" \/ verb[q] \notin {"continue", "cancel"}
  BY <1>1 DEF LabelsOK, LabelOK, Outside
<1> QED BY <1>1, <1>2, OutsideOK

\* A label is kept true by what keeps the journal and the pins.
LEMMA LabelKept ==
  ASSUME LabelsOK, NEW q \in Procs, UNCHANGED <<j, ref>>,
         pc'[q] = pc[q], verb'[q] = verb[q], cur'[q] = cur[q],
         \A e \in Selected : shown[e] \subseteq shown'[e]
  PROVE  LabelOK(q)'
<1>1. UNCHANGED <<Unheld, Left, Undecided>>
  BY DEF Unheld, Left, Undecided, Pin
<1>2. FirstPin(Unheld)' = FirstPin(Unheld) /\ FirstPin(Left)' = FirstPin(Left)
  BY <1>1
<1>3. Pin(FirstPin(Left))' = Pin(FirstPin(Left))
  BY <1>2 DEF Pin
<1> QED BY <1>1, <1>2, <1>3 DEF LabelsOK, LabelOK

\* Every step keeps what a command may conclude from where it stands.
LEMMA LabelsStep ==
  ASSUME Types, Guarded, LabelsOK, RowsOK, Next
  PROVE  LabelsOK'
<1>t. ProcTypes
  BY DEF Types
<1>j. j \in Journals
  BY DEF Types, JournalTypes
<1>g. shown \in [Entries -> SUBSET Commit] /\ remote \in [Entries -> Commit] /\ Selected \subseteq Entries
  BY DEF Types, GitTypes, Selected
<1>l. \A p \in Procs : LabelOK(p)
  BY DEF LabelsOK
<1>o. RowsOK
  OBVIOUS
<1> USE DEF ProcTypes
<1>1. ASSUME NEW p \in Procs, BuildPlan(p) PROVE LabelsOK'
  <2>1. UNCHANGED <<j, ref, shown>>
    BY <1>1 DEF BuildPlan, git
  <2>2. ASSUME NEW q \in Procs \ {p} PROVE LabelOK(q)'
    <3>1. pc'[q] = pc[q] /\ verb'[q] = verb[q] /\ cur'[q] = cur[q]
      BY <1>1, <1>t, <2>2 DEF BuildPlan, Gone, Go
    <3> QED BY <2>1, <3>1, LabelKept
  <2>3. LabelOK(p)'
    BY <1>1, <1>t, <1>l DEF BuildPlan, Go, Gone, LabelOK, Preparing, Publishing, Cleaning
  <2> QED BY <2>2, <2>3 DEF LabelsOK
<1>2. ASSUME NEW p \in Procs, NEW v \in {"plain", "sync"}, Start(p, v) PROVE
    LabelsOK'
  <2>1. UNCHANGED <<j, ref, shown>>
    BY <1>2 DEF Start, git
  <2>2. ASSUME NEW q \in Procs \ {p} PROVE LabelOK(q)'
    <3>1. pc'[q] = pc[q] /\ verb'[q] = verb[q] /\ cur'[q] = cur[q]
      BY <1>2, <1>t, <2>2 DEF Start, Gone, Go
    <3> QED BY <2>1, <3>1, LabelKept
  <2>3. LabelOK(p)'
    BY <1>2, <1>t, <1>l DEF Start, Go, Gone, LabelOK, Preparing, Publishing, Cleaning
  <2> QED BY <2>2, <2>3 DEF LabelsOK
<1>3. ASSUME NEW p \in Procs, NEW v \in {"continue", "cancel"}, Recover(p, v)
    PROVE LabelsOK'
  <2>1. UNCHANGED <<j, ref, shown>>
    BY <1>3 DEF Recover, git
  <2>2. ASSUME NEW q \in Procs \ {p} PROVE LabelOK(q)'
    <3>1. pc'[q] = pc[q] /\ verb'[q] = verb[q] /\ cur'[q] = cur[q]
      BY <1>3, <1>t, <2>2 DEF Recover, Gone, Go
    <3> QED BY <2>1, <3>1, LabelKept
  <2>3. LabelOK(p)'
    BY <1>3, <1>t, <1>l DEF Recover, Go, Gone, LabelOK, Preparing, Publishing, Cleaning
  <2> QED BY <2>2, <2>3 DEF LabelsOK
<1>4. ASSUME NEW p \in Procs, ClaimCheck(p) PROVE LabelsOK'
  <2>1. UNCHANGED <<j, ref, shown>>
    BY <1>4 DEF ClaimCheck, git
  <2>2. ASSUME NEW q \in Procs \ {p} PROVE LabelOK(q)'
    <3>1. pc'[q] = pc[q] /\ verb'[q] = verb[q] /\ cur'[q] = cur[q]
      BY <1>4, <1>t, <2>2 DEF ClaimCheck, Gone, Go
    <3> QED BY <2>1, <3>1, LabelKept
  <2>3. LabelOK(p)'
    BY <1>4, <1>t, <1>l DEF ClaimCheck, Go, Gone, LabelOK, Preparing, Publishing, Cleaning
  <2> QED BY <2>2, <2>3 DEF LabelsOK
<1>5. ASSUME NEW p \in Procs, Claim(p) PROVE LabelsOK'
  <2>1. UNCHANGED <<j, ref, shown>>
    BY <1>5 DEF Claim, git
  <2>2. ASSUME NEW q \in Procs \ {p} PROVE LabelOK(q)'
    <3>1. pc'[q] = pc[q] /\ verb'[q] = verb[q] /\ cur'[q] = cur[q]
      BY <1>5, <1>t, <2>2 DEF Claim, Gone, Go
    <3> QED BY <2>1, <3>1, LabelKept
  <2>3. LabelOK(p)'
    BY <1>5, <1>t, <1>l DEF Claim, Go, Gone, LabelOK, Preparing, Publishing, Cleaning
  <2> QED BY <2>2, <2>3 DEF LabelsOK
<1>6. ASSUME NEW p \in Procs, FirstSave(p) PROVE LabelsOK'
  <2>1. \A q \in Procs \ {p} : pc'[q] = pc[q] /\ verb'[q] = verb[q]
    BY <1>6, <1>t DEF FirstSave, Holds, Gone, Go, Exit
  <2>2. Inside(p)
    BY <1>6 DEF FirstSave, Holds, Inside, Outside
  <2>3. LabelOK(p)'
    <3>1. CASE PlanStillTrue(p)
      BY <1>6, <1>t, <3>1, FirstSaved DEF FirstSave, Holds, Go, LabelOK, Preparing, Publishing, Cleaning, Outside
    <3>2. CASE ~PlanStillTrue(p)
      BY <1>6, <1>t, <3>2 DEF FirstSave, Holds, Go, Exit, LabelOK, Preparing, Publishing, Cleaning, Outside
    <3> QED BY <3>1, <3>2
  <2> QED BY <2>1, <2>2, <2>3, OthersOK DEF LabelsOK
<1>7. ASSUME NEW p \in Procs, Resume(p) PROVE LabelsOK'
  <2>1. \A q \in Procs \ {p} : pc'[q] = pc[q] /\ verb'[q] = verb[q]
    BY <1>7, <1>t DEF Resume, Holds, Gone, Go, Exit
  <2>2. Inside(p)
    BY <1>7 DEF Resume, Holds, Inside, Outside
  <2>3. LabelOK(p)'
    <3>1. CASE j' = [j EXCEPT !.phase = "canceling"] /\ verb[p] = "cancel" /\ Go(p, "decide")
      BY <1>7, <1>t, <1>j, <3>1, PhaseSaved DEF Resume, Phases, Go, LabelOK, Preparing, Publishing, Cleaning, Outside
    <3>2. CASE UNCHANGED j /\ Exit(p)
      BY <1>7, <1>t, <3>2 DEF Resume, Go, Exit, LabelOK, Preparing, Publishing, Cleaning, Outside
    <3>3. CASE /\ UNCHANGED j /\ Pending /\ verb[p] = "continue"
               /\ Go(p, IF j.phase = "preparing" THEN "protect"
                        ELSE IF j.phase = "publishing" THEN "publish" ELSE "decide")
      <4>1. j.phase \in {"preparing", "publishing", "cleaning"} /\ verb'[p] = "continue"
        BY <1>7, <1>j, <1>l, <3>3, JournalIs DEF Resume, Holds, LabelOK, Phases, Pending, Terminal
      <4> QED BY <1>7, <1>t, <3>3, <4>1 DEF Go, LabelOK, Preparing, Publishing, Cleaning, Outside
    <3> QED BY <1>7, <3>1, <3>2, <3>3 DEF Resume, Pending
  <2> QED BY <2>1, <2>2, <2>3, OthersOK DEF LabelsOK
<1>8. ASSUME NEW p \in Procs, PinIntent(p) PROVE LabelsOK'
  <2>1. \A q \in Procs \ {p} : pc'[q] = pc[q] /\ verb'[q] = verb[q]
    BY <1>8, <1>t DEF PinIntent, Holds, Gone, Go, Exit
  <2>2. Inside(p)
    BY <1>8 DEF PinIntent, Holds, Inside, Outside
  <2>3. LabelOK(p)'
    <3> DEFINE x == FirstPin(Unheld)
    <3>1. x \in Unheld /\ x \in AllPins
      BY <1>8, UnheldIn, FirstPinIn DEF PinIntent
    <3> HIDE DEF x
    <3>2. /\ j'.phase = j.phase /\ j'.plan = j.plan
          /\ \A y \in AllPins : Pin(y)' # "held" <=> Pin(y) # "held"
      <4>1. CASE Pin(x) = "pending"
        BY <1>8, <1>j, <3>1, <4>1, SavedPin DEF PinIntent, x, PinStates
      <4>2. CASE Pin(x) # "pending"
        BY <1>8, <4>2 DEF PinIntent, x, Pin
      <4> QED BY <4>1, <4>2
    <3>3. Unheld' = Unheld
      BY <3>2, PinsAre DEF Unheld
    <3> QED BY <1>8, <1>t, <1>l, <3>1, <3>2, <3>3 DEF PinIntent, Holds, Go, LabelOK, Preparing, Publishing, Cleaning, Outside
  <2> QED BY <2>1, <2>2, <2>3, OthersOK DEF LabelsOK
<1>9. ASSUME NEW p \in Procs, PinCreate(p) PROVE LabelsOK'
  <2>1. \A q \in Procs \ {p} : pc'[q] = pc[q] /\ verb'[q] = verb[q]
    BY <1>9, <1>t DEF PinCreate, Holds, Gone, Go, Exit
  <2>2. Inside(p)
    BY <1>9 DEF PinCreate, Holds, Inside, Outside
  <2>3. LabelOK(p)'
    <3>1. UNCHANGED Unheld
      BY <1>9 DEF PinCreate, Unheld, Pin
    <3>2. FirstPin(Unheld)' = FirstPin(Unheld)
      BY <3>1
    <3> QED BY <1>9, <1>t, <1>l, <3>1, <3>2 DEF PinCreate, Holds, Go, LabelOK, Preparing, Publishing, Cleaning, Outside
  <2> QED BY <2>1, <2>2, <2>3, OthersOK DEF LabelsOK
<1>10. ASSUME NEW p \in Procs, PinHold(p) PROVE LabelsOK'
  <2>1. \A q \in Procs \ {p} : pc'[q] = pc[q] /\ verb'[q] = verb[q]
    BY <1>10, <1>t DEF PinHold, Holds, Gone, Go, Exit
  <2>2. Inside(p)
    BY <1>10 DEF PinHold, Holds, Inside, Outside
  <2>3. LabelOK(p)'
    <3>1. FirstPin(Unheld) \in AllPins
      BY <1>10, <1>l, UnheldIn, FirstPinIn DEF PinHold, Holds, LabelOK
    <3>2. j'.phase = j.phase
      BY <1>10, <1>j, <3>1, SavedPin DEF PinHold, PinStates
    <3> QED BY <1>10, <1>t, <1>l, <3>2 DEF PinHold, Holds, Go, LabelOK, Preparing, Publishing, Cleaning, Outside
  <2> QED BY <2>1, <2>2, <2>3, OthersOK DEF LabelsOK
<1>11. ASSUME NEW p \in Procs, Protected(p) PROVE LabelsOK'
  <2>1. \A q \in Procs \ {p} : pc'[q] = pc[q] /\ verb'[q] = verb[q]
    BY <1>11, <1>t DEF Protected, Holds, Gone, Go, Exit
  <2>2. Inside(p)
    BY <1>11 DEF Protected, Holds, Inside, Outside
  <2>3. LabelOK(p)'
    <3>1. j'.phase = "publishing"
      BY <1>11, <1>j, PhaseSaved DEF Protected, Phases
    <3> QED BY <1>11, <1>t, <1>l, <3>1 DEF Protected, Holds, Go, LabelOK, Preparing, Publishing, Cleaning, Outside
  <2> QED BY <2>1, <2>2, <2>3, OthersOK DEF LabelsOK
<1>12. ASSUME NEW p \in Procs, EntryIntent(p) PROVE LabelsOK'
  <2>1. \A q \in Procs \ {p} : pc'[q] = pc[q] /\ verb'[q] = verb[q]
    BY <1>12, <1>t DEF EntryIntent, Holds, Gone, Go, Exit
  <2>2. Inside(p)
    BY <1>12 DEF EntryIntent, Holds, Inside, Outside
  <2>3. LabelOK(p)'
    <3>1. NextEntry \in Selected /\ NextEntry \in Unfinished /\ j.rows[NextEntry] # "skipped"
      BY <1>12, <1>o, <1>l, NextEntryIn DEF EntryIntent, Holds, LabelOK, Publishing, RowsOK
    <3>2. cur'[p] = NextEntry /\ verb'[p] = verb[p]
      BY <1>12, <1>t DEF EntryIntent
    <3>3. CASE UNCHANGED j /\ pc'[p] = "release"
      BY <3>3 DEF LabelOK, Preparing, Publishing, Cleaning, Outside
    <3>4. CASE j' = Row(NextEntry, "intent") /\ pc'[p] = "push"
      <4>1. j'.phase = j.phase /\ j'.rows[NextEntry] = "intent"
        BY <1>j, <3>1, <3>4, RowSaved DEF Outcomes, Selected
      <4> QED BY <1>12, <1>l, <3>1, <3>2, <3>4, <4>1 DEF EntryIntent, Holds, LabelOK, Preparing, Publishing, Cleaning, Outside
    <3>5. CASE j' = Row(NextEntry, "succeeded") /\ pc'[p] = "publish"
      <4>1. j'.phase = j.phase
        BY <1>j, <3>1, <3>5, RowSaved DEF Outcomes, Selected
      <4> QED BY <1>12, <1>l, <3>2, <3>5, <4>1 DEF EntryIntent, Holds, LabelOK, Preparing, Publishing, Cleaning, Outside
    <3>6. CASE UNCHANGED j /\ pc'[p] = "push" /\ j.rows[NextEntry] # "pending"
      <4>1. j.rows[NextEntry] = "intent"
        BY <1>j, <3>1, <3>6, JournalIs DEF Outcomes, Unfinished, Selected
      <4> QED BY <1>12, <1>l, <3>1, <3>2, <3>6, <4>1 DEF EntryIntent, Holds, LabelOK, Preparing, Publishing, Cleaning, Outside
    <3> QED BY <1>12, <1>t, <3>3, <3>4, <3>5, <3>6 DEF EntryIntent, Holds, Go, Exit
  <2> QED BY <2>1, <2>2, <2>3, OthersOK DEF LabelsOK
<1>13. ASSUME NEW p \in Procs, Push(p) PROVE LabelsOK'
  <2>1. \A q \in Procs \ {p} : pc'[q] = pc[q] /\ verb'[q] = verb[q]
    BY <1>13, <1>t DEF Push, Holds, Gone, Go, Exit
  <2>2. Inside(p)
    BY <1>13 DEF Push, Holds, Inside, Outside
  <2>3. LabelOK(p)'
    <3>1. cur[p] \in Selected /\ cur[p] \in Entries
      BY <1>13, <1>l DEF Push, Holds, LabelOK, Selected
    <3>2. pc'[p] = "pushed" => j.plan[cur[p]].source \in shown'[cur[p]]
      BY <1>13, <1>t, <1>g, <3>1 DEF Push, Show, Go, Exit
    <3> QED BY <1>13, <1>t, <1>l, <3>1, <3>2 DEF Push, Holds, Go, Exit, LabelOK, Preparing, Publishing, Cleaning, Outside
  <2> QED BY <2>1, <2>2, <2>3, OthersOK DEF LabelsOK
<1>14. ASSUME NEW p \in Procs, Recorded(p) PROVE LabelsOK'
  <2>1. \A q \in Procs \ {p} : pc'[q] = pc[q] /\ verb'[q] = verb[q]
    BY <1>14, <1>t DEF Recorded, Holds, Gone, Go, Exit
  <2>2. Inside(p)
    BY <1>14 DEF Recorded, Holds, Inside, Outside
  <2>3. LabelOK(p)'
    <3>1. cur[p] \in Selected
      BY <1>14, <1>l DEF Recorded, Holds, LabelOK
    <3>2. j'.phase = j.phase
      BY <1>14, <1>j, <3>1, RowSaved DEF Recorded, Outcomes
    <3> QED BY <1>14, <1>t, <1>l, <3>2 DEF Recorded, Holds, Go, LabelOK, Preparing, Publishing, Cleaning, Outside
  <2> QED BY <2>1, <2>2, <2>3, OthersOK DEF LabelsOK
<1>15. ASSUME NEW p \in Procs, Published(p) PROVE LabelsOK'
  <2>1. \A q \in Procs \ {p} : pc'[q] = pc[q] /\ verb'[q] = verb[q]
    BY <1>15, <1>t DEF Published, Holds, Gone, Go, Exit
  <2>2. Inside(p)
    BY <1>15 DEF Published, Holds, Inside, Outside
  <2>3. LabelOK(p)'
    <3>1. j'.phase = "cleaning"
      BY <1>15, <1>j, PhaseSaved DEF Published, Phases
    <3> QED BY <1>15, <1>t, <1>l, <3>1 DEF Published, Holds, Go, LabelOK, Preparing, Publishing, Cleaning, Outside
  <2> QED BY <2>1, <2>2, <2>3, OthersOK DEF LabelsOK
<1>16. ASSUME NEW p \in Procs, DecideFollowups(p) PROVE LabelsOK'
  <2>1. \A q \in Procs \ {p} : pc'[q] = pc[q] /\ verb'[q] = verb[q]
    BY <1>16, <1>t DEF DecideFollowups, Holds, Gone, Go, Exit
  <2>2. Inside(p)
    BY <1>16 DEF DecideFollowups, Holds, Inside, Outside
  <2>3. LabelOK(p)'
    <3>1. CASE UNCHANGED j /\ Exit(p)
      BY <1>16, <1>t, <3>1 DEF DecideFollowups, Go, Exit, LabelOK, Preparing, Publishing, Cleaning, Outside
    <3>2. CASE ~(UNCHANGED j /\ Exit(p))
      <4>1. /\ j'.phase = j.phase /\ j'.plan = j.plan
            /\ \A e \in Entries : j'.decision[e] =
                  IF e \in Undecided THEN Decision(e) ELSE j.decision[e]
        BY <1>16, <1>j, <3>2, DecisionSaved DEF DecideFollowups
      <4>2. Undecided' = {}
        BY <4>1 DEF Undecided, Decision, Selected
      <4> QED BY <1>16, <1>t, <1>l, <3>2, <4>1, <4>2 DEF DecideFollowups, Holds, Go, LabelOK, Preparing, Publishing, Cleaning, Outside
    <3> QED BY <3>1, <3>2
  <2> QED BY <2>1, <2>2, <2>3, OthersOK DEF LabelsOK
<1>17. ASSUME NEW p \in Procs, ClearPublished(p) PROVE LabelsOK'
  <2>1. \A q \in Procs \ {p} : pc'[q] = pc[q] /\ verb'[q] = verb[q]
    BY <1>17, <1>t DEF ClearPublished, Holds, Gone, Go, Exit
  <2>2. Inside(p)
    BY <1>17 DEF ClearPublished, Holds, Inside, Outside
  <2>3. LabelOK(p)'
    <3>1. UNCHANGED Undecided
      BY <1>17 DEF ClearPublished, Undecided
    <3> QED BY <1>17, <1>t, <1>l, <3>1 DEF ClearPublished, Holds, Go, Exit, LabelOK, Preparing, Publishing, Cleaning, Outside
  <2> QED BY <2>1, <2>2, <2>3, OthersOK DEF LabelsOK
<1>18. ASSUME NEW p \in Procs, CleanIntent(p) PROVE LabelsOK'
  <2>1. \A q \in Procs \ {p} : pc'[q] = pc[q] /\ verb'[q] = verb[q]
    BY <1>18, <1>t DEF CleanIntent, Holds, Gone, Go, Exit
  <2>2. Inside(p)
    BY <1>18 DEF CleanIntent, Holds, Inside, Outside
  <2>3. LabelOK(p)'
    <3> DEFINE x == FirstPin(Left)
    <3>1. x \in Left /\ x \in AllPins
      BY <1>18, LeftIn, FirstPinIn DEF CleanIntent
    <3> HIDE DEF x
    <3>2. CASE UNCHANGED j /\ Exit(p)
      BY <1>18, <1>t, <3>2 DEF Go, Exit, LabelOK, Preparing, Publishing, Cleaning, Outside
    <3>3. CASE j' = Saved(x, "deleting") /\ Go(p, "delete")
      <4>1. /\ j'.phase = j.phase /\ j'.plan = j.plan /\ j'.decision = j.decision
            /\ \A y \in AllPins : Pin(y)' = IF y = x THEN "deleting" ELSE Pin(y)
        BY <1>j, <3>1, <3>3, SavedPin DEF PinStates
      <4>2. Left' = Left /\ Undecided' = Undecided
        BY <3>1, <4>1, PinsAre DEF Left, Undecided
      <4>3. FirstPin(Left)' = x
        BY <4>2 DEF x
      <4>4. Pin(FirstPin(Left))' = "deleting"
        BY <3>1, <4>1, <4>3
      <4> QED BY <1>18, <1>t, <1>l, <3>1, <3>3, <4>1, <4>2, <4>4
          DEF CleanIntent, Holds, Go, LabelOK, Preparing, Publishing, Cleaning, Outside
    <3> QED BY <1>18, <3>2, <3>3 DEF CleanIntent, x
  <2> QED BY <2>1, <2>2, <2>3, OthersOK DEF LabelsOK
<1>19. ASSUME NEW p \in Procs, CleanDelete(p) PROVE LabelsOK'
  <2>1. \A q \in Procs \ {p} : pc'[q] = pc[q] /\ verb'[q] = verb[q]
    BY <1>19, <1>t DEF CleanDelete, Holds, Gone, Go, Exit
  <2>2. Inside(p)
    BY <1>19 DEF CleanDelete, Holds, Inside, Outside
  <2>3. LabelOK(p)'
    <3>1. UNCHANGED <<Left, Undecided>>
      BY <1>19 DEF CleanDelete, Left, Pin, Undecided
    <3>2. FirstPin(Left)' = FirstPin(Left)
      BY <3>1
    <3> QED BY <1>19, <1>t, <1>l, <3>1, <3>2 DEF CleanDelete, Holds, Go, LabelOK, Preparing, Publishing, Cleaning, Outside
  <2> QED BY <2>1, <2>2, <2>3, OthersOK DEF LabelsOK
<1>20. ASSUME NEW p \in Procs, CleanSave(p) PROVE LabelsOK'
  <2>1. \A q \in Procs \ {p} : pc'[q] = pc[q] /\ verb'[q] = verb[q]
    BY <1>20, <1>t DEF CleanSave, Holds, Gone, Go, Exit
  <2>2. Inside(p)
    BY <1>20 DEF CleanSave, Holds, Inside, Outside
  <2>3. LabelOK(p)'
    <3>1. FirstPin(Left) \in AllPins
      BY <1>20, <1>l, LeftIn, FirstPinIn DEF CleanSave, Holds, LabelOK
    <3>2. j'.phase = j.phase /\ j'.plan = j.plan /\ j'.decision = j.decision
      BY <1>20, <1>j, <3>1, SavedPin DEF CleanSave, PinStates
    <3>3. Undecided' = Undecided
      BY <3>2 DEF Undecided
    <3> QED BY <1>20, <1>t, <1>l, <3>2, <3>3 DEF CleanSave, Holds, Go, LabelOK, Preparing, Publishing, Cleaning, Outside
  <2> QED BY <2>1, <2>2, <2>3, OthersOK DEF LabelsOK
<1>21. ASSUME NEW p \in Procs, Finish(p) PROVE LabelsOK'
  <2>1. \A q \in Procs \ {p} : pc'[q] = pc[q] /\ verb'[q] = verb[q]
    BY <1>21, <1>t DEF Finish, Holds, Gone, Go, Exit
  <2>2. Inside(p)
    BY <1>21 DEF Finish, Holds, Inside, Outside
  <2>3. LabelOK(p)'
    BY <1>21, <1>t, <1>l DEF Finish, Holds, Go, Exit, Gone, LabelOK, Preparing, Publishing, Cleaning, Outside
  <2> QED BY <2>1, <2>2, <2>3, OthersOK DEF LabelsOK
<1>22. ASSUME NEW p \in Procs, PlainPrepare(p) PROVE LabelsOK'
  <2>1. \A q \in Procs \ {p} : pc'[q] = pc[q] /\ verb'[q] = verb[q]
    BY <1>22, <1>t DEF PlainPrepare, Holds, Gone, Go, Exit
  <2>2. Inside(p)
    BY <1>22 DEF PlainPrepare, Holds, Inside, Outside
  <2>3. LabelOK(p)'
    BY <1>22, <1>t, <1>l DEF PlainPrepare, Holds, Go, Exit, Gone, LabelOK, Preparing, Publishing, Cleaning, Outside
  <2> QED BY <2>1, <2>2, <2>3, OthersOK DEF LabelsOK
<1>23. ASSUME NEW p \in Procs, PlainPush(p) PROVE LabelsOK'
  <2>1. UNCHANGED <<j, ref, pc, verb>> /\ \A d \in Selected : shown[d] \subseteq shown'[d]
    BY <1>23, <1>g DEF PlainPush, Show
  <2>2. \A q \in Procs \ {p} : cur'[q] = cur[q]
    BY <1>23, <1>t DEF PlainPush
  <2>3. LabelOK(p)'
    BY <1>23, <2>1 DEF PlainPush, Holds, LabelOK, Preparing, Publishing, Cleaning
  <2> QED BY <2>1, <2>2, <2>3, LabelKept DEF LabelsOK
<1>24. ASSUME NEW p \in Procs, PlainClear(p) PROVE LabelsOK'
  <2>1. \A q \in Procs \ {p} : pc'[q] = pc[q] /\ verb'[q] = verb[q]
    BY <1>24, <1>t DEF PlainClear, Holds, Gone, Go, Exit
  <2>2. Inside(p)
    BY <1>24 DEF PlainClear, Holds, Inside, Outside
  <2>3. LabelOK(p)'
    BY <1>24, <1>t, <1>l DEF PlainClear, Holds, Go, Exit, Gone, LabelOK, Preparing, Publishing, Cleaning, Outside
  <2> QED BY <2>1, <2>2, <2>3, OthersOK DEF LabelsOK
<1>25. ASSUME NEW p \in Procs, SyncStops(p) PROVE LabelsOK'
  <2>1. \A q \in Procs \ {p} : pc'[q] = pc[q] /\ verb'[q] = verb[q]
    BY <1>25, <1>t DEF SyncStops, Holds, Gone, Go, Exit
  <2>2. Inside(p)
    BY <1>25 DEF SyncStops, Holds, Inside, Outside
  <2>3. LabelOK(p)'
    BY <1>25, <1>t, <1>l DEF SyncStops, Holds, Go, Exit, Gone, LabelOK, Preparing, Publishing, Cleaning, Outside
  <2> QED BY <2>1, <2>2, <2>3, OthersOK DEF LabelsOK
<1>26. ASSUME NEW p \in Procs, SyncRefused(p) PROVE LabelsOK'
  <2>1. \A q \in Procs \ {p} : pc'[q] = pc[q] /\ verb'[q] = verb[q]
    BY <1>26, <1>t DEF SyncRefused, Holds, Gone, Go, Exit
  <2>2. Inside(p)
    BY <1>26 DEF SyncRefused, Holds, Inside, Outside
  <2>3. LabelOK(p)'
    BY <1>26, <1>t, <1>l DEF SyncRefused, Holds, Go, Exit, Gone, LabelOK, Preparing, Publishing, Cleaning, Outside
  <2> QED BY <2>1, <2>2, <2>3, OthersOK DEF LabelsOK
<1>27. ASSUME NEW p \in Procs, Release(p) PROVE LabelsOK'
  <2>1. \A q \in Procs \ {p} : pc'[q] = pc[q] /\ verb'[q] = verb[q]
    BY <1>27, <1>t DEF Release, Holds, Gone, Go, Exit
  <2>2. Inside(p)
    BY <1>27 DEF Release, Holds, Inside, Outside
  <2>3. LabelOK(p)'
    BY <1>27, <1>t, <1>l DEF Release, Holds, Go, Exit, Gone, LabelOK, Preparing, Publishing, Cleaning, Outside
  <2> QED BY <2>1, <2>2, <2>3, OthersOK DEF LabelsOK
<1>28. ASSUME NEW p \in Procs, Crash(p) PROVE LabelsOK'
  <2>1. UNCHANGED <<j, ref, shown>>
    BY <1>28 DEF Crash, git
  <2>2. ASSUME NEW q \in Procs \ {p} PROVE LabelOK(q)'
    <3>1. pc'[q] = pc[q] /\ verb'[q] = verb[q] /\ cur'[q] = cur[q]
      BY <1>28, <1>t, <2>2 DEF Crash, Gone, Go
    <3> QED BY <2>1, <3>1, LabelKept
  <2>3. LabelOK(p)'
    BY <1>28, <1>t, <1>l DEF Crash, Go, Gone, LabelOK, Preparing, Publishing, Cleaning
  <2> QED BY <2>2, <2>3 DEF LabelsOK
<1>29. ASSUME NEW p \in Procs, SyncRecovered(p) PROVE LabelsOK'
  <2>1. \A q \in Procs : pc'[q] = pc[q] /\ verb'[q] = verb[q] /\ cur'[q] = cur[q]
    BY <1>29 DEF SyncRecovered, git, bounds
  <2>2. UNCHANGED <<j, ref>> /\ \A d \in Selected : shown[d] \subseteq shown'[d]
    BY <1>29, <1>g DEF SyncRecovered, Show, git, bounds
  <2> QED BY <2>1, <2>2, LabelKept DEF LabelsOK
<1>30. ASSUME NEW e \in Selected, NEW c \in Commit \ Theirs, UserMoves(e, c)
    PROVE LabelsOK'
  <2>1. \A q \in Procs : pc'[q] = pc[q] /\ verb'[q] = verb[q] /\ cur'[q] = cur[q]
    BY <1>30 DEF UserMoves, git, bounds
  <2>2. UNCHANGED <<j, ref>> /\ \A d \in Selected : shown[d] \subseteq shown'[d]
    BY <1>30, <1>g DEF UserMoves, Show, git, bounds
  <2> QED BY <2>1, <2>2, LabelKept DEF LabelsOK
<1>31. ASSUME NEW e \in Selected, Fetch(e) PROVE LabelsOK'
  <2>1. \A q \in Procs : pc'[q] = pc[q] /\ verb'[q] = verb[q] /\ cur'[q] = cur[q]
    BY <1>31 DEF Fetch, git, bounds
  <2>2. UNCHANGED <<j, ref>> /\ \A d \in Selected : shown[d] \subseteq shown'[d]
    BY <1>31, <1>g DEF Fetch, Show, git, bounds
  <2> QED BY <2>1, <2>2, LabelKept DEF LabelsOK
<1>32. ASSUME NEW e \in Selected, NEW c \in Theirs, OthersPush(e, c) PROVE
    LabelsOK'
  <2>1. \A q \in Procs : pc'[q] = pc[q] /\ verb'[q] = verb[q] /\ cur'[q] = cur[q]
    BY <1>32 DEF OthersPush, git, bounds
  <2>2. UNCHANGED <<j, ref>> /\ \A d \in Selected : shown[d] \subseteq shown'[d]
    BY <1>32, <1>g DEF OthersPush, Show, git, bounds
  <2> QED BY <2>1, <2>2, LabelKept DEF LabelsOK
<1>33. ASSUME NEW e \in Selected, NEW m \in {"same", "rebased", "remapped"},
    MetaEdit(e, m) PROVE LabelsOK'
  <2>1. \A q \in Procs : pc'[q] = pc[q] /\ verb'[q] = verb[q] /\ cur'[q] = cur[q]
    BY <1>33 DEF MetaEdit, git, bounds
  <2>2. UNCHANGED <<j, ref>> /\ \A d \in Selected : shown[d] \subseteq shown'[d]
    BY <1>33, <1>g DEF MetaEdit, Show, git, bounds
  <2> QED BY <2>1, <2>2, LabelKept DEF LabelsOK
<1> QED
  BY ONLY Next, <1>1, <1>2, <1>3, <1>4, <1>5, <1>6, <1>7, <1>8, <1>9, <1>10,
      <1>11, <1>12, <1>13, <1>14, <1>15, <1>16, <1>17, <1>18, <1>19, <1>20,
      <1>21, <1>22, <1>23, <1>24, <1>25, <1>26, <1>27, <1>28, <1>29, <1>30,
      <1>31, <1>32, <1>33
  DEF Next, Step, People

-----------------------------------------------------------------------------
(* The journal: rows, pins and decisions.                                   *)

\* Entries are published in order.
LEMMA RowsStep ==
  ASSUME Types, LabelsOK, RowsOK, Next
  PROVE  RowsOK'
<1>t. ProcTypes
  BY DEF Types
<1>j. j \in Journals
  BY DEF Types, JournalTypes
<1>s. Selected \subseteq Entries /\ Archived \subseteq Entries
      /\ \A d \in Entries : d \in Archived <=> d \notin Selected
  BY PushAssumption DEF Selected
<1>l. \A p \in Procs : LabelOK(p)
  BY DEF LabelsOK
<1>1. ASSUME NEW p \in Procs, BuildPlan(p) PROVE RowsOK'
  <2>1. UNCHANGED j
    BY <1>1 DEF BuildPlan
  <2> QED BY <2>1 DEF RowsOK, RowsAgree, Unfinished
<1>2. ASSUME NEW p \in Procs, NEW v \in {"plain", "sync"}, Start(p, v) PROVE
    RowsOK'
  <2>1. UNCHANGED j
    BY <1>2 DEF Start
  <2> QED BY <2>1 DEF RowsOK, RowsAgree, Unfinished
<1>3. ASSUME NEW p \in Procs, NEW v \in {"continue", "cancel"}, Recover(p, v)
    PROVE RowsOK'
  <2>1. UNCHANGED j
    BY <1>3 DEF Recover
  <2> QED BY <2>1 DEF RowsOK, RowsAgree, Unfinished
<1>4. ASSUME NEW p \in Procs, ClaimCheck(p) PROVE RowsOK'
  <2>1. UNCHANGED j
    BY <1>4 DEF ClaimCheck
  <2> QED BY <2>1 DEF RowsOK, RowsAgree, Unfinished
<1>5. ASSUME NEW p \in Procs, Claim(p) PROVE RowsOK'
  <2>1. UNCHANGED j
    BY <1>5 DEF Claim
  <2> QED BY <2>1 DEF RowsOK, RowsAgree, Unfinished
<1>6. ASSUME NEW p \in Procs, FirstSave(p) PROVE RowsOK'
  <2>1. CASE PlanStillTrue(p)
    <3>1. /\ j'.phase = "preparing" /\ j'.plan = mine[p].plan
          /\ \A e \in Entries :
               /\ j'.rows[e] = IF e \in Archived THEN "skipped" ELSE "pending"
               /\ j'.decision[e] = ""
          /\ \A x \in AllPins :
               Pin(x)' = IF x \in Pins(mine[p].plan) THEN "pending" ELSE "none"
      BY <1>6, <2>1, FirstSaved
    <3> QED BY <3>1, <1>s DEF RowsOK, RowsAgree, Unfinished
  <2>2. CASE ~PlanStillTrue(p)
    <3>1. UNCHANGED j
      BY <1>6, <2>2 DEF FirstSave
    <3> QED BY <3>1 DEF RowsOK, RowsAgree, Unfinished
  <2> QED BY <2>1, <2>2
<1>7. ASSUME NEW p \in Procs, Resume(p) PROVE RowsOK'
  <2>1. CASE j' = [j EXCEPT !.phase = "canceling"]
    <3>1. /\ j'.phase = "canceling" /\ j'.plan = j.plan /\ j'.rows = j.rows
          /\ j'.decision = j.decision /\ \A y : Pin(y)' = Pin(y)
      BY <1>j, <2>1, PhaseSaved DEF Phases
    <3>2. j.phase # "none"
      BY <1>7, <2>1, <3>1 DEF Resume, Terminal
    <3> QED BY <3>1, <3>2 DEF RowsOK, RowsAgree, Unfinished
  <2>2. CASE UNCHANGED j
    BY <2>2 DEF RowsOK, RowsAgree, Unfinished
  <2> QED BY <1>7, <2>1, <2>2 DEF Resume
<1>8. ASSUME NEW p \in Procs, PinIntent(p) PROVE RowsOK'
  <2> DEFINE x == FirstPin(Unheld)
  <2>1. x \in Unheld /\ x \in AllPins
    BY <1>8, <1>l, UnheldIn, FirstPinIn DEF PinIntent, Holds, LabelOK
  <2> HIDE DEF x
  <2>2. CASE UNCHANGED j
    BY <2>2 DEF RowsOK, RowsAgree, Unfinished
  <2>3. CASE j' = Saved(x, "creating")
    <3>1. /\ j'.phase = j.phase /\ j'.plan = j.plan /\ j'.rows = j.rows
          /\ j'.decision = j.decision
          /\ \A y \in AllPins : Pin(y)' = IF y = x THEN "creating" ELSE Pin(y)
      BY <1>j, <2>1, <2>3, SavedPin DEF PinStates
    <3> QED BY <3>1 DEF RowsOK, RowsAgree, Unfinished
  <2> QED BY <1>8, <2>2, <2>3 DEF PinIntent, x
<1>9. ASSUME NEW p \in Procs, PinCreate(p) PROVE RowsOK'
  <2>1. UNCHANGED j
    BY <1>9 DEF PinCreate
  <2> QED BY <2>1 DEF RowsOK, RowsAgree, Unfinished
<1>10. ASSUME NEW p \in Procs, PinHold(p) PROVE RowsOK'
  <2> DEFINE x == FirstPin(Unheld)
  <2>1. x \in Unheld /\ x \in AllPins
    BY <1>10, <1>l, UnheldIn, FirstPinIn DEF PinHold, Holds, LabelOK
  <2> HIDE DEF x
  <2>2. CASE UNCHANGED j
    BY <2>2 DEF RowsOK, RowsAgree, Unfinished
  <2>3. CASE j' = Saved(x, "held")
    <3>1. /\ j'.phase = j.phase /\ j'.plan = j.plan /\ j'.rows = j.rows
          /\ j'.decision = j.decision
          /\ \A y \in AllPins : Pin(y)' = IF y = x THEN "held" ELSE Pin(y)
      BY <1>j, <2>1, <2>3, SavedPin DEF PinStates
    <3> QED BY <3>1 DEF RowsOK, RowsAgree, Unfinished
  <2> QED BY <1>10, <2>2, <2>3 DEF PinHold, x
<1>11. ASSUME NEW p \in Procs, Protected(p) PROVE RowsOK'
  <2>1. CASE j' = [j EXCEPT !.phase = "publishing"]
    <3>1. /\ j'.phase = "publishing" /\ j'.plan = j.plan /\ j'.rows = j.rows
          /\ j'.decision = j.decision /\ \A y : Pin(y)' = Pin(y)
      BY <1>j, <2>1, PhaseSaved DEF Phases
    <3>2. j.phase = "preparing"
      BY <1>11, <1>l DEF Protected, Holds, LabelOK, Preparing
    <3> QED BY <3>1, <3>2 DEF RowsOK, RowsAgree, Unfinished
  <2>2. CASE UNCHANGED j
    BY <2>2 DEF RowsOK, RowsAgree, Unfinished
  <2> QED BY <1>11, <2>1, <2>2 DEF Protected
<1>12. ASSUME NEW p \in Procs, EntryIntent(p) PROVE RowsOK'
  <2>1. NextEntry \in Selected /\ j.phase = "publishing"
    BY <1>12, <1>l, NextEntryIn DEF EntryIntent, Holds, LabelOK, Publishing
  <2>0. CASE UNCHANGED j
    BY <2>0 DEF RowsOK, RowsAgree, Unfinished
  <2>9. ASSUME NEW s \in {"intent", "succeeded"}, j' = Row(NextEntry, s)
        PROVE  RowsOK'
    <3> DEFINE e == NextEntry
    <3>2. /\ j'.phase = j.phase /\ j'.plan = j.plan /\ j'.decision = j.decision
          /\ \A d \in Entries : j'.rows[d] = IF d = e THEN s ELSE j.rows[d]
          /\ \A y : Pin(y)' = Pin(y)
      BY <1>j, <2>1, <2>9, RowSaved DEF Outcomes
    <3>3. e \in Entries /\ e \in Nat /\ Selected \subseteq Nat
      BY <1>s, <2>1 DEF Entries
    <3>4. \A d \in Selected : d < e => j.rows[d] = "succeeded"
      BY <1>12, NextEntryIn DEF EntryIntent, Unfinished
    <3>5. \A d \in Selected : e < d => j.rows[d] = "pending"
      BY <1>12, <2>1, NextEntryIn DEF EntryIntent, Unfinished, RowsOK, RowsAgree
    <3>6. \A c, d \in Selected : (c < d /\ j'.rows[d] # "pending") => j'.rows[c] = "succeeded"
      BY <1>s, <2>1, <3>2, <3>3, <3>4, <3>5 DEF RowsOK, RowsAgree
    <3> QED BY <1>s, <2>1, <3>2, <3>3, <3>6, ZenonT(60) DEF RowsOK, RowsAgree, Unfinished
  <2> QED BY <1>12, <2>0, <2>9 DEF EntryIntent
<1>13. ASSUME NEW p \in Procs, Push(p) PROVE RowsOK'
  <2>1. UNCHANGED j
    BY <1>13 DEF Push
  <2> QED BY <2>1 DEF RowsOK, RowsAgree, Unfinished
<1>14. ASSUME NEW p \in Procs, Recorded(p) PROVE RowsOK'
  <2>1. cur[p] \in Selected /\ j.rows[cur[p]] = "intent" /\ j.phase = "publishing"
    BY <1>14, <1>l DEF Recorded, Holds, LabelOK, Publishing
  <2> DEFINE e == cur[p]
             s == "succeeded"
  <2>2. /\ j'.phase = j.phase /\ j'.plan = j.plan /\ j'.decision = j.decision
        /\ \A d \in Entries : j'.rows[d] = IF d = e THEN s ELSE j.rows[d]
        /\ \A y : Pin(y)' = Pin(y)
    BY <1>14, <1>j, <2>1, RowSaved DEF Recorded, Outcomes
  <2>3. \A c, d \in Selected : (c < d /\ j'.rows[d] # "pending") => j'.rows[c] = "succeeded"
    BY <1>s, <2>1, <2>2 DEF RowsOK, RowsAgree
  <2> QED BY <1>s, <2>1, <2>2, <2>3 DEF RowsOK, RowsAgree, Unfinished
<1>15. ASSUME NEW p \in Procs, Published(p) PROVE RowsOK'
  <2>1. CASE j' = [j EXCEPT !.phase = "cleaning"]
    <3>1. /\ j'.phase = "cleaning" /\ j'.plan = j.plan /\ j'.rows = j.rows
          /\ j'.decision = j.decision /\ \A y : Pin(y)' = Pin(y)
      BY <1>j, <2>1, PhaseSaved DEF Phases
    <3>2. Unfinished = {} /\ j.phase = "publishing"
      BY <1>15, <1>l DEF Published, Holds, LabelOK, Publishing
    <3> QED BY <3>1, <3>2 DEF RowsOK, RowsAgree, Unfinished
  <2>2. CASE UNCHANGED j
    BY <2>2 DEF RowsOK, RowsAgree, Unfinished
  <2> QED BY <1>15, <2>1, <2>2 DEF Published
<1>16. ASSUME NEW p \in Procs, DecideFollowups(p) PROVE RowsOK'
  <2>1. CASE UNCHANGED j
    BY <2>1 DEF RowsOK, RowsAgree, Unfinished
  <2>2. CASE ~UNCHANGED j
    <3>1. /\ j'.phase = j.phase /\ j'.plan = j.plan /\ j'.rows = j.rows
          /\ \A e \in Entries : j'.decision[e] =
                IF e \in Undecided THEN Decision(e) ELSE j.decision[e]
          /\ \A y : Pin(y)' = Pin(y)
      BY <1>16, <1>j, <2>2, DecisionSaved DEF DecideFollowups
    <3> QED BY <3>1 DEF RowsOK, RowsAgree, Unfinished
  <2> QED BY <2>1, <2>2
<1>17. ASSUME NEW p \in Procs, ClearPublished(p) PROVE RowsOK'
  <2>1. UNCHANGED j
    BY <1>17 DEF ClearPublished
  <2> QED BY <2>1 DEF RowsOK, RowsAgree, Unfinished
<1>18. ASSUME NEW p \in Procs, CleanIntent(p) PROVE RowsOK'
  <2> DEFINE x == FirstPin(Left)
  <2>1. x \in Left /\ x \in AllPins
    BY <1>18, <1>l, LeftIn, FirstPinIn DEF CleanIntent, Holds, LabelOK
  <2> HIDE DEF x
  <2>2. CASE UNCHANGED j
    BY <2>2 DEF RowsOK, RowsAgree, Unfinished
  <2>3. CASE j' = Saved(x, "deleting")
    <3>1. /\ j'.phase = j.phase /\ j'.plan = j.plan /\ j'.rows = j.rows
          /\ j'.decision = j.decision
          /\ \A y \in AllPins : Pin(y)' = IF y = x THEN "deleting" ELSE Pin(y)
      BY <1>j, <2>1, <2>3, SavedPin DEF PinStates
    <3> QED BY <3>1 DEF RowsOK, RowsAgree, Unfinished
  <2> QED BY <1>18, <2>2, <2>3 DEF CleanIntent, x
<1>19. ASSUME NEW p \in Procs, CleanDelete(p) PROVE RowsOK'
  <2>1. UNCHANGED j
    BY <1>19 DEF CleanDelete
  <2> QED BY <2>1 DEF RowsOK, RowsAgree, Unfinished
<1>20. ASSUME NEW p \in Procs, CleanSave(p) PROVE RowsOK'
  <2> DEFINE x == FirstPin(Left)
  <2>1. x \in Left /\ x \in AllPins
    BY <1>20, <1>l, LeftIn, FirstPinIn DEF CleanSave, Holds, LabelOK
  <2> HIDE DEF x
  <2>2. CASE UNCHANGED j
    BY <2>2 DEF RowsOK, RowsAgree, Unfinished
  <2>3. CASE j' = Saved(x, "removed")
    <3>1. /\ j'.phase = j.phase /\ j'.plan = j.plan /\ j'.rows = j.rows
          /\ j'.decision = j.decision
          /\ \A y \in AllPins : Pin(y)' = IF y = x THEN "removed" ELSE Pin(y)
      BY <1>j, <2>1, <2>3, SavedPin DEF PinStates
    <3> QED BY <3>1 DEF RowsOK, RowsAgree, Unfinished
  <2> QED BY <1>20, <2>2, <2>3 DEF CleanSave, x
<1>21. ASSUME NEW p \in Procs, Finish(p) PROVE RowsOK'
  <2> DEFINE end == IF verb[p] = "cancel" THEN "canceled" ELSE "completed"
  <2>1. j' = [j EXCEPT !.phase = end] /\ end \in Phases
    BY <1>21 DEF Finish, Phases
  <2>2. /\ j'.phase = end /\ j'.plan = j.plan /\ j'.rows = j.rows
        /\ j'.decision = j.decision /\ \A y : Pin(y)' = Pin(y)
    BY ONLY <1>j, <2>1, PhaseSaved
  <2>3. j.phase = IF verb[p] = "cancel" THEN "canceling" ELSE "cleaning"
    BY <1>21, <1>l DEF Finish, Holds, LabelOK, Cleaning
  <2> QED BY <2>2, <2>3 DEF RowsOK, RowsAgree, Unfinished
<1>22. ASSUME NEW p \in Procs, PlainPrepare(p) PROVE RowsOK'
  <2>1. UNCHANGED j
    BY <1>22 DEF PlainPrepare
  <2> QED BY <2>1 DEF RowsOK, RowsAgree, Unfinished
<1>23. ASSUME NEW p \in Procs, PlainPush(p) PROVE RowsOK'
  <2>1. UNCHANGED j
    BY <1>23 DEF PlainPush
  <2> QED BY <2>1 DEF RowsOK, RowsAgree, Unfinished
<1>24. ASSUME NEW p \in Procs, PlainClear(p) PROVE RowsOK'
  <2>1. UNCHANGED j
    BY <1>24 DEF PlainClear
  <2> QED BY <2>1 DEF RowsOK, RowsAgree, Unfinished
<1>25. ASSUME NEW p \in Procs, SyncStops(p) PROVE RowsOK'
  <2>1. UNCHANGED j
    BY <1>25 DEF SyncStops
  <2> QED BY <2>1 DEF RowsOK, RowsAgree, Unfinished
<1>26. ASSUME NEW p \in Procs, SyncRefused(p) PROVE RowsOK'
  <2>1. UNCHANGED j
    BY <1>26 DEF SyncRefused
  <2> QED BY <2>1 DEF RowsOK, RowsAgree, Unfinished
<1>27. ASSUME NEW p \in Procs, Release(p) PROVE RowsOK'
  <2>1. UNCHANGED j
    BY <1>27 DEF Release
  <2> QED BY <2>1 DEF RowsOK, RowsAgree, Unfinished
<1>28. ASSUME NEW p \in Procs, Crash(p) PROVE RowsOK'
  <2>1. UNCHANGED j
    BY <1>28 DEF Crash
  <2> QED BY <2>1 DEF RowsOK, RowsAgree, Unfinished
<1>29. ASSUME NEW p \in Procs, SyncRecovered(p) PROVE RowsOK'
  <2>1. UNCHANGED j
    BY <1>29 DEF SyncRecovered
  <2> QED BY <2>1 DEF RowsOK, RowsAgree, Unfinished
<1>30. ASSUME NEW e \in Selected, NEW c \in Commit \ Theirs, UserMoves(e, c)
    PROVE RowsOK'
  <2>1. UNCHANGED j
    BY <1>30 DEF UserMoves
  <2> QED BY <2>1 DEF RowsOK, RowsAgree, Unfinished
<1>31. ASSUME NEW e \in Selected, Fetch(e) PROVE RowsOK'
  <2>1. UNCHANGED j
    BY <1>31 DEF Fetch
  <2> QED BY <2>1 DEF RowsOK, RowsAgree, Unfinished
<1>32. ASSUME NEW e \in Selected, NEW c \in Theirs, OthersPush(e, c) PROVE
    RowsOK'
  <2>1. UNCHANGED j
    BY <1>32 DEF OthersPush
  <2> QED BY <2>1 DEF RowsOK, RowsAgree, Unfinished
<1>33. ASSUME NEW e \in Selected, NEW m \in {"same", "rebased", "remapped"},
    MetaEdit(e, m) PROVE RowsOK'
  <2>1. UNCHANGED j
    BY <1>33 DEF MetaEdit
  <2> QED BY <2>1 DEF RowsOK, RowsAgree, Unfinished
<1> QED
  BY ONLY Next, <1>1, <1>2, <1>3, <1>4, <1>5, <1>6, <1>7, <1>8, <1>9, <1>10,
      <1>11, <1>12, <1>13, <1>14, <1>15, <1>16, <1>17, <1>18, <1>19, <1>20,
      <1>21, <1>22, <1>23, <1>24, <1>25, <1>26, <1>27, <1>28, <1>29, <1>30,
      <1>31, <1>32, <1>33
  DEF Next, Step, People

\* What a pin is in agrees with the phase.
LEMMA PinsStep ==
  ASSUME Types, LabelsOK, PinsOK, Next
  PROVE  PinsOK'
<1>t. ProcTypes
  BY DEF Types
<1>j. j \in Journals
  BY DEF Types, JournalTypes
<1>s. Selected \subseteq Entries /\ Archived \subseteq Entries
      /\ \A d \in Entries : d \in Archived <=> d \notin Selected
  BY PushAssumption DEF Selected
<1>l. \A p \in Procs : LabelOK(p)
  BY DEF LabelsOK
<1>1. ASSUME NEW p \in Procs, BuildPlan(p) PROVE PinsOK'
  <2>1. UNCHANGED j
    BY <1>1 DEF BuildPlan
  <2> QED BY <2>1 DEF PinsOK, PinAgrees, Pin
<1>2. ASSUME NEW p \in Procs, NEW v \in {"plain", "sync"}, Start(p, v) PROVE
    PinsOK'
  <2>1. UNCHANGED j
    BY <1>2 DEF Start
  <2> QED BY <2>1 DEF PinsOK, PinAgrees, Pin
<1>3. ASSUME NEW p \in Procs, NEW v \in {"continue", "cancel"}, Recover(p, v)
    PROVE PinsOK'
  <2>1. UNCHANGED j
    BY <1>3 DEF Recover
  <2> QED BY <2>1 DEF PinsOK, PinAgrees, Pin
<1>4. ASSUME NEW p \in Procs, ClaimCheck(p) PROVE PinsOK'
  <2>1. UNCHANGED j
    BY <1>4 DEF ClaimCheck
  <2> QED BY <2>1 DEF PinsOK, PinAgrees, Pin
<1>5. ASSUME NEW p \in Procs, Claim(p) PROVE PinsOK'
  <2>1. UNCHANGED j
    BY <1>5 DEF Claim
  <2> QED BY <2>1 DEF PinsOK, PinAgrees, Pin
<1>6. ASSUME NEW p \in Procs, FirstSave(p) PROVE PinsOK'
  <2>1. CASE PlanStillTrue(p)
    <3>1. /\ j'.phase = "preparing" /\ j'.plan = mine[p].plan
          /\ \A e \in Entries :
               /\ j'.rows[e] = IF e \in Archived THEN "skipped" ELSE "pending"
               /\ j'.decision[e] = ""
          /\ \A x \in AllPins :
               Pin(x)' = IF x \in Pins(mine[p].plan) THEN "pending" ELSE "none"
      BY <1>6, <2>1, FirstSaved
    <3> QED BY <3>1, PinsAre DEF PinsOK, PinAgrees
  <2>2. CASE ~PlanStillTrue(p)
    <3>1. UNCHANGED j
      BY <1>6, <2>2 DEF FirstSave
    <3> QED BY <3>1 DEF PinsOK, PinAgrees, Pin
  <2> QED BY <2>1, <2>2
<1>7. ASSUME NEW p \in Procs, Resume(p) PROVE PinsOK'
  <2>1. CASE j' = [j EXCEPT !.phase = "canceling"]
    <3>1. /\ j'.phase = "canceling" /\ j'.plan = j.plan /\ j'.rows = j.rows
          /\ j'.decision = j.decision /\ \A y : Pin(y)' = Pin(y)
      BY <1>j, <2>1, PhaseSaved DEF Phases
    <3>2. j.phase \notin {"completed", "canceled", "none"}
      BY <1>7, <2>1, <3>1 DEF Resume, Terminal
    <3> QED BY <3>1, <3>2, <1>j, JournalIs DEF Phases, PinsOK, PinAgrees
  <2>2. CASE UNCHANGED j
    BY <2>2 DEF PinsOK, PinAgrees, Pin
  <2> QED BY <1>7, <2>1, <2>2 DEF Resume
<1>8. ASSUME NEW p \in Procs, PinIntent(p) PROVE PinsOK'
  <2> DEFINE x == FirstPin(Unheld)
  <2>1. x \in Unheld /\ x \in AllPins
    BY <1>8, <1>l, UnheldIn, FirstPinIn DEF PinIntent, Holds, LabelOK
  <2> HIDE DEF x
  <2>2. CASE UNCHANGED j
    BY <2>2 DEF PinsOK, PinAgrees, Pin
  <2>3. CASE j' = Saved(x, "creating")
    <3>1. /\ j'.phase = j.phase /\ j'.plan = j.plan /\ j'.rows = j.rows
          /\ j'.decision = j.decision
          /\ \A y \in AllPins : Pin(y)' = IF y = x THEN "creating" ELSE Pin(y)
      BY <1>j, <2>1, <2>3, SavedPin DEF PinStates
    <3>2. j.phase = "preparing"
      BY <1>8, <1>l DEF PinIntent, Holds, LabelOK, Preparing
    <3> QED BY <3>1, <3>2, PinsAre DEF PinsOK, PinAgrees
  <2> QED BY <1>8, <2>2, <2>3 DEF PinIntent, x
<1>9. ASSUME NEW p \in Procs, PinCreate(p) PROVE PinsOK'
  <2>1. UNCHANGED j
    BY <1>9 DEF PinCreate
  <2> QED BY <2>1 DEF PinsOK, PinAgrees, Pin
<1>10. ASSUME NEW p \in Procs, PinHold(p) PROVE PinsOK'
  <2> DEFINE x == FirstPin(Unheld)
  <2>1. x \in Unheld /\ x \in AllPins
    BY <1>10, <1>l, UnheldIn, FirstPinIn DEF PinHold, Holds, LabelOK
  <2> HIDE DEF x
  <2>2. CASE UNCHANGED j
    BY <2>2 DEF PinsOK, PinAgrees, Pin
  <2>3. CASE j' = Saved(x, "held")
    <3>1. /\ j'.phase = j.phase /\ j'.plan = j.plan /\ j'.rows = j.rows
          /\ j'.decision = j.decision
          /\ \A y \in AllPins : Pin(y)' = IF y = x THEN "held" ELSE Pin(y)
      BY <1>j, <2>1, <2>3, SavedPin DEF PinStates
    <3>2. j.phase = "preparing"
      BY <1>10, <1>l DEF PinHold, Holds, LabelOK, Preparing
    <3> QED BY <3>1, <3>2, PinsAre DEF PinsOK, PinAgrees
  <2> QED BY <1>10, <2>2, <2>3 DEF PinHold, x
<1>11. ASSUME NEW p \in Procs, Protected(p) PROVE PinsOK'
  <2>1. CASE j' = [j EXCEPT !.phase = "publishing"]
    <3>1. /\ j'.phase = "publishing" /\ j'.plan = j.plan /\ j'.rows = j.rows
          /\ j'.decision = j.decision /\ \A y : Pin(y)' = Pin(y)
      BY <1>j, <2>1, PhaseSaved DEF Phases
    <3>2. j.phase = "preparing" /\ \A x \in Pins(j.plan) : Pin(x) = "held"
      BY <1>11, <1>l DEF Protected, Unheld, Holds, LabelOK, Preparing
    <3> QED BY <3>1, <3>2 DEF PinsOK, PinAgrees
  <2>2. CASE UNCHANGED j
    BY <2>2 DEF PinsOK, PinAgrees, Pin
  <2> QED BY <1>11, <2>1, <2>2 DEF Protected
<1>12. ASSUME NEW p \in Procs, EntryIntent(p) PROVE PinsOK'
  <2>1. NextEntry \in Selected /\ j.phase = "publishing"
    BY <1>12, <1>l, NextEntryIn DEF EntryIntent, Holds, LabelOK, Publishing
  <2>0. CASE UNCHANGED j
    BY <2>0 DEF PinsOK, PinAgrees, Pin
  <2>9. ASSUME NEW s \in {"intent", "succeeded"}, j' = Row(NextEntry, s)
        PROVE  PinsOK'
    <3> DEFINE e == NextEntry
    <3>2. /\ j'.phase = j.phase /\ j'.plan = j.plan /\ j'.decision = j.decision
          /\ \A d \in Entries : j'.rows[d] = IF d = e THEN s ELSE j.rows[d]
          /\ \A y : Pin(y)' = Pin(y)
      BY <1>j, <2>1, <2>9, RowSaved DEF Outcomes
    <3> QED BY <3>2 DEF PinsOK, PinAgrees
  <2> QED BY <1>12, <2>0, <2>9 DEF EntryIntent
<1>13. ASSUME NEW p \in Procs, Push(p) PROVE PinsOK'
  <2>1. UNCHANGED j
    BY <1>13 DEF Push
  <2> QED BY <2>1 DEF PinsOK, PinAgrees, Pin
<1>14. ASSUME NEW p \in Procs, Recorded(p) PROVE PinsOK'
  <2>1. cur[p] \in Selected /\ j.rows[cur[p]] = "intent" /\ j.phase = "publishing"
    BY <1>14, <1>l DEF Recorded, Holds, LabelOK, Publishing
  <2> DEFINE e == cur[p]
             s == "succeeded"
  <2>2. /\ j'.phase = j.phase /\ j'.plan = j.plan /\ j'.decision = j.decision
        /\ \A d \in Entries : j'.rows[d] = IF d = e THEN s ELSE j.rows[d]
        /\ \A y : Pin(y)' = Pin(y)
    BY <1>14, <1>j, <2>1, RowSaved DEF Recorded, Outcomes
  <2> QED BY <2>2 DEF PinsOK, PinAgrees
<1>15. ASSUME NEW p \in Procs, Published(p) PROVE PinsOK'
  <2>1. CASE j' = [j EXCEPT !.phase = "cleaning"]
    <3>1. /\ j'.phase = "cleaning" /\ j'.plan = j.plan /\ j'.rows = j.rows
          /\ j'.decision = j.decision /\ \A y : Pin(y)' = Pin(y)
      BY <1>j, <2>1, PhaseSaved DEF Phases
    <3>2. j.phase = "publishing"
      BY <1>15, <1>l DEF Published, Holds, LabelOK, Publishing
    <3> QED BY <3>1, <3>2 DEF PinsOK, PinAgrees
  <2>2. CASE UNCHANGED j
    BY <2>2 DEF PinsOK, PinAgrees, Pin
  <2> QED BY <1>15, <2>1, <2>2 DEF Published
<1>16. ASSUME NEW p \in Procs, DecideFollowups(p) PROVE PinsOK'
  <2>1. CASE UNCHANGED j
    BY <2>1 DEF PinsOK, PinAgrees, Pin
  <2>2. CASE ~UNCHANGED j
    <3>1. /\ j'.phase = j.phase /\ j'.plan = j.plan /\ j'.rows = j.rows
          /\ \A e \in Entries : j'.decision[e] =
                IF e \in Undecided THEN Decision(e) ELSE j.decision[e]
          /\ \A y : Pin(y)' = Pin(y)
      BY <1>16, <1>j, <2>2, DecisionSaved DEF DecideFollowups
    <3> QED BY <3>1 DEF PinsOK, PinAgrees
  <2> QED BY <2>1, <2>2
<1>17. ASSUME NEW p \in Procs, ClearPublished(p) PROVE PinsOK'
  <2>1. UNCHANGED j
    BY <1>17 DEF ClearPublished
  <2> QED BY <2>1 DEF PinsOK, PinAgrees, Pin
<1>18. ASSUME NEW p \in Procs, CleanIntent(p) PROVE PinsOK'
  <2> DEFINE x == FirstPin(Left)
  <2>1. x \in Left /\ x \in AllPins
    BY <1>18, <1>l, LeftIn, FirstPinIn DEF CleanIntent, Holds, LabelOK
  <2> HIDE DEF x
  <2>2. CASE UNCHANGED j
    BY <2>2 DEF PinsOK, PinAgrees, Pin
  <2>3. CASE j' = Saved(x, "deleting")
    <3>1. /\ j'.phase = j.phase /\ j'.plan = j.plan /\ j'.rows = j.rows
          /\ j'.decision = j.decision
          /\ \A y \in AllPins : Pin(y)' = IF y = x THEN "deleting" ELSE Pin(y)
      BY <1>j, <2>1, <2>3, SavedPin DEF PinStates
    <3>2. j.phase \in {"cleaning", "canceling"}
      BY <1>18, <1>l DEF CleanIntent, Holds, LabelOK, Cleaning
    <3> QED BY <3>1, <3>2, PinsAre DEF PinsOK, PinAgrees
  <2> QED BY <1>18, <2>2, <2>3 DEF CleanIntent, x
<1>19. ASSUME NEW p \in Procs, CleanDelete(p) PROVE PinsOK'
  <2>1. UNCHANGED j
    BY <1>19 DEF CleanDelete
  <2> QED BY <2>1 DEF PinsOK, PinAgrees, Pin
<1>20. ASSUME NEW p \in Procs, CleanSave(p) PROVE PinsOK'
  <2> DEFINE x == FirstPin(Left)
  <2>1. x \in Left /\ x \in AllPins
    BY <1>20, <1>l, LeftIn, FirstPinIn DEF CleanSave, Holds, LabelOK
  <2> HIDE DEF x
  <2>2. CASE UNCHANGED j
    BY <2>2 DEF PinsOK, PinAgrees, Pin
  <2>3. CASE j' = Saved(x, "removed")
    <3>1. /\ j'.phase = j.phase /\ j'.plan = j.plan /\ j'.rows = j.rows
          /\ j'.decision = j.decision
          /\ \A y \in AllPins : Pin(y)' = IF y = x THEN "removed" ELSE Pin(y)
      BY <1>j, <2>1, <2>3, SavedPin DEF PinStates
    <3>2. j.phase \in {"cleaning", "canceling"}
      BY <1>20, <1>l DEF CleanSave, Holds, LabelOK, Cleaning
    <3> QED BY <3>1, <3>2, PinsAre DEF PinsOK, PinAgrees
  <2> QED BY <1>20, <2>2, <2>3 DEF CleanSave, x
<1>21. ASSUME NEW p \in Procs, Finish(p) PROVE PinsOK'
  <2> DEFINE end == IF verb[p] = "cancel" THEN "canceled" ELSE "completed"
  <2>1. j' = [j EXCEPT !.phase = end] /\ end \in Phases
    BY <1>21 DEF Finish, Phases
  <2>2. /\ j'.phase = end /\ j'.plan = j.plan /\ j'.rows = j.rows
        /\ j'.decision = j.decision /\ \A y : Pin(y)' = Pin(y)
    BY ONLY <1>j, <2>1, PhaseSaved
  <2>3. \A x \in Pins(j.plan) : Pin(x) = "removed"
    BY <1>21 DEF Finish, Left
  <2> QED BY <2>2, <2>3 DEF PinsOK, PinAgrees
<1>22. ASSUME NEW p \in Procs, PlainPrepare(p) PROVE PinsOK'
  <2>1. UNCHANGED j
    BY <1>22 DEF PlainPrepare
  <2> QED BY <2>1 DEF PinsOK, PinAgrees, Pin
<1>23. ASSUME NEW p \in Procs, PlainPush(p) PROVE PinsOK'
  <2>1. UNCHANGED j
    BY <1>23 DEF PlainPush
  <2> QED BY <2>1 DEF PinsOK, PinAgrees, Pin
<1>24. ASSUME NEW p \in Procs, PlainClear(p) PROVE PinsOK'
  <2>1. UNCHANGED j
    BY <1>24 DEF PlainClear
  <2> QED BY <2>1 DEF PinsOK, PinAgrees, Pin
<1>25. ASSUME NEW p \in Procs, SyncStops(p) PROVE PinsOK'
  <2>1. UNCHANGED j
    BY <1>25 DEF SyncStops
  <2> QED BY <2>1 DEF PinsOK, PinAgrees, Pin
<1>26. ASSUME NEW p \in Procs, SyncRefused(p) PROVE PinsOK'
  <2>1. UNCHANGED j
    BY <1>26 DEF SyncRefused
  <2> QED BY <2>1 DEF PinsOK, PinAgrees, Pin
<1>27. ASSUME NEW p \in Procs, Release(p) PROVE PinsOK'
  <2>1. UNCHANGED j
    BY <1>27 DEF Release
  <2> QED BY <2>1 DEF PinsOK, PinAgrees, Pin
<1>28. ASSUME NEW p \in Procs, Crash(p) PROVE PinsOK'
  <2>1. UNCHANGED j
    BY <1>28 DEF Crash
  <2> QED BY <2>1 DEF PinsOK, PinAgrees, Pin
<1>29. ASSUME NEW p \in Procs, SyncRecovered(p) PROVE PinsOK'
  <2>1. UNCHANGED j
    BY <1>29 DEF SyncRecovered
  <2> QED BY <2>1 DEF PinsOK, PinAgrees, Pin
<1>30. ASSUME NEW e \in Selected, NEW c \in Commit \ Theirs, UserMoves(e, c)
    PROVE PinsOK'
  <2>1. UNCHANGED j
    BY <1>30 DEF UserMoves
  <2> QED BY <2>1 DEF PinsOK, PinAgrees, Pin
<1>31. ASSUME NEW e \in Selected, Fetch(e) PROVE PinsOK'
  <2>1. UNCHANGED j
    BY <1>31 DEF Fetch
  <2> QED BY <2>1 DEF PinsOK, PinAgrees, Pin
<1>32. ASSUME NEW e \in Selected, NEW c \in Theirs, OthersPush(e, c) PROVE
    PinsOK'
  <2>1. UNCHANGED j
    BY <1>32 DEF OthersPush
  <2> QED BY <2>1 DEF PinsOK, PinAgrees, Pin
<1>33. ASSUME NEW e \in Selected, NEW m \in {"same", "rebased", "remapped"},
    MetaEdit(e, m) PROVE PinsOK'
  <2>1. UNCHANGED j
    BY <1>33 DEF MetaEdit
  <2> QED BY <2>1 DEF PinsOK, PinAgrees, Pin
<1> QED
  BY ONLY Next, <1>1, <1>2, <1>3, <1>4, <1>5, <1>6, <1>7, <1>8, <1>9, <1>10,
      <1>11, <1>12, <1>13, <1>14, <1>15, <1>16, <1>17, <1>18, <1>19, <1>20,
      <1>21, <1>22, <1>23, <1>24, <1>25, <1>26, <1>27, <1>28, <1>29, <1>30,
      <1>31, <1>32, <1>33
  DEF Next, Step, People

\* A row is cleared only for what was published.
LEMMA DecisionsStep ==
  ASSUME Types, LabelsOK, DecisionsOK, Next
  PROVE  DecisionsOK'
<1>t. ProcTypes
  BY DEF Types
<1>j. j \in Journals
  BY DEF Types, JournalTypes
<1>s. Selected \subseteq Entries /\ Archived \subseteq Entries
      /\ \A d \in Entries : d \in Archived <=> d \notin Selected
  BY PushAssumption DEF Selected
<1>l. \A p \in Procs : LabelOK(p)
  BY DEF LabelsOK
<1>1. ASSUME NEW p \in Procs, BuildPlan(p) PROVE DecisionsOK'
  <2>1. UNCHANGED j
    BY <1>1 DEF BuildPlan
  <2> QED BY <2>1 DEF DecisionsOK, DecisionsAgree, CleanupStarted, Undecided, Pin
<1>2. ASSUME NEW p \in Procs, NEW v \in {"plain", "sync"}, Start(p, v) PROVE
    DecisionsOK'
  <2>1. UNCHANGED j
    BY <1>2 DEF Start
  <2> QED BY <2>1 DEF DecisionsOK, DecisionsAgree, CleanupStarted, Undecided, Pin
<1>3. ASSUME NEW p \in Procs, NEW v \in {"continue", "cancel"}, Recover(p, v)
    PROVE DecisionsOK'
  <2>1. UNCHANGED j
    BY <1>3 DEF Recover
  <2> QED BY <2>1 DEF DecisionsOK, DecisionsAgree, CleanupStarted, Undecided, Pin
<1>4. ASSUME NEW p \in Procs, ClaimCheck(p) PROVE DecisionsOK'
  <2>1. UNCHANGED j
    BY <1>4 DEF ClaimCheck
  <2> QED BY <2>1 DEF DecisionsOK, DecisionsAgree, CleanupStarted, Undecided, Pin
<1>5. ASSUME NEW p \in Procs, Claim(p) PROVE DecisionsOK'
  <2>1. UNCHANGED j
    BY <1>5 DEF Claim
  <2> QED BY <2>1 DEF DecisionsOK, DecisionsAgree, CleanupStarted, Undecided, Pin
<1>6. ASSUME NEW p \in Procs, FirstSave(p) PROVE DecisionsOK'
  <2>1. CASE PlanStillTrue(p)
    <3>1. /\ j'.phase = "preparing" /\ j'.plan = mine[p].plan
          /\ \A e \in Entries :
               /\ j'.rows[e] = IF e \in Archived THEN "skipped" ELSE "pending"
               /\ j'.decision[e] = ""
          /\ \A x \in AllPins :
               Pin(x)' = IF x \in Pins(mine[p].plan) THEN "pending" ELSE "none"
      BY <1>6, <2>1, FirstSaved
    <3> QED BY <3>1, <1>s, PinsAre DEF DecisionsOK, DecisionsAgree, CleanupStarted, Undecided
  <2>2. CASE ~PlanStillTrue(p)
    <3>1. UNCHANGED j
      BY <1>6, <2>2 DEF FirstSave
    <3> QED BY <3>1 DEF DecisionsOK, DecisionsAgree, CleanupStarted, Undecided, Pin
  <2> QED BY <2>1, <2>2
<1>7. ASSUME NEW p \in Procs, Resume(p) PROVE DecisionsOK'
  <2>1. CASE j' = [j EXCEPT !.phase = "canceling"]
    <3>1. /\ j'.phase = "canceling" /\ j'.plan = j.plan /\ j'.rows = j.rows
          /\ j'.decision = j.decision /\ \A y : Pin(y)' = Pin(y)
      BY <1>j, <2>1, PhaseSaved DEF Phases
    <3>2. j.phase \notin {"completed", "canceled", "none"}
      BY <1>7, <2>1, <3>1 DEF Resume, Terminal
    <3> QED BY <3>1, <3>2 DEF DecisionsOK, DecisionsAgree, CleanupStarted, Undecided
  <2>2. CASE UNCHANGED j
    BY <2>2 DEF DecisionsOK, DecisionsAgree, CleanupStarted, Undecided, Pin
  <2> QED BY <1>7, <2>1, <2>2 DEF Resume
<1>8. ASSUME NEW p \in Procs, PinIntent(p) PROVE DecisionsOK'
  <2> DEFINE x == FirstPin(Unheld)
  <2>1. x \in Unheld /\ x \in AllPins
    BY <1>8, <1>l, UnheldIn, FirstPinIn DEF PinIntent, Holds, LabelOK
  <2> HIDE DEF x
  <2>2. CASE UNCHANGED j
    BY <2>2 DEF DecisionsOK, DecisionsAgree, CleanupStarted, Undecided, Pin
  <2>3. CASE j' = Saved(x, "creating")
    <3>1. /\ j'.phase = j.phase /\ j'.plan = j.plan /\ j'.rows = j.rows
          /\ j'.decision = j.decision
          /\ \A y \in AllPins : Pin(y)' = IF y = x THEN "creating" ELSE Pin(y)
      BY <1>j, <2>1, <2>3, SavedPin DEF PinStates
    <3> QED BY <3>1, PinsAre DEF DecisionsOK, DecisionsAgree, CleanupStarted, Undecided
  <2> QED BY <1>8, <2>2, <2>3 DEF PinIntent, x
<1>9. ASSUME NEW p \in Procs, PinCreate(p) PROVE DecisionsOK'
  <2>1. UNCHANGED j
    BY <1>9 DEF PinCreate
  <2> QED BY <2>1 DEF DecisionsOK, DecisionsAgree, CleanupStarted, Undecided, Pin
<1>10. ASSUME NEW p \in Procs, PinHold(p) PROVE DecisionsOK'
  <2> DEFINE x == FirstPin(Unheld)
  <2>1. x \in Unheld /\ x \in AllPins
    BY <1>10, <1>l, UnheldIn, FirstPinIn DEF PinHold, Holds, LabelOK
  <2> HIDE DEF x
  <2>2. CASE UNCHANGED j
    BY <2>2 DEF DecisionsOK, DecisionsAgree, CleanupStarted, Undecided, Pin
  <2>3. CASE j' = Saved(x, "held")
    <3>1. /\ j'.phase = j.phase /\ j'.plan = j.plan /\ j'.rows = j.rows
          /\ j'.decision = j.decision
          /\ \A y \in AllPins : Pin(y)' = IF y = x THEN "held" ELSE Pin(y)
      BY <1>j, <2>1, <2>3, SavedPin DEF PinStates
    <3> QED BY <3>1, PinsAre DEF DecisionsOK, DecisionsAgree, CleanupStarted, Undecided
  <2> QED BY <1>10, <2>2, <2>3 DEF PinHold, x
<1>11. ASSUME NEW p \in Procs, Protected(p) PROVE DecisionsOK'
  <2>1. CASE j' = [j EXCEPT !.phase = "publishing"]
    <3>1. /\ j'.phase = "publishing" /\ j'.plan = j.plan /\ j'.rows = j.rows
          /\ j'.decision = j.decision /\ \A y : Pin(y)' = Pin(y)
      BY <1>j, <2>1, PhaseSaved DEF Phases
    <3>2. j.phase = "preparing"
      BY <1>11, <1>l DEF Protected, Holds, LabelOK, Preparing
    <3> QED BY <3>1, <3>2 DEF DecisionsOK, DecisionsAgree, CleanupStarted, Undecided
  <2>2. CASE UNCHANGED j
    BY <2>2 DEF DecisionsOK, DecisionsAgree, CleanupStarted, Undecided, Pin
  <2> QED BY <1>11, <2>1, <2>2 DEF Protected
<1>12. ASSUME NEW p \in Procs, EntryIntent(p) PROVE DecisionsOK'
  <2>1. NextEntry \in Selected /\ j.phase = "publishing"
    BY <1>12, <1>l, NextEntryIn DEF EntryIntent, Holds, LabelOK, Publishing
  <2>0. CASE UNCHANGED j
    BY <2>0 DEF DecisionsOK, DecisionsAgree, CleanupStarted, Undecided, Pin
  <2>9. ASSUME NEW s \in {"intent", "succeeded"}, j' = Row(NextEntry, s)
        PROVE  DecisionsOK'
    <3> DEFINE e == NextEntry
    <3>2. /\ j'.phase = j.phase /\ j'.plan = j.plan /\ j'.decision = j.decision
          /\ \A d \in Entries : j'.rows[d] = IF d = e THEN s ELSE j.rows[d]
          /\ \A y : Pin(y)' = Pin(y)
      BY <1>j, <2>1, <2>9, RowSaved DEF Outcomes
    <3> QED BY <2>1, <3>2, <1>s DEF DecisionsOK, DecisionsAgree, CleanupStarted, Undecided
  <2> QED BY <1>12, <2>0, <2>9 DEF EntryIntent
<1>13. ASSUME NEW p \in Procs, Push(p) PROVE DecisionsOK'
  <2>1. UNCHANGED j
    BY <1>13 DEF Push
  <2> QED BY <2>1 DEF DecisionsOK, DecisionsAgree, CleanupStarted, Undecided, Pin
<1>14. ASSUME NEW p \in Procs, Recorded(p) PROVE DecisionsOK'
  <2>1. cur[p] \in Selected /\ j.rows[cur[p]] = "intent" /\ j.phase = "publishing"
    BY <1>14, <1>l DEF Recorded, Holds, LabelOK, Publishing
  <2> DEFINE e == cur[p]
             s == "succeeded"
  <2>2. /\ j'.phase = j.phase /\ j'.plan = j.plan /\ j'.decision = j.decision
        /\ \A d \in Entries : j'.rows[d] = IF d = e THEN s ELSE j.rows[d]
        /\ \A y : Pin(y)' = Pin(y)
    BY <1>14, <1>j, <2>1, RowSaved DEF Recorded, Outcomes
  <2> QED BY <2>1, <2>2, <1>s DEF DecisionsOK, DecisionsAgree, CleanupStarted, Undecided
<1>15. ASSUME NEW p \in Procs, Published(p) PROVE DecisionsOK'
  <2>1. CASE j' = [j EXCEPT !.phase = "cleaning"]
    <3>1. /\ j'.phase = "cleaning" /\ j'.plan = j.plan /\ j'.rows = j.rows
          /\ j'.decision = j.decision /\ \A y : Pin(y)' = Pin(y)
      BY <1>j, <2>1, PhaseSaved DEF Phases
    <3>2. j.phase = "publishing"
      BY <1>15, <1>l DEF Published, Holds, LabelOK, Publishing
    <3> QED BY <3>1, <3>2 DEF DecisionsOK, DecisionsAgree, CleanupStarted, Undecided
  <2>2. CASE UNCHANGED j
    BY <2>2 DEF DecisionsOK, DecisionsAgree, CleanupStarted, Undecided, Pin
  <2> QED BY <1>15, <2>1, <2>2 DEF Published
<1>16. ASSUME NEW p \in Procs, DecideFollowups(p) PROVE DecisionsOK'
  <2>1. CASE UNCHANGED j
    BY <2>1 DEF DecisionsOK, DecisionsAgree, CleanupStarted, Undecided, Pin
  <2>2. CASE ~UNCHANGED j
    <3>1. /\ j'.phase = j.phase /\ j'.plan = j.plan /\ j'.rows = j.rows
          /\ \A e \in Entries : j'.decision[e] =
                IF e \in Undecided THEN Decision(e) ELSE j.decision[e]
          /\ \A y : Pin(y)' = Pin(y)
      BY <1>16, <1>j, <2>2, DecisionSaved DEF DecideFollowups
    <3>2. j.phase \in {"cleaning", "canceling"}
      BY <1>16, <1>l DEF DecideFollowups, Holds, LabelOK, Cleaning
    <3>3. Undecided' = {}
      BY <1>s, <3>1 DEF Undecided, Decision
    <3>4. \A e \in Undecided : Decision(e) = "clear" =>
             j.rows[e] = "succeeded" /\ <<New, j.plan[e].source>> \in Within
      BY DEF Decision
    <3>5. \A e \in Undecided : j.plan[e].followup
      BY DEF Undecided
    <3>6. \A e \in Selected : j'.decision[e] = IF e \in Undecided THEN Decision(e) ELSE j.decision[e]
      BY <1>s, <3>1
    <3> QED BY <3>1, <3>2, <3>3, <3>4, <3>5, <3>6 DEF DecisionsOK, DecisionsAgree, Undecided,
       CleanupStarted
  <2> QED BY <2>1, <2>2
<1>17. ASSUME NEW p \in Procs, ClearPublished(p) PROVE DecisionsOK'
  <2>1. UNCHANGED j
    BY <1>17 DEF ClearPublished
  <2> QED BY <2>1 DEF DecisionsOK, DecisionsAgree, CleanupStarted, Undecided, Pin
<1>18. ASSUME NEW p \in Procs, CleanIntent(p) PROVE DecisionsOK'
  <2> DEFINE x == FirstPin(Left)
  <2>1. x \in Left /\ x \in AllPins
    BY <1>18, <1>l, LeftIn, FirstPinIn DEF CleanIntent, Holds, LabelOK
  <2> HIDE DEF x
  <2>2. CASE UNCHANGED j
    BY <2>2 DEF DecisionsOK, DecisionsAgree, CleanupStarted, Undecided, Pin
  <2>3. CASE j' = Saved(x, "deleting")
    <3>1. /\ j'.phase = j.phase /\ j'.plan = j.plan /\ j'.rows = j.rows
          /\ j'.decision = j.decision
          /\ \A y \in AllPins : Pin(y)' = IF y = x THEN "deleting" ELSE Pin(y)
      BY <1>j, <2>1, <2>3, SavedPin DEF PinStates
    <3>2. Undecided = {} /\ j.phase \in {"cleaning", "canceling"}
      BY <1>18, <1>l DEF CleanIntent, Holds, LabelOK, Cleaning
    <3> QED BY <3>1, <3>2 DEF DecisionsOK, DecisionsAgree, Undecided
  <2> QED BY <1>18, <2>2, <2>3 DEF CleanIntent, x
<1>19. ASSUME NEW p \in Procs, CleanDelete(p) PROVE DecisionsOK'
  <2>1. UNCHANGED j
    BY <1>19 DEF CleanDelete
  <2> QED BY <2>1 DEF DecisionsOK, DecisionsAgree, CleanupStarted, Undecided, Pin
<1>20. ASSUME NEW p \in Procs, CleanSave(p) PROVE DecisionsOK'
  <2> DEFINE x == FirstPin(Left)
  <2>1. x \in Left /\ x \in AllPins
    BY <1>20, <1>l, LeftIn, FirstPinIn DEF CleanSave, Holds, LabelOK
  <2> HIDE DEF x
  <2>2. CASE UNCHANGED j
    BY <2>2 DEF DecisionsOK, DecisionsAgree, CleanupStarted, Undecided, Pin
  <2>3. CASE j' = Saved(x, "removed")
    <3>1. /\ j'.phase = j.phase /\ j'.plan = j.plan /\ j'.rows = j.rows
          /\ j'.decision = j.decision
          /\ \A y \in AllPins : Pin(y)' = IF y = x THEN "removed" ELSE Pin(y)
      BY <1>j, <2>1, <2>3, SavedPin DEF PinStates
    <3>2. Undecided = {} /\ j.phase \in {"cleaning", "canceling"}
      BY <1>20, <1>l DEF CleanSave, Holds, LabelOK, Cleaning
    <3> QED BY <3>1, <3>2 DEF DecisionsOK, DecisionsAgree, Undecided
  <2> QED BY <1>20, <2>2, <2>3 DEF CleanSave, x
<1>21. ASSUME NEW p \in Procs, Finish(p) PROVE DecisionsOK'
  <2> DEFINE end == IF verb[p] = "cancel" THEN "canceled" ELSE "completed"
  <2>1. j' = [j EXCEPT !.phase = end] /\ end \in Phases
    BY <1>21 DEF Finish, Phases
  <2>2. /\ j'.phase = end /\ j'.plan = j.plan /\ j'.rows = j.rows
        /\ j'.decision = j.decision /\ \A y : Pin(y)' = Pin(y)
    BY ONLY <1>j, <2>1, PhaseSaved
  <2>3. Undecided = {} /\ j.phase \in {"cleaning", "canceling"}
    BY <1>21, <1>l DEF Finish, Holds, LabelOK, Cleaning
  <2> QED BY <2>2, <2>3 DEF DecisionsOK, DecisionsAgree, CleanupStarted, Undecided
<1>22. ASSUME NEW p \in Procs, PlainPrepare(p) PROVE DecisionsOK'
  <2>1. UNCHANGED j
    BY <1>22 DEF PlainPrepare
  <2> QED BY <2>1 DEF DecisionsOK, DecisionsAgree, CleanupStarted, Undecided, Pin
<1>23. ASSUME NEW p \in Procs, PlainPush(p) PROVE DecisionsOK'
  <2>1. UNCHANGED j
    BY <1>23 DEF PlainPush
  <2> QED BY <2>1 DEF DecisionsOK, DecisionsAgree, CleanupStarted, Undecided, Pin
<1>24. ASSUME NEW p \in Procs, PlainClear(p) PROVE DecisionsOK'
  <2>1. UNCHANGED j
    BY <1>24 DEF PlainClear
  <2> QED BY <2>1 DEF DecisionsOK, DecisionsAgree, CleanupStarted, Undecided, Pin
<1>25. ASSUME NEW p \in Procs, SyncStops(p) PROVE DecisionsOK'
  <2>1. UNCHANGED j
    BY <1>25 DEF SyncStops
  <2> QED BY <2>1 DEF DecisionsOK, DecisionsAgree, CleanupStarted, Undecided, Pin
<1>26. ASSUME NEW p \in Procs, SyncRefused(p) PROVE DecisionsOK'
  <2>1. UNCHANGED j
    BY <1>26 DEF SyncRefused
  <2> QED BY <2>1 DEF DecisionsOK, DecisionsAgree, CleanupStarted, Undecided, Pin
<1>27. ASSUME NEW p \in Procs, Release(p) PROVE DecisionsOK'
  <2>1. UNCHANGED j
    BY <1>27 DEF Release
  <2> QED BY <2>1 DEF DecisionsOK, DecisionsAgree, CleanupStarted, Undecided, Pin
<1>28. ASSUME NEW p \in Procs, Crash(p) PROVE DecisionsOK'
  <2>1. UNCHANGED j
    BY <1>28 DEF Crash
  <2> QED BY <2>1 DEF DecisionsOK, DecisionsAgree, CleanupStarted, Undecided, Pin
<1>29. ASSUME NEW p \in Procs, SyncRecovered(p) PROVE DecisionsOK'
  <2>1. UNCHANGED j
    BY <1>29 DEF SyncRecovered
  <2> QED BY <2>1 DEF DecisionsOK, DecisionsAgree, CleanupStarted, Undecided, Pin
<1>30. ASSUME NEW e \in Selected, NEW c \in Commit \ Theirs, UserMoves(e, c)
    PROVE DecisionsOK'
  <2>1. UNCHANGED j
    BY <1>30 DEF UserMoves
  <2> QED BY <2>1 DEF DecisionsOK, DecisionsAgree, CleanupStarted, Undecided, Pin
<1>31. ASSUME NEW e \in Selected, Fetch(e) PROVE DecisionsOK'
  <2>1. UNCHANGED j
    BY <1>31 DEF Fetch
  <2> QED BY <2>1 DEF DecisionsOK, DecisionsAgree, CleanupStarted, Undecided, Pin
<1>32. ASSUME NEW e \in Selected, NEW c \in Theirs, OthersPush(e, c) PROVE
    DecisionsOK'
  <2>1. UNCHANGED j
    BY <1>32 DEF OthersPush
  <2> QED BY <2>1 DEF DecisionsOK, DecisionsAgree, CleanupStarted, Undecided, Pin
<1>33. ASSUME NEW e \in Selected, NEW m \in {"same", "rebased", "remapped"},
    MetaEdit(e, m) PROVE DecisionsOK'
  <2>1. UNCHANGED j
    BY <1>33 DEF MetaEdit
  <2> QED BY <2>1 DEF DecisionsOK, DecisionsAgree, CleanupStarted, Undecided, Pin
<1> QED
  BY ONLY Next, <1>1, <1>2, <1>3, <1>4, <1>5, <1>6, <1>7, <1>8, <1>9, <1>10,
      <1>11, <1>12, <1>13, <1>14, <1>15, <1>16, <1>17, <1>18, <1>19, <1>20,
      <1>21, <1>22, <1>23, <1>24, <1>25, <1>26, <1>27, <1>28, <1>29, <1>30,
      <1>31, <1>32, <1>33
  DEF Next, Step, People

-----------------------------------------------------------------------------
(* Refs: what is pinned exists.                                             *)

\* What a journal says is held exists, and nothing else is kept.
LEMMA RefsStep ==
  ASSUME Types, LabelsOK, PinsOK, RefsOK, Next
  PROVE  RefsOK'
<1>t. ProcTypes
  BY DEF Types
<1>j. j \in Journals
  BY DEF Types, JournalTypes
<1>s. Selected \subseteq Entries /\ Archived \subseteq Entries
      /\ \A d \in Entries : d \in Archived <=> d \notin Selected
  BY PushAssumption DEF Selected
<1>l. \A p \in Procs : LabelOK(p)
  BY DEF LabelsOK
<1>1. ASSUME NEW p \in Procs, BuildPlan(p) PROVE RefsOK'
  <2>1. UNCHANGED <<j, ref>>
    BY <1>1 DEF BuildPlan
  <2> QED BY <2>1 DEF RefsOK, Pin
<1>2. ASSUME NEW p \in Procs, NEW v \in {"plain", "sync"}, Start(p, v) PROVE
    RefsOK'
  <2>1. UNCHANGED <<j, ref>>
    BY <1>2 DEF Start
  <2> QED BY <2>1 DEF RefsOK, Pin
<1>3. ASSUME NEW p \in Procs, NEW v \in {"continue", "cancel"}, Recover(p, v)
    PROVE RefsOK'
  <2>1. UNCHANGED <<j, ref>>
    BY <1>3 DEF Recover
  <2> QED BY <2>1 DEF RefsOK, Pin
<1>4. ASSUME NEW p \in Procs, ClaimCheck(p) PROVE RefsOK'
  <2>1. UNCHANGED <<j, ref>>
    BY <1>4 DEF ClaimCheck
  <2> QED BY <2>1 DEF RefsOK, Pin
<1>5. ASSUME NEW p \in Procs, Claim(p) PROVE RefsOK'
  <2>1. UNCHANGED <<j, ref>>
    BY <1>5 DEF Claim
  <2> QED BY <2>1 DEF RefsOK, Pin
<1>6. ASSUME NEW p \in Procs, FirstSave(p) PROVE RefsOK'
  <2>1. CASE PlanStillTrue(p)
    <3>1. /\ j'.phase = "preparing" /\ j'.plan = mine[p].plan
          /\ \A e \in Entries :
               /\ j'.rows[e] = IF e \in Archived THEN "skipped" ELSE "pending"
               /\ j'.decision[e] = ""
          /\ \A x \in AllPins :
               Pin(x)' = IF x \in Pins(mine[p].plan) THEN "pending" ELSE "none"
      BY <1>6, <2>1, FirstSaved
    <3>r. UNCHANGED ref
      BY <1>6 DEF FirstSave
    <3>2. ref = {}
      <4>1. j.phase \in {"none", "completed", "canceled"}
        BY <2>1 DEF PlanStillTrue, Terminal
      <4>2. CASE j.phase = "none"
        <5>2. Pins(j.plan) = {}
          BY <4>2, NoPlanNoPins DEF Types, JournalTypes
        <5> QED BY <5>2 DEF RefsOK
      <4>3. CASE j.phase \in {"completed", "canceled"}
        BY <4>3 DEF RefsOK, PinsOK, PinAgrees
      <4> QED BY <4>1, <4>2, <4>3
    <3> QED BY <3>1, <3>2, <3>r, PinsAre DEF RefsOK
  <2>2. CASE ~PlanStillTrue(p)
    <3>1. UNCHANGED <<j, ref>>
      BY <1>6, <2>2 DEF FirstSave
    <3> QED BY <3>1 DEF RefsOK, Pin

  <2> QED BY <2>1, <2>2
<1>7. ASSUME NEW p \in Procs, Resume(p) PROVE RefsOK'
  <2>1. CASE j' = [j EXCEPT !.phase = "canceling"]
    <3>1. /\ j'.phase = "canceling" /\ j'.plan = j.plan /\ j'.rows = j.rows
          /\ j'.decision = j.decision /\ \A y : Pin(y)' = Pin(y)
      BY <1>j, <2>1, PhaseSaved DEF Phases
    <3>r. UNCHANGED ref
      BY <1>7 DEF Resume
    <3> QED BY <3>1, <3>r DEF RefsOK
  <2>2. CASE UNCHANGED j
    BY <1>7, <2>2 DEF Resume, RefsOK, Pin
  <2> QED BY <1>7, <2>1, <2>2 DEF Resume
<1>8. ASSUME NEW p \in Procs, PinIntent(p) PROVE RefsOK'
  <2> DEFINE x == FirstPin(Unheld)
  <2>1. x \in Unheld /\ x \in AllPins
    BY <1>8, <1>l, UnheldIn, FirstPinIn DEF PinIntent, Holds, LabelOK
  <2> HIDE DEF x
  <2>2. CASE UNCHANGED j
    BY <1>8, <2>2 DEF PinIntent, RefsOK, Pin
  <2>3. CASE j' = Saved(x, "creating")
    <3>1. /\ j'.phase = j.phase /\ j'.plan = j.plan /\ j'.rows = j.rows
          /\ j'.decision = j.decision
          /\ \A y \in AllPins : Pin(y)' = IF y = x THEN "creating" ELSE Pin(y)
      BY <1>j, <2>1, <2>3, SavedPin DEF PinStates
    <3>r. UNCHANGED ref
      BY <1>8 DEF PinIntent
    <3> QED BY <2>1, <3>1, <3>r, PinsAre DEF RefsOK
  <2> QED BY <1>8, <2>2, <2>3 DEF PinIntent, x
<1>9. ASSUME NEW p \in Procs, PinCreate(p) PROVE RefsOK'
  <2> DEFINE x == FirstPin(Unheld)
  <2>1. x \in Unheld
    BY <1>9, <1>l, UnheldIn, FirstPinIn DEF PinCreate, Holds, LabelOK
  <2> HIDE DEF x
  <2>2. ref' = ref \cup {x} /\ UNCHANGED j
    BY <1>9 DEF PinCreate, x
  <2>3. j.phase = "preparing"
    BY <1>9, <1>l DEF PinCreate, Holds, LabelOK, Preparing
  <2>4. x \in Pins(j.plan) /\ Pin(x) # "removed"
    BY <2>1, <2>3 DEF Unheld, PinsOK, PinAgrees
  <2> QED BY <2>2, <2>4 DEF RefsOK, Pin
<1>10. ASSUME NEW p \in Procs, PinHold(p) PROVE RefsOK'
  <2> DEFINE x == FirstPin(Unheld)
  <2>1. x \in Unheld /\ x \in AllPins
    BY <1>10, <1>l, UnheldIn, FirstPinIn DEF PinHold, Holds, LabelOK
  <2> HIDE DEF x
  <2>2. CASE UNCHANGED j
    BY <1>10, <2>2 DEF PinHold, RefsOK, Pin
  <2>3. CASE j' = Saved(x, "held")
    <3>1. /\ j'.phase = j.phase /\ j'.plan = j.plan /\ j'.rows = j.rows
          /\ j'.decision = j.decision
          /\ \A y \in AllPins : Pin(y)' = IF y = x THEN "held" ELSE Pin(y)
      BY <1>j, <2>1, <2>3, SavedPin DEF PinStates
    <3>r. UNCHANGED ref
      BY <1>10 DEF PinHold
    <3>2. x \in ref
      BY <1>10, <1>l DEF PinHold, Holds, LabelOK, x
    <3> QED BY <2>1, <3>1, <3>r, PinsAre, <3>2 DEF RefsOK
  <2> QED BY <1>10, <2>2, <2>3 DEF PinHold, x
<1>11. ASSUME NEW p \in Procs, Protected(p) PROVE RefsOK'
  <2>1. CASE j' = [j EXCEPT !.phase = "publishing"]
    <3>1. /\ j'.phase = "publishing" /\ j'.plan = j.plan /\ j'.rows = j.rows
          /\ j'.decision = j.decision /\ \A y : Pin(y)' = Pin(y)
      BY <1>j, <2>1, PhaseSaved DEF Phases
    <3>r. UNCHANGED ref
      BY <1>11 DEF Protected
    <3> QED BY <3>1, <3>r DEF RefsOK
  <2>2. CASE UNCHANGED j
    BY <1>11, <2>2 DEF Protected, RefsOK, Pin
  <2> QED BY <1>11, <2>1, <2>2 DEF Protected
<1>12. ASSUME NEW p \in Procs, EntryIntent(p) PROVE RefsOK'
  <2>1. NextEntry \in Selected /\ j.phase = "publishing"
    BY <1>12, <1>l, NextEntryIn DEF EntryIntent, Holds, LabelOK, Publishing
  <2>0. CASE UNCHANGED j
    BY <1>12, <2>0 DEF EntryIntent, RefsOK, Pin
  <2>9. ASSUME NEW s \in {"intent", "succeeded"}, j' = Row(NextEntry, s)
        PROVE  RefsOK'
    <3> DEFINE e == NextEntry
    <3>2. /\ j'.phase = j.phase /\ j'.plan = j.plan /\ j'.decision = j.decision
          /\ \A d \in Entries : j'.rows[d] = IF d = e THEN s ELSE j.rows[d]
          /\ \A y : Pin(y)' = Pin(y)
      BY <1>j, <2>1, <2>9, RowSaved DEF Outcomes
    <3>r. UNCHANGED ref
      BY <1>12 DEF EntryIntent
    <3> QED BY <3>2, <3>r DEF RefsOK
  <2> QED BY <1>12, <2>0, <2>9 DEF EntryIntent
<1>13. ASSUME NEW p \in Procs, Push(p) PROVE RefsOK'
  <2>1. UNCHANGED <<j, ref>>
    BY <1>13 DEF Push
  <2> QED BY <2>1 DEF RefsOK, Pin
<1>14. ASSUME NEW p \in Procs, Recorded(p) PROVE RefsOK'
  <2>1. cur[p] \in Selected /\ j.rows[cur[p]] = "intent" /\ j.phase = "publishing"
    BY <1>14, <1>l DEF Recorded, Holds, LabelOK, Publishing
  <2> DEFINE e == cur[p]
             s == "succeeded"
  <2>2. /\ j'.phase = j.phase /\ j'.plan = j.plan /\ j'.decision = j.decision
        /\ \A d \in Entries : j'.rows[d] = IF d = e THEN s ELSE j.rows[d]
        /\ \A y : Pin(y)' = Pin(y)
    BY <1>14, <1>j, <2>1, RowSaved DEF Recorded, Outcomes
  <2>r. UNCHANGED ref
    BY <1>14 DEF Recorded
  <2> QED BY <2>2, <2>r DEF RefsOK
<1>15. ASSUME NEW p \in Procs, Published(p) PROVE RefsOK'
  <2>1. CASE j' = [j EXCEPT !.phase = "cleaning"]
    <3>1. /\ j'.phase = "cleaning" /\ j'.plan = j.plan /\ j'.rows = j.rows
          /\ j'.decision = j.decision /\ \A y : Pin(y)' = Pin(y)
      BY <1>j, <2>1, PhaseSaved DEF Phases
    <3>r. UNCHANGED ref
      BY <1>15 DEF Published
    <3> QED BY <3>1, <3>r DEF RefsOK
  <2>2. CASE UNCHANGED j
    BY <1>15, <2>2 DEF Published, RefsOK, Pin
  <2> QED BY <1>15, <2>1, <2>2 DEF Published
<1>16. ASSUME NEW p \in Procs, DecideFollowups(p) PROVE RefsOK'
  <2>1. CASE UNCHANGED j
    BY <1>16, <2>1 DEF DecideFollowups, RefsOK, Pin
  <2>2. CASE ~UNCHANGED j
    <3>1. /\ j'.phase = j.phase /\ j'.plan = j.plan /\ j'.rows = j.rows
          /\ \A e \in Entries : j'.decision[e] =
                IF e \in Undecided THEN Decision(e) ELSE j.decision[e]
          /\ \A y : Pin(y)' = Pin(y)
      BY <1>16, <1>j, <2>2, DecisionSaved DEF DecideFollowups
    <3>r. UNCHANGED ref
      BY <1>16 DEF DecideFollowups
    <3> QED BY <3>1, <3>r DEF RefsOK
  <2> QED BY <2>1, <2>2
<1>17. ASSUME NEW p \in Procs, ClearPublished(p) PROVE RefsOK'
  <2>1. UNCHANGED <<j, ref>>
    BY <1>17 DEF ClearPublished
  <2> QED BY <2>1 DEF RefsOK, Pin
<1>18. ASSUME NEW p \in Procs, CleanIntent(p) PROVE RefsOK'
  <2> DEFINE x == FirstPin(Left)
  <2>1. x \in Left /\ x \in AllPins
    BY <1>18, <1>l, LeftIn, FirstPinIn DEF CleanIntent, Holds, LabelOK
  <2> HIDE DEF x
  <2>2. CASE UNCHANGED j
    BY <1>18, <2>2 DEF CleanIntent, RefsOK, Pin
  <2>3. CASE j' = Saved(x, "deleting")
    <3>1. /\ j'.phase = j.phase /\ j'.plan = j.plan /\ j'.rows = j.rows
          /\ j'.decision = j.decision
          /\ \A y \in AllPins : Pin(y)' = IF y = x THEN "deleting" ELSE Pin(y)
      BY <1>j, <2>1, <2>3, SavedPin DEF PinStates
    <3>r. UNCHANGED ref
      BY <1>18 DEF CleanIntent
    <3> QED BY <2>1, <3>1, <3>r, PinsAre DEF RefsOK
  <2> QED BY <1>18, <2>2, <2>3 DEF CleanIntent, x
<1>19. ASSUME NEW p \in Procs, CleanDelete(p) PROVE RefsOK'
  <2> DEFINE x == FirstPin(Left)
  <2>1. Pin(x) = "deleting"
    BY <1>19, <1>l DEF CleanDelete, Holds, LabelOK
  <2> HIDE DEF x
  <2>2. ref' = ref \ {x} /\ UNCHANGED j
    BY <1>19 DEF CleanDelete, x
  <2> QED BY <2>1, <2>2 DEF RefsOK, Pin
<1>20. ASSUME NEW p \in Procs, CleanSave(p) PROVE RefsOK'
  <2> DEFINE x == FirstPin(Left)
  <2>1. x \in Left /\ x \in AllPins
    BY <1>20, <1>l, LeftIn, FirstPinIn DEF CleanSave, Holds, LabelOK
  <2> HIDE DEF x
  <2>2. CASE UNCHANGED j
    BY <1>20, <2>2 DEF CleanSave, RefsOK, Pin
  <2>3. CASE j' = Saved(x, "removed")
    <3>1. /\ j'.phase = j.phase /\ j'.plan = j.plan /\ j'.rows = j.rows
          /\ j'.decision = j.decision
          /\ \A y \in AllPins : Pin(y)' = IF y = x THEN "removed" ELSE Pin(y)
      BY <1>j, <2>1, <2>3, SavedPin DEF PinStates
    <3>r. UNCHANGED ref
      BY <1>20 DEF CleanSave
    <3>2. x \notin ref
      BY <1>20, <1>l DEF CleanSave, Holds, LabelOK, x
    <3> QED BY <2>1, <3>1, <3>r, PinsAre, <3>2 DEF RefsOK
  <2> QED BY <1>20, <2>2, <2>3 DEF CleanSave, x
<1>21. ASSUME NEW p \in Procs, Finish(p) PROVE RefsOK'
  <2> DEFINE end == IF verb[p] = "cancel" THEN "canceled" ELSE "completed"
  <2>1. j' = [j EXCEPT !.phase = end] /\ end \in Phases
    BY <1>21 DEF Finish, Phases
  <2>2. /\ j'.phase = end /\ j'.plan = j.plan /\ j'.rows = j.rows
        /\ j'.decision = j.decision /\ \A y : Pin(y)' = Pin(y)
    BY ONLY <1>j, <2>1, PhaseSaved
  <2>r. UNCHANGED ref
    BY <1>21 DEF Finish
  <2> QED BY <2>2, <2>r DEF RefsOK
<1>22. ASSUME NEW p \in Procs, PlainPrepare(p) PROVE RefsOK'
  <2>1. UNCHANGED <<j, ref>>
    BY <1>22 DEF PlainPrepare
  <2> QED BY <2>1 DEF RefsOK, Pin
<1>23. ASSUME NEW p \in Procs, PlainPush(p) PROVE RefsOK'
  <2>1. UNCHANGED <<j, ref>>
    BY <1>23 DEF PlainPush
  <2> QED BY <2>1 DEF RefsOK, Pin
<1>24. ASSUME NEW p \in Procs, PlainClear(p) PROVE RefsOK'
  <2>1. UNCHANGED <<j, ref>>
    BY <1>24 DEF PlainClear
  <2> QED BY <2>1 DEF RefsOK, Pin
<1>25. ASSUME NEW p \in Procs, SyncStops(p) PROVE RefsOK'
  <2>1. UNCHANGED <<j, ref>>
    BY <1>25 DEF SyncStops
  <2> QED BY <2>1 DEF RefsOK, Pin
<1>26. ASSUME NEW p \in Procs, SyncRefused(p) PROVE RefsOK'
  <2>1. UNCHANGED <<j, ref>>
    BY <1>26 DEF SyncRefused
  <2> QED BY <2>1 DEF RefsOK, Pin
<1>27. ASSUME NEW p \in Procs, Release(p) PROVE RefsOK'
  <2>1. UNCHANGED <<j, ref>>
    BY <1>27 DEF Release
  <2> QED BY <2>1 DEF RefsOK, Pin
<1>28. ASSUME NEW p \in Procs, Crash(p) PROVE RefsOK'
  <2>1. UNCHANGED <<j, ref>>
    BY <1>28 DEF Crash
  <2> QED BY <2>1 DEF RefsOK, Pin
<1>29. ASSUME NEW p \in Procs, SyncRecovered(p) PROVE RefsOK'
  <2>1. UNCHANGED <<j, ref>>
    BY <1>29 DEF SyncRecovered
  <2> QED BY <2>1 DEF RefsOK, Pin
<1>30. ASSUME NEW e \in Selected, NEW c \in Commit \ Theirs, UserMoves(e, c)
    PROVE RefsOK'
  <2>1. UNCHANGED <<j, ref>>
    BY <1>30 DEF UserMoves
  <2> QED BY <2>1 DEF RefsOK, Pin
<1>31. ASSUME NEW e \in Selected, Fetch(e) PROVE RefsOK'
  <2>1. UNCHANGED <<j, ref>>
    BY <1>31 DEF Fetch
  <2> QED BY <2>1 DEF RefsOK, Pin
<1>32. ASSUME NEW e \in Selected, NEW c \in Theirs, OthersPush(e, c) PROVE
    RefsOK'
  <2>1. UNCHANGED <<j, ref>>
    BY <1>32 DEF OthersPush
  <2> QED BY <2>1 DEF RefsOK, Pin
<1>33. ASSUME NEW e \in Selected, NEW m \in {"same", "rebased", "remapped"},
    MetaEdit(e, m) PROVE RefsOK'
  <2>1. UNCHANGED <<j, ref>>
    BY <1>33 DEF MetaEdit
  <2> QED BY <2>1 DEF RefsOK, Pin
<1> QED
  BY ONLY Next, <1>1, <1>2, <1>3, <1>4, <1>5, <1>6, <1>7, <1>8, <1>9, <1>10,
      <1>11, <1>12, <1>13, <1>14, <1>15, <1>16, <1>17, <1>18, <1>19, <1>20,
      <1>21, <1>22, <1>23, <1>24, <1>25, <1>26, <1>27, <1>28, <1>29, <1>30,
      <1>31, <1>32, <1>33
  DEF Next, Step, People

-----------------------------------------------------------------------------
(* What the remote has shown.                                               *)

\* What a remote has shown changes only by a push.
LEMMA ShownBy ==
  ASSUME Next
  PROVE  UNCHANGED shown \/ \E x, y : Show(x, y)
<1>1. ASSUME NEW p \in Procs, BuildPlan(p) PROVE UNCHANGED shown \/ \E x, y : Show(x, y)
  BY <1>1 DEF BuildPlan, git
<1>2. ASSUME NEW p \in Procs, NEW v \in {"plain", "sync"}, Start(p, v) PROVE
    UNCHANGED shown \/ \E x, y : Show(x, y)
  BY <1>2 DEF Start, git
<1>3. ASSUME NEW p \in Procs, NEW v \in {"continue", "cancel"}, Recover(p, v)
    PROVE UNCHANGED shown \/ \E x, y : Show(x, y)
  BY <1>3 DEF Recover, git
<1>4. ASSUME NEW p \in Procs, ClaimCheck(p) PROVE UNCHANGED shown \/ \E x, y : Show(x, y)
  BY <1>4 DEF ClaimCheck, git
<1>5. ASSUME NEW p \in Procs, Claim(p) PROVE UNCHANGED shown \/ \E x, y : Show(x, y)
  BY <1>5 DEF Claim, git
<1>6. ASSUME NEW p \in Procs, FirstSave(p) PROVE UNCHANGED shown \/ \E x, y : Show(x, y)
  BY <1>6 DEF FirstSave, git
<1>7. ASSUME NEW p \in Procs, Resume(p) PROVE UNCHANGED shown \/ \E x, y : Show(x, y)
  BY <1>7 DEF Resume, git
<1>8. ASSUME NEW p \in Procs, PinIntent(p) PROVE UNCHANGED shown \/ \E x, y : Show(x, y)
  BY <1>8 DEF PinIntent, git
<1>9. ASSUME NEW p \in Procs, PinCreate(p) PROVE UNCHANGED shown \/ \E x, y : Show(x, y)
  BY <1>9 DEF PinCreate, git
<1>10. ASSUME NEW p \in Procs, PinHold(p) PROVE UNCHANGED shown \/ \E x, y : Show(x, y)
  BY <1>10 DEF PinHold, git
<1>11. ASSUME NEW p \in Procs, Protected(p) PROVE UNCHANGED shown \/ \E x, y : Show(x, y)
  BY <1>11 DEF Protected, git
<1>12. ASSUME NEW p \in Procs, EntryIntent(p) PROVE UNCHANGED shown \/ \E x, y : Show(x, y)
  BY <1>12 DEF EntryIntent, git
<1>13. ASSUME NEW p \in Procs, Push(p) PROVE UNCHANGED shown \/ \E x, y : Show(x, y)
  BY <1>13 DEF Push
<1>14. ASSUME NEW p \in Procs, Recorded(p) PROVE UNCHANGED shown \/ \E x, y : Show(x, y)
  BY <1>14 DEF Recorded, git
<1>15. ASSUME NEW p \in Procs, Published(p) PROVE UNCHANGED shown \/ \E x, y : Show(x, y)
  BY <1>15 DEF Published, git
<1>16. ASSUME NEW p \in Procs, DecideFollowups(p) PROVE UNCHANGED shown \/ \E x, y : Show(x, y)
  BY <1>16 DEF DecideFollowups, git
<1>17. ASSUME NEW p \in Procs, ClearPublished(p) PROVE UNCHANGED shown \/ \E x, y : Show(x, y)
  BY <1>17 DEF ClearPublished, git
<1>18. ASSUME NEW p \in Procs, CleanIntent(p) PROVE UNCHANGED shown \/ \E x, y : Show(x, y)
  BY <1>18 DEF CleanIntent, git
<1>19. ASSUME NEW p \in Procs, CleanDelete(p) PROVE UNCHANGED shown \/ \E x, y : Show(x, y)
  BY <1>19 DEF CleanDelete, git
<1>20. ASSUME NEW p \in Procs, CleanSave(p) PROVE UNCHANGED shown \/ \E x, y : Show(x, y)
  BY <1>20 DEF CleanSave, git
<1>21. ASSUME NEW p \in Procs, Finish(p) PROVE UNCHANGED shown \/ \E x, y : Show(x, y)
  BY <1>21 DEF Finish, git
<1>22. ASSUME NEW p \in Procs, PlainPrepare(p) PROVE UNCHANGED shown \/ \E x, y : Show(x, y)
  BY <1>22 DEF PlainPrepare, git
<1>23. ASSUME NEW p \in Procs, PlainPush(p) PROVE UNCHANGED shown \/ \E x, y : Show(x, y)
  BY <1>23 DEF PlainPush
<1>24. ASSUME NEW p \in Procs, PlainClear(p) PROVE UNCHANGED shown \/ \E x, y : Show(x, y)
  BY <1>24 DEF PlainClear, git
<1>25. ASSUME NEW p \in Procs, SyncStops(p) PROVE UNCHANGED shown \/ \E x, y : Show(x, y)
  BY <1>25 DEF SyncStops, git
<1>26. ASSUME NEW p \in Procs, SyncRefused(p) PROVE UNCHANGED shown \/ \E x, y : Show(x, y)
  BY <1>26 DEF SyncRefused, git
<1>27. ASSUME NEW p \in Procs, Release(p) PROVE UNCHANGED shown \/ \E x, y : Show(x, y)
  BY <1>27 DEF Release, git
<1>28. ASSUME NEW p \in Procs, Crash(p) PROVE UNCHANGED shown \/ \E x, y : Show(x, y)
  BY <1>28 DEF Crash, git
<1>29. ASSUME NEW p \in Procs, SyncRecovered(p) PROVE UNCHANGED shown \/ \E x, y : Show(x, y)
  BY <1>29 DEF SyncRecovered, git
<1>30. ASSUME NEW e \in Selected, NEW c \in Commit \ Theirs, UserMoves(e, c)
    PROVE UNCHANGED shown \/ \E x, y : Show(x, y)
  BY <1>30 DEF UserMoves
<1>31. ASSUME NEW e \in Selected, Fetch(e) PROVE UNCHANGED shown \/ \E x, y : Show(x, y)
  BY <1>31 DEF Fetch
<1>32. ASSUME NEW e \in Selected, NEW c \in Theirs, OthersPush(e, c) PROVE
    UNCHANGED shown \/ \E x, y : Show(x, y)
  BY <1>32 DEF OthersPush
<1>33. ASSUME NEW e \in Selected, NEW m \in {"same", "rebased", "remapped"},
    MetaEdit(e, m) PROVE UNCHANGED shown \/ \E x, y : Show(x, y)
  BY <1>33 DEF MetaEdit, git
<1> QED
  BY ONLY Next, <1>1, <1>2, <1>3, <1>4, <1>5, <1>6, <1>7, <1>8, <1>9, <1>10,
      <1>11, <1>12, <1>13, <1>14, <1>15, <1>16, <1>17, <1>18, <1>19, <1>20,
      <1>21, <1>22, <1>23, <1>24, <1>25, <1>26, <1>27, <1>28, <1>29, <1>30,
      <1>31, <1>32, <1>33
  DEF Next, Step, People

\* A remote is never forgotten to have shown something.
LEMMA ShownGrows ==
  ASSUME Types, Next PROVE \A e \in Entries : shown[e] \subseteq shown'[e]
<1> QED BY ShownBy DEF Show, Types, GitTypes

\* What a remote shows, and what a tracking ref says of it, it has shown.
RemoteShown == \A e \in Entries : remote[e] \in shown[e] /\ track[e] \in shown[e]

\* What a remote or a tracking branch has was shown.
LEMMA RemoteShownStep ==
  ASSUME Types, RemoteShown, Next
  PROVE  RemoteShown'
<1> USE DEF RemoteShown
<1>g. /\ local \in [Entries -> Own] /\ track \in [Entries -> Commit]
      /\ remote \in [Entries -> Commit] /\ shown \in [Entries -> SUBSET Commit]
  BY DEF Types, GitTypes
<1>1. ASSUME NEW p \in Procs, BuildPlan(p) PROVE RemoteShown'
  BY <1>1, <1>g DEF BuildPlan, git
<1>2. ASSUME NEW p \in Procs, NEW v \in {"plain", "sync"}, Start(p, v) PROVE
    RemoteShown'
  BY <1>2, <1>g DEF Start, git
<1>3. ASSUME NEW p \in Procs, NEW v \in {"continue", "cancel"}, Recover(p, v)
    PROVE RemoteShown'
  BY <1>3, <1>g DEF Recover, git
<1>4. ASSUME NEW p \in Procs, ClaimCheck(p) PROVE RemoteShown'
  BY <1>4, <1>g DEF ClaimCheck, git
<1>5. ASSUME NEW p \in Procs, Claim(p) PROVE RemoteShown'
  BY <1>5, <1>g DEF Claim, git
<1>6. ASSUME NEW p \in Procs, FirstSave(p) PROVE RemoteShown'
  BY <1>6, <1>g DEF FirstSave, git
<1>7. ASSUME NEW p \in Procs, Resume(p) PROVE RemoteShown'
  BY <1>7, <1>g DEF Resume, git
<1>8. ASSUME NEW p \in Procs, PinIntent(p) PROVE RemoteShown'
  BY <1>8, <1>g DEF PinIntent, git
<1>9. ASSUME NEW p \in Procs, PinCreate(p) PROVE RemoteShown'
  BY <1>9, <1>g DEF PinCreate, git
<1>10. ASSUME NEW p \in Procs, PinHold(p) PROVE RemoteShown'
  BY <1>10, <1>g DEF PinHold, git
<1>11. ASSUME NEW p \in Procs, Protected(p) PROVE RemoteShown'
  BY <1>11, <1>g DEF Protected, git
<1>12. ASSUME NEW p \in Procs, EntryIntent(p) PROVE RemoteShown'
  BY <1>12, <1>g DEF EntryIntent, git
<1>13. ASSUME NEW p \in Procs, Push(p) PROVE RemoteShown'
  BY <1>13, <1>g DEF Push, Show
<1>14. ASSUME NEW p \in Procs, Recorded(p) PROVE RemoteShown'
  BY <1>14, <1>g DEF Recorded, git
<1>15. ASSUME NEW p \in Procs, Published(p) PROVE RemoteShown'
  BY <1>15, <1>g DEF Published, git
<1>16. ASSUME NEW p \in Procs, DecideFollowups(p) PROVE RemoteShown'
  BY <1>16, <1>g DEF DecideFollowups, git
<1>17. ASSUME NEW p \in Procs, ClearPublished(p) PROVE RemoteShown'
  BY <1>17, <1>g DEF ClearPublished, git
<1>18. ASSUME NEW p \in Procs, CleanIntent(p) PROVE RemoteShown'
  BY <1>18, <1>g DEF CleanIntent, git
<1>19. ASSUME NEW p \in Procs, CleanDelete(p) PROVE RemoteShown'
  BY <1>19, <1>g DEF CleanDelete, git
<1>20. ASSUME NEW p \in Procs, CleanSave(p) PROVE RemoteShown'
  BY <1>20, <1>g DEF CleanSave, git
<1>21. ASSUME NEW p \in Procs, Finish(p) PROVE RemoteShown'
  BY <1>21, <1>g DEF Finish, git
<1>22. ASSUME NEW p \in Procs, PlainPrepare(p) PROVE RemoteShown'
  BY <1>22, <1>g DEF PlainPrepare, git
<1>23. ASSUME NEW p \in Procs, PlainPush(p) PROVE RemoteShown'
  BY <1>23, <1>g DEF PlainPush, Show
<1>24. ASSUME NEW p \in Procs, PlainClear(p) PROVE RemoteShown'
  BY <1>24, <1>g DEF PlainClear, git
<1>25. ASSUME NEW p \in Procs, SyncStops(p) PROVE RemoteShown'
  BY <1>25, <1>g DEF SyncStops, git
<1>26. ASSUME NEW p \in Procs, SyncRefused(p) PROVE RemoteShown'
  BY <1>26, <1>g DEF SyncRefused, git
<1>27. ASSUME NEW p \in Procs, Release(p) PROVE RemoteShown'
  BY <1>27, <1>g DEF Release, git
<1>28. ASSUME NEW p \in Procs, Crash(p) PROVE RemoteShown'
  BY <1>28, <1>g DEF Crash, git
<1>29. ASSUME NEW p \in Procs, SyncRecovered(p) PROVE RemoteShown'
  BY <1>29, <1>g DEF SyncRecovered, git
<1>30. ASSUME NEW e \in Selected, NEW c \in Commit \ Theirs, UserMoves(e, c)
    PROVE RemoteShown'
  BY <1>30, <1>g DEF UserMoves
<1>31. ASSUME NEW e \in Selected, Fetch(e) PROVE RemoteShown'
  BY <1>31, <1>g DEF Fetch
<1>32. ASSUME NEW e \in Selected, NEW c \in Theirs, OthersPush(e, c) PROVE
    RemoteShown'
  BY <1>32, <1>g DEF OthersPush, Show
<1>33. ASSUME NEW e \in Selected, NEW m \in {"same", "rebased", "remapped"},
    MetaEdit(e, m) PROVE RemoteShown'
  BY <1>33, <1>g DEF MetaEdit, git
<1> QED
  BY ONLY Next, <1>1, <1>2, <1>3, <1>4, <1>5, <1>6, <1>7, <1>8, <1>9, <1>10,
      <1>11, <1>12, <1>13, <1>14, <1>15, <1>16, <1>17, <1>18, <1>19, <1>20,
      <1>21, <1>22, <1>23, <1>24, <1>25, <1>26, <1>27, <1>28, <1>29, <1>30,
      <1>31, <1>32, <1>33
  DEF Next, Step, People

\* How a row becomes a success: by an answer, or by a look at the remote.
Succeeds(d) ==
  \/ \E p \in Procs : Recorded(p) /\ cur[p] = d
  \/ \E p \in Procs : EntryIntent(p) /\ NextEntry = d /\ Reconciled(d) = "confirm"

\* A row succeeds only when the remote has shown its source.
LEMMA RowTurns ==
  ASSUME Types, LabelsOK, NEW d \in Selected, j'.rows[d] = "succeeded",
      j.rows[d] # "succeeded", Next
  PROVE  Succeeds(d)
<1> USE DEF Succeeds
<1>t. ProcTypes
  BY DEF Types
<1>j. j \in Journals
  BY DEF Types, JournalTypes
<1>s. Selected \subseteq Entries /\ Archived \subseteq Entries
      /\ \A x \in Entries : x \in Archived <=> x \notin Selected
  BY PushAssumption DEF Selected
<1>l. \A p \in Procs : LabelOK(p)
  BY DEF LabelsOK
<1>1. ASSUME NEW p \in Procs, BuildPlan(p) PROVE Succeeds(d)
  BY <1>1 DEF BuildPlan
<1>2. ASSUME NEW p \in Procs, NEW v \in {"plain", "sync"}, Start(p, v) PROVE
    Succeeds(d)
  BY <1>2 DEF Start
<1>3. ASSUME NEW p \in Procs, NEW v \in {"continue", "cancel"}, Recover(p, v)
    PROVE Succeeds(d)
  BY <1>3 DEF Recover
<1>4. ASSUME NEW p \in Procs, ClaimCheck(p) PROVE Succeeds(d)
  BY <1>4 DEF ClaimCheck
<1>5. ASSUME NEW p \in Procs, Claim(p) PROVE Succeeds(d)
  BY <1>5 DEF Claim
<1>6. ASSUME NEW p \in Procs, FirstSave(p) PROVE Succeeds(d)
  <2>1. CASE PlanStillTrue(p)
    <3>1. j'.rows[d] = "pending"
      BY <1>6, <2>1, FirstSaved DEF Selected
    <3> QED BY <3>1
  <2>2. CASE ~PlanStillTrue(p)
    BY <1>6, <2>2 DEF FirstSave
  <2> QED BY <2>1, <2>2
<1>7. ASSUME NEW p \in Procs, Resume(p) PROVE Succeeds(d)
  BY <1>7, <1>j, PhaseSaved DEF Resume, Phases
<1>8. ASSUME NEW p \in Procs, PinIntent(p) PROVE Succeeds(d)
  <2>1. FirstPin(Unheld) \in AllPins
    BY <1>8, <1>l, UnheldIn, FirstPinIn DEF PinIntent, Holds, LabelOK
  <2> QED BY <1>8, <1>j, <2>1, SavedPin DEF PinIntent, PinStates
<1>9. ASSUME NEW p \in Procs, PinCreate(p) PROVE Succeeds(d)
  BY <1>9 DEF PinCreate
<1>10. ASSUME NEW p \in Procs, PinHold(p) PROVE Succeeds(d)
  <2>1. FirstPin(Unheld) \in AllPins
    BY <1>10, <1>l, UnheldIn, FirstPinIn DEF PinHold, Holds, LabelOK
  <2> QED BY <1>10, <1>j, <2>1, SavedPin DEF PinHold, PinStates
<1>11. ASSUME NEW p \in Procs, Protected(p) PROVE Succeeds(d)
  BY <1>11, <1>j, PhaseSaved DEF Protected, Phases
<1>12. ASSUME NEW p \in Procs, EntryIntent(p) PROVE Succeeds(d)
  <2>1. NextEntry \in Selected
    BY <1>12, NextEntryIn DEF EntryIntent
  <2>2. CASE UNCHANGED j
    BY <2>2
  <2>3. CASE j' = Row(NextEntry, "intent")
    BY <1>j, <1>s, <2>1, <2>3, RowSaved DEF Outcomes
  <2>4. CASE j' = Row(NextEntry, "succeeded") /\ Reconciled(NextEntry) = "confirm"
    <3>1. \A c \in Entries : j'.rows[c] = IF c = NextEntry THEN "succeeded" ELSE j.rows[c]
      BY <1>j, <2>1, <2>4, RowSaved DEF Outcomes
    <3> QED BY <1>12, <1>s, <2>4, <3>1
  <2> QED BY <1>12, <2>2, <2>3, <2>4 DEF EntryIntent
<1>13. ASSUME NEW p \in Procs, Push(p) PROVE Succeeds(d)
  BY <1>13 DEF Push
<1>14. ASSUME NEW p \in Procs, Recorded(p) PROVE Succeeds(d)
  <2>1. cur[p] \in Selected
    BY <1>14, <1>l DEF Recorded, Holds, LabelOK
  <2>2. \A c \in Entries : j'.rows[c] = IF c = cur[p] THEN "succeeded" ELSE j.rows[c]
    BY <1>14, <1>j, <2>1, RowSaved DEF Recorded, Outcomes
  <2> QED BY <1>14, <1>s, <2>2
<1>15. ASSUME NEW p \in Procs, Published(p) PROVE Succeeds(d)
  BY <1>15, <1>j, PhaseSaved DEF Published, Phases
<1>16. ASSUME NEW p \in Procs, DecideFollowups(p) PROVE Succeeds(d)
  BY <1>16, <1>j, DecisionSaved DEF DecideFollowups
<1>17. ASSUME NEW p \in Procs, ClearPublished(p) PROVE Succeeds(d)
  BY <1>17 DEF ClearPublished
<1>18. ASSUME NEW p \in Procs, CleanIntent(p) PROVE Succeeds(d)
  <2>1. FirstPin(Left) \in AllPins
    BY <1>18, <1>l, LeftIn, FirstPinIn DEF CleanIntent, Holds, LabelOK
  <2> QED BY <1>18, <1>j, <2>1, SavedPin DEF CleanIntent, PinStates
<1>19. ASSUME NEW p \in Procs, CleanDelete(p) PROVE Succeeds(d)
  BY <1>19 DEF CleanDelete
<1>20. ASSUME NEW p \in Procs, CleanSave(p) PROVE Succeeds(d)
  <2>1. FirstPin(Left) \in AllPins
    BY <1>20, <1>l, LeftIn, FirstPinIn DEF CleanSave, Holds, LabelOK
  <2> QED BY <1>20, <1>j, <2>1, SavedPin DEF CleanSave, PinStates
<1>21. ASSUME NEW p \in Procs, Finish(p) PROVE Succeeds(d)
  BY <1>21, <1>j, PhaseSaved DEF Finish, Phases
<1>22. ASSUME NEW p \in Procs, PlainPrepare(p) PROVE Succeeds(d)
  BY <1>22 DEF PlainPrepare
<1>23. ASSUME NEW p \in Procs, PlainPush(p) PROVE Succeeds(d)
  BY <1>23 DEF PlainPush
<1>24. ASSUME NEW p \in Procs, PlainClear(p) PROVE Succeeds(d)
  BY <1>24 DEF PlainClear
<1>25. ASSUME NEW p \in Procs, SyncStops(p) PROVE Succeeds(d)
  BY <1>25 DEF SyncStops
<1>26. ASSUME NEW p \in Procs, SyncRefused(p) PROVE Succeeds(d)
  BY <1>26 DEF SyncRefused
<1>27. ASSUME NEW p \in Procs, Release(p) PROVE Succeeds(d)
  BY <1>27 DEF Release
<1>28. ASSUME NEW p \in Procs, Crash(p) PROVE Succeeds(d)
  BY <1>28 DEF Crash
<1>29. ASSUME NEW p \in Procs, SyncRecovered(p) PROVE Succeeds(d)
  BY <1>29 DEF SyncRecovered
<1>30. ASSUME NEW e \in Selected, NEW c \in Commit \ Theirs, UserMoves(e, c)
    PROVE Succeeds(d)
  BY <1>30 DEF UserMoves
<1>31. ASSUME NEW e \in Selected, Fetch(e) PROVE Succeeds(d)
  BY <1>31 DEF Fetch
<1>32. ASSUME NEW e \in Selected, NEW c \in Theirs, OthersPush(e, c) PROVE
    Succeeds(d)
  BY <1>32 DEF OthersPush
<1>33. ASSUME NEW e \in Selected, NEW m \in {"same", "rebased", "remapped"},
    MetaEdit(e, m) PROVE Succeeds(d)
  BY <1>33 DEF MetaEdit
<1> QED
  BY ONLY Next, <1>1, <1>2, <1>3, <1>4, <1>5, <1>6, <1>7, <1>8, <1>9, <1>10,
      <1>11, <1>12, <1>13, <1>14, <1>15, <1>16, <1>17, <1>18, <1>19, <1>20,
      <1>21, <1>22, <1>23, <1>24, <1>25, <1>26, <1>27, <1>28, <1>29, <1>30,
      <1>31, <1>32, <1>33
  DEF Next, Step, People

\* What is recorded as published has been shown.
LEMMA SucceededStep ==
  ASSUME Types, Guarded, LabelsOK, RowsOK, ShownOK, Next
  PROVE  ShownOK'
<1>w. \A e \in Entries : shown[e] \subseteq shown'[e]
  BY ShownGrows
<1>r. RemoteShown'
  BY RemoteShownStep DEF ShownOK, RemoteShown
<1>j. j \in Journals /\ Selected \subseteq Entries
  BY DEF Types, JournalTypes, Selected
<1> SUFFICES ASSUME j'.phase # "none", NEW e \in Selected, j'.rows[e] = "succeeded"
             PROVE  j'.plan[e].source \in shown'[e]
  BY <1>r DEF ShownOK, RemoteShown
<1>1. CASE \E p \in Procs : FirstSave(p) /\ PlanStillTrue(p)
  <2> PICK p \in Procs : FirstSave(p) /\ PlanStillTrue(p)
    BY <1>1
  <2>1. j'.rows[e] = "pending"
    BY FirstSaved DEF Selected
  <2> QED BY <2>1
<1>2. CASE ~ \E p \in Procs : FirstSave(p) /\ PlanStillTrue(p)
  <2>1. j'.plan = j.plan /\ j.phase # "none"
    BY <1>2, PlanStays
  <2>2. CASE j.rows[e] = "succeeded"
    BY <1>w, <1>j, <2>1, <2>2 DEF ShownOK
  <2>3. CASE j.rows[e] # "succeeded"
    <3>1. \/ \E p \in Procs : Recorded(p) /\ cur[p] = e
          \/ \E p \in Procs : EntryIntent(p) /\ NextEntry = e /\ Reconciled(e) = "confirm"
      BY <2>3, RowTurns DEF Succeeds
    <3>2. CASE \E p \in Procs : Recorded(p) /\ cur[p] = e
      BY <1>w, <1>j, <2>1, <3>2 DEF Recorded, Holds, LabelsOK, LabelOK
    <3>3. CASE \E p \in Procs : EntryIntent(p) /\ NextEntry = e /\ Reconciled(e) = "confirm"
      <4>1. remote[e] = j.plan[e].source
        BY <3>3 DEF Reconciled
      <4> QED BY <1>w, <1>j, <2>1, <4>1 DEF ShownOK
    <3> QED BY <3>1, <3>2, <3>3
  <2> QED BY <2>2, <2>3
<1> QED BY <1>1, <1>2

\* A row is cleared only by what the remote has shown.
ClearedByProof ==
  \A d \in Rewritten :
    rec'[d] = "cleared" => rec[d] = "cleared" \/ \E c \in shown[d] : <<New, c>> \in Within

\* Nothing is cleared without proof: the record changes in three actions.
LEMMA ClearedNow ==
  ASSUME Types, LabelsOK, DecisionsOK, ShownOK, Next
  PROVE ClearedByProof
<1> USE DEF ClearedByProof
<1>t. ProcTypes
  BY DEF Types
<1>j. j \in Journals
  BY DEF Types, JournalTypes
<1>s. Selected \subseteq Entries /\ Archived \subseteq Entries
      /\ \A d \in Entries : d \in Archived <=> d \notin Selected
  BY PushAssumption DEF Selected
<1>l. \A p \in Procs : LabelOK(p)
  BY DEF LabelsOK
<1>g. /\ local \in [Entries -> Own] /\ track \in [Entries -> Commit]
      /\ remote \in [Entries -> Commit] /\ shown \in [Entries -> SUBSET Commit]
      /\ recent \in [Entries -> SUBSET Own]
  BY DEF Types, GitTypes
<1>o. Rewritten \subseteq Selected /\ Own \cap Theirs = {} /\ Own \subseteq Commit
  BY PushAssumption DEF Own
<1>1. ASSUME NEW p \in Procs, BuildPlan(p) PROVE ClearedByProof
  BY <1>1 DEF BuildPlan
<1>2. ASSUME NEW p \in Procs, NEW v \in {"plain", "sync"}, Start(p, v) PROVE ClearedByProof
  BY <1>2 DEF Start
<1>3. ASSUME NEW p \in Procs, NEW v \in {"continue", "cancel"}, Recover(p, v)
    PROVE ClearedByProof
  BY <1>3 DEF Recover
<1>4. ASSUME NEW p \in Procs, ClaimCheck(p) PROVE ClearedByProof
  BY <1>4 DEF ClaimCheck
<1>5. ASSUME NEW p \in Procs, Claim(p) PROVE ClearedByProof
  BY <1>5 DEF Claim
<1>6. ASSUME NEW p \in Procs, FirstSave(p) PROVE ClearedByProof
  BY <1>6 DEF FirstSave
<1>7. ASSUME NEW p \in Procs, Resume(p) PROVE ClearedByProof
  BY <1>7 DEF Resume
<1>8. ASSUME NEW p \in Procs, PinIntent(p) PROVE ClearedByProof
  BY <1>8 DEF PinIntent
<1>9. ASSUME NEW p \in Procs, PinCreate(p) PROVE ClearedByProof
  BY <1>9 DEF PinCreate
<1>10. ASSUME NEW p \in Procs, PinHold(p) PROVE ClearedByProof
  BY <1>10 DEF PinHold
<1>11. ASSUME NEW p \in Procs, Protected(p) PROVE ClearedByProof
  BY <1>11 DEF Protected
<1>12. ASSUME NEW p \in Procs, EntryIntent(p) PROVE ClearedByProof
  BY <1>12 DEF EntryIntent
<1>13. ASSUME NEW p \in Procs, Push(p) PROVE ClearedByProof
  BY <1>13 DEF Push
<1>14. ASSUME NEW p \in Procs, Recorded(p) PROVE ClearedByProof
  BY <1>14 DEF Recorded
<1>15. ASSUME NEW p \in Procs, Published(p) PROVE ClearedByProof
  BY <1>15 DEF Published
<1>16. ASSUME NEW p \in Procs, DecideFollowups(p) PROVE ClearedByProof
  BY <1>16 DEF DecideFollowups
<1>17. ASSUME NEW p \in Procs, ClearPublished(p) PROVE ClearedByProof
  <2>1. ASSUME NEW d \in Rewritten, rec'[d] = "cleared", rec[d] # "cleared"
        PROVE  \E c \in shown[d] : <<New, c>> \in Within
    <3>1. d \in Entries
      BY <1>o, <1>s
    <3>2. d \in Clearable
      BY <1>17, <2>1, <3>1 DEF ClearPublished
    <3>3. j.phase # "none"
      BY <1>17, <1>l DEF ClearPublished, Holds, LabelOK, Cleaning
    <3>4. j.plan[d].source \in shown[d] /\ <<New, j.plan[d].source>> \in Within
      BY <3>2, <3>3 DEF Clearable, ShownOK, DecisionsOK
    <3> QED BY <3>4
  <2> QED BY <2>1
<1>18. ASSUME NEW p \in Procs, CleanIntent(p) PROVE ClearedByProof
  BY <1>18 DEF CleanIntent
<1>19. ASSUME NEW p \in Procs, CleanDelete(p) PROVE ClearedByProof
  BY <1>19 DEF CleanDelete
<1>20. ASSUME NEW p \in Procs, CleanSave(p) PROVE ClearedByProof
  BY <1>20 DEF CleanSave
<1>21. ASSUME NEW p \in Procs, Finish(p) PROVE ClearedByProof
  BY <1>21 DEF Finish
<1>22. ASSUME NEW p \in Procs, PlainPrepare(p) PROVE ClearedByProof
  <2>1. ASSUME NEW d \in Rewritten, rec'[d] = "cleared", rec[d] # "cleared"
        PROVE  \E c \in shown[d] : <<New, c>> \in Within
    <3>1. d \in Entries
      BY <1>o, <1>s
    <3>2. Observed(d)
      BY <1>22, <2>1, <3>1 DEF PlainPrepare, ClearObserved
    <3>3. track[d] \in shown[d]
      BY <3>1 DEF ShownOK
    <3> QED BY <3>2, <3>3 DEF Observed
  <2> QED BY <2>1
<1>23. ASSUME NEW p \in Procs, PlainPush(p) PROVE ClearedByProof
  BY <1>23 DEF PlainPush
<1>24. ASSUME NEW p \in Procs, PlainClear(p) PROVE ClearedByProof
  <2>1. ASSUME NEW d \in Rewritten, rec'[d] = "cleared", rec[d] # "cleared"
        PROVE  \E c \in shown[d] : <<New, c>> \in Within
    <3>1. d \in Entries
      BY <1>o, <1>s
    <3>2. Observed(d)
      BY <1>24, <2>1, <3>1 DEF PlainClear, ClearObserved
    <3>3. track[d] \in shown[d]
      BY <3>1 DEF ShownOK
    <3> QED BY <3>2, <3>3 DEF Observed
  <2> QED BY <2>1
<1>25. ASSUME NEW p \in Procs, SyncStops(p) PROVE ClearedByProof
  BY <1>25 DEF SyncStops
<1>26. ASSUME NEW p \in Procs, SyncRefused(p) PROVE ClearedByProof
  BY <1>26 DEF SyncRefused
<1>27. ASSUME NEW p \in Procs, Release(p) PROVE ClearedByProof
  BY <1>27 DEF Release
<1>28. ASSUME NEW p \in Procs, Crash(p) PROVE ClearedByProof
  BY <1>28 DEF Crash
<1>29. ASSUME NEW p \in Procs, SyncRecovered(p) PROVE ClearedByProof
  BY <1>29 DEF SyncRecovered
<1>30. ASSUME NEW e \in Selected, NEW c \in Commit \ Theirs, UserMoves(e, c)
    PROVE ClearedByProof
  BY <1>30 DEF UserMoves
<1>31. ASSUME NEW e \in Selected, Fetch(e) PROVE ClearedByProof
  BY <1>31 DEF Fetch
<1>32. ASSUME NEW e \in Selected, NEW c \in Theirs, OthersPush(e, c) PROVE ClearedByProof
  BY <1>32 DEF OthersPush
<1>33. ASSUME NEW e \in Selected, NEW m \in {"same", "rebased", "remapped"},
    MetaEdit(e, m) PROVE ClearedByProof
  BY <1>33 DEF MetaEdit
<1> QED
  BY ONLY Next, <1>1, <1>2, <1>3, <1>4, <1>5, <1>6, <1>7, <1>8, <1>9, <1>10,
      <1>11, <1>12, <1>13, <1>14, <1>15, <1>16, <1>17, <1>18, <1>19, <1>20,
      <1>21, <1>22, <1>23, <1>24, <1>25, <1>26, <1>27, <1>28, <1>29, <1>30,
      <1>31, <1>32, <1>33
  DEF Next, Step, People

\* Hence what was cleared stays justified.
LEMMA ClearedStep ==
  ASSUME Types, LabelsOK, DecisionsOK, ShownOK, ClearedIsPublished, Next
  PROVE  ClearedIsPublished'
<1>1. \A d \in Rewritten : shown[d] \subseteq shown'[d]
  BY ShownGrows, PushAssumption DEF Selected
<1> QED BY <1>1, ClearedNow DEF ClearedIsPublished, ClearedByProof

\* A push lands when what comes before it has been shown.
LandedInOrder ==
  \A b \in landed' :
    b \in landed \/ \A d \in Selected : d < b => j.plan[d].source \in shown[d]

\* Pushes land in order: only Push changes landed.
LEMMA LandedNow ==
  ASSUME Types, LabelsOK, RowsOK, ShownOK, Next
  PROVE LandedInOrder
<1> USE DEF LandedInOrder
<1>t. ProcTypes
  BY DEF Types
<1>j. j \in Journals
  BY DEF Types, JournalTypes
<1>s. Selected \subseteq Entries /\ Archived \subseteq Entries
      /\ \A d \in Entries : d \in Archived <=> d \notin Selected
  BY PushAssumption DEF Selected
<1>l. \A p \in Procs : LabelOK(p)
  BY DEF LabelsOK
<1>1. ASSUME NEW p \in Procs, BuildPlan(p) PROVE LandedInOrder
  BY <1>1 DEF BuildPlan
<1>2. ASSUME NEW p \in Procs, NEW v \in {"plain", "sync"}, Start(p, v) PROVE LandedInOrder
  BY <1>2 DEF Start
<1>3. ASSUME NEW p \in Procs, NEW v \in {"continue", "cancel"}, Recover(p, v)
    PROVE LandedInOrder
  BY <1>3 DEF Recover
<1>4. ASSUME NEW p \in Procs, ClaimCheck(p) PROVE LandedInOrder
  BY <1>4 DEF ClaimCheck
<1>5. ASSUME NEW p \in Procs, Claim(p) PROVE LandedInOrder
  BY <1>5 DEF Claim
<1>6. ASSUME NEW p \in Procs, FirstSave(p) PROVE LandedInOrder
  BY <1>6 DEF FirstSave
<1>7. ASSUME NEW p \in Procs, Resume(p) PROVE LandedInOrder
  BY <1>7 DEF Resume
<1>8. ASSUME NEW p \in Procs, PinIntent(p) PROVE LandedInOrder
  BY <1>8 DEF PinIntent
<1>9. ASSUME NEW p \in Procs, PinCreate(p) PROVE LandedInOrder
  BY <1>9 DEF PinCreate
<1>10. ASSUME NEW p \in Procs, PinHold(p) PROVE LandedInOrder
  BY <1>10 DEF PinHold
<1>11. ASSUME NEW p \in Procs, Protected(p) PROVE LandedInOrder
  BY <1>11 DEF Protected
<1>12. ASSUME NEW p \in Procs, EntryIntent(p) PROVE LandedInOrder
  BY <1>12 DEF EntryIntent
<1>13. ASSUME NEW p \in Procs, Push(p) PROVE LandedInOrder
  <2>1. cur[p] \in Selected /\ j.rows[cur[p]] = "intent" /\ j.phase = "publishing"
    BY <1>13, <1>l DEF Push, Holds, LabelOK, Publishing
  <2>2. \A d \in Selected : d < cur[p] => j.rows[d] = "succeeded"
    BY <2>1 DEF RowsOK, RowsAgree
  <2>3. \A d \in Selected : d < cur[p] => j.plan[d].source \in shown[d]
    BY <2>1, <2>2 DEF ShownOK
  <2>4. landed' \subseteq landed \cup {cur[p]}
    BY <1>13 DEF Push
  <2> QED BY <2>3, <2>4
<1>14. ASSUME NEW p \in Procs, Recorded(p) PROVE LandedInOrder
  BY <1>14 DEF Recorded
<1>15. ASSUME NEW p \in Procs, Published(p) PROVE LandedInOrder
  BY <1>15 DEF Published
<1>16. ASSUME NEW p \in Procs, DecideFollowups(p) PROVE LandedInOrder
  BY <1>16 DEF DecideFollowups
<1>17. ASSUME NEW p \in Procs, ClearPublished(p) PROVE LandedInOrder
  BY <1>17 DEF ClearPublished
<1>18. ASSUME NEW p \in Procs, CleanIntent(p) PROVE LandedInOrder
  BY <1>18 DEF CleanIntent
<1>19. ASSUME NEW p \in Procs, CleanDelete(p) PROVE LandedInOrder
  BY <1>19 DEF CleanDelete
<1>20. ASSUME NEW p \in Procs, CleanSave(p) PROVE LandedInOrder
  BY <1>20 DEF CleanSave
<1>21. ASSUME NEW p \in Procs, Finish(p) PROVE LandedInOrder
  BY <1>21 DEF Finish
<1>22. ASSUME NEW p \in Procs, PlainPrepare(p) PROVE LandedInOrder
  BY <1>22 DEF PlainPrepare
<1>23. ASSUME NEW p \in Procs, PlainPush(p) PROVE LandedInOrder
  BY <1>23 DEF PlainPush
<1>24. ASSUME NEW p \in Procs, PlainClear(p) PROVE LandedInOrder
  BY <1>24 DEF PlainClear
<1>25. ASSUME NEW p \in Procs, SyncStops(p) PROVE LandedInOrder
  BY <1>25 DEF SyncStops
<1>26. ASSUME NEW p \in Procs, SyncRefused(p) PROVE LandedInOrder
  BY <1>26 DEF SyncRefused
<1>27. ASSUME NEW p \in Procs, Release(p) PROVE LandedInOrder
  BY <1>27 DEF Release
<1>28. ASSUME NEW p \in Procs, Crash(p) PROVE LandedInOrder
  BY <1>28 DEF Crash
<1>29. ASSUME NEW p \in Procs, SyncRecovered(p) PROVE LandedInOrder
  BY <1>29 DEF SyncRecovered
<1>30. ASSUME NEW e \in Selected, NEW c \in Commit \ Theirs, UserMoves(e, c)
    PROVE LandedInOrder
  BY <1>30 DEF UserMoves
<1>31. ASSUME NEW e \in Selected, Fetch(e) PROVE LandedInOrder
  BY <1>31 DEF Fetch
<1>32. ASSUME NEW e \in Selected, NEW c \in Theirs, OthersPush(e, c) PROVE LandedInOrder
  BY <1>32 DEF OthersPush
<1>33. ASSUME NEW e \in Selected, NEW m \in {"same", "rebased", "remapped"},
    MetaEdit(e, m) PROVE LandedInOrder
  BY <1>33 DEF MetaEdit
<1> QED
  BY ONLY Next, <1>1, <1>2, <1>3, <1>4, <1>5, <1>6, <1>7, <1>8, <1>9, <1>10,
      <1>11, <1>12, <1>13, <1>14, <1>15, <1>16, <1>17, <1>18, <1>19, <1>20,
      <1>21, <1>22, <1>23, <1>24, <1>25, <1>26, <1>27, <1>28, <1>29, <1>30,
      <1>31, <1>32, <1>33
  DEF Next, Step, People

\* Hence parents stay before their children.
LEMMA ParentsStep ==
  ASSUME Types, LabelsOK, RowsOK, ShownOK, ParentsFirst, Next
  PROVE  ParentsFirst'
<1>1. CASE \E p \in Procs : FirstSave(p) /\ PlanStillTrue(p)
  BY <1>1 DEF FirstSave, ParentsFirst
<1>2. CASE ~ \E p \in Procs : FirstSave(p) /\ PlanStillTrue(p)
  <2>1. j'.plan = j.plan
    BY <1>2, PlanStays
  <2>2. \A d \in Selected : shown[d] \subseteq shown'[d]
    BY ShownGrows DEF Selected
  <2>3. \A d, e \in Selected : (e \in landed' /\ d < e) => j.plan[d].source \in shown[d]
    BY LandedNow DEF ParentsFirst, LandedInOrder
  <2> QED BY <2>1, <2>2, <2>3 DEF ParentsFirst
<1> QED BY <1>1, <1>2

\* Neither of a publication and a sync begins beside the other.
LEMMA NeverBothStep ==
  ASSUME LabelsOK, NeverBothPending, Next
  PROVE  NeverBothPending'
<1> USE DEF NeverBothPending, Pending, Terminal
<1>l. \A p \in Procs : LabelOK(p)
  BY DEF LabelsOK
<1>1. ASSUME NEW p \in Procs, BuildPlan(p) PROVE NeverBothPending'
  BY <1>1 DEF BuildPlan
<1>2. ASSUME NEW p \in Procs, NEW v \in {"plain", "sync"}, Start(p, v) PROVE
    NeverBothPending'
  BY <1>2 DEF Start
<1>3. ASSUME NEW p \in Procs, NEW v \in {"continue", "cancel"}, Recover(p, v)
    PROVE NeverBothPending'
  BY <1>3 DEF Recover
<1>4. ASSUME NEW p \in Procs, ClaimCheck(p) PROVE NeverBothPending'
  BY <1>4 DEF ClaimCheck
<1>5. ASSUME NEW p \in Procs, Claim(p) PROVE NeverBothPending'
  BY <1>5 DEF Claim
<1>6. ASSUME NEW p \in Procs, FirstSave(p) PROVE NeverBothPending'
  <2>1. UNCHANGED other
    BY <1>6 DEF FirstSave
  <2>2. ~other \/ UNCHANGED j
    BY <1>6, <1>l DEF FirstSave, PlanStillTrue, Holds, LabelOK, Preparing, Publishing, Cleaning
  <2> QED BY <2>1, <2>2
<1>7. ASSUME NEW p \in Procs, Resume(p) PROVE NeverBothPending'
  <2>1. UNCHANGED other
    BY <1>7 DEF Resume
  <2>2. ~other \/ UNCHANGED j
    BY <1>7, <1>l DEF Resume, Holds, LabelOK, Preparing, Publishing, Cleaning
  <2> QED BY <2>1, <2>2
<1>8. ASSUME NEW p \in Procs, PinIntent(p) PROVE NeverBothPending'
  <2>1. UNCHANGED other
    BY <1>8 DEF PinIntent
  <2>2. ~other \/ UNCHANGED j
    BY <1>8, <1>l DEF PinIntent, Holds, LabelOK, Preparing, Publishing, Cleaning
  <2> QED BY <2>1, <2>2
<1>9. ASSUME NEW p \in Procs, PinCreate(p) PROVE NeverBothPending'
  BY <1>9 DEF PinCreate
<1>10. ASSUME NEW p \in Procs, PinHold(p) PROVE NeverBothPending'
  <2>1. UNCHANGED other
    BY <1>10 DEF PinHold
  <2>2. ~other \/ UNCHANGED j
    BY <1>10, <1>l DEF PinHold, Holds, LabelOK, Preparing, Publishing, Cleaning
  <2> QED BY <2>1, <2>2
<1>11. ASSUME NEW p \in Procs, Protected(p) PROVE NeverBothPending'
  <2>1. UNCHANGED other
    BY <1>11 DEF Protected
  <2>2. ~other \/ UNCHANGED j
    BY <1>11, <1>l DEF Protected, Holds, LabelOK, Preparing, Publishing, Cleaning
  <2> QED BY <2>1, <2>2
<1>12. ASSUME NEW p \in Procs, EntryIntent(p) PROVE NeverBothPending'
  <2>1. UNCHANGED other
    BY <1>12 DEF EntryIntent
  <2>2. ~other \/ UNCHANGED j
    BY <1>12, <1>l DEF EntryIntent, Holds, LabelOK, Preparing, Publishing, Cleaning
  <2> QED BY <2>1, <2>2
<1>13. ASSUME NEW p \in Procs, Push(p) PROVE NeverBothPending'
  BY <1>13 DEF Push
<1>14. ASSUME NEW p \in Procs, Recorded(p) PROVE NeverBothPending'
  <2>1. UNCHANGED other
    BY <1>14 DEF Recorded
  <2>2. ~other \/ UNCHANGED j
    BY <1>14, <1>l DEF Recorded, Holds, LabelOK, Preparing, Publishing, Cleaning
  <2> QED BY <2>1, <2>2
<1>15. ASSUME NEW p \in Procs, Published(p) PROVE NeverBothPending'
  <2>1. UNCHANGED other
    BY <1>15 DEF Published
  <2>2. ~other \/ UNCHANGED j
    BY <1>15, <1>l DEF Published, Holds, LabelOK, Preparing, Publishing, Cleaning
  <2> QED BY <2>1, <2>2
<1>16. ASSUME NEW p \in Procs, DecideFollowups(p) PROVE NeverBothPending'
  <2>1. UNCHANGED other
    BY <1>16 DEF DecideFollowups
  <2>2. ~other \/ UNCHANGED j
    BY <1>16, <1>l DEF DecideFollowups, Holds, LabelOK, Preparing, Publishing, Cleaning
  <2> QED BY <2>1, <2>2
<1>17. ASSUME NEW p \in Procs, ClearPublished(p) PROVE NeverBothPending'
  BY <1>17 DEF ClearPublished
<1>18. ASSUME NEW p \in Procs, CleanIntent(p) PROVE NeverBothPending'
  <2>1. UNCHANGED other
    BY <1>18 DEF CleanIntent
  <2>2. ~other \/ UNCHANGED j
    BY <1>18, <1>l DEF CleanIntent, Holds, LabelOK, Preparing, Publishing, Cleaning
  <2> QED BY <2>1, <2>2
<1>19. ASSUME NEW p \in Procs, CleanDelete(p) PROVE NeverBothPending'
  BY <1>19 DEF CleanDelete
<1>20. ASSUME NEW p \in Procs, CleanSave(p) PROVE NeverBothPending'
  <2>1. UNCHANGED other
    BY <1>20 DEF CleanSave
  <2>2. ~other \/ UNCHANGED j
    BY <1>20, <1>l DEF CleanSave, Holds, LabelOK, Preparing, Publishing, Cleaning
  <2> QED BY <2>1, <2>2
<1>21. ASSUME NEW p \in Procs, Finish(p) PROVE NeverBothPending'
  <2>1. UNCHANGED other
    BY <1>21 DEF Finish
  <2>2. ~other \/ UNCHANGED j
    BY <1>21, <1>l DEF Finish, Holds, LabelOK, Preparing, Publishing, Cleaning
  <2> QED BY <2>1, <2>2
<1>22. ASSUME NEW p \in Procs, PlainPrepare(p) PROVE NeverBothPending'
  BY <1>22 DEF PlainPrepare
<1>23. ASSUME NEW p \in Procs, PlainPush(p) PROVE NeverBothPending'
  BY <1>23 DEF PlainPush
<1>24. ASSUME NEW p \in Procs, PlainClear(p) PROVE NeverBothPending'
  BY <1>24 DEF PlainClear
<1>25. ASSUME NEW p \in Procs, SyncStops(p) PROVE NeverBothPending'
  BY <1>25 DEF SyncStops
<1>26. ASSUME NEW p \in Procs, SyncRefused(p) PROVE NeverBothPending'
  BY <1>26 DEF SyncRefused
<1>27. ASSUME NEW p \in Procs, Release(p) PROVE NeverBothPending'
  BY <1>27 DEF Release
<1>28. ASSUME NEW p \in Procs, Crash(p) PROVE NeverBothPending'
  BY <1>28 DEF Crash
<1>29. ASSUME NEW p \in Procs, SyncRecovered(p) PROVE NeverBothPending'
  BY <1>29 DEF SyncRecovered
<1>30. ASSUME NEW e \in Selected, NEW c \in Commit \ Theirs, UserMoves(e, c)
    PROVE NeverBothPending'
  BY <1>30 DEF UserMoves
<1>31. ASSUME NEW e \in Selected, Fetch(e) PROVE NeverBothPending'
  BY <1>31 DEF Fetch
<1>32. ASSUME NEW e \in Selected, NEW c \in Theirs, OthersPush(e, c) PROVE
    NeverBothPending'
  BY <1>32 DEF OthersPush
<1>33. ASSUME NEW e \in Selected, NEW m \in {"same", "rebased", "remapped"},
    MetaEdit(e, m) PROVE NeverBothPending'
  BY <1>33 DEF MetaEdit
<1> QED
  BY ONLY Next, <1>1, <1>2, <1>3, <1>4, <1>5, <1>6, <1>7, <1>8, <1>9, <1>10,
      <1>11, <1>12, <1>13, <1>14, <1>15, <1>16, <1>17, <1>18, <1>19, <1>20,
      <1>21, <1>22, <1>23, <1>24, <1>25, <1>26, <1>27, <1>28, <1>29, <1>30,
      <1>31, <1>32, <1>33
  DEF Next, Step, People

\* NoUnseenWorkLost, step by step.
LEMMA UnseenStep ==
  ASSUME Types, PlansOK, LabelsOK, Next
  PROVE  NothingUnseen
<1> USE DEF NothingUnseen
<1>t. ProcTypes
  BY DEF Types
<1>j. j \in Journals
  BY DEF Types, JournalTypes
<1>s. Selected \subseteq Entries /\ Archived \subseteq Entries
      /\ \A d \in Entries : d \in Archived <=> d \notin Selected
  BY PushAssumption DEF Selected
<1>l. \A p \in Procs : LabelOK(p)
  BY DEF LabelsOK
<1>g. /\ local \in [Entries -> Own] /\ track \in [Entries -> Commit]
      /\ remote \in [Entries -> Commit] /\ shown \in [Entries -> SUBSET Commit]
      /\ recent \in [Entries -> SUBSET Own]
  BY DEF Types, GitTypes
<1>o. Rewritten \subseteq Selected /\ Own \cap Theirs = {} /\ Own \subseteq Commit
  BY PushAssumption DEF Own
<1>1. ASSUME NEW p \in Procs, BuildPlan(p) PROVE NothingUnseen
  BY <1>1 DEF BuildPlan, git
<1>2. ASSUME NEW p \in Procs, NEW v \in {"plain", "sync"}, Start(p, v) PROVE
    NothingUnseen
  BY <1>2 DEF Start, git
<1>3. ASSUME NEW p \in Procs, NEW v \in {"continue", "cancel"}, Recover(p, v)
    PROVE NothingUnseen
  BY <1>3 DEF Recover, git
<1>4. ASSUME NEW p \in Procs, ClaimCheck(p) PROVE NothingUnseen
  BY <1>4 DEF ClaimCheck, git
<1>5. ASSUME NEW p \in Procs, Claim(p) PROVE NothingUnseen
  BY <1>5 DEF Claim, git
<1>6. ASSUME NEW p \in Procs, FirstSave(p) PROVE NothingUnseen
  BY <1>6 DEF FirstSave, git
<1>7. ASSUME NEW p \in Procs, Resume(p) PROVE NothingUnseen
  BY <1>7 DEF Resume, git
<1>8. ASSUME NEW p \in Procs, PinIntent(p) PROVE NothingUnseen
  BY <1>8 DEF PinIntent, git
<1>9. ASSUME NEW p \in Procs, PinCreate(p) PROVE NothingUnseen
  BY <1>9 DEF PinCreate, git
<1>10. ASSUME NEW p \in Procs, PinHold(p) PROVE NothingUnseen
  BY <1>10 DEF PinHold, git
<1>11. ASSUME NEW p \in Procs, Protected(p) PROVE NothingUnseen
  BY <1>11 DEF Protected, git
<1>12. ASSUME NEW p \in Procs, EntryIntent(p) PROVE NothingUnseen
  BY <1>12 DEF EntryIntent, git
<1>13. ASSUME NEW p \in Procs, Push(p) PROVE NothingUnseen
  <2>1. cur[p] \in Selected /\ j.phase = "publishing" /\ cur[p] \in Entries
    BY <1>13, <1>l, <1>s DEF Push, Holds, LabelOK, Publishing
  <2> SUFFICES ASSUME NEW d \in Rewritten, rec[d] = "pending", remote[d] \in Theirs,
                      remote'[d] \notin Theirs
               PROVE  \E own \in Commit \ Theirs : <<remote[d], own>> \in Within
    OBVIOUS
  <2>2. /\ d = cur[p] /\ remote[d] \in {j.plan[d].expected, j.plan[d].source}
    <3>1. d \in Entries /\ remote'[d] # remote[d]
      BY <1>o, <1>s
    <3>2. /\ remote' = [remote EXCEPT ![cur[p]] = j.plan[cur[p]].source]
          /\ remote[cur[p]] \in {j.plan[cur[p]].expected, j.plan[cur[p]].source}
      BY <1>13, <3>1 DEF Push, Show, Leased
    <3> QED BY <1>g, <2>1, <3>1, <3>2
  <2>3. /\ j.plan[d].source \in Own /\ j.plan[d].witness \in Own
        /\ <<j.plan[d].expected, j.plan[d].witness>> \in Within
    BY <2>1, <2>2 DEF PlansOK, PlanOK, Proven
  <2> QED BY <1>o, <2>2, <2>3 DEF Own
<1>14. ASSUME NEW p \in Procs, Recorded(p) PROVE NothingUnseen
  BY <1>14 DEF Recorded, git
<1>15. ASSUME NEW p \in Procs, Published(p) PROVE NothingUnseen
  BY <1>15 DEF Published, git
<1>16. ASSUME NEW p \in Procs, DecideFollowups(p) PROVE NothingUnseen
  BY <1>16 DEF DecideFollowups, git
<1>17. ASSUME NEW p \in Procs, ClearPublished(p) PROVE NothingUnseen
  BY <1>17 DEF ClearPublished, git
<1>18. ASSUME NEW p \in Procs, CleanIntent(p) PROVE NothingUnseen
  BY <1>18 DEF CleanIntent, git
<1>19. ASSUME NEW p \in Procs, CleanDelete(p) PROVE NothingUnseen
  BY <1>19 DEF CleanDelete, git
<1>20. ASSUME NEW p \in Procs, CleanSave(p) PROVE NothingUnseen
  BY <1>20 DEF CleanSave, git
<1>21. ASSUME NEW p \in Procs, Finish(p) PROVE NothingUnseen
  BY <1>21 DEF Finish, git
<1>22. ASSUME NEW p \in Procs, PlainPrepare(p) PROVE NothingUnseen
  BY <1>22 DEF PlainPrepare, git
<1>23. ASSUME NEW p \in Procs, PlainPush(p) PROVE NothingUnseen
  <2> SUFFICES ASSUME NEW d \in Rewritten, rec[d] = "pending", remote[d] \in Theirs,
                      remote'[d] \notin Theirs
               PROVE  \E own \in Commit \ Theirs : <<remote[d], own>> \in Within
    OBVIOUS
  <2>1. d \in Entries
    BY <1>o, <1>s
  <2>2. /\ remote[d] \in {track[d], local[d]} /\ Includes(d)
    BY <1>23, <1>g, <2>1 DEF PlainPush, Show, Leased
  <2>3. PICK c \in recent[d] : <<track[d], c>> \in Within
    BY <2>2 DEF Includes, Containing
  <2>4. local[d] \in Own /\ c \in Own
    BY <1>g, <2>1
  <2> QED BY <1>o, <2>2, <2>3, <2>4 DEF Own
<1>24. ASSUME NEW p \in Procs, PlainClear(p) PROVE NothingUnseen
  BY <1>24 DEF PlainClear, git
<1>25. ASSUME NEW p \in Procs, SyncStops(p) PROVE NothingUnseen
  BY <1>25 DEF SyncStops, git
<1>26. ASSUME NEW p \in Procs, SyncRefused(p) PROVE NothingUnseen
  BY <1>26 DEF SyncRefused, git
<1>27. ASSUME NEW p \in Procs, Release(p) PROVE NothingUnseen
  BY <1>27 DEF Release, git
<1>28. ASSUME NEW p \in Procs, Crash(p) PROVE NothingUnseen
  BY <1>28 DEF Crash, git
<1>29. ASSUME NEW p \in Procs, SyncRecovered(p) PROVE NothingUnseen
  BY <1>29 DEF SyncRecovered, git
<1>30. ASSUME NEW e \in Selected, NEW c \in Commit \ Theirs, UserMoves(e, c)
    PROVE NothingUnseen
  BY <1>30 DEF UserMoves
<1>31. ASSUME NEW e \in Selected, Fetch(e) PROVE NothingUnseen
  BY <1>31 DEF Fetch
<1>32. ASSUME NEW e \in Selected, NEW c \in Theirs, OthersPush(e, c) PROVE
    NothingUnseen
  BY <1>32, <1>g, <1>o, <1>s DEF OthersPush, Show
<1>33. ASSUME NEW e \in Selected, NEW m \in {"same", "rebased", "remapped"},
    MetaEdit(e, m) PROVE NothingUnseen
  BY <1>33 DEF MetaEdit, git
<1> QED
  BY ONLY Next, <1>1, <1>2, <1>3, <1>4, <1>5, <1>6, <1>7, <1>8, <1>9, <1>10,
      <1>11, <1>12, <1>13, <1>14, <1>15, <1>16, <1>17, <1>18, <1>19, <1>20,
      <1>21, <1>22, <1>23, <1>24, <1>25, <1>26, <1>27, <1>28, <1>29, <1>30,
      <1>31, <1>32, <1>33
  DEF Next, Step, People

-----------------------------------------------------------------------------
\* The invariant holds at the start.
LEMMA PushInit == Init => PushInv
<1> SUFFICES ASSUME Init PROVE PushInv
  OBVIOUS
<1>t. Types
  BY TypesInit
<1>n. j.phase = "none" /\ j.plan = NoPlan /\ ref = {} /\ landed = {} /\ ~other
  BY DEF Init
<1>p. \A p \in Procs : pc[p] = "idle"
  BY DEF Init
<1>1. Guarded
  BY <1>p, PushAssumption DEF Init, Guarded, Inside, Outside
<1>2. PlansOK /\ LabelsOK
  BY <1>n, <1>p DEF PlansOK, LabelsOK, LabelOK, Preparing, Publishing, Cleaning
<1>3. RowsOK /\ PinsOK /\ DecisionsOK
  BY <1>n DEF RowsOK, PinsOK, DecisionsOK
<1>4. RefsOK
  BY <1>n, NoPlanNoPins DEF RefsOK
<1>5. ShownOK
  BY <1>n DEF Init, ShownOK
<1>6. ClearedIsPublished
  BY PushAssumption DEF Init, ClearedIsPublished, Selected
<1>7. ParentsFirst /\ NeverBothPending
  BY <1>n DEF ParentsFirst, NeverBothPending
<1> QED BY <1>t, <1>1, <1>2, <1>3, <1>4, <1>5, <1>6, <1>7 DEF PushInv

\* Every step keeps the invariant.
LEMMA PushStep == PushInv /\ [Next]_vars => PushInv'
<1>1. ASSUME PushInv, Next PROVE PushInv'
  <2> USE <1>1
  <2>1. Types /\ Guarded /\ PlansOK /\ LabelsOK /\ RowsOK /\ PinsOK /\ DecisionsOK
        /\ RefsOK /\ ShownOK /\ ClearedIsPublished /\ ParentsFirst /\ NeverBothPending
    BY DEF PushInv
  <2>2. Types' /\ Guarded'
    BY <2>1, GitTypesStep, JournalTypesStep, ProcTypesStep, GuardedStep DEF Types
  <2>3. PlansOK' /\ LabelsOK'
    BY <2>1, PlansStep, LabelsStep
  <2>4. RowsOK' /\ PinsOK' /\ DecisionsOK' /\ RefsOK'
    BY <2>1, RowsStep, PinsStep, DecisionsStep, RefsStep
  <2>5. ShownOK' /\ ClearedIsPublished' /\ ParentsFirst' /\ NeverBothPending'
    BY <2>1, SucceededStep, ClearedStep, ParentsStep, NeverBothStep
  <2> QED BY <2>2, <2>3, <2>4, <2>5 DEF PushInv
<1>2. ASSUME PushInv, UNCHANGED vars PROVE PushInv'
  <2> USE <1>2 DEF vars, git, bounds
  <2>1. Types'
    BY DEF PushInv, Types, GitTypes, JournalTypes, ProcTypes
  <2>2. Guarded'
    BY DEF PushInv, Guarded, Inside
  <2>3. PlansOK'
    BY DEF PushInv, PlansOK, PlanOK
  <2>4. LabelsOK'
    BY ZenonT(60) DEF PushInv, LabelsOK, LabelOK, Unheld, Left, Undecided, Pin
  <2>5. RowsOK' /\ DecisionsOK'
    BY DEF PushInv, RowsOK, RowsAgree, DecisionsOK, DecisionsAgree, Undecided,
       Unfinished, CleanupStarted, Pin
  <2>6. PinsOK' /\ RefsOK'
    BY DEF PushInv, PinsOK, PinAgrees, Pin, RefsOK
  <2>7. ShownOK' /\ ClearedIsPublished'
    BY DEF PushInv, ShownOK, ClearedIsPublished
  <2>8. ParentsFirst' /\ NeverBothPending'
    BY DEF PushInv, ParentsFirst, NeverBothPending, Pending, Terminal
  <2> QED BY <2>1, <2>2, <2>3, <2>4, <2>5, <2>6, <2>7, <2>8 DEF PushInv
<1> QED BY <1>1, <1>2

\* The inductive invariant of a publication.
THEOREM PushInvariant == Spec => []PushInv
  BY PushInit, PushStep, PTL DEF Spec

\* SavesAreValid in every instance: whatever is killed, the journal on disk is one
\* that every later reader accepts.
THEOREM SavesStayValid == Spec => []SavesAreValid
<1>1. PushInv => SavesAreValid
  <2> SUFFICES ASSUME PushInv, j.phase # "none"
               PROVE  /\ \A e \in Entries : ArchivedAgrees(e) /\ AuthorityAgrees(e)
                      /\ RowsAgree
                      /\ \A x \in Pins(j.plan) : PinAgrees(x)
                      /\ DecisionsAgree
    BY DEF SavesAreValid
  <2>1. Proven(j.plan) /\ None \notin Commit
    BY PushAssumption DEF PushInv, PlansOK, PlanOK
  <2>2. \A e \in Entries : ArchivedAgrees(e)
    BY <2>1 DEF PushInv, RowsOK, ArchivedAgrees, Proven
  <2>3. \A e \in Entries : AuthorityAgrees(e)
    BY <2>1 DEF AuthorityAgrees, Proven, Own
  <2> QED BY <2>2, <2>3 DEF PushInv, RowsOK, PinsOK, DecisionsOK
<1> QED BY <1>1, PushInvariant, PTL

\* ClearedIsPublished in every instance: a follow-up is withdrawn only for what the
\* remote has shown.
THEOREM ClearedWasPublished == Spec => []ClearedIsPublished
<1>1. PushInv => ClearedIsPublished
  BY DEF PushInv
<1> QED BY <1>1, PushInvariant, PTL

\* ObjectsProtected in every instance: what a retry may need is kept, and nothing
\* is kept of a publication that is over.
THEOREM ObjectsStayProtected == Spec => []ObjectsProtected
<1>1. PushInv => ObjectsProtected
  <2> SUFFICES ASSUME PushInv PROVE ObjectsProtected
    OBVIOUS
  <2>1. ASSUME Uncertain, NEW x \in Pins(j.plan) PROVE x \in ref
    <3>1. j.phase = "publishing"
      BY <2>1 DEF Uncertain
    <3>2. Pin(x) \in PinStates
      <4>1. x[1] \in Entries /\ x[2] \in Kinds /\ j \in Journals
        BY PinsAre DEF AllPins, Selected, PushInv, Types, JournalTypes
      <4>2. j.pins \in [Entries -> [Kinds -> PinStates]]
        BY <4>1, JournalIs
      <4> QED BY ONLY <4>1, <4>2 DEF Pin
    <3>3. Pin(x) = "held"
      BY <3>1, <3>2 DEF PushInv, PinsOK, PinAgrees, PinStates
    <3> QED BY <3>3 DEF PushInv, RefsOK
  <2>2. ASSUME Terminal PROVE ref = {}
    <3>1. CASE j.phase = "none"
      BY <3>1, NoPlanNoPins DEF PushInv, Types, JournalTypes, RefsOK
    <3>2. CASE j.phase \in {"completed", "canceled"}
      BY <3>2 DEF PushInv, PinsOK, PinAgrees, RefsOK
    <3> QED BY <2>2, <3>1, <3>2 DEF Terminal
  <2> QED BY <2>1, <2>2 DEF ObjectsProtected
<1> QED BY <1>1, PushInvariant, PTL

\* ParentsFirst in every instance: no child is on the remote before its parents.
THEOREM ParentsStayFirst == Spec => []ParentsFirst
<1>1. PushInv => ParentsFirst
  BY DEF PushInv
<1> QED BY <1>1, PushInvariant, PTL

\* NeverBothPending in every instance: no publication and sync that refuse each
\* other's recovery.
THEOREM NeverBothArePending == Spec => []NeverBothPending
<1>1. PushInv => NeverBothPending
  BY DEF PushInv
<1> QED BY <1>1, PushInvariant, PTL

\* NoUnseenWorkLost in every instance: neither kind of push replaces somebody
\* else's commit that the branch cannot have contained.
THEOREM NoUnseenWorkIsLost == Spec => NoUnseenWorkLost
<1>1. PushInv /\ [Next]_vars => [NothingUnseen]_vars
  BY UnseenStep DEF PushInv
<1> QED BY <1>1, PushInvariant, PTL DEF Spec, NoUnseenWorkLost
=============================================================================
