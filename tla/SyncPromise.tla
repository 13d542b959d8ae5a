---------------------------- MODULE SyncPromise ----------------------------
(* What a transactional sync promises of one run, with no journal, no crash *)
(* and no command in sight: it goes forward until it decides, once, to roll *)
(* back, to publish or to finish; a rollback undoes all of the run and      *)
(* nothing else, and what has been published is never undone.               *)
EXTENDS Integers

CONSTANTS Refs,  \* branches the run can touch
          N      \* selected entries 1..N, recorded in stack.yaml in order

Entries == 1..N

VARIABLES stage,      \* where the run stands
          tip,        \* branch -> whose commit it shows
          recorded,   \* entries recorded in stack.yaml, or Other
          published   \* entries whose branch reached the remote

vars == <<stage, tip, recorded, published>>

Other == -1
Stages == {"idle", "forward", "rollback", "publishing",
           "restored", "cancelled", "completed"}

Init ==
  /\ stage = "idle" /\ tip = [r \in Refs |-> "before"]
  /\ recorded = 0 /\ published = {}

Untouched == recorded \in {0, Other} /\ \A r \in Refs : tip[r] # "run"

Begin ==
  stage = "idle" /\ stage' = "forward" /\ UNCHANGED <<tip, recorded, published>>

\* The run rewrites branches that nobody else has changed ...
Rewrite ==
  /\ stage = "forward" /\ UNCHANGED <<stage, recorded, published>>
  /\ \E moved \in SUBSET {r \in Refs : tip[r] # "other"} :
       tip' = [r \in Refs |-> IF r \in moved THEN "run" ELSE tip[r]]

\* ... and records them one after the other.
Record ==
  /\ stage = "forward" /\ recorded # Other /\ recorded' = recorded + 1
  /\ recorded' <= N /\ UNCHANGED <<stage, tip, published>>

\* Somebody else commits on a branch or edits stack.yaml, at any time.
Outside ==
  /\ UNCHANGED <<stage, published>>
  /\ \/ \E r \in Refs : tip' = [tip EXCEPT ![r] = "other"]
        /\ UNCHANGED recorded
     \/ recorded' = Other /\ UNCHANGED tip

RollBack ==
  /\ stage = "forward" /\ stage' = "rollback"
  /\ UNCHANGED <<tip, recorded, published>>

\* Only what the run did is undone.
Undo ==
  /\ stage = "rollback" /\ UNCHANGED <<stage, published>>
  /\ \/ \E back \in SUBSET {r \in Refs : tip[r] = "run"} :
          tip' = [r \in Refs |-> IF r \in back THEN "before" ELSE tip[r]]
        /\ UNCHANGED recorded
     \/ recorded # Other /\ recorded' = 0 /\ UNCHANGED tip

\* Publication starts when every entry is recorded, and never leads back.
Publish ==
  /\ stage = "forward" /\ recorded = N /\ stage' = "publishing"
  /\ UNCHANGED <<tip, recorded, published>>

Deliver ==
  /\ stage = "publishing" /\ UNCHANGED <<stage, tip, recorded>>
  /\ \E e \in Entries : published' = published \cup {e}

Finish ==
  /\ UNCHANGED <<tip, recorded, published>>
  /\ \/ stage = "rollback" /\ stage' = "restored" /\ Untouched
     \/ stage = "forward" /\ stage' = "cancelled" /\ Untouched
     \/ stage = "forward" /\ stage' = "completed" /\ recorded \in {N, Other}
     \/ stage = "publishing" /\ stage' = "completed" /\ published = Entries

Next ==
  \/ Begin \/ Rewrite \/ Record \/ Outside \/ RollBack \/ Undo
  \/ Publish \/ Deliver \/ Finish

Spec == Init /\ [][Next]_vars
=============================================================================
