--------------------------- MODULE SyncRefinement ---------------------------
(* SyncTransaction keeps the promise of SyncPromise.                        *)
EXTENDS SyncInvariants

\* The decision a journal stands for, as every command that loads it reads it.
Stage ==
  IF payload = "none" THEN "idle"
  ELSE IF completion = "forward-complete" THEN "completed"
  ELSE IF completion = "cancelled-before-mutation" THEN "cancelled"
  ELSE IF rb.on THEN IF phase = "cleanup" THEN "restored" ELSE "rollback"
  ELSE IF pub.durable THEN "publishing" ELSE "forward"

Tip == [r \in Refs |-> CASE ref[r] > 0 -> "run"
                         [] ref[r] = 0 -> "before"
                         [] OTHER      -> "other"]

Promise == INSTANCE SyncPromise WITH
             stage <- Stage, tip <- Tip, recorded <- meta,
             published <- {e \in Entries : remote[e] # Nothing}

\* Whatever crashes and restarts it goes through, a run shows the outside one
\* decision that is never taken back: rolled back means all and only the run's
\* effects are gone, published means nothing is undone any more.
KeepsPromise == Promise!Spec
-----------------------------------------------------------------------------
(* What the proof of KeepsPromise needs to know of stack.yaml.              *)

\* What tws is about to overwrite in stack.yaml is its own.
WritesOwn == pc \in {"metaWrite", "rbMetaWrite"} => meta # UserWork

\* SyncInvariants has the other two.
PromiseInv == RecordsAgree /\ RemotesAgree /\ WritesOwn

\* Between tws's check of stack.yaml and its overwrite nobody edits the file.
EditsWait ==
  pc \in {"metaWrite", "rbMetaWrite"} /\ meta' = UserWork => meta = UserWork
EditsWaitSpec == Init /\ [][Next /\ HandsOff /\ EditsWait]_vars
=============================================================================
