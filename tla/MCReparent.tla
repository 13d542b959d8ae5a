----------------------------- MODULE MCReparent -----------------------------
(* Two rows, the target and its child; Reparent_commit.cfg has both branches *)
(* checked out and published, and the child's replay may stop at a conflict. *)
EXTENDS Reparent
=============================================================================
