---------------------------- MODULE MCPlanGuard ----------------------------
(* A small instance of PlanGuard: a stack of two rows.                      *)
EXTENDS PlanGuard
=============================================================================
