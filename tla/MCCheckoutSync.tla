---------------------------- MODULE MCCheckoutSync --------------------------
(* A stack of two branches and a stack of one, in one working tree.         *)
EXTENDS CheckoutSync, TLC
CONSTANTS t1, t2
MCTerminals == {t1, t2}
MCPlan == [f \in {"auth", "docs"} |-> IF f = "auth" THEN <<"a", "b">> ELSE <<"c">>]
Symmetry == Permutations(MCTerminals)
=============================================================================
