---------------------------- MODULE MCReparentPlan ----------------------------
(* main <- old <- mid <- top: mid, with the descendant top, leaves old.       *)
EXTENDS ReparentPlan

E(base, last) == [base |-> base, last |-> last, branch |-> "", archived |-> FALSE]
MCDeclared == <<"old", "mid", "top", "new">>
MCStack == [e \in {"old", "mid", "top", "new"} |->
  [CASE e = "old" -> E(Name("main"), {1})
     [] e = "mid" -> E(Name("old"), {1, 2})
     [] e = "top" -> E(Name("mid"), Missing)
     [] e = "new" -> E(Name("main"), {1}) EXCEPT !.branch = e]]
MCHeads == [n \in {"main", "old", "mid", "top", "new"} |->
  CASE n = "main" -> {1} [] n = "old" -> {1, 2} [] n = "mid" -> {1, 2, 3}
    [] n = "top" -> {1, 2, 3, 4} [] n = "new" -> {1, 5}]
Ask(onto, kind, cutoff) == [onto |-> onto, kind |-> kind, cutoff |-> cutoff]
MCRequests ==
  {Ask(Name("new"), "auto", NoToken), Ask(Name("main"), "auto", Oid({1, 2})),
   Ask(Name("top"), "entry", NoToken), Ask(Name("new"), "ref", NoToken),
   Ask(Name("old"), "auto", NoToken)}
=============================================================================
