------------------------------ MODULE MCTemplates ------------------------------
EXTENDS Templates, TLC

\* The template renders one file, then a new version of it and a second file.
Renderings == {"a" :> "v1", "a" :> "v2" @@ "b" :> "v1"}
\* One worktree, which may be renamed.
Single == {[package |-> "a" :> "v2" @@ "b" :> "v1", worktrees |-> {"w"}]}
=============================================================================
