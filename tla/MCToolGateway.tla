--------------------------- MODULE MCToolGateway ----------------------------
(* A coder that may read src and docs and write below src, and an operator *)
(* with every grant, in one workspace and one repository.                  *)
EXTENDS ToolGateway

MCAgents == {"coder", "operator"}
Segments == {"src", "docs", "a", "d", ".env", "k.pem"}
Pattern(kind, base) == [kind |-> kind, base |-> base, names |-> {}, heads |-> {}, tails |-> {}]
Everything == Pattern("all", <<>>)
\* **/.env and *.pem.
DotEnv == [Pattern("below", <<>>) EXCEPT !.names = {".env"}]
Pem == [Pattern("last", <<>>) EXCEPT !.names = {"k.pem"}, !.heads = Segments, !.tails = {"k.pem"}]
Path(path) == [unsafe |-> FALSE, inside |-> TRUE, path |-> path]

MCGrants == [a \in MCAgents |->
               IF a = "coder"
               THEN {"filesystem.*", "shell.run", "git.commit", "git.branch", "git.worktree"}
               ELSE {"*"}]
MCReadPatterns == [a \in MCAgents |->
                     IF a = "coder" THEN {Pattern("name", <<"src">>), Pattern("name", <<"docs">>)}
                     ELSE {Everything}]
MCWritePatterns == [a \in MCAgents |->
                      IF a = "coder" THEN {Pattern("tree", <<"src">>)} ELSE {Everything}]
MCProtectedPatterns == {Pattern("name", <<".env">>), Pattern("tree", <<".git">>), DotEnv, Pem}

MCFiles == {<<"src", "a">>, <<"docs", "d">>, <<".env">>}
MCRaws == {Path(<<>>), Path(<<".env">>), Path(<<"src", "a">>), Path(<<"docs", "d">>),
           [Path(<<"src", "a">>) EXCEPT !.inside = FALSE]}
MCDirs == {<<>>, <<"src">>}
MCPresent == {<<"src", "a">>, <<".env">>}
MCWorktreeDir == <<".edith", "worktrees">>
MCBranchNames == {"main", "agent/x", "topic"}
MCRequests == Registered \cup {"shell.exec"}

\* Many calls on the repository; files written and staged by both agents; two
\* programs, of one agent or of both.
MCBudget(look, file, program, repository) ==
  [look |-> look, file |-> file, program |-> program, repository |-> repository]
MCBudgets == {MCBudget(1, 0, 0, 3), MCBudget(0, 0, 0, 5), MCBudget(0, 2, 0, 2),
              MCBudget(0, 0, 2, 0)}
=============================================================================
