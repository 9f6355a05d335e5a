----------------------------- MODULE ToolPolicy -----------------------------
(***************************************************************************)
(* What the tool layer decides from a request alone: which tools exist and *)
(* who was granted them (tools/registry.py, tools/permissions.py), where a *)
(* path string leads and whether it may be touched (tools/paths.py,        *)
(* tools/workspace.py), which branch names and programs are admitted       *)
(* (tools/git.py, tools/process.py).                                       *)
(*                                                                         *)
(* A path is the sequence of its case-folded segments below the workspace  *)
(* root; the root itself is the empty sequence.                            *)
(***************************************************************************)
EXTENDS Naturals, Sequences, SequencesExt

CONSTANTS
  Agents,             \* the callers, each behind a gateway of its own
  Grants,             \* Grants[a]: the tools and namespaces a was granted
  ReadPatterns,       \* ReadPatterns[a]: allowed_read_paths
  WritePatterns,      \* WritePatterns[a]: allowed_write_paths
  ProtectedPatterns,  \* config.paths.protected_patterns
  Raws,               \* the path arguments the callers may supply
  BranchNames,        \* the branch names they may supply
  AgentPrefixed,      \* those that start with a configured prefix
  ProtectedBranches   \* config.git.protected_branches

ASSUME PrefixAssumption == AgentPrefixed \subseteq BranchNames

(***************************************************************************)
(* The registry and the grants.  No shipped tool uses the network.         *)
(***************************************************************************)
FilesystemTools == {"filesystem.read", "filesystem.search", "filesystem.write", "filesystem.patch"}
GitTools == {"git.status", "git.diff", "git.show", "git.log", "git.branch", "git.commit", "git.worktree"}
Registered == FilesystemTools \cup {"shell.run"} \cup GitTools

Namespace(tool) == CASE tool \in FilesystemTools -> "filesystem.*"
                     [] tool \in GitTools -> "git.*"
                     [] OTHER -> "shell.*"

MayUseTool(a, tool) == Grants[a] \cap {"*", tool, Namespace(tool)} # {}

(***************************************************************************)
(* Patterns.  "all" is **, "tree" is base/**, "name" the literal `base',   *)
(* "last" is *.pem, test_*.py and the like, "below" the same after **/.    *)
(* `names' are the segments such a wildcard admits alone; its star takes a *)
(* '/' too, and then `heads' begin what it admits and `tails' end it.      *)
(***************************************************************************)
Spans(path, i, pattern) ==
  IF i = Len(path) THEN path[i] \in pattern.names
  ELSE path[i] \in pattern.heads /\ Last(path) \in pattern.tails

FnMatch(path, pattern) ==
  CASE pattern.kind = "name" -> path = pattern.base
    [] pattern.kind = "last" -> path # <<>> /\ Spans(path, 1, pattern)
    [] pattern.kind = "below" -> \E i \in 2..Len(path) : Spans(path, i, pattern)
    [] OTHER -> pattern.kind = "all"

\* _matches_any: the allow list errs toward matching less.
Allows(path, pattern) ==
  \/ pattern.kind = "all"
  \/ pattern.kind \in {"tree", "name"} /\ IsPrefix(pattern.base, path)
  \/ pattern.kind \in {"last", "below"} /\ FnMatch(path, pattern)

\* The base of a tree pattern occurs in the path with something beneath it.
Nested(base, path) ==
  \E i \in 1..Len(path) : /\ i + Len(base) <= Len(path)
                          /\ SubSeq(path, i, i + Len(base) - 1) = base

\* is_protected: the deny list errs toward matching more.
Denies(path, pattern) ==
  IF pattern.kind = "tree"
  THEN path = pattern.base \/ Nested(pattern.base, path)
  ELSE FnMatch(path, pattern) \/ (pattern.kind = "name" /\ IsPrefix(pattern.base, path))

IsProtected(path) == \E pattern \in ProtectedPatterns : Denies(path, pattern)

(***************************************************************************)
(* Paths.  A path argument is refused for its syntax, or resolved (links   *)
(* followed) to a place outside the workspace or to `path' inside it.      *)
(* PathPolicy.resolve checks the resolved place; the symlink check also    *)
(* walks the resolved path, in which no link is left to find.              *)
(***************************************************************************)
Resolvable(raw) == ~raw.unsafe /\ raw.inside /\ ~IsProtected(raw.path)

\* authorize_path: an agent with no pattern for the mode has no scope at all.
InScope(a, path, mode) ==
  \E pattern \in IF mode = "WRITE" THEN WritePatterns[a] ELSE ReadPatterns[a] : Allows(path, pattern)

\* Mutant: every mode is authorized against the read scope.
MayResolveMutReadScope(a, raw, mode) == Resolvable(raw) /\ InScope(a, raw.path, "READ")

\* Workspace._resolve: resolve first, authorize the resolved path second.
MayResolve(a, raw, mode) == Resolvable(raw) /\ InScope(a, raw.path, mode)

\* Workspace.is_visible: what a search may report.
IsVisible(a, path) == ~IsProtected(path) /\ InScope(a, path, "READ")

(***************************************************************************)
(* git.branch and git.worktree: a new branch carries a configured prefix,  *)
(* a protected one is never deleted.                                       *)
(***************************************************************************)
MayCreateBranch(name) == name \in AgentPrefixed
MayDeleteBranch(name) == name \notin ProtectedBranches
=============================================================================
