----------------------------- MODULE Verification ----------------------------
(***************************************************************************)
(* What a verification says about a workspace, and how it is judged:       *)
(* verification/runner.py, integrity.tests_exercise_changes and            *)
(* agents/critic.adjudicate.                                               *)
(*                                                                         *)
(* A workspace is abstracted to what those read of it: whether the whole   *)
(* suite passes (green), whether a test was weakened against the baseline  *)
(* (tampered), whether there are tests at all, and which modules they      *)
(* import.  The suite is deterministic: what it says depends on the files. *)
(***************************************************************************)
EXTENDS FailurePolicy

CONSTANTS
    Modules,       \* importable project files (not tests)
    Tests,         \* test files
    CoderErrors,   \* the categories a failed coder call may carry
    UnrunErrors    \* the categories of a check that did not run

ASSUME FilesAssumption == Modules \cap Tests = {}

\* A check that did not run has no category when no command is configured.
ASSUME ErrorsAssumption ==
    /\ CoderErrors \subseteq FailureCategory \cup {NONE}
    /\ UnrunErrors \subseteq {NONE, "SECURITY_FAILURE", "TIMEOUT", "TOOL_ERROR",
                             "ENVIRONMENT_FAILURE", "DEPENDENCY_FAILURE", "TEST_FAILURE"}

Files == Modules \cup Tests

Workspaces == [green : BOOLEAN, tampered : BOOLEAN, hasTests : BOOLEAN,
               imported : SUBSET Modules]

\* The workspaces that writing the files F can turn w into.  Only a write to
\* a test file changes what the tests are, and no write deletes one.
AfterWriting(w, F) ==
    {v \in Workspaces :
        /\ F = {} => v = w
        /\ F \cap Tests = {} => /\ v.tampered = w.tampered
                                /\ v.hasTests = w.hasTests
                                /\ v.imported = w.imported
        /\ w.hasTests \/ F \cap Tests # {} => v.hasTests
        /\ ~v.hasTests => v.imported = {} /\ ~v.tampered}

\* A report of the one check every planned task carries ("tests").
NotRun == [ran : {FALSE}, passed : {FALSE}, category : UnrunErrors]
Red == [ran : {TRUE}, passed : {FALSE}, category : {"TEST_FAILURE", "CODE_FAILURE"}]
Green == [ran : {TRUE}, passed : {TRUE}, category : {NONE}]

Reports == NotRun \cup Red \cup Green

\* What VerificationRunner.run can report of the workspace w.
RunTests(w) == NotRun \cup (IF w.green THEN Green ELSE Red)

\* IntegrityChecker.check: nothing is detected without a baseline commit.
Tampered(w, baseline) == baseline /\ w.tampered

\* tests_exercise_changes(...) is None: one import of any changed module is
\* enough, and so is a change to no module or a project without tests.
Exercised(w, changed) ==
    \/ changed \cap Modules = {}
    \/ ~w.hasTests
    \/ w.imported \cap changed # {}

\* The Critic's answer: none, a PASS, or not a PASS without or with a finding
\* of high severity.
Critics == {"unavailable", "PASS", "concerns", "blocking"}

\* Mutant: the test results are considered before their integrity.
AdjudicateMutTestsFirst(critic, report, changesMade, tampered) ==
    IF report.passed /\ changesMade THEN "PASS"
    ELSE IF ~report.ran THEN "BLOCKED" ELSE "FAIL"

\* adjudicate() on a report of exactly one outcome.
Adjudicate(critic, report, changesMade, tampered) ==
    IF tampered THEN "FAIL"
    ELSE IF ~report.ran THEN "BLOCKED"
    ELSE IF ~report.passed \/ ~changesMade \/ critic = "blocking" THEN "FAIL"
    ELSE "PASS"
=============================================================================
