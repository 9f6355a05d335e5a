---------------------------- MODULE FailurePolicy ----------------------------
(***************************************************************************)
(* errors.FailureCategory, the policy table of policy.py, and decide().    *)
(***************************************************************************)
EXTENDS Naturals

\* No category recorded: Python's None.
NONE == "NONE"

Retryable == {"MODEL_ERROR", "VALIDATION_FAILURE", "TIMEOUT"}
Repairable == {"TEST_FAILURE", "BUILD_ERROR", "TOOL_ERROR", "CODE_FAILURE"}
Aborting == {"SECURITY_FAILURE"}
Escalated == {"REQUIREMENT_FAILURE", "ARCHITECTURE_FAILURE", "DEPENDENCY_FAILURE",
              "ENVIRONMENT_FAILURE", "CONFIGURATION_ERROR", "UNKNOWN"}

FailureCategory == Retryable \cup Repairable \cup Aborting \cup Escalated

\* rule_for(category).action; an absent category is treated as UNKNOWN.
FAILURE_POLICY(c) ==
    CASE c \in Retryable -> "RETRY"
      [] c \in Repairable -> "REPAIR"
      [] c \in Aborting -> "ABORT"
      [] OTHER -> "ESCALATE"

\* RETRY and REPAIR degrade to ESCALATE at the attempt limit; ABORT never does.
Decide(c, attempts, max) ==
    IF FAILURE_POLICY(c) # "ABORT" /\ attempts >= max
    THEN "ESCALATE"
    ELSE FAILURE_POLICY(c)
=============================================================================
