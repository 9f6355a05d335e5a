------------------------------ MODULE AgentCall -------------------------------
(***************************************************************************)
(* One agent invocation, from AgentRegistry.get to the AgentResponse:      *)
(* Agent.execute around with_retry around structured_generate around the   *)
(* HTTP requests of OllamaProvider._generate_raw (agents/base.py,          *)
(* models/retry.py, models/base.py, models/ollama.py), with what the       *)
(* agents do with a validated reply: most return it, the coder applies its *)
(* edits file by file, the fan-out planner turns it into a plan.  Doctor   *)
(* calls structured_generate without an agent around it.                   *)
(*                                                                         *)
(* Everything runs in one thread, so invocations do not overlap; what      *)
(* lives across them is the provider of each model profile, with what it   *)
(* believes about the runtime, and the files.  The runtime is external:    *)
(* any request may meet any outcome.                                       *)
(***************************************************************************)
EXTENDS PlanFanOut

CONSTANTS Readers,       \* agents that return the validated reply
          Coder,         \* the coding agent
          Planner,       \* the fan-out planner
          Doctor,        \* the structured-output probe of `edith doctor`
          Profiles,      \* model profiles
          ProfileOf,     \* the profile of each caller
          Sessions,      \* sets of callers that share a process
          MaxAttempts,   \* AgentDefaults.max_attempts
          Repairs,       \* max_repair_attempts of each caller
          MaxEdits,      \* longest list of edits in a reply
          Definitions,   \* top-level definitions a Python file may hold
          Specs,         \* function specifications the fan-out reply may list
          Broken,        \* the content of a file Python cannot parse
          None           \* no provider, or no name given

Callers == Readers \cup {Coder, Planner, Doctor}

ASSUME AgentCallBounds ==
  /\ ProfileOf \in [Callers -> Profiles]
  /\ MaxAttempts \in Nat \ {0} /\ MaxEdits \in Nat \ {0}
  /\ Repairs \in [Callers -> Nat]
  /\ Sessions \subseteq SUBSET Callers
  /\ Specs \subseteq FunctionSpec
  /\ \A spec \in Specs : IsFiniteSet(spec.mentions)  \* a line of text
  /\ \A parsed \in SUBSET Definitions : parsed # Broken

VARIABLES
  session,    \* the callers of this process
  provs,      \* profile -> its provider, or None
  step,       \* where the invocation stands; "idle" between two
  caller,     \* who is invoked
  attempts,   \* runs of _run so far (Agent.execute's counter)
  round,      \* index of the repair round in structured_generate
  posts,      \* requests sent for this invocation
  last,       \* status and category of the last response
  edits,      \* edits of the reply already handled
  file,       \* what the workspace file holds
  readable,   \* whether filesystem.read accepts the file
  changed,    \* CoderOutput.changed_files is not empty
  wrote,      \* attempt in which the file was first written, 0 if none (history)
  had,        \* definitions the readable file has held (history)
  declared,   \* definitions applied edits declared for removal (history)
  torn,       \* a write failed after truncating the file (history)
  plan        \* the last fan-out: request, list and plan

provVars == <<session, provs>>
callVars == <<step, caller, attempts, round, posts, last>>
fileVars == <<file, readable, had, declared, torn>>
editVars == <<edits, changed, wrote>>
agentVars == <<provVars, callVars, fileVars, editVars, plan>>

-------------------------------------------------------------------------------
\* Errors, with the retryable flag and the category each class carries.

Error == {"timeout", "refused", "missing_model", "server", "client", "not_json",
          "structured", "foreign"}

Retryable == {"timeout", "refused", "server", "not_json", "structured"}

Category(e) ==
  CASE e = "timeout" -> "TIMEOUT"
    [] e \in {"refused", "missing_model"} -> "ENVIRONMENT_FAILURE"
    [] e \in {"server", "client", "not_json"} -> "MODEL_ERROR"
    [] e = "structured" -> "VALIDATION_FAILURE"
    [] e = "foreign" -> "UNKNOWN"

StructuredMode == {"UNKNOWN", "NATIVE", "JSON_MODE"}

\* rejected: the runtime has refused a schema of this provider (history).
NewProvider == [mode |-> "UNKNOWN", rejected |-> FALSE]

provider == provs[ProfileOf[caller]]

\* Doctor has no retry around its call.
AttemptLimit == IF caller = Doctor THEN 1 ELSE MaxAttempts

-------------------------------------------------------------------------------
\* The coder's view of a file: the set of its top-level definitions, or Broken.  An absent or empty file has none.

Parsed == SUBSET Definitions

Contents == Parsed \cup {Broken}

TopLevelSymbols(content) == IF content = Broken THEN {} ELSE content

FileEdit == [mode : {"append", "replace_function", "replace_file"}, content : Contents,
             function_name : Definitions \cup {None}, removes : SUBSET Definitions]

\* A read the gateway refuses (too large, not UTF-8) counts as an empty file.
ReadExisting == IF readable THEN file ELSE {}

\* The function an edit replaces: the one it names, or one its content defines.
Targets(edit) ==
  IF edit.function_name # None THEN {edit.function_name} ELSE TopLevelSymbols(edit.content)

\* Every text the edit may lead to.  Pieces that parse on their own add up; a
\* piece that does not parse may still join the text around it.
Appended(existing, content) ==
  CASE existing = {} -> {content}
    [] existing = Broken -> Contents
    [] existing \notin {{}, Broken} /\ content = Broken ->
         {Broken} \cup {existing \cup more : more \in Parsed}
    [] OTHER -> {existing \cup content}

Replaced(existing, target, content) ==
  IF content = Broken THEN Contents ELSE {(existing \ {target}) \cup content}

\* _resolve_content: no result means the edit cannot be applied as described.
ResolveContent(edit, existing) ==
  CASE edit.mode = "replace_file" -> {edit.content}
    [] edit.mode = "append" -> Appended(existing, edit.content)
    [] edit.mode = "replace_function" ->
         IF existing = Broken THEN {}
         ELSE UNION {Replaced(existing, t, edit.content) : t \in Targets(edit) \cap existing}

\* check_syntax and check_preserved_symbols, on the resulting file.
CheckSyntax(content) == content # Broken

\* Mutant: only a whole-file rewrite is checked for lost definitions.
PreservedByRewrite(existing, content, edit) ==
  edit.mode = "replace_file" =>
    TopLevelSymbols(existing) \ TopLevelSymbols(content) \subseteq edit.removes

CheckPreservedSymbols(existing, content, edit) ==
  TopLevelSymbols(existing) \ TopLevelSymbols(content) \subseteq edit.removes

-------------------------------------------------------------------------------
NoResponse == [status |-> "NONE", category |-> "NONE", attempts |-> 0]

NoPlan == [requested |-> {}, list |-> << >>, steps |-> Declined]

AgentInit ==
  /\ provs = [p \in Profiles |-> None]
  /\ session \in Sessions
  /\ step = "idle" /\ caller \in session
  /\ attempts = 0 /\ round = 0 /\ posts = 0
  /\ last = NoResponse
  /\ edits = 0 /\ changed = FALSE /\ wrote = 0
  /\ readable \in BOOLEAN
  /\ file \in Contents
  /\ Coder \notin session => readable /\ file = {}
  /\ had = IF readable THEN TopLevelSymbols(file) ELSE {}
  /\ declared = {} /\ torn = FALSE
  /\ plan = NoPlan

\* AgentRegistry.get: the provider of a profile is built once and shared by the
\* agents of the profile.  Doctor builds its own.
Invoke(c) ==
  /\ step = "idle" /\ c \in session
  /\ provs' = IF provs[ProfileOf[c]] = None \/ c = Doctor
              THEN [provs EXCEPT ![ProfileOf[c]] = NewProvider] ELSE provs
  /\ caller' = c /\ step' = "validate"
  /\ attempts' = 0 /\ round' = 0 /\ posts' = 0
  /\ edits' = 0 /\ changed' = FALSE /\ wrote' = 0
  /\ last' = NoResponse /\ plan' = NoPlan
  /\ UNCHANGED <<session, fileVars>>

\* AgentRegistry.close forgets every provider.
Close ==
  /\ step = "idle"
  /\ provs' = [p \in Profiles |-> None]
  /\ UNCHANGED <<session, callVars, fileVars, editVars, plan>>

\* Every outcome of an invocation is a response.
Respond(status, category) ==
  /\ step' = "idle"
  /\ last' = [status |-> status, category |-> category, attempts |-> attempts]
  /\ UNCHANGED <<caller, attempts, round, posts>>

\* The input is validated once, outside the retries.
ValidateInput ==
  /\ step = "validate"
  /\ \/ /\ caller # Doctor
        /\ Respond("REJECTED", "VALIDATION_FAILURE")
     \/ /\ step' = "post" /\ attempts' = 1 /\ round' = 0
        /\ UNCHANGED <<caller, posts, last>>
  /\ UNCHANGED <<provVars, fileVars, editVars, plan>>

\* Mutant: the attempt in progress is not counted.
RetryOnceMore(e) ==
  IF e \in Retryable /\ attempts <= AttemptLimit
  THEN /\ step' = "post" /\ attempts' = attempts + 1 /\ round' = 0
       /\ UNCHANGED <<caller, last>>
  ELSE /\ step' = "idle"
       /\ last' = [status |-> "FAILURE", category |-> Category(e), attempts |-> attempts]
       /\ UNCHANGED <<caller, attempts, round>>

\* with_retry: a retryable error starts the work over while attempts are left,
\* anything else ends the invocation.
WithRetry(e) ==
  IF e \in Retryable /\ attempts < AttemptLimit
  THEN /\ step' = "post" /\ attempts' = attempts + 1 /\ round' = 0
       /\ UNCHANGED <<caller, last>>
  ELSE /\ step' = "idle"
       /\ last' = [status |-> "FAILURE", category |-> Category(e), attempts |-> attempts]
       /\ UNCHANGED <<caller, attempts, round>>

\* One request to /api/chat, its payload left out.
Send == posts' = posts + 1

\* What _wrap_transport_error and _raise_for_status raise, and a body that is
\* not JSON.
TransportError == {"timeout", "refused", "missing_model", "server", "client", "not_json"}

RequestFails ==
  /\ step \in {"post", "fallback"}
  /\ Send
  /\ \E e \in TransportError : WithRetry(e)
  /\ UNCHANGED <<provVars, fileVars, editVars, plan>>

\* A schema the runtime cannot compile: the request is repeated in JSON mode.
GrammarRejected ==
  /\ step = "post"
  /\ Send
  /\ step' = "fallback"
  /\ provs' = [provs EXCEPT ![ProfileOf[caller]] = [mode |-> "JSON_MODE", rejected |-> TRUE]]
  /\ UNCHANGED <<session, caller, attempts, round, last, fileVars, editVars, plan>>

\* Mutant: any accepted reply counts as constrained decoding.
LearnAlways == provs' = [provs EXCEPT ![ProfileOf[caller]].mode = "NATIVE"]

\* A reply teaches the provider that schemas are enforced, unless it knows better.
Learn ==
  provs' = IF provider.mode = "UNKNOWN"
           THEN [provs EXCEPT ![ProfileOf[caller]].mode = "NATIVE"] ELSE provs

\* A JSON body of another shape than the provider expects raises an exception
\* that is no EdithError.
ForeignReply ==
  /\ step \in {"post", "fallback"}
  /\ Send
  /\ Learn /\ WithRetry("foreign")
  /\ UNCHANGED <<session, fileVars, editVars, plan>>

\* A text without a conforming object is sent back with the reason, as often as
\* the caller allows.
InvalidReply ==
  /\ step \in {"post", "fallback"}
  /\ Send
  /\ Learn
  /\ IF round < Repairs[caller]
     THEN step' = "post" /\ round' = round + 1 /\ UNCHANGED <<caller, attempts, last>>
     ELSE WithRetry("structured")
  /\ UNCHANGED <<session, fileVars, editVars, plan>>

\* A reply that validates goes to the rest of the agent's _run.
ValidReply ==
  /\ step \in {"post", "fallback"}
  /\ Send
  /\ Learn
  /\ IF caller = Coder
     THEN step' = "edit" /\ UNCHANGED last
     ELSE /\ step' = (IF caller = Planner THEN "plan" ELSE "idle")
          /\ last' = [status |-> "SUCCESS", category |-> "NONE", attempts |-> attempts]
  /\ UNCHANGED <<session, caller, attempts, round, fileVars, editVars, plan>>

\* One edit of the coder: resolved against the file as it is now, gated, and
\* written through the gateway, which may refuse, or fail after it has
\* truncated the file.
Write(edit, content) ==
  /\ file' = content /\ readable' = TRUE
  /\ declared' = declared \cup edit.removes
  /\ had' = had \cup content
  /\ changed' = TRUE
  /\ wrote' = IF wrote = 0 THEN attempts ELSE wrote
  /\ UNCHANGED torn

Refuse == UNCHANGED <<fileVars, changed, wrote>>

TornWrite ==
  /\ file' = {} /\ readable' = TRUE /\ torn' = TRUE
  /\ UNCHANGED <<had, declared, changed, wrote>>

Passes(edit, content) ==
  CheckSyntax(content) /\ CheckPreservedSymbols(ReadExisting, content, edit)

ApplyEdit ==
  /\ step = "edit" /\ edits < MaxEdits
  /\ edits' = edits + 1
  /\ \E edit \in FileEdit :
       LET results == ResolveContent(edit, ReadExisting)
       IN \/ /\ results = {} \/ \E content \in results : ~Passes(edit, content)
             /\ Refuse
          \/ \E content \in results :
               /\ Passes(edit, content)
               /\ Write(edit, content) \/ Refuse \/ TornWrite
  /\ UNCHANGED <<provVars, callVars, plan>>

\* Mutant: a git.diff that times out is raised instead of ignored.
DiffTimesOut ==
  /\ step = "edit" /\ edits > 0
  /\ Respond("SUCCESS", "NONE") \/ (WithRetry("timeout") /\ UNCHANGED posts)
  /\ UNCHANGED <<provVars, fileVars, editVars, plan>>

\* The size of the diff is asked for and a failure of it ignored; what was
\* changed and refused is the output.
EditsDone ==
  /\ step = "edit" /\ edits > 0
  /\ Respond("SUCCESS", "NONE")
  /\ UNCHANGED <<provVars, fileVars, editVars, plan>>

\* fan_out goes on with the planner's response.
PlanFannedOut ==
  /\ step = "plan"
  /\ step' = "idle"
  /\ attempts' = 0 /\ round' = 0 /\ posts' = 0 /\ last' = NoResponse
  /\ \E requested \in SUBSET Functions, list \in BoundedSeq(Specs, MaxFunctions),
        word \in Functions \cup {Package} :
       plan' = [requested |-> requested, list |-> list, steps |-> FanOut(requested, list, word)]
  /\ UNCHANGED <<provVars, caller, fileVars, editVars>>

AgentNext ==
  \/ \E c \in Callers : Invoke(c)
  \/ Close
  \/ ValidateInput
  \/ RequestFails \/ GrammarRejected \/ ForeignReply \/ InvalidReply \/ ValidReply
  \/ ApplyEdit \/ EditsDone
  \/ PlanFannedOut

AgentSpec == AgentInit /\ [][AgentNext]_agentVars

-------------------------------------------------------------------------------
AgentTypeOK ==
  /\ provs \in [Profiles -> {None} \cup [mode : StructuredMode, rejected : BOOLEAN]]
  /\ step \in {"idle", "validate", "post", "fallback", "edit", "plan"}
  /\ caller \in Callers
  /\ attempts \in 0..MaxAttempts /\ round \in Nat /\ posts \in Nat
  /\ edits \in 0..MaxEdits /\ changed \in BOOLEAN /\ wrote \in 0..MaxAttempts
  /\ file \in Contents /\ readable \in BOOLEAN /\ torn \in BOOLEAN
  /\ had \in Parsed /\ declared \in Parsed

\* The two retry loops multiply, but only so far: an invocation sends at most
\* two requests for each repair round of each attempt, and never more attempts
\* than with_retry allows (models/retry.py, structured_generate).
RequestsBounded ==
  /\ attempts <= AttemptLimit
  /\ posts <= 2 * (Repairs[caller] + 1) * attempts

\* A provider never tells an agent or doctor that decoding is constrained once
\* the runtime has refused one of its schemas, whatever was sent before or
\* after (ModelProvider.structured_mode, OllamaProvider._generate_raw).
NativeIsEarned ==
  \A p \in Profiles : provs[p] # None =>
    (provs[p].mode = "NATIVE" => ~provs[p].rejected)

\* Work that has reached the workspace is not repeated by a retry, and is
\* reported: after the coder's first write no further attempt begins, and the
\* response is a SUCCESS that says files changed (Agent.execute, CodingAgent._run).
WrittenOnceAndReported ==
  wrote # 0 => /\ attempts = wrote
               /\ changed
               /\ step = "idle" => last.status = "SUCCESS"

\* No definition of a file the coder can read disappears over any sequence of
\* edits unless an applied edit declared it, or a write was torn
\* (CodingAgent._run, check_preserved_symbols).
DefinitionsKept ==
  ~torn => had \subseteq TopLevelSymbols(file) \cup declared

\* A fanned-out plan fits, gives a step at most one function, keeps
\* each requested function whose signature uses its own name, and lets the
\* assembly step wait for all the others (enforce_single_function, fan_out).
PlanIsFannedOut ==
  LET steps == plan.steps
      Consistent(r) == \A i \in DOMAIN plan.list : plan.list[i].name = r => plan.list[i].sig = r
  IN steps # Declined =>
       /\ Len(steps) <= MaxPlanSteps
       /\ \A i \in DOMAIN steps :
            IF steps[i].kind = "assemble"
            THEN steps[i].depends_on = (DOMAIN steps) \ {i}
            ELSE Cardinality(steps[i].names) <= 1
       /\ \A r \in plan.requested : Consistent(r) =>
            \E i \in DOMAIN steps : steps[i].kind = "implement" /\ steps[i].fn = r
===============================================================================
