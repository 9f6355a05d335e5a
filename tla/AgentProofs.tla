------------------------------ MODULE AgentProofs -----------------------------
(***************************************************************************)
(* An agent invocation and the tool gateway its writes go through, proved  *)
(* for every set of agents, profiles, scopes, paths and branches, any      *)
(* number of attempts, repair rounds, edits, calls and commits, and any    *)
(* behaviour of the runtime and of the programs that shell.run starts.     *)
(***************************************************************************)
EXTENDS AgentCall, ToolGateway, FiniteSetTheorems, SequenceTheorems, WellFoundedInduction,
        TLAPS

-----------------------------------------------------------------------------
(* An invocation: the inductive invariant *)

\* The requests a finished attempt may have cost the caller.
PerAttempt == 2 * (Repairs[caller] + 1)

\* Before a request, the attempts behind this one have cost PerAttempt each and
\* the rounds behind this one two each; a fallback is the second of its round.
RequestInv ==
    /\ attempts <= AttemptLimit
    /\ step = "validate" => attempts = 0 /\ posts = 0
    /\ step \in {"post", "fallback"} =>
          /\ attempts >= 1 /\ round <= Repairs[caller]
          /\ posts <= PerAttempt * (attempts - 1) + 2 * round
                        + (IF step = "fallback" THEN 1 ELSE 0)
    /\ posts <= PerAttempt * attempts

\* A provider that has seen no answer yet has seen no rejection either.
Earned(pr) == pr.mode \in {"UNKNOWN", "NATIVE"} => ~pr.rejected

ProviderInv ==
    /\ \A p \in Profiles : provs[p] # None => Earned(provs[p])
    /\ step # "idle" => /\ provider \in [mode : StructuredMode, rejected : BOOLEAN]
                        /\ Earned(provider)

\* Nothing is written before the reply that is being applied.
WriteInv ==
    wrote # 0 => /\ step \in {"edit", "idle"}
                 /\ attempts = wrote /\ changed
                 /\ step = "idle" => last.status = "SUCCESS"

\* An unreadable file is read as empty, so the check on lost definitions sees
\* nothing to protect; but nothing readable was ever in it.
FileInv ==
    /\ ~readable => had = {}
    /\ ~torn => had \subseteq TopLevelSymbols(file) \cup declared

AgentInv == AgentTypeOK /\ RequestInv /\ ProviderInv /\ WriteInv /\ FileInv

-----------------------------------------------------------------------------
(* Facts about the operators *)

LEMMA Limits ==
    ASSUME AgentTypeOK
    PROVE  /\ AttemptLimit \in 1..MaxAttempts
           /\ Repairs[caller] \in Nat /\ ProfileOf[caller] \in Profiles
           /\ PerAttempt \in Nat
BY AgentCallBounds DEF AgentTypeOK, AttemptLimit, PerAttempt

\* One more attempt has room for one more attempt's requests.
LEMMA OneMoreAttempt ==
    ASSUME NEW k \in Nat, NEW a \in Nat \ {0}
    PROVE  /\ k * a = k * (a - 1) + k
           /\ k * a \in Nat /\ k * (a - 1) \in Nat
           /\ k * ((a + 1) - 1) = k * a
OBVIOUS

LEMMA NoneOrOne ==
    ASSUME NEW k \in Nat
    PROVE  k * 0 = 0 /\ k * 1 = k
OBVIOUS

\* Every text an edit may lead to is a content.
LEMMA ResolvedType ==
    ASSUME NEW edit \in FileEdit, NEW existing \in Contents
    PROVE  ResolveContent(edit, existing) \subseteq Contents
<1>1. CASE edit.mode = "replace_file"
  BY <1>1 DEF FileEdit, ResolveContent
<1>2. CASE edit.mode = "append"
  <2>1. Appended(existing, edit.content) \subseteq Contents
    <3>1. edit.content \in Contents
      BY DEF FileEdit
    <3>2. ASSUME NEW c \in Parsed, existing # Broken
          PROVE  existing \cup c \in Contents
      BY <3>2 DEF Contents, Parsed
    <3>3. CASE existing = {}
      <4>1. Appended(existing, edit.content) = {edit.content}
        BY <3>3, AgentCallBounds DEF Appended
      <4>2. QED
        BY <3>1, <4>1
    <3>4. CASE existing # {} /\ existing = Broken
      <4>1. Appended(existing, edit.content) = Contents
        BY <3>4 DEF Appended
      <4>2. QED
        BY <4>1
    <3>5. CASE existing # {} /\ existing # Broken /\ edit.content = Broken
      <4>1. Appended(existing, edit.content) = {Broken} \cup {existing \cup more : more \in Parsed}
        BY <3>5 DEF Appended
      <4>2. Broken \in Contents
        BY DEF Contents
      <4>3. QED
        BY <3>2, <3>5, <4>1, <4>2
    <3>6. CASE existing # {} /\ existing # Broken /\ edit.content # Broken
      <4>1. edit.content \in Parsed
        BY <3>1, <3>6 DEF Contents
      <4>2. QED
        BY <3>2, <3>6, <4>1 DEF Appended
    <3>7. QED
      BY <3>3, <3>4, <3>5, <3>6
  <2>2. QED
    BY <1>2, <2>1 DEF ResolveContent
<1>3. CASE edit.mode = "replace_function"
  <2>1. ASSUME NEW t, existing # Broken
        PROVE  Replaced(existing, t, edit.content) \subseteq Contents
    BY <2>1 DEF FileEdit, Replaced, Contents, Parsed
  <2>2. QED
    BY <1>3, <2>1 DEF ResolveContent
<1>4. QED
  BY <1>1, <1>2, <1>3 DEF FileEdit

LEMMA ReadType ==
    ASSUME AgentTypeOK
    PROVE  ReadExisting \in Contents
BY DEF AgentTypeOK, ReadExisting, Contents, Parsed

-----------------------------------------------------------------------------
(* What the steps do *)

LEMMA InitAgentInv == AgentInit => AgentInv
<1> SUFFICES ASSUME AgentInit PROVE AgentInv
  OBVIOUS
<1> USE DEF AgentInit
<1>1. AgentTypeOK
  <2>1. caller \in Callers
    BY AgentCallBounds
  <2>2. had \in Parsed
    BY DEF TopLevelSymbols, Contents, Parsed
  <2>3. provs \in [Profiles -> {None} \cup [mode : StructuredMode, rejected : BOOLEAN]]
    OBVIOUS
  <2>4. 0 \in 0..MaxAttempts /\ 0 \in 0..MaxEdits
    BY AgentCallBounds
  <2>5. declared \in Parsed
    BY DEF Parsed
  <2>6. QED
    BY <2>1, <2>2, <2>3, <2>4, <2>5 DEF AgentTypeOK
<1>2. RequestInv
  BY <1>1, Limits, NoneOrOne DEF RequestInv
<1>3. ProviderInv /\ WriteInv /\ FileInv
  BY DEF ProviderInv, WriteInv, FileInv
<1>4. QED
  BY <1>1, <1>2, <1>3 DEF AgentInv

\* While a request may be sent, the attempt has room for it.
LEMMA RequestRoom ==
    ASSUME AgentInv, step \in {"post", "fallback"}
    PROVE  /\ attempts \in Nat \ {0} /\ round \in Nat /\ posts \in Nat
           /\ attempts <= AttemptLimit /\ round <= Repairs[caller]
           /\ AttemptLimit \in 1..MaxAttempts /\ Repairs[caller] \in Nat /\ PerAttempt \in Nat
           /\ PerAttempt * (attempts - 1) \in Nat /\ PerAttempt * attempts \in Nat
           /\ posts + 1 <= PerAttempt * (attempts - 1) + 2 * round + 2
           /\ posts + 1 <= PerAttempt * attempts
<1>1. /\ AttemptLimit \in 1..MaxAttempts /\ Repairs[caller] \in Nat /\ PerAttempt \in Nat
      /\ PerAttempt = 2 * Repairs[caller] + 2
  BY Limits DEF AgentInv, PerAttempt
<1>2. attempts \in Nat \ {0} /\ round \in Nat /\ posts \in Nat
      /\ attempts <= AttemptLimit /\ round <= Repairs[caller]
  BY DEF AgentInv, AgentTypeOK, RequestInv
<1>3. /\ PerAttempt * attempts = PerAttempt * (attempts - 1) + PerAttempt
      /\ PerAttempt * (attempts - 1) \in Nat /\ PerAttempt * attempts \in Nat
  BY <1>1, <1>2, OneMoreAttempt
<1>4. posts <= PerAttempt * (attempts - 1) + 2 * round + 1
  BY <1>2, <1>3 DEF AgentInv, RequestInv
<1>5. QED
  BY <1>1, <1>2, <1>3, <1>4

\* A failed request either begins the next attempt or ends the invocation.
LEMMA RetryStep ==
    ASSUME AgentInv, step \in {"post", "fallback"}, Send, NEW e, WithRetry(e)
    PROVE  /\ caller' = caller /\ step' \in {"post", "idle"}
           /\ attempts' \in 0..MaxAttempts /\ round' \in Nat /\ posts' \in Nat
           /\ RequestInv'
<1>1. attempts \in Nat \ {0} /\ round \in Nat /\ posts \in Nat /\ attempts <= AttemptLimit
  BY RequestRoom
<1>2. AttemptLimit \in 1..MaxAttempts /\ Repairs[caller] \in Nat /\ PerAttempt \in Nat
  BY RequestRoom
<1>3. caller' = caller /\ AttemptLimit' = AttemptLimit /\ PerAttempt' = PerAttempt
      /\ posts' = posts + 1
  BY DEF WithRetry, AttemptLimit, PerAttempt, Send
<1>4. posts' <= PerAttempt * attempts
  BY <1>3, RequestRoom
<1>5. CASE e \in Retryable /\ attempts < AttemptLimit
  <2>1. step' = "post" /\ attempts' = attempts + 1 /\ round' = 0
    BY <1>5 DEF WithRetry
  <2>2. /\ PerAttempt * (attempts' - 1) = PerAttempt * attempts
        /\ PerAttempt * attempts' = PerAttempt * attempts + PerAttempt
        /\ PerAttempt * attempts \in Nat
    <3>1. /\ PerAttempt * ((attempts + 1) - 1) = PerAttempt * attempts
          /\ PerAttempt * attempts \in Nat
      BY <1>1, <1>2, OneMoreAttempt
    <3>2. PerAttempt * (attempts + 1) = PerAttempt * ((attempts + 1) - 1) + PerAttempt
      <4>1. attempts + 1 \in Nat \ {0}
        BY <1>1
      <4>2. QED
        BY <1>2, <4>1, OneMoreAttempt
    <3>3. QED
      BY <2>1, <3>1, <3>2
  <2>3. attempts' >= 1 /\ attempts' <= AttemptLimit /\ attempts' \in 0..MaxAttempts
    BY <1>1, <1>2, <1>5, <2>1, AgentCallBounds
  <2>4. /\ posts' <= PerAttempt * (attempts' - 1) + 2 * round' + 0
        /\ posts' <= PerAttempt * attempts'
    BY <1>1, <1>2, <1>3, <1>4, <2>1, <2>2
  <2>5. RequestInv'
    BY <1>2, <1>3, <2>1, <2>3, <2>4 DEF RequestInv
  <2>6. QED
    BY <1>1, <1>3, <2>1, <2>3, <2>5
<1>6. CASE ~(e \in Retryable /\ attempts < AttemptLimit)
  <2>1. step' = "idle" /\ attempts' = attempts /\ round' = round
    BY <1>6 DEF WithRetry
  <2>2. RequestInv'
    BY <1>1, <1>3, <1>4, <2>1 DEF RequestInv
  <2>3. attempts' \in 0..MaxAttempts /\ round' \in Nat /\ posts' \in Nat
    BY <1>1, <1>2, <1>3, <2>1, AgentCallBounds
  <2>4. QED
    BY <1>3, <2>1, <2>2, <2>3
<1>7. QED
  BY <1>5, <1>6

\* What a provider learns from a reply keeps its record and what it promises.
LEMMA LearnStep ==
    ASSUME AgentInv, step # "idle", Learn, caller' = caller
    PROVE  /\ provs' \in [Profiles -> {None} \cup [mode : StructuredMode, rejected : BOOLEAN]]
           /\ ProviderInv'
<1> DEFINE P == ProfileOf[caller]
           Record == [mode : StructuredMode, rejected : BOOLEAN]
           learned == [provs[P] EXCEPT !.mode = "NATIVE"]
<1>1. P \in Profiles
  BY Limits DEF AgentInv
<1>2. provs \in [Profiles -> {None} \cup Record] /\ provs[P] \in Record /\ Earned(provs[P])
  BY DEF AgentInv, AgentTypeOK, ProviderInv, provider
<1>3. CASE provider.mode = "UNKNOWN"
  <2>1. learned \in Record /\ Earned(learned)
    BY <1>2, <1>3 DEF Earned, provider, StructuredMode
  <2>2. provs' = [provs EXCEPT ![P] = learned]
    BY <1>1, <1>2, <1>3 DEF Learn
  <2>3. provs' \in [Profiles -> {None} \cup Record]
    BY <1>1, <1>2, <2>1, <2>2
  <2>4. \A p \in Profiles : provs'[p] = (IF p = P THEN learned ELSE provs[p])
    BY <1>1, <1>2, <2>2
  <2>5. \A p \in Profiles : provs'[p] # None => Earned(provs'[p])
    BY <2>1, <2>4 DEF AgentInv, ProviderInv
  <2>6. provider' = learned
    BY <1>1, <2>4 DEF provider
  <2>7. QED
    BY <2>1, <2>3, <2>5, <2>6 DEF ProviderInv, Earned
<1>4. CASE provider.mode # "UNKNOWN"
  <2>1. provs' = provs /\ provider' = provider
    BY <1>4 DEF Learn, provider
  <2>2. QED
    BY <1>2, <2>1 DEF AgentInv, ProviderInv, provider, Earned
<1>5. QED
  BY <1>3, <1>4

-----------------------------------------------------------------------------
(* Each action preserves the invariant *)

LEMMA InvokeStep ==
    ASSUME AgentInv, NEW c \in Callers, Invoke(c)
    PROVE  AgentInv'
<1> USE DEF Invoke, fileVars
<1> DEFINE P == ProfileOf[c]
           Record == [mode : StructuredMode, rejected : BOOLEAN]
<1>1. P \in Profiles /\ provs \in [Profiles -> {None} \cup Record]
  BY AgentCallBounds DEF AgentInv, AgentTypeOK
<1>2. NewProvider \in Record /\ Earned(NewProvider)
  BY DEF NewProvider, StructuredMode, Earned
<1>3. /\ provs' \in [Profiles -> {None} \cup Record]
      /\ \A p \in Profiles : provs'[p] # None => Earned(provs'[p])
      /\ provs'[P] \in Record /\ Earned(provs'[P])
  <2>1. CASE provs[P] = None \/ c = Doctor
    <3>1. \A p \in Profiles : provs'[p] = (IF p = P THEN NewProvider ELSE provs[p])
      BY <1>1, <2>1
    <3>2. provs' \in [Profiles -> {None} \cup Record]
      BY <1>1, <1>2, <2>1
    <3>3. QED
      BY <1>1, <1>2, <3>1, <3>2 DEF AgentInv, ProviderInv
  <2>2. CASE ~(provs[P] = None \/ c = Doctor)
    BY <1>1, <2>2 DEF AgentInv, ProviderInv
  <2>3. QED
    BY <2>1, <2>2
<1>4. AgentTypeOK'
  <2>1. 0 \in 0..MaxAttempts /\ 0 \in 0..MaxEdits
    BY AgentCallBounds
  <2>2. QED
    BY <1>3, <2>1 DEF AgentInv, AgentTypeOK
<1>5. RequestInv'
  <2>1. AttemptLimit' \in Nat /\ PerAttempt' \in Nat
    BY <1>4, AgentCallBounds DEF AttemptLimit, PerAttempt, AgentTypeOK
  <2>2. PerAttempt' * 0 = 0
    BY <2>1, NoneOrOne
  <2>3. QED
    BY <2>1, <2>2 DEF RequestInv
<1>6. ProviderInv'
  BY <1>3 DEF ProviderInv, provider, Earned
<1>7. WriteInv' /\ FileInv'
  BY DEF AgentInv, WriteInv, FileInv
<1>8. QED
  BY <1>4, <1>5, <1>6, <1>7 DEF AgentInv

LEMMA CloseStep ==
    ASSUME AgentInv, Close
    PROVE  AgentInv'
<1> USE DEF Close, callVars, fileVars, editVars
<1>1. AgentTypeOK'
  BY DEF AgentInv, AgentTypeOK
<1>2. RequestInv' /\ WriteInv' /\ FileInv'
  BY DEF AgentInv, RequestInv, WriteInv, FileInv, AttemptLimit, PerAttempt
<1>3. ProviderInv'
  BY DEF AgentInv, ProviderInv
<1>4. QED
  BY <1>1, <1>2, <1>3 DEF AgentInv

LEMMA ValidateInputStep ==
    ASSUME AgentInv, ValidateInput
    PROVE  AgentInv'
<1> USE DEF ValidateInput, Respond, provVars, fileVars, editVars
<1>1. /\ step = "validate" /\ step' \in {"idle", "post"} /\ posts' = 0 /\ caller' = caller
      /\ attempts' \in {0, 1} /\ (step' = "post" => attempts' = 1) /\ round' \in {round, 0}
      /\ (step' = "post" => round' = 0)
      /\ AttemptLimit' = AttemptLimit /\ PerAttempt' = PerAttempt
  BY DEF AgentInv, RequestInv, AttemptLimit, PerAttempt
<1>2. /\ AttemptLimit \in 1..MaxAttempts /\ PerAttempt \in Nat /\ Repairs[caller] \in Nat
      /\ MaxAttempts \in Nat \ {0}
  BY Limits, AgentCallBounds DEF AgentInv
<1>3. AgentTypeOK'
  <2>1. attempts' \in 0..MaxAttempts /\ round' \in Nat /\ posts' \in Nat
    BY <1>1, <1>2 DEF AgentInv, AgentTypeOK
  <2>2. QED
    BY <1>1, <2>1 DEF AgentInv, AgentTypeOK
<1>4. RequestInv'
  <2>1. PerAttempt * 0 = 0 /\ PerAttempt * 1 = PerAttempt
    BY <1>2, NoneOrOne
  <2>2. PerAttempt' * attempts' \in Nat /\ (attempts' = 1 => PerAttempt' * (attempts' - 1) = 0)
    <3>1. PerAttempt' * 0 = 0 /\ PerAttempt' * 1 = PerAttempt'
      BY <1>1, <2>1
    <3>2. CASE attempts' = 0
      BY <1>1, <1>2, <3>1, <3>2
    <3>3. CASE attempts' = 1
      <4>1. attempts' - 1 = 0
        BY <3>3
      <4>2. QED
        BY <1>1, <1>2, <3>1, <3>3, <4>1
    <3>4. QED
      BY <1>1, <3>2, <3>3
  <2>3. attempts' <= AttemptLimit'
    BY <1>1, <1>2
  <2>4. posts' <= PerAttempt' * attempts'
    BY <1>1, <2>2
  <2>5. CASE step' = "post"
    <3>1. attempts' = 1 /\ round' = 0 /\ Repairs[caller'] \in Nat
      BY <1>1, <1>2, <2>5
    <3>2. posts' <= PerAttempt' * (attempts' - 1) + 2 * round' + 0
      BY <1>1, <2>2, <3>1
    <3>3. QED
      BY <2>3, <2>4, <2>5, <3>1, <3>2 DEF RequestInv
  <2>6. CASE step' = "idle"
    BY <2>3, <2>4, <2>6 DEF RequestInv
  <2>7. QED
    BY <1>1, <2>5, <2>6
<1>5. ProviderInv' /\ WriteInv' /\ FileInv'
  BY <1>1 DEF AgentInv, ProviderInv, WriteInv, FileInv, provider
<1>6. QED
  BY <1>3, <1>4, <1>5 DEF AgentInv

LEMMA RequestFailsStep ==
    ASSUME AgentInv, RequestFails
    PROVE  AgentInv'
<1> USE DEF RequestFails, provVars, fileVars, editVars
<1>1. PICK e \in TransportError : WithRetry(e)
  OBVIOUS
<1>2. /\ caller' = caller /\ step' \in {"post", "idle"}
      /\ attempts' \in 0..MaxAttempts /\ round' \in Nat /\ posts' \in Nat
      /\ RequestInv'
  BY <1>1, RetryStep
<1>3. AgentTypeOK' /\ ProviderInv' /\ WriteInv' /\ FileInv'
  BY <1>2 DEF AgentInv, AgentTypeOK, ProviderInv, WriteInv, FileInv, provider
<1>4. QED
  BY <1>2, <1>3 DEF AgentInv

LEMMA GrammarRejectedStep ==
    ASSUME AgentInv, GrammarRejected
    PROVE  AgentInv'
<1> USE DEF GrammarRejected, Send, fileVars, editVars
<1> DEFINE P == ProfileOf[caller]
           Record == [mode : StructuredMode, rejected : BOOLEAN]
           json == [mode |-> "JSON_MODE", rejected |-> TRUE]
<1>1. P \in Profiles /\ provs \in [Profiles -> {None} \cup Record]
  BY Limits DEF AgentInv, AgentTypeOK
<1>2. json \in Record /\ Earned(json)
  BY DEF Earned, StructuredMode
<1>3. provs' \in [Profiles -> {None} \cup Record]
  BY <1>1, <1>2
<1>4. \A p \in Profiles : provs'[p] = (IF p = P THEN json ELSE provs[p])
  BY <1>1
<1>5. AgentTypeOK'
  BY <1>3 DEF AgentInv, AgentTypeOK
<1>6. ProviderInv'
  <2>1. \A p \in Profiles : provs'[p] # None => Earned(provs'[p])
    BY <1>2, <1>4 DEF AgentInv, ProviderInv
  <2>2. provider' = json
    BY <1>1, <1>4 DEF provider
  <2>3. QED
    BY <1>2, <2>1, <2>2 DEF ProviderInv
<1>7. RequestInv'
  <2>1. AttemptLimit' = AttemptLimit /\ PerAttempt' = PerAttempt
    BY DEF AttemptLimit, PerAttempt
  <2>2. /\ AttemptLimit \in Nat /\ PerAttempt \in Nat /\ Repairs[caller] \in Nat
        /\ PerAttempt = 2 * Repairs[caller] + 2
    BY Limits, AgentCallBounds DEF AgentInv, PerAttempt
  <2>3. /\ attempts \in Nat \ {0} /\ attempts <= AttemptLimit /\ round <= Repairs[caller]
        /\ PerAttempt * (attempts - 1) \in Nat /\ round \in Nat /\ posts \in Nat
        /\ posts + 1 <= PerAttempt * attempts
    BY RequestRoom
  <2>4. posts <= PerAttempt * (attempts - 1) + 2 * round + 0
    BY DEF AgentInv, RequestInv
  <2>5. posts' <= PerAttempt * (attempts - 1) + 2 * round + 1 /\ posts' <= PerAttempt * attempts
    BY <2>2, <2>3, <2>4
  <2>6. QED
    BY <2>1, <2>2, <2>3, <2>5 DEF RequestInv
<1>8. WriteInv' /\ FileInv'
  BY DEF AgentInv, WriteInv, FileInv
<1>9. QED
  BY <1>5, <1>6, <1>7, <1>8 DEF AgentInv

LEMMA ForeignReplyStep ==
    ASSUME AgentInv, ForeignReply
    PROVE  AgentInv'
<1> USE DEF ForeignReply, fileVars, editVars
<1>1. /\ caller' = caller /\ step' \in {"post", "idle"}
      /\ attempts' \in 0..MaxAttempts /\ round' \in Nat /\ posts' \in Nat
      /\ RequestInv'
  BY RetryStep
<1>2. /\ provs' \in [Profiles -> {None} \cup [mode : StructuredMode, rejected : BOOLEAN]]
      /\ ProviderInv'
  BY <1>1, LearnStep
<1>3. AgentTypeOK' /\ WriteInv' /\ FileInv'
  BY <1>1, <1>2 DEF AgentInv, AgentTypeOK, WriteInv, FileInv
<1>4. QED
  BY <1>1, <1>2, <1>3 DEF AgentInv

LEMMA InvalidReplyStep ==
    ASSUME AgentInv, InvalidReply
    PROVE  AgentInv'
<1> USE DEF InvalidReply, fileVars, editVars
<1>1. /\ caller' = caller /\ step' \in {"post", "idle"}
      /\ attempts' \in 0..MaxAttempts /\ round' \in Nat /\ posts' \in Nat
      /\ RequestInv'
  <2>1. CASE round < Repairs[caller]
    <3>1. /\ step' = "post" /\ round' = round + 1 /\ posts' = posts + 1
          /\ UNCHANGED <<caller, attempts>>
          /\ AttemptLimit' = AttemptLimit /\ PerAttempt' = PerAttempt
      BY <2>1 DEF AttemptLimit, PerAttempt, Send
    <3>2. /\ attempts' >= 1 /\ attempts' <= AttemptLimit' /\ attempts' \in 0..MaxAttempts
          /\ round' <= Repairs[caller'] /\ round' \in Nat /\ posts' \in Nat
      BY <2>1, <3>1, RequestRoom, AgentCallBounds
    <3>3. /\ posts' <= PerAttempt' * (attempts' - 1) + 2 * round' + 0
          /\ posts' <= PerAttempt' * attempts'
      BY <3>1, RequestRoom
    <3>4. RequestInv'
      BY <3>1, <3>2, <3>3 DEF RequestInv
    <3>5. QED
      BY <3>1, <3>2, <3>4
  <2>2. CASE ~(round < Repairs[caller])
    BY <2>2, RetryStep
  <2>3. QED
    BY <2>1, <2>2
<1>2. /\ provs' \in [Profiles -> {None} \cup [mode : StructuredMode, rejected : BOOLEAN]]
      /\ ProviderInv'
  BY <1>1, LearnStep
<1>3. AgentTypeOK' /\ WriteInv' /\ FileInv'
  BY <1>1, <1>2 DEF AgentInv, AgentTypeOK, WriteInv, FileInv
<1>4. QED
  BY <1>1, <1>2, <1>3 DEF AgentInv

LEMMA ValidReplyStep ==
    ASSUME AgentInv, ValidReply
    PROVE  AgentInv'
<1> USE DEF ValidReply, fileVars, editVars
<1>1. /\ step' \in {"edit", "plan", "idle"} /\ posts' = posts + 1
      /\ UNCHANGED <<caller, attempts, round>>
      /\ AttemptLimit' = AttemptLimit /\ PerAttempt' = PerAttempt
  BY DEF AttemptLimit, PerAttempt, Send
<1>2. posts' \in Nat /\ RequestInv'
  <2>1. posts' \in Nat /\ attempts' <= AttemptLimit' /\ posts' <= PerAttempt' * attempts'
    BY <1>1, RequestRoom
  <2>2. QED
    BY <1>1, <2>1 DEF RequestInv
<1>3. /\ provs' \in [Profiles -> {None} \cup [mode : StructuredMode, rejected : BOOLEAN]]
      /\ ProviderInv'
  BY <1>1, LearnStep
<1>4. AgentTypeOK' /\ WriteInv' /\ FileInv'
  BY <1>1, <1>2, <1>3 DEF AgentInv, AgentTypeOK, WriteInv, FileInv
<1>5. QED
  BY <1>2, <1>3, <1>4 DEF AgentInv

LEMMA ApplyEditStep ==
    ASSUME AgentInv, ApplyEdit
    PROVE  AgentInv'
<1> USE DEF ApplyEdit, provVars, callVars
<1>1. /\ step = "edit" /\ edits < MaxEdits /\ edits' = edits + 1
      /\ UNCHANGED <<session, provs, step, caller, attempts, round, posts, last, plan>>
  OBVIOUS
<1>2. RequestInv' /\ ProviderInv'
  BY <1>1 DEF AgentInv, RequestInv, ProviderInv, AttemptLimit, PerAttempt, provider
<1>3. edits' \in 0..MaxEdits
  BY <1>1, AgentCallBounds DEF AgentInv, AgentTypeOK
<1>4. CASE Refuse
  <2>1. AgentTypeOK' /\ WriteInv' /\ FileInv'
    BY <1>1, <1>3, <1>4 DEF AgentInv, AgentTypeOK, WriteInv, FileInv, Refuse, fileVars
  <2>2. QED
    BY <1>2, <2>1 DEF AgentInv
<1>5. CASE TornWrite
  <2>1. file' \in Contents
    BY <1>5 DEF TornWrite, Contents, Parsed
  <2>2. AgentTypeOK' /\ WriteInv' /\ FileInv'
    BY <1>1, <1>3, <1>5, <2>1 DEF AgentInv, AgentTypeOK, WriteInv, FileInv, TornWrite
  <2>3. QED
    BY <1>2, <2>2 DEF AgentInv
<1>6. ASSUME NEW edit \in FileEdit, NEW content \in ResolveContent(edit, ReadExisting),
             Passes(edit, content), Write(edit, content)
      PROVE  AgentInv'
  <2> USE DEF Write
  <2>1. content \in Parsed /\ TopLevelSymbols(content) = content /\ edit.removes \in Parsed
    <3>1. content \in Contents
      BY ReadType, ResolvedType DEF AgentInv
    <3>2. QED
      BY <1>6, <3>1 DEF Passes, CheckSyntax, Contents, TopLevelSymbols, FileEdit, Parsed
  <2>2. had' \in Parsed /\ declared' \in Parsed
    BY <1>6, <2>1 DEF AgentInv, AgentTypeOK, Parsed
  <2>3. wrote' \in 0..MaxAttempts
    BY <1>6 DEF AgentInv, AgentTypeOK
  <2>4. AgentTypeOK'
    BY <1>1, <1>3, <1>6, <2>1, <2>2, <2>3 DEF AgentInv, AgentTypeOK, Contents
  <2>5. WriteInv'
    BY <1>1, <1>6 DEF AgentInv, WriteInv
  <2>6. FileInv'
    <3>1. TopLevelSymbols(ReadExisting) \ content \subseteq edit.removes
      BY <1>6, <2>1 DEF Passes, CheckPreservedSymbols
    <3>2. CASE readable
      BY <1>6, <2>1, <3>1, <3>2 DEF AgentInv, FileInv, ReadExisting
    <3>3. CASE ~readable
      BY <1>6, <2>1, <3>3 DEF AgentInv, FileInv
    <3>4. QED
      BY <3>2, <3>3 DEF AgentInv, AgentTypeOK
  <2>7. QED
    BY <1>2, <2>4, <2>5, <2>6 DEF AgentInv
<1>7. QED
  BY <1>4, <1>5, <1>6

LEMMA EditsDoneStep ==
    ASSUME AgentInv, EditsDone
    PROVE  AgentInv'
<1> USE DEF EditsDone, Respond, provVars, fileVars, editVars
<1>1. AgentTypeOK' /\ ProviderInv' /\ WriteInv' /\ FileInv'
  BY DEF AgentInv, AgentTypeOK, ProviderInv, WriteInv, FileInv
<1>2. RequestInv'
  BY DEF AgentInv, RequestInv, AttemptLimit, PerAttempt
<1>3. QED
  BY <1>1, <1>2 DEF AgentInv

LEMMA PlanFannedOutStep ==
    ASSUME AgentInv, PlanFannedOut
    PROVE  AgentInv'
<1> USE DEF PlanFannedOut, provVars, fileVars, editVars
<1>1. AgentTypeOK'
  <2>1. 0 \in 0..MaxAttempts
    BY AgentCallBounds
  <2>2. QED
    BY <2>1 DEF AgentInv, AgentTypeOK
<1>2. ProviderInv' /\ WriteInv' /\ FileInv'
  BY DEF AgentInv, ProviderInv, WriteInv, FileInv
<1>3. RequestInv'
  <2>1. AttemptLimit' = AttemptLimit /\ PerAttempt' = PerAttempt
    BY DEF AttemptLimit, PerAttempt
  <2>2. AttemptLimit \in Nat /\ PerAttempt * 0 = 0
    BY Limits, NoneOrOne, AgentCallBounds DEF AgentInv
  <2>3. QED
    BY <2>1, <2>2 DEF RequestInv
<1>4. QED
  BY <1>1, <1>2, <1>3 DEF AgentInv

LEMMA NextAgentInv == AgentInv /\ [AgentNext]_agentVars => AgentInv'
<1> SUFFICES ASSUME AgentInv, [AgentNext]_agentVars PROVE AgentInv'
  OBVIOUS
<1>1. CASE \E c \in Callers : Invoke(c)
  BY <1>1, InvokeStep
<1>2. CASE Close
  BY <1>2, CloseStep
<1>3. CASE ValidateInput
  BY <1>3, ValidateInputStep
<1>4. CASE RequestFails
  BY <1>4, RequestFailsStep
<1>5. CASE GrammarRejected
  BY <1>5, GrammarRejectedStep
<1>6. CASE ForeignReply
  BY <1>6, ForeignReplyStep
<1>7. CASE InvalidReply
  BY <1>7, InvalidReplyStep
<1>8. CASE ValidReply
  BY <1>8, ValidReplyStep
<1>9. CASE ApplyEdit
  BY <1>9, ApplyEditStep
<1>10. CASE EditsDone
  BY <1>10, EditsDoneStep
<1>11. CASE PlanFannedOut
  BY <1>11, PlanFannedOutStep
<1>12. CASE UNCHANGED agentVars
  <2> USE <1>12 DEF agentVars, provVars, callVars, fileVars, editVars
  <2>1. AgentTypeOK' /\ ProviderInv' /\ WriteInv' /\ FileInv'
    BY DEF AgentInv, AgentTypeOK, ProviderInv, WriteInv, FileInv, provider
  <2>2. RequestInv'
    BY DEF AgentInv, RequestInv, AttemptLimit, PerAttempt
  <2>3. QED
    BY <2>1, <2>2 DEF AgentInv
<1>13. QED
  BY <1>1, <1>2, <1>3, <1>4, <1>5, <1>6, <1>7, <1>8, <1>9, <1>10, <1>11, <1>12 DEF AgentNext

LEMMA AgentInvariant == AgentSpec => []AgentInv
<1>1. AgentInit => AgentInv
  BY InitAgentInv
<1>2. AgentInv /\ [AgentNext]_agentVars => AgentInv'
  BY NextAgentInv
<1>3. QED
  BY <1>1, <1>2, PTL DEF AgentSpec

-----------------------------------------------------------------------------
(* The fanned-out plan: sorting and flattening *)

\* A nonempty set of naturals has a least element.
LEMMA LeastElement ==
    ASSUME NEW S \in SUBSET Nat, S # {}
    PROVE  \E x \in S : \A y \in S : x <= y
<1>1. PICK x \in S : \A y \in S : ~(<<y, x>> \in OpToRel(<, Nat))
  BY NatLessThanWellFounded, WFMin
<1>2. \A y \in S : ~(y < x)
  BY <1>1 DEF OpToRel
<1>3. QED
  BY <1>2

Ascending(s, n) == \A i, j \in 1..n : i < j => s[i] < s[j]

\* Every finite set of numbers can be put in order.
LEMMA AscendingExists ==
    ASSUME NEW names \in SUBSET Nat, IsFiniteSet(names)
    PROVE  \E s \in [1..Cardinality(names) -> names] : Ascending(s, Cardinality(names))
<1> DEFINE Fails(n) == \E N \in SUBSET Nat :
                          /\ IsFiniteSet(N) /\ Cardinality(N) = n
                          /\ ~\E s \in [1..n -> N] : Ascending(s, n)
           S == {n \in Nat : Fails(n)}
<1>1. S = {}
  <2> SUFFICES ASSUME S # {} PROVE FALSE
    OBVIOUS
  <2>1. PICK n \in S : \A k \in S : n <= k
    BY LeastElement
  <2>2. PICK N \in SUBSET Nat : /\ IsFiniteSet(N) /\ Cardinality(N) = n
                                /\ ~\E s \in [1..n -> N] : Ascending(s, n)
    BY <2>1
  <2>3. n # 0
    <3> SUFFICES ASSUME n = 0 PROVE FALSE
      OBVIOUS
    <3> DEFINE empty == [i \in 1..n |-> i]
    <3>1. empty \in [1..n -> N] /\ Ascending(empty, n)
      BY DEF Ascending
    <3>2. QED
      BY <2>2, <3>1
  <2>4. N # {}
    BY <2>2, <2>3, FS_EmptySet
  <2>5. PICK least \in N : \A x \in N : least <= x
    BY <2>4, LeastElement
  <2> DEFINE Rest == N \ {least}
  <2>6. IsFiniteSet(Rest) /\ Cardinality(Rest) = n - 1 /\ n - 1 \in Nat /\ n - 1 \notin S
    BY <2>1, <2>2, <2>3, FS_RemoveElement
  <2>7. PICK r \in [1..n - 1 -> Rest] : Ascending(r, n - 1)
    BY <2>6
  <2> DEFINE s == [i \in 1..n |-> IF i = 1 THEN least ELSE r[i - 1]]
  <2>8. \A i \in 1..n : i # 1 => i - 1 \in 1..n - 1 /\ s[i] = r[i - 1] /\ s[i] \in Rest
    BY <2>6, <2>7
  <2>9. s \in [1..n -> N]
    BY <2>5, <2>8
  <2>10. Ascending(s, n)
    <3> SUFFICES ASSUME NEW i \in 1..n, NEW j \in 1..n, i < j PROVE s[i] < s[j]
      BY DEF Ascending
    <3>1. j # 1 /\ s[j] = r[j - 1] /\ s[j] \in Rest /\ j - 1 \in 1..n - 1
      BY <2>6, <2>8
    <3>2. CASE i = 1
      <4>1. s[i] = least /\ least <= s[j] /\ least # s[j] /\ least \in Nat /\ s[j] \in Nat
        BY <2>5, <3>1, <3>2
      <4>2. QED
        BY <4>1
    <3>3. CASE i # 1
      <4>1. s[i] = r[i - 1] /\ i - 1 \in 1..n - 1 /\ i - 1 < j - 1
        BY <2>6, <2>8, <3>3
      <4>2. QED
        BY <2>7, <3>1, <4>1 DEF Ascending
    <3>4. QED
      BY <3>2, <3>3
  <2>11. QED
    BY <2>2, <2>9, <2>10
<1>2. Cardinality(names) \in Nat
  BY FS_CardinalityType
<1>3. QED
  BY <1>1, <1>2

\* sorted() returns names of the set, and each of them.
LEMMA SortedNamesCover ==
    ASSUME NEW names \in SUBSET Nat, IsFiniteSet(names)
    PROVE  /\ SortedNames(names) \in [1..Cardinality(names) -> names]
           /\ \A x \in names : \E i \in 1..Cardinality(names) : SortedNames(names)[i] = x
<1> DEFINE n == Cardinality(names)
           s == SortedNames(names)
<1>1. n \in Nat
  BY FS_CardinalityType
<1>2. s \in [1..n -> names] /\ Ascending(s, n)
  BY AscendingExists DEF SortedNames, Ascending
<1> HIDE DEF s
<1>3. \A i \in 1..n : s[i] \in Nat
  BY <1>2
<1>4. \A i, j \in 1..n : s[i] = s[j] => i = j
  <2> SUFFICES ASSUME NEW i \in 1..n, NEW j \in 1..n, i # j PROVE s[i] # s[j]
    OBVIOUS
  <2>1. i < j \/ j < i
    BY <1>1
  <2>2. s[i] < s[j] \/ s[j] < s[i]
    BY <1>2, <2>1 DEF Ascending
  <2>3. QED
    BY <1>3, <2>2
<1>5. s \in Injection(1..n, names)
  BY <1>2, <1>4 DEF Injection, IsInjective
<1>6. Cardinality(1..n) = n
  BY <1>1, FS_Interval
<1>7. s \in Surjection(1..n, names)
  BY <1>5, <1>6, FS_Injection
<1>8. QED
  BY <1>2, <1>7 DEF Surjection, s

\* What FlattenSeq has collected after each of its n sequences.
Collects(g, seqs, n) ==
    \A k \in 1..n : g[k] = IF k = 1 THEN seqs[k] ELSE g[k - 1] \o seqs[k]

LEMMA CollectionsExist ==
    ASSUME NEW seqs
    PROVE  \A n \in Nat : \E g : Collects(g, seqs, n)
<1> DEFINE S == {n \in Nat : ~\E g : Collects(g, seqs, n)}
<1> SUFFICES ASSUME S # {} PROVE FALSE
  OBVIOUS
<1>1. PICK n \in S : \A k \in S : n <= k
  BY LeastElement
<1>2. n # 0
  BY <1>1 DEF Collects
<1>3. n - 1 \in Nat /\ n - 1 \notin S
  BY <1>1, <1>2
<1>4. PICK g : Collects(g, seqs, n - 1)
  BY <1>3
<1> DEFINE h == [k \in 1..n |-> IF k < n THEN g[k]
                                ELSE IF k = 1 THEN seqs[k] ELSE g[k - 1] \o seqs[k]]
<1>5. ASSUME NEW k \in 1..n
      PROVE  h[k] = IF k = 1 THEN seqs[k] ELSE h[k - 1] \o seqs[k]
  <2>1. k # 1 => k - 1 \in 1..n /\ k - 1 < n /\ h[k - 1] = g[k - 1]
    BY <1>3
  <2>2. CASE k < n
    <3>1. k \in 1..n - 1
      BY <1>3, <2>2
    <3>2. g[k] = IF k = 1 THEN seqs[k] ELSE g[k - 1] \o seqs[k]
      BY <1>4, <3>1 DEF Collects
    <3>3. QED
      BY <2>1, <2>2, <3>2
  <2>3. CASE k = n
    BY <2>1, <2>3
  <2>4. QED
    BY <2>2, <2>3
<1> HIDE DEF h
<1>6. Collects(h, seqs, n)
  BY <1>5 DEF Collects
<1>7. QED
  BY <1>1, <1>6

\* FlattenSeq returns the last of what it collects.
LEMMA Flattening ==
    ASSUME NEW T, NEW seqs \in Seq(T), Len(seqs) # 0
    PROVE  \E F : Collects(F, seqs, Len(seqs)) /\ FlattenSeq(seqs) = F[Len(seqs)]
<1> DEFINE n == Len(seqs)
           F == CHOOSE f : f = [k \in 1..n |-> IF k = 1 THEN seqs[k] ELSE f[k - 1] \o seqs[k]]
<1>1. FlattenSeq(seqs) = F[n]
  BY DEF FlattenSeq
<1>2. n \in Nat
  OBVIOUS
<1> HIDE DEF n
<1>3. PICK g : Collects(g, seqs, n)
  BY <1>2, CollectionsExist
<1> DEFINE f == [k \in 1..n |-> g[k]]
<1>4. ASSUME NEW k \in 1..n
      PROVE  f[k] = IF k = 1 THEN seqs[k] ELSE f[k - 1] \o seqs[k]
  <2>1. k # 1 => k - 1 \in 1..n
    BY <1>2
  <2>2. QED
    BY <1>3, <2>1 DEF Collects
<1>5. f = [k \in 1..n |-> IF k = 1 THEN seqs[k] ELSE f[k - 1] \o seqs[k]]
  BY <1>4
<1> HIDE DEF f
<1>6. F = [k \in 1..n |-> IF k = 1 THEN seqs[k] ELSE F[k - 1] \o seqs[k]]
  BY <1>5
<1> HIDE DEF F
<1>7. Collects(F, seqs, n)
  <2> SUFFICES ASSUME NEW k \in 1..n
               PROVE  F[k] = IF k = 1 THEN seqs[k] ELSE F[k - 1] \o seqs[k]
    BY DEF Collects
  <2>1. QED
    BY <1>6
<1>8. QED
  BY <1>1, <1>7 DEF n

LEMMA Concatenated ==
    ASSUME NEW T, NEW a \in Seq(T), NEW b \in Seq(T)
    PROVE  /\ a \o b \in Seq(T) /\ Len(a) \in Nat /\ Len(b) \in Nat
           /\ DOMAIN (a \o b) = 1..(Len(a) + Len(b))
           /\ \A y \in 1..Len(a) : (a \o b)[y] = a[y]
           /\ \A x \in 1..Len(b) : (a \o b)[Len(a) + x] = b[x]
OBVIOUS

\* After k sequences, a sequence over T that holds each of their elements.
Gathers(T, F, seqs, k) ==
    /\ F[k] \in Seq(T)
    /\ \A i \in 1..k : \A x \in DOMAIN seqs[i] : \E y \in DOMAIN F[k] : F[k][y] = seqs[i][x]

LEMMA CollectedElements ==
    ASSUME NEW T, NEW n \in Nat, NEW seqs, NEW F, Collects(F, seqs, n),
           \A k \in 1..n : seqs[k] \in Seq(T)
    PROVE  \A k \in 1..n : Gathers(T, F, seqs, k)
<1> DEFINE S == {k \in 1..n : ~Gathers(T, F, seqs, k)}
<1> SUFFICES ASSUME S # {} PROVE FALSE
  OBVIOUS
<1>1. S \in SUBSET Nat
  OBVIOUS
<1>2. PICK k \in S : \A j \in S : k <= j
  BY <1>1, LeastElement
<1>3. k \in 1..n /\ seqs[k] \in Seq(T)
  BY <1>2
<1>4. k # 1
  <2> SUFFICES ASSUME k = 1 PROVE FALSE
    OBVIOUS
  <2>1. F[k] = seqs[k]
    BY <1>3 DEF Collects
  <2>2. 1..k = {k}
    OBVIOUS
  <2>3. Gathers(T, F, seqs, k)
    BY <1>3, <2>1, <2>2 DEF Gathers
  <2>4. QED
    BY <1>2, <2>3
<1>5. k - 1 \in 1..n
  BY <1>3, <1>4
<1>6. Gathers(T, F, seqs, k - 1)
  <2>1. ~(k <= k - 1)
    BY <1>3
  <2>2. QED
    BY <1>2, <1>5, <2>1
<1> USE DEF Gathers
<1> DEFINE a == F[k - 1]
           b == seqs[k]
<1>7. /\ a \in Seq(T) /\ b \in Seq(T) /\ Len(a) \in Nat /\ Len(b) \in Nat
      /\ F[k] \in Seq(T) /\ DOMAIN F[k] = 1..(Len(a) + Len(b))
      /\ \A y \in 1..Len(a) : F[k][y] = a[y]
      /\ \A x \in 1..Len(b) : F[k][Len(a) + x] = b[x]
  <2>1. a \in Seq(T) /\ b \in Seq(T)
    BY <1>3, <1>6
  <2>2. F[k] = a \o b
    BY <1>3, <1>4 DEF Collects
  <2> HIDE DEF a, b
  <2>3. QED
    BY <2>1, <2>2, Concatenated
<1>8. ASSUME NEW i \in 1..k, NEW x \in DOMAIN seqs[i]
      PROVE  \E y \in DOMAIN F[k] : F[k][y] = seqs[i][x]
  <2>1. CASE i = k
    <3>1. x \in 1..Len(b)
      BY <1>7, <2>1
    <3>2. Len(a) + x \in 1..(Len(a) + Len(b))
      <4> HIDE DEF a, b
      <4>1. QED
        BY <1>7, <3>1
    <3>3. QED
      BY <1>7, <2>1, <3>1, <3>2
  <2>2. CASE i # k
    <3>1. i \in 1..k - 1
      BY <1>3, <2>2
    <3>2. PICK y \in DOMAIN a : a[y] = seqs[i][x]
      BY <1>6, <3>1
    <3>3. y \in 1..Len(a)
      BY <1>7
    <3>4. y \in 1..(Len(a) + Len(b))
      <4> HIDE DEF a, b
      <4>1. QED
        BY <1>7, <3>3
    <3>5. QED
      BY <1>7, <3>2, <3>3, <3>4
  <2>3. QED
    BY <2>1, <2>2
<1>9. Gathers(T, F, seqs, k)
  BY <1>7, <1>8
<1>10. QED
  BY <1>2, <1>9

-----------------------------------------------------------------------------
(* The fanned-out plan: its steps *)

\* The steps that write one function's module, and name no other.
ImplementSteps ==
    {s \in [kind : {"implement"}, fn : Functions, names : SUBSET Functions] :
        Cardinality(s.names) <= 1}

LEMMA NamedFunctions ==
    ASSUME NEW spec \in Specs
    PROVE  /\ spec \in FunctionSpec /\ spec.sig \in SignaturesIn(spec)
           /\ SignaturesIn(spec) \in SUBSET Functions /\ SignaturesIn(spec) \in SUBSET Nat
           /\ IsFiniteSet(SignaturesIn(spec))
<1>1. spec \in FunctionSpec /\ IsFiniteSet(spec.mentions)
  BY AgentCallBounds
<1>2. IsFiniteSet({spec.sig})
  BY FS_Singleton
<1>3. IsFiniteSet({spec.sig} \cup spec.mentions)
  BY <1>1, <1>2, FS_Union
<1>4. QED
  BY <1>1, <1>3, FanOutBounds DEF SignaturesIn, FunctionSpec

\* enforce_single_function leaves a step with one function as it is and makes
\* of any other one step for each function, that of its signature included.
LEMMA SplitImplement ==
    ASSUME NEW spec \in Specs
    PROVE  /\ Split(ImplementStep(spec)) \in Seq(ImplementSteps)
           /\ spec.sig = spec.name =>
                 \E x \in DOMAIN Split(ImplementStep(spec)) :
                    Split(ImplementStep(spec))[x].fn = spec.name
<1> DEFINE names == SignaturesIn(spec)
           n == Cardinality(names)
           step1 == ImplementStep(spec)
<1>1. /\ spec \in FunctionSpec /\ spec.sig \in names
      /\ names \in SUBSET Functions /\ names \in SUBSET Nat /\ IsFiniteSet(names)
  BY NamedFunctions
<1>2. n \in Nat
  BY <1>1, FS_CardinalityType
<1>3. step1.kind = "implement" /\ step1.fn = spec.name /\ step1.names = names
  BY DEF ImplementStep
<1>4. CASE n <= 1
  <2>1. Split(step1) = <<step1>>
    BY <1>3, <1>4 DEF Split
  <2>2. step1 \in ImplementSteps
    BY <1>1, <1>4 DEF ImplementSteps, ImplementStep, FunctionSpec
  <2>3. QED
    BY <1>3, <2>1, <2>2
<1>5. CASE ~(n <= 1)
  <2> DEFINE each == [i \in 1..n |-> [kind |-> "implement", fn |-> SortedNames(names)[i],
                                      names |-> {SortedNames(names)[i]}]]
  <2>1. Split(step1) = each
    BY <1>3, <1>5 DEF Split
  <2>2. /\ \A i \in 1..n : SortedNames(names)[i] \in Functions
        /\ \E i \in 1..n : SortedNames(names)[i] = spec.sig
    BY <1>1, SortedNamesCover
  <2>3. \A f : Cardinality({f}) = 1
    BY FS_Singleton
  <2>4. ASSUME NEW i \in 1..n PROVE each[i] \in ImplementSteps
    <3>1. /\ each[i].kind = "implement" /\ each[i].names = {each[i].fn}
          /\ each[i] \in [kind : {"implement"}, fn : Functions, names : SUBSET Functions]
      BY <2>2
    <3>2. Cardinality(each[i].names) = 1
      BY <2>3, <3>1
    <3>3. QED
      BY <3>1, <3>2 DEF ImplementSteps
  <2>5. each \in Seq(ImplementSteps) /\ DOMAIN each = 1..n
    BY <1>2, <2>4
  <2>6. QED
    BY <2>1, <2>2, <2>5
<1>6. QED
  BY <1>2, <1>4, <1>5

\* The plan before it is renumbered: single-function steps, then the assembly
\* step if there is one.
SplitSteps(list, word) ==
    LET steps == SpecsToSteps(list, word)
    IN  FlattenSeq([i \in DOMAIN steps |-> Split(steps[i])])

LEMMA PlanShape ==
    ASSUME NEW list \in Seq(Specs), list # << >>, NEW word
    PROVE  \E body \in Seq(ImplementSteps) :
              /\ \/ SplitSteps(list, word) = body
                 \/ SplitSteps(list, word) = body \o <<AssembleStep(word, list)>>
              /\ \A i \in DOMAIN list : list[i].sig = list[i].name =>
                    \E x \in DOMAIN body : body[x].fn = list[i].name
<1> DEFINE n == Len(list)
           assembly == AssembleStep(word, list)
           steps == SpecsToSteps(list, word)
           m == IF Assembles(list, word) THEN n + 1 ELSE n
           pieces == [i \in DOMAIN steps |-> Split(steps[i])]
<1>1. n \in Nat /\ n # 0 /\ DOMAIN list = 1..n /\ \A i \in 1..n : list[i] \in Specs
  BY EmptySeq
<1>2. /\ DOMAIN steps = 1..m
      /\ \A i \in 1..n : steps[i] = ImplementStep(list[i])
      /\ m = n + 1 => steps[m] = assembly
  <2> DEFINE first == [i \in DOMAIN list |-> ImplementStep(list[i])]
             T == {ImplementStep(list[i]) : i \in 1..n} \cup {assembly}
  <2>1. /\ first \in Seq(T) /\ Len(first) = n /\ DOMAIN first = 1..n
        /\ \A i \in 1..n : first[i] = ImplementStep(list[i])
    BY <1>1
  <2>2. <<assembly>> \in Seq(T) /\ << >> \in Seq(T) /\ Len(<<assembly>>) = 1
        /\ Len(<< >>) = 0 /\ <<assembly>>[1] = assembly
    OBVIOUS
  <2>3. steps = first \o (IF Assembles(list, word) THEN <<assembly>> ELSE << >>)
    BY DEF SpecsToSteps
  <2> HIDE DEF first, T, assembly, n
  <2>4. CASE Assembles(list, word)
    <3>1. steps = first \o <<assembly>> /\ m = n + 1
      BY <2>3, <2>4
    <3>2. DOMAIN steps = 1..(n + 1) /\ (\A i \in 1..n : steps[i] = first[i])
          /\ steps[n + 1] = <<assembly>>[1]
      <4>1. /\ DOMAIN (first \o <<assembly>>) = 1..(Len(first) + Len(<<assembly>>))
            /\ \A i \in 1..Len(first) : (first \o <<assembly>>)[i] = first[i]
            /\ \A i \in 1..Len(<<assembly>>) :
                  (first \o <<assembly>>)[Len(first) + i] = <<assembly>>[i]
        BY <2>1, <2>2, Concatenated
      <4>2. 1 \in 1..1
        OBVIOUS
      <4>3. QED
        BY <2>1, <2>2, <3>1, <4>1, <4>2
    <3>3. QED
      BY <2>1, <2>2, <3>1, <3>2
  <2>5. CASE ~Assembles(list, word)
    <3>1. steps = first /\ m = n
      BY <2>1, <2>3, <2>5, ConcatEmptySeq
    <3>2. QED
      BY <1>1, <2>1, <3>1
  <2>6. QED
    BY <2>4, <2>5
<1> HIDE DEF n
<1>3. m \in Nat /\ n \in 1..m /\ m # 0 /\ (m = n \/ m = n + 1)
  <2>1. CASE Assembles(list, word)
    BY <1>1, <2>1
  <2>2. CASE ~Assembles(list, word)
    BY <1>1, <2>2
  <2>3. QED
    BY <2>1, <2>2
<1> HIDE DEF steps, m
<1>4. pieces \in Seq({pieces[i] : i \in 1..m}) /\ Len(pieces) = m
  BY <1>2, <1>3
<1>5. \A i \in 1..n : pieces[i] = Split(ImplementStep(list[i]))
  BY <1>2, <1>3
<1>6. SplitSteps(list, word) = FlattenSeq(pieces)
  BY DEF SplitSteps, steps
<1>7. m = n + 1 => pieces[m] = <<assembly>>
  BY <1>2, <1>3 DEF Split, AssembleStep
<1> HIDE DEF pieces, assembly
<1>8. PICK F : Collects(F, pieces, m) /\ FlattenSeq(pieces) = F[m]
  <2>1. Len(pieces) # 0
    BY <1>3, <1>4
  <2>2. \E F : Collects(F, pieces, Len(pieces)) /\ FlattenSeq(pieces) = F[Len(pieces)]
    BY <1>4, <2>1, Flattening
  <2>3. QED
    BY <1>4, <2>2
<1>9. Collects(F, pieces, n) /\ (m = n + 1 => F[m] = F[n] \o pieces[m])
  <2>1. 1..n \subseteq 1..m
    BY <1>1, <1>3
  <2>2. m = n + 1 => m \in 1..m /\ m # 1 /\ m - 1 = n
    BY <1>1, <1>3
  <2>3. QED
    BY <1>8, <2>1, <2>2 DEF Collects
<1>10. \A i \in 1..n : /\ pieces[i] \in Seq(ImplementSteps)
                       /\ list[i].sig = list[i].name =>
                             \E x \in DOMAIN pieces[i] : pieces[i][x].fn = list[i].name
  BY <1>1, <1>5, SplitImplement
<1>11. /\ F[n] \in Seq(ImplementSteps)
       /\ \A i \in 1..n : \A x \in DOMAIN pieces[i] :
             \E y \in DOMAIN F[n] : F[n][y] = pieces[i][x]
  <2>1. n \in 1..n
    BY <1>1
  <2>2. \A i \in 1..n : pieces[i] \in Seq(ImplementSteps)
    BY <1>10
  <2>3. \A k \in 1..n : Gathers(ImplementSteps, F, pieces, k)
    <3>1. n \in Nat /\ Collects(F, pieces, n)
      BY <1>1, <1>9
    <3>2. QED
      BY <2>2, <3>1, CollectedElements
  <2>4. QED
    BY <2>1, <2>3 DEF Gathers
<1>12. \A i \in DOMAIN list : list[i].sig = list[i].name =>
          \E y \in DOMAIN F[n] : F[n][y].fn = list[i].name
  <2> SUFFICES ASSUME NEW i \in 1..n, list[i].sig = list[i].name
               PROVE  \E y \in DOMAIN F[n] : F[n][y].fn = list[i].name
    BY <1>1
  <2>1. PICK x \in DOMAIN pieces[i] : pieces[i][x].fn = list[i].name
    BY <1>10
  <2>2. PICK y \in DOMAIN F[n] : F[n][y] = pieces[i][x]
    BY <1>11
  <2>3. QED
    BY <2>1, <2>2
<1>13. FlattenSeq(pieces) = F[n] \/ FlattenSeq(pieces) = F[n] \o <<assembly>>
  BY <1>3, <1>7, <1>8, <1>9
<1>14. QED
  BY <1>6, <1>11, <1>12, <1>13 DEF assembly

\* What PlanIsFannedOut says of one request, list and plan.
Fits(requested, list, steps) ==
    /\ Len(steps) <= MaxPlanSteps
    /\ \A i \in DOMAIN steps :
          IF steps[i].kind = "assemble"
          THEN steps[i].depends_on = (DOMAIN steps) \ {i}
          ELSE Cardinality(steps[i].names) <= 1
    /\ \A r \in requested :
          (\A i \in DOMAIN list : list[i].name = r => list[i].sig = r) =>
             \E i \in DOMAIN steps : steps[i].kind = "implement" /\ steps[i].fn = r

\* fan_out: whatever list the model gave for whatever request.
LEMMA FannedOut ==
    ASSUME NEW requested, NEW list \in Seq(Specs), NEW word,
           NEW steps, steps = FanOut(requested, list, word), steps # Declined
    PROVE  Fits(requested, list, steps)
<1> DEFINE split == SplitSteps(list, word)
           assembly == AssembleStep(word, list)
<1>1. /\ steps = EnforceSingleFunction(SpecsToSteps(list, word))
      /\ list # << >> /\ AssertCoverage(requested, list) /\ Len(steps) <= MaxPlanSteps
  BY DEF FanOut
<1>2. steps = [i \in DOMAIN split |->
                 [kind |-> split[i].kind, fn |-> split[i].fn, names |-> split[i].names,
                  depends_on |-> IF split[i].kind = "assemble" THEN Implementing(split) ELSE {}]]
  BY <1>1 DEF EnforceSingleFunction, SplitSteps
<1>3. PICK body \in Seq(ImplementSteps) :
         /\ split = body \/ split = body \o <<assembly>>
         /\ \A i \in DOMAIN list : list[i].sig = list[i].name =>
               \E x \in DOMAIN body : body[x].fn = list[i].name
  BY <1>1, PlanShape
<1> DEFINE b == Len(body)
<1>4. assembly.kind = "assemble"
  BY DEF AssembleStep
<1> HIDE DEF split, assembly
<1>5. /\ b \in Nat /\ DOMAIN body = 1..b
      /\ \A i \in 1..b : body[i].kind = "implement" /\ Cardinality(body[i].names) <= 1
  <2>1. \A i \in 1..b : body[i] \in ImplementSteps
    OBVIOUS
  <2>2. QED
    BY <2>1 DEF ImplementSteps
<1>6. /\ DOMAIN split = 1..b \/ DOMAIN split = 1..(b + 1)
      /\ \A i \in 1..b : split[i] = body[i]
      /\ DOMAIN split = 1..(b + 1) => split[b + 1].kind = "assemble"
  <2>1. CASE split = body
    <3>1. 1..b # 1..(b + 1)
      <4>1. b + 1 \in 1..(b + 1) /\ b + 1 \notin 1..b
        BY <1>5
      <4>2. QED
        BY <4>1
    <3>2. QED
      BY <1>5, <2>1, <3>1
  <2>2. CASE split = body \o <<assembly>>
    <3> DEFINE T == ImplementSteps \cup {assembly}
    <3>1. body \in Seq(T) /\ <<assembly>> \in Seq(T) /\ Len(<<assembly>>) = 1
          /\ <<assembly>>[1] = assembly
      <4>1. \A i \in 1..b : body[i] \in T
        OBVIOUS
      <4>2. body \in Seq(T)
        BY <1>5, <4>1
      <4>3. QED
        BY <4>2
    <3> HIDE DEF T, b
    <3>2. /\ DOMAIN split = 1..(Len(body) + Len(<<assembly>>))
          /\ \A i \in 1..Len(body) : split[i] = body[i]
          /\ \A i \in 1..Len(<<assembly>>) : split[Len(body) + i] = <<assembly>>[i]
      BY <2>2, <3>1, Concatenated
    <3>3. 1 \in 1..1
      OBVIOUS
    <3>4. QED
      BY <1>4, <3>1, <3>2, <3>3 DEF b
  <2>3. QED
    BY <1>3, <2>1, <2>2
<1> HIDE DEF b
<1>7. Implementing(split) = 1..b
  BY <1>5, <1>6 DEF Implementing
<1>8. /\ DOMAIN steps = DOMAIN split
      /\ \A i \in DOMAIN split :
            /\ steps[i].kind = split[i].kind /\ steps[i].fn = split[i].fn
            /\ steps[i].names = split[i].names
            /\ split[i].kind = "assemble" => steps[i].depends_on = 1..b
  BY <1>2, <1>7
<1>9. ASSUME NEW i \in DOMAIN steps
      PROVE  IF steps[i].kind = "assemble"
             THEN steps[i].depends_on = (DOMAIN steps) \ {i}
             ELSE Cardinality(steps[i].names) <= 1
  <2>1. CASE i \in 1..b
    BY <1>5, <1>6, <1>8, <2>1
  <2>2. CASE i \notin 1..b
    <3>1. DOMAIN split = 1..(b + 1) /\ i = b + 1
      BY <1>5, <1>6, <1>8, <2>2
    <3>2. 1..b = (1..(b + 1)) \ {b + 1}
      BY <1>5
    <3>3. QED
      BY <1>6, <1>8, <3>1, <3>2
  <2>3. QED
    BY <2>1, <2>2
<1>10. ASSUME NEW r \in requested, \A i \in DOMAIN list : list[i].name = r => list[i].sig = r
       PROVE  \E i \in DOMAIN steps : steps[i].kind = "implement" /\ steps[i].fn = r
  <2>1. PICK i \in DOMAIN list : list[i].name = r
    BY <1>1 DEF AssertCoverage, NamesOf
  <2>2. PICK x \in DOMAIN body : body[x].fn = r
    BY <1>3, <1>10, <2>1
  <2>3. x \in 1..b /\ x \in DOMAIN split
    BY <1>5, <1>6
  <2>4. QED
    BY <1>5, <1>6, <1>8, <2>2, <2>3
<1>11. QED
  BY <1>1, <1>9, <1>10 DEF Fits

LEMMA PlanStep == PlanIsFannedOut /\ [AgentNext]_agentVars => PlanIsFannedOut'
<1> SUFFICES ASSUME PlanIsFannedOut, [AgentNext]_agentVars PROVE PlanIsFannedOut'
  OBVIOUS
<1>1. CASE plan' = plan
  BY <1>1 DEF PlanIsFannedOut
<1>2. CASE plan' = NoPlan
  BY <1>2 DEF PlanIsFannedOut, NoPlan
<1>3. CASE PlanFannedOut
  <2>1. PICK requested \in SUBSET Functions, list \in BoundedSeq(Specs, MaxFunctions),
             word \in Functions \cup {Package} :
           plan' = [requested |-> requested, list |-> list,
                    steps |-> FanOut(requested, list, word)]
    BY <1>3 DEF PlanFannedOut
  <2>2. list \in Seq(Specs)
    BY DEF BoundedSeq, SeqOf
  <2>3. plan'.requested = requested /\ plan'.list = list
        /\ plan'.steps = FanOut(requested, list, word)
    BY <2>1
  <2> DEFINE steps == plan'.steps
  <2>4. steps = FanOut(requested, list, word)
    BY <2>3
  <2> HIDE DEF steps
  <2>5. CASE steps = Declined
    BY <2>5 DEF steps, PlanIsFannedOut
  <2>6. CASE steps # Declined
    <3>1. Fits(requested, list, steps)
      BY <2>2, <2>4, <2>6, FannedOut
    <3>2. QED
      BY <2>3, <3>1 DEF steps, Fits, PlanIsFannedOut
  <2>7. QED
    BY <2>5, <2>6
<1>4. plan' = plan \/ plan' = NoPlan \/ PlanFannedOut
  BY DEF AgentNext, agentVars, Invoke, Close, ValidateInput, RequestFails, GrammarRejected,
         ForeignReply, InvalidReply, ValidReply, ApplyEdit, EditsDone
<1>5. QED
  BY <1>1, <1>2, <1>3, <1>4

-----------------------------------------------------------------------------
(* An invocation: the theorems *)

\* Every field of an invocation keeps its type, the attempt counter within the
\* configured maximum and the edits within the reply's list (Agent.execute).
THEOREM TypeCorrect == AgentSpec => []AgentTypeOK
<1>1. AgentInv => AgentTypeOK
  BY DEF AgentInv
<1>2. QED
  BY <1>1, AgentInvariant, PTL

\* The transport retries of with_retry around the repair rounds of
\* structured_generate around the JSON-mode fallback of _generate_raw: their
\* product bounds the requests of an invocation, for every limit.
THEOREM RequestsAreBounded == AgentSpec => []RequestsBounded
<1>1. AgentInv => RequestsBounded
  BY DEF AgentInv, RequestInv, RequestsBounded, PerAttempt
<1>2. QED
  BY <1>1, AgentInvariant, PTL

\* A provider shared by many agents reports NATIVE decoding only while no schema
\* of its has been refused (ModelProvider.structured_mode).
THEOREM NativeModeIsEarned == AgentSpec => []NativeIsEarned
<1>1. AgentInv => NativeIsEarned
  BY DEF AgentInv, ProviderInv, NativeIsEarned, Earned
<1>2. QED
  BY <1>1, AgentInvariant, PTL

\* A retry never runs over a workspace the coder has already written to, and
\* the response of an invocation that wrote is a SUCCESS (Agent.execute).
THEOREM WritesAreNotRepeated == AgentSpec => []WrittenOnceAndReported
<1>1. AgentInv => WrittenOnceAndReported
  BY DEF AgentInv, WriteInv, WrittenOnceAndReported
<1>2. QED
  BY <1>1, AgentInvariant, PTL

\* check_preserved_symbols, edit after edit and invocation after invocation:
\* what a readable file has defined stays defined or was declared for removal,
\* unless a write was torn.
THEOREM DefinitionsAreKept == AgentSpec => []DefinitionsKept
<1>1. AgentInv => DefinitionsKept
  BY DEF AgentInv, FileInv, DefinitionsKept
<1>2. QED
  BY <1>1, AgentInvariant, PTL

\* Whatever functions a model lists for a request, the plan fan_out makes of them
\* fits MAX_PLAN_STEPS, has one function to a step, an assembly step that waits
\* for all others, and every requested function that its own signature names.
THEOREM FanOutKeepsItsPromise == AgentSpec => []PlanIsFannedOut
<1>1. AgentInit => PlanIsFannedOut
  BY DEF AgentInit, PlanIsFannedOut, NoPlan
<1>2. PlanIsFannedOut /\ [AgentNext]_agentVars => PlanIsFannedOut'
  BY PlanStep
<1>3. QED
  BY <1>1, <1>2, PTL DEF AgentSpec

-----------------------------------------------------------------------------
(* The gateway: the inductive invariant *)

\* Until a call has passed its tool's checks it has changed nothing, and it has
\* no outcome before it returns.
InertInv(a) ==
    /\ pc[a] \in Registered => ~touched[a]
    /\ pc[a] # "idle" => outcome[a] = "none"
    /\ outcome[a] = "denied" => ~touched[a]

Writable(a, path) == InScope(a, path, "WRITE") /\ ~IsProtected(path)

\* Only who was granted git.commit gets to commit, and the file about to be
\* opened is one the agent may write.
CallInv(a) ==
    /\ pc[a] = "git.commit" => MayUseTool(a, "git.commit")
    /\ pc[a] = "open" => job[a] \in Files /\ Writable(a, job[a])
    /\ \A content \in shown[a] :
          content[1] # "git.diff" => InScope(a, content[2], "READ") /\ ~IsProtected(content[2])

\* An agent staged this file under a path it may write.
StagedInScope(change) ==
    /\ InScope(change[2], change[1], "WRITE")
    /\ \E raw \in Raws : MayResolve(change[2], raw, "WRITE") /\ IsPrefix(raw.path, change[1])

ScopeInv ==
    /\ dirty \subseteq Files
    /\ \A f \in Files : disk[f] \in Agents => Writable(disk[f], f)
    /\ \A change \in staged : StagedInScope(change)
    /\ \A i \in 1..Len(commits) : \A change \in commits[i].changes : StagedInScope(change)

\* History: a commit has every ancestor of its ancestors, and while HEAD has
\* stayed on the branches, every commit is on one of them.
RepoInv ==
    /\ \E S : commits \in Seq(S)
    /\ head \in [branch : DOMAIN branches \cup {"detached"}, at : 0..Len(commits)]
    /\ "detached" \notin DOMAIN branches
    /\ \A b \in DOMAIN branches : branches[b] \in 0..Len(commits)
    /\ \A n \in 1..Len(commits) :
          /\ commits[n].ancestors \subseteq 0..n
          /\ \A m \in commits[n].ancestors : Ancestors(m) \subseteq commits[n].ancestors
    /\ ~detached => head.branch # "detached"
    /\ CommittedWorkKept

TypeInv ==
    /\ DOMAIN pc = Agents /\ DOMAIN job = Agents /\ DOMAIN outcome = Agents
    /\ DOMAIN touched = Agents /\ DOMAIN shown = Agents /\ DOMAIN disk = Files

IInv ==
    /\ TypeInv
    /\ \A a \in Agents : InertInv(a)
    /\ \A a \in Agents : CallInv(a)
    /\ ScopeInv
    /\ RepoInv

-----------------------------------------------------------------------------
(* A scope over a directory is a scope over the files beneath it *)

LEMMA PrefixTransitive ==
    ASSUME NEW S, NEW r \in Seq(S), NEW s \in Seq(S), NEW t \in Seq(S),
           IsPrefix(r, s), IsPrefix(s, t)
    PROVE  IsPrefix(r, t)
<1>1. /\ Len(r) \in Nat /\ Len(s) \in Nat /\ Len(t) \in Nat
      /\ Len(r) <= Len(s) /\ Len(s) <= Len(t) /\ Len(r) <= Len(t)
  BY DEF IsPrefix
<1>2. \A i \in 1..Len(s) : s[i] = t[i]
  <2>1. \A i \in 1..Len(s) : SubSeq(s, 1, Len(s))[i] = s[i] /\ SubSeq(t, 1, Len(s))[i] = t[i]
    BY <1>1
  <2>2. QED
    BY <2>1 DEF IsPrefix
<1>3. SubSeq(s, 1, Len(r)) = SubSeq(t, 1, Len(r))
  <2>1. \A i \in 1..Len(r) : i \in 1..Len(s)
    BY <1>1
  <2>2. /\ SubSeq(s, 1, Len(r)) = [i \in 1..Len(r) |-> s[i]]
        /\ SubSeq(t, 1, Len(r)) = [i \in 1..Len(r) |-> t[i]]
    BY <1>1
  <2>3. QED
    BY <1>2, <2>1, <2>2
<1>4. QED
  BY <1>1, <1>3 DEF IsPrefix

LEMMA ScopeCoversTree ==
    ASSUME NEW a \in Agents, MayUseTool(a, "git.commit"),
           NEW raw \in Raws, NEW f \in Files, IsPrefix(raw.path, f),
           InScope(a, raw.path, "WRITE")
    PROVE  InScope(a, f, "WRITE")
<1>1. PICK pattern \in WritePatterns[a] : Allows(raw.path, pattern)
  BY DEF InScope
<1>2. CASE pattern.kind \in {"tree", "name"} /\ IsPrefix(pattern.base, raw.path)
  <2> DEFINE S == Range(pattern.base) \cup Range(raw.path) \cup Range(f)
  <2>1. pattern.base \in Seq(S) /\ raw.path \in Seq(S) /\ f \in Seq(S)
    <3>1. /\ pattern.base \in Seq(Range(pattern.base)) /\ raw.path \in Seq(Range(raw.path))
          /\ f \in Seq(Range(f))
      BY <1>1, Names
    <3>2. QED
      BY <3>1
  <2>2. IsPrefix(pattern.base, f)
    BY <1>2, <2>1, PrefixTransitive
  <2>3. QED
    BY <1>1, <1>2, <2>2 DEF InScope, Allows
<1>3. CASE pattern.kind = "all"
  BY <1>1, <1>3 DEF InScope, Allows
<1>4. CASE pattern.kind \in {"last", "below"} /\ FnMatch(raw.path, pattern)
  <2>1. raw.path = f
    BY <1>1, <1>4, WildcardsNameFiles
  <2>2. QED
    BY <2>1
<1>5. QED
  BY <1>1, <1>2, <1>3, <1>4 DEF Allows

-----------------------------------------------------------------------------
(* What a step leaves alone *)

\* Only call a moves.
Others(a) ==
    \A b \in Agents \ {a} :
        /\ pc'[b] = pc[b] /\ job'[b] = job[b] /\ outcome'[b] = outcome[b]
        /\ touched'[b] = touched[b] /\ shown'[b] = shown[b]

LEMMA OneCall ==
    ASSUME IInv, NEW a \in Agents, Others(a), TypeInv',
           InertInv(a)', CallInv(a)', ScopeInv', RepoInv'
    PROVE  IInv'
<1>1. ASSUME NEW b \in Agents \ {a}
      PROVE  InertInv(b)' /\ CallInv(b)'
  BY <1>1 DEF IInv, Others, InertInv, CallInv
<1>2. QED
  BY <1>1 DEF IInv

LEMMA SameFiles ==
    ASSUME ScopeInv, UNCHANGED <<disk, dirty, staged, commits>>
    PROVE  ScopeInv'
BY DEF ScopeInv

LEMMA SameHistory ==
    ASSUME RepoInv, UNCHANGED <<commits, branches, head, detached>>
    PROVE  RepoInv'
BY DEF RepoInv, CommittedWorkKept, Ancestors

\* The steps that follow a tool's checks.
Later == {"open", "communicate", "list", "terminate", "kill", "drain", "pending", "commit", "listing"}

LEMMA StepNames ==
    /\ "idle" \notin Registered /\ "idle" \notin Later
    /\ \A s \in Later : s \notin Registered
BY DEF Later, Registered, FilesystemTools, GitTools

\* A call that ends without having changed anything in this step.
LEMMA EndsKeeps ==
    ASSUME IInv, NEW a \in Agents, NEW how \in {"ok", "denied", "error"},
           how = "denied" => pc[a] \in Registered,
           Ends(a, how)
    PROVE  IInv'
<1>1. /\ Others(a) /\ TypeInv' /\ pc'[a] = "idle" /\ outcome'[a] = how
      /\ touched' = touched /\ shown' = shown
  BY DEF IInv, TypeInv, Ends, Return, Others, fsVars
<1>2. InertInv(a)'
  BY <1>1, StepNames DEF IInv, InertInv
<1>3. CallInv(a)'
  BY <1>1 DEF IInv, CallInv
<1>4. ScopeInv' /\ RepoInv'
  BY SameFiles, SameHistory DEF IInv, Ends, fsVars, repoVars
<1>5. QED
  BY <1>1, <1>2, <1>3, <1>4, OneCall

\* A call that goes on to its next step without having changed anything.
LEMMA GoesKeeps ==
    ASSUME IInv, NEW a \in Agents, NEW to \in {"open", "pending", "commit"},
           pc[a] # "idle", GoTo(a, to),
           to = "open" => job'[a] \in Files /\ Writable(a, job'[a]),
           DOMAIN job' = Agents, \A b \in Agents \ {a} : job'[b] = job[b],
           UNCHANGED <<touched, shown, fsVars, repoVars>>
    PROVE  IInv'
<1>1. /\ Others(a) /\ TypeInv' /\ pc'[a] = to /\ outcome'[a] = outcome[a]
      /\ touched' = touched /\ shown' = shown
  BY DEF IInv, TypeInv, GoTo, Others, fsVars
<1>2. InertInv(a)'
  BY <1>1, StepNames DEF IInv, InertInv, Later
<1>3. CallInv(a)'
  BY <1>1 DEF IInv, CallInv, Writable
<1>4. ScopeInv' /\ RepoInv'
  BY SameFiles, SameHistory DEF IInv, fsVars, repoVars
<1>5. QED
  BY <1>1, <1>2, <1>3, <1>4, OneCall

LEMMA ShowsKeeps ==
    ASSUME IInv, NEW a \in Agents, NEW paths, Shows(a, paths),
           pc[a] # "git.diff" => \A f \in paths : InScope(a, f, "READ") /\ ~IsProtected(f)
    PROVE  IInv'
<1>1. /\ Others(a) /\ TypeInv' /\ pc'[a] = "idle" /\ outcome'[a] = "ok" /\ touched' = touched
      /\ shown'[a] = {pc[a]} \X paths
  BY DEF IInv, TypeInv, Shows, Return, Others, fsVars
<1>2. InertInv(a)'
  BY <1>1, StepNames DEF IInv, InertInv
<1>3. CallInv(a)'
  <2>1. \A content \in shown'[a] : content[1] = pc[a] /\ content[2] \in paths
    BY <1>1
  <2>2. QED
    BY <1>1, <2>1 DEF IInv, CallInv
<1>4. ScopeInv' /\ RepoInv'
  BY SameFiles, SameHistory DEF IInv, Shows, fsVars, repoVars
<1>5. QED
  BY <1>1, <1>2, <1>3, <1>4, OneCall

\* A git command that had its effect: the call goes on, or its budget ran out.
LEMMA CommandKeeps ==
    ASSUME IInv, NEW a \in Agents, NEW next \in {"pending", "listing"},
           pc[a] \in {"git.branch", "git.worktree", "git.commit", "commit"},
           GoTo(a, next) \/ Return(a, "error"), InRepository(a), ScopeInv', RepoInv',
           DOMAIN disk' = Files
    PROVE  IInv'
<1>1. /\ Others(a) /\ TypeInv' /\ shown' = shown
      /\ \/ pc'[a] = next /\ outcome'[a] = outcome[a]
         \/ pc'[a] = "idle" /\ outcome'[a] = "error"
  BY DEF IInv, TypeInv, GoTo, Return, InRepository, Touch, Others
<1>2. InertInv(a)'
  BY <1>1, StepNames DEF IInv, InertInv, Later
<1>3. CallInv(a)'
  BY <1>1 DEF IInv, CallInv
<1>4. QED
  BY <1>1, <1>2, <1>3, OneCall

-----------------------------------------------------------------------------
(* Every step keeps the invariant: execute and filesystem.* *)

LEMMA ExecuteStep ==
    ASSUME IInv, NEW a \in Agents, NEW tool, Execute(a, tool)
    PROVE  IInv'
<1>1. /\ pc[a] = "idle" /\ touched' = [touched EXCEPT ![a] = FALSE]
      /\ shown' = [shown EXCEPT ![a] = {}] /\ UNCHANGED <<fsVars, repoVars>>
  BY DEF Execute, Running
<1>2. \/ Return(a, "error") \/ Return(a, "denied")
      \/ /\ tool \in Registered /\ MayUseTool(a, tool) /\ pc' = [pc EXCEPT ![a] = tool]
         /\ outcome' = [outcome EXCEPT ![a] = "none"] /\ UNCHANGED job
  <2>1. CASE tool \notin Registered
    BY <2>1 DEF Execute
  <2>2. CASE tool \in Registered /\ ~MayUseTool(a, tool)
    BY <2>2 DEF Execute
  <2>3. CASE tool \in Registered /\ MayUseTool(a, tool)
    BY <2>3 DEF Execute, InvalidArguments
  <2>4. QED
    BY <2>1, <2>2, <2>3
<1>3. /\ Others(a) /\ TypeInv' /\ ~touched'[a] /\ shown'[a] = {}
      /\ \/ pc'[a] = "idle"
         \/ /\ pc'[a] = tool /\ tool \in Registered /\ MayUseTool(a, tool)
            /\ outcome'[a] = "none"
  BY <1>1, <1>2 DEF IInv, TypeInv, Return, Others, fsVars
<1>4. InertInv(a)'
  BY <1>3 DEF InertInv
<1>5. CallInv(a)'
  <2>1. pc'[a] # "open"
    BY <1>3, StepNames DEF Later
  <2>2. QED
    BY <1>3, <2>1 DEF CallInv
<1>6. ScopeInv' /\ RepoInv'
  BY <1>1, SameFiles, SameHistory DEF IInv, fsVars, repoVars
<1>7. QED
  BY <1>3, <1>4, <1>5, <1>6, OneCall

LEMMA ReadStep ==
    ASSUME IInv, NEW a \in Agents, Read(a) \/ Search(a) \/ GitShow(a) \/ GitRead(a)
    PROVE  IInv'
<1>1. pc[a] \in Registered
  BY DEF Read, Search, GitShow, GitRead, Running, Registered, FilesystemTools, GitTools
<1>2. \/ \E how \in {"ok", "denied", "error"} : Ends(a, how)
      \/ \E paths : /\ Shows(a, paths)
                    /\ pc[a] # "git.diff" =>
                          \A f \in paths : InScope(a, f, "READ") /\ ~IsProtected(f)
  <2>1. CASE Read(a)
    <3>1. PICK raw \in Raws :
            \/ Ends(a, "error") \/ Ends(a, "denied")
            \/ Shows(a, {raw.path}) /\ MayResolve(a, raw, "READ")
      BY <2>1 DEF Read
    <3>2. QED
      BY <3>1 DEF MayResolve, Resolvable
  <2>2. CASE Search(a)
    <3>1. PICK raw \in Raws :
            \/ Ends(a, "error") \/ Ends(a, "denied")
            \/ Shows(a, {f \in Files : Exists(f) /\ IsPrefix(raw.path, f) /\ IsVisible(a, f)})
      BY <2>2 DEF Search
    <3>2. QED
      BY <3>1 DEF IsVisible
  <2>3. CASE GitShow(a)
    <3>1. PICK raw \in Raws :
            \/ Ends(a, "error") \/ Ends(a, "denied") \/ Shows(a, {})
            \/ Shows(a, {raw.path}) /\ MayResolve(a, raw, "READ")
      BY <2>3 DEF GitShow
    <3>2. QED
      BY <3>1 DEF MayResolve, Resolvable
  <2>4. CASE GitRead(a)
    BY <2>4 DEF GitRead
  <2>5. QED
    BY <2>1, <2>2, <2>3, <2>4
<1>3. QED
  BY <1>1, <1>2, EndsKeeps, ShowsKeeps

LEMMA WriteCheckStep ==
    ASSUME IInv, NEW a \in Agents, WriteCheck(a) \/ PatchRead(a)
    PROVE  IInv'
<1>1. pc[a] \in Registered /\ pc[a] # "idle"
  BY DEF WriteCheck, PatchRead, Running, Registered, FilesystemTools
<1>2. PICK raw \in Raws :
        \/ Ends(a, "error") \/ Ends(a, "denied")
        \/ /\ MayResolve(a, raw, "WRITE") /\ raw.path \in Files /\ GoTo(a, "open")
           /\ job' = [job EXCEPT ![a] = raw.path]
           /\ UNCHANGED <<touched, budget, shown, fsVars, repoVars, procVars>>
  <2>1. CASE WriteCheck(a)
    BY <2>1 DEF WriteCheck
  <2>2. CASE PatchRead(a)
    BY <2>2 DEF PatchRead
  <2>3. QED
    BY <2>1, <2>2
<1>3. CASE Ends(a, "error") \/ Ends(a, "denied")
  BY <1>1, <1>3, EndsKeeps
<1>4. CASE /\ MayResolve(a, raw, "WRITE") /\ raw.path \in Files /\ GoTo(a, "open")
           /\ job' = [job EXCEPT ![a] = raw.path]
           /\ UNCHANGED <<touched, budget, shown, fsVars, repoVars, procVars>>
  <2>1. /\ job'[a] \in Files /\ Writable(a, job'[a])
        /\ DOMAIN job' = Agents /\ \A b \in Agents \ {a} : job'[b] = job[b]
    BY <1>4 DEF IInv, TypeInv, MayResolve, Resolvable, Writable
  <2>2. QED
    BY <1>1, <1>4, <2>1, GoesKeeps
<1>5. QED
  BY <1>2, <1>3, <1>4

LEMMA OpenStep ==
    ASSUME IInv, NEW a \in Agents, OpenAndWrite(a) \/ CannotOpen(a)
    PROVE  IInv'
<1>1. CASE CannotOpen(a)
  BY <1>1, EndsKeeps DEF CannotOpen, Running
<1>2. CASE OpenAndWrite(a)
  <2>1. /\ pc[a] = "open" /\ job[a] \in Files /\ Writable(a, job[a])
        /\ disk' = [disk EXCEPT ![job[a]] = a] /\ dirty' = dirty \cup {job[a]}
        /\ UNCHANGED <<shown, repoVars>>
    BY <1>2 DEF OpenAndWrite, Running, IInv, CallInv
  <2>2. /\ Others(a) /\ TypeInv' /\ shown' = shown
        /\ pc'[a] = "idle" /\ outcome'[a] \in {"ok", "error"}
    BY <1>2 DEF OpenAndWrite, IInv, TypeInv, Return, Touch, Others
  <2>3. InertInv(a)'
    BY <2>2, StepNames DEF InertInv
  <2>4. CallInv(a)'
    BY <2>2 DEF IInv, CallInv
  <2>5. ScopeInv'
    BY <2>1 DEF IInv, ScopeInv, TypeInv, Writable, repoVars
  <2>6. RepoInv'
    BY <2>1, SameHistory DEF IInv, repoVars
  <2>7. QED
    BY <2>2, <2>3, <2>4, <2>5, <2>6, OneCall
<1>3. QED
  BY <1>1, <1>2

-----------------------------------------------------------------------------
(* Every step keeps the invariant: shell.run *)

LEMMA StartProgramStep ==
    ASSUME IInv, NEW a \in Agents, StartProgram(a)
    PROVE  IInv'
<1>1. pc[a] \in Registered /\ pc[a] # "idle"
  BY DEF StartProgram, Running, Registered
<1>2. CASE Ends(a, "error") \/ Ends(a, "denied")
  BY <1>1, <1>2, EndsKeeps
<1>3. CASE ~(Ends(a, "error") \/ Ends(a, "denied"))
  <2>1. Touch(a) /\ GoTo(a, "communicate") /\ UNCHANGED <<job, shown, fsVars, repoVars>>
    BY <1>3 DEF StartProgram
  <2>2. /\ Others(a) /\ TypeInv' /\ pc'[a] = "communicate" /\ outcome'[a] = outcome[a]
        /\ shown' = shown
    BY <2>1 DEF IInv, TypeInv, Touch, GoTo, Others, fsVars
  <2>3. InertInv(a)' /\ CallInv(a)'
    BY <1>1, <2>2, StepNames DEF IInv, InertInv, CallInv, Later
  <2>4. ScopeInv' /\ RepoInv'
    BY <2>1, SameFiles, SameHistory DEF IInv, fsVars, repoVars
  <2>5. QED
    BY <2>2, <2>3, <2>4, OneCall
<1>4. QED
  BY <1>2, <1>3

LEMMA TerminationStep ==
    ASSUME IInv, NEW a \in Agents,
           BudgetExpires(a) \/ ListTree(a) \/ TerminateTree(a) \/ KillSurvivors(a)
    PROVE  IInv'
<1> DEFINE stages == {"communicate", "list", "terminate", "kill", "drain"}
<1>1. PICK from \in stages, to \in stages : Stage(a, from, to)
  BY DEF BudgetExpires, ListTree, TerminateTree, KillSurvivors
<1>2. /\ pc[a] = from /\ pc'[a] = to /\ Others(a) /\ TypeInv'
      /\ UNCHANGED <<outcome, touched, shown, fsVars, repoVars>>
  BY <1>1 DEF Stage, Running, GoTo, IInv, TypeInv, Others, fsVars
<1>3. InertInv(a)' /\ CallInv(a)'
  BY <1>2, StepNames DEF IInv, InertInv, CallInv, Later
<1>4. ScopeInv' /\ RepoInv'
  BY <1>2, SameFiles, SameHistory DEF IInv, fsVars, repoVars
<1>5. QED
  BY <1>2, <1>3, <1>4, OneCall

LEMMA CallEndsStep ==
    ASSUME IInv, NEW a \in Agents, Communicate(a) \/ Drain(a) \/ Listing(a)
    PROVE  IInv'
<1>1. Ends(a, "ok") \/ Ends(a, "error")
  BY DEF Communicate, Drain, Listing
<1>2. QED
  BY <1>1, EndsKeeps

\* A program's processes come and go beside every call, its own included.
LEMMA ProcessStep ==
    ASSUME IInv, NEW a \in Agents, Spawn(a) \/ ProcessEnds(a)
    PROVE  IInv'
<1>1. UNCHANGED <<pc, job, outcome, touched, shown, fsVars, repoVars>>
  BY DEF Spawn, ProcessEnds, End, Quiet
<1>2. TypeInv' /\ \A b \in Agents : InertInv(b)' /\ CallInv(b)'
  BY <1>1 DEF IInv, TypeInv, InertInv, CallInv, fsVars
<1>3. ScopeInv' /\ RepoInv'
  BY <1>1, SameFiles, SameHistory DEF IInv, fsVars, repoVars
<1>4. QED
  BY <1>2, <1>3 DEF IInv

LEMMA ProgramWritesStep ==
    ASSUME IInv, NEW a \in Agents, ProgramWrites(a)
    PROVE  IInv'
<1>1. PICK f \in Files : /\ disk' = [disk EXCEPT ![f] = "program"]
                         /\ dirty' = dirty \cup {f}
  BY DEF ProgramWrites
<1>2. UNCHANGED <<pc, job, outcome, touched, shown, repoVars>>
  BY DEF ProgramWrites, Quiet
<1>3. TypeInv' /\ \A b \in Agents : InertInv(b)' /\ CallInv(b)'
  BY <1>1, <1>2 DEF IInv, TypeInv, InertInv, CallInv
<1>4. ScopeInv'
  BY <1>1, <1>2, Names DEF IInv, TypeInv, ScopeInv, repoVars
<1>5. RepoInv'
  BY <1>2, SameHistory DEF IInv, repoVars
<1>6. QED
  BY <1>3, <1>4, <1>5 DEF IInv

-----------------------------------------------------------------------------
(* Every step keeps the invariant: git.* *)

LEMMA History ==
    ASSUME RepoInv
    PROVE  /\ Len(commits) \in Nat /\ HeadCommit \in 0..Len(commits)
           /\ \A n \in 0..Len(commits) :
                 /\ Ancestors(n) \subseteq 0..n
                 /\ \A m \in Ancestors(n) : Ancestors(m) \subseteq Ancestors(n)
<1>1. Len(commits) \in Nat
  BY DEF RepoInv
<1>2. HeadCommit \in 0..Len(commits)
  BY <1>1 DEF RepoInv, HeadCommit
<1>3. ASSUME NEW n \in 0..Len(commits)
      PROVE  /\ Ancestors(n) \subseteq 0..n
             /\ \A m \in Ancestors(n) : Ancestors(m) \subseteq Ancestors(n)
  <2>1. CASE n = 0
    BY <2>1 DEF Ancestors
  <2>2. CASE n # 0
    <3>1. n \in 1..Len(commits) /\ Ancestors(n) = commits[n].ancestors
      BY <1>1, <2>2 DEF Ancestors
    <3>2. QED
      BY <3>1 DEF RepoInv
  <2>3. QED
    BY <2>1, <2>2
<1>4. QED
  BY <1>1, <1>2, <1>3

\* A branch more, or a checkout: no commit loses its branch.
LEMMA BranchesGrow ==
    ASSUME RepoInv, UNCHANGED commits, detached => detached',
           DOMAIN branches \subseteq DOMAIN branches', "detached" \notin DOMAIN branches',
           \A b \in DOMAIN branches : branches'[b] = branches[b],
           \A b \in DOMAIN branches' : branches'[b] \in 0..Len(commits),
           head' \in [branch : DOMAIN branches' \cup {"detached"}, at : 0..Len(commits)],
           ~detached' => head'.branch # "detached"
    PROVE  RepoInv'
<1>1. CommittedWorkKept'
  BY DEF RepoInv, CommittedWorkKept, Ancestors
<1>2. QED
  BY <1>1 DEF RepoInv, Ancestors

LEMMA Checkout ==
    ASSUME IInv, NEW n, Materialize(n), UNCHANGED <<dirty, staged, commits>>
    PROVE  ScopeInv' /\ DOMAIN disk' = Files
<1>1. /\ DOMAIN disk' = Files
      /\ \A f \in Files : disk'[f] = disk[f] \/ disk'[f] \in {"git", "absent"}
  BY DEF Materialize
<1>2. QED
  BY <1>1, Names DEF IInv, ScopeInv

LEMMA BranchCreateStep ==
    ASSUME IInv, NEW a \in Agents, BranchCreate(a)
    PROVE  IInv'
<1>1. pc[a] = "git.branch" /\ pc[a] \in Registered
  BY DEF BranchCreate, Running, Registered, GitTools
<1>2. CASE Ends(a, "error") \/ Ends(a, "denied")
  BY <1>1, <1>2, EndsKeeps
<1>3. CASE ~(Ends(a, "error") \/ Ends(a, "denied"))
  <2>1. PICK name \in BranchNames, start \in 0..Len(commits), checkout \in BOOLEAN :
          /\ name \notin DOMAIN branches
          /\ branches' = Bind(branches, name, start)
          /\ IF checkout
             THEN head' = [branch |-> name, at |-> 0] /\ Materialize(start)
             ELSE UNCHANGED <<head, disk>>
          /\ InRepository(a) /\ UNCHANGED <<dirty, staged, commits, worktrees, detached>>
          /\ GoTo(a, "listing") \/ Return(a, "error")
    BY <1>3 DEF BranchCreate, Command
  <2>2. /\ DOMAIN branches' = DOMAIN branches \cup {name} /\ branches'[name] = start
        /\ \A b \in DOMAIN branches : branches'[b] = branches[b]
    BY <2>1 DEF Bind
  <2>3. head' \in [branch : DOMAIN branches', at : 0..Len(commits)] \/ UNCHANGED head
    BY <2>1, <2>2, History DEF IInv
  <2>4. RepoInv'
    <3>1. /\ DOMAIN branches \subseteq DOMAIN branches' /\ "detached" \notin DOMAIN branches'
          /\ \A b \in DOMAIN branches' : branches'[b] \in 0..Len(commits)
      BY <2>1, <2>2, Names DEF IInv, RepoInv
    <3>2. /\ head' \in [branch : DOMAIN branches' \cup {"detached"}, at : 0..Len(commits)]
          /\ ~detached' => head'.branch # "detached"
      BY <2>1, <2>3, <3>1 DEF IInv, RepoInv
    <3>3. QED
      BY <2>1, <2>2, <3>1, <3>2, BranchesGrow DEF IInv
  <2>5. ScopeInv' /\ DOMAIN disk' = Files
    <3>1. CASE checkout
      BY <2>1, <3>1, Checkout
    <3>2. CASE ~checkout
      BY <2>1, <3>2, SameFiles DEF IInv, TypeInv
    <3>3. QED
      BY <3>1, <3>2
  <2>6. QED
    BY <1>1, <2>1, <2>4, <2>5, CommandKeeps
<1>4. QED
  BY <1>2, <1>3

LEMMA BranchCheckoutStep ==
    ASSUME IInv, NEW a \in Agents, BranchCheckout(a)
    PROVE  IInv'
<1>1. pc[a] = "git.branch"
  BY DEF BranchCheckout, Running
<1>2. CASE Ends(a, "error")
  BY <1>1, <1>2, EndsKeeps
<1>3. CASE \E f \in StagedPaths \cup Tracked(HeadCommit) :
             /\ disk' = [disk EXCEPT ![f] = "git"] /\ dirty' = dirty \ {f}
             /\ InRepository(a) /\ UNCHANGED repoVars
             /\ GoTo(a, "listing") \/ Return(a, "error")
  <2>1. PICK f : /\ disk' = [disk EXCEPT ![f] = "git"] /\ dirty' = dirty \ {f}
                 /\ InRepository(a) /\ UNCHANGED repoVars
                 /\ GoTo(a, "listing") \/ Return(a, "error")
    BY <1>3
  <2>2. ScopeInv' /\ DOMAIN disk' = Files
    BY <2>1, Names DEF IInv, TypeInv, ScopeInv, repoVars
  <2>3. RepoInv'
    BY <2>1, SameHistory DEF IInv, repoVars
  <2>4. QED
    BY <1>1, <2>1, <2>2, <2>3, CommandKeeps
<1>4. CASE \E to \in [branch : DOMAIN branches, at : {0}] \cup [branch : {"detached"}, at : 0..Len(commits)] :
             /\ head' = to /\ detached' = (detached \/ to.branch = "detached")
             /\ Materialize(IF to.branch = "detached" THEN to.at ELSE branches[to.branch])
             /\ InRepository(a) /\ UNCHANGED <<dirty, staged, commits, branches, worktrees>>
             /\ GoTo(a, "listing") \/ Return(a, "error")
  <2>1. PICK to \in [branch : DOMAIN branches, at : {0}] \cup [branch : {"detached"}, at : 0..Len(commits)] :
          /\ head' = to /\ detached' = (detached \/ to.branch = "detached")
          /\ Materialize(IF to.branch = "detached" THEN to.at ELSE branches[to.branch])
          /\ InRepository(a) /\ UNCHANGED <<dirty, staged, commits, branches, worktrees>>
          /\ GoTo(a, "listing") \/ Return(a, "error")
    BY <1>4
  <2>2. ScopeInv' /\ DOMAIN disk' = Files
    BY <2>1, Checkout
  <2>3. to \in [branch : DOMAIN branches \cup {"detached"}, at : 0..Len(commits)]
    BY History DEF IInv
  <2>4. RepoInv'
    <3>1. ~detached' => ~detached /\ head'.branch # "detached"
      BY <2>1
    <3>2. QED
      BY <2>1, <2>3, <3>1, BranchesGrow DEF IInv, RepoInv
  <2>5. QED
    BY <1>1, <2>1, <2>2, <2>4, CommandKeeps
<1>5. QED
  BY <1>2, <1>3, <1>4 DEF BranchCheckout, Command

\* git branch -d takes only a branch whose commits HEAD has.
LEMMA BranchDeleteStep ==
    ASSUME IInv, NEW a \in Agents, BranchDelete(a)
    PROVE  IInv'
<1>1. pc[a] = "git.branch" /\ pc[a] \in Registered
  BY DEF BranchDelete, Running, Registered, GitTools
<1>2. CASE Ends(a, "error") \/ Ends(a, "denied")
  BY <1>1, <1>2, EndsKeeps
<1>3. CASE ~(Ends(a, "error") \/ Ends(a, "denied"))
  <2>1. PICK name \in BranchNames :
          /\ Deletable(name)
          /\ branches' = [b \in DOMAIN branches \ {name} |-> branches[b]]
          /\ InRepository(a) /\ UNCHANGED <<fsVars, staged, commits, head, worktrees, detached>>
          /\ GoTo(a, "listing") \/ Return(a, "error")
    BY <1>3 DEF BranchDelete, Command
  <2>2. /\ RepoInv /\ name # head.branch /\ name \in DOMAIN branches
        /\ branches[name] \in Ancestors(HeadCommit)
        /\ DOMAIN branches' = DOMAIN branches \ {name}
        /\ \A b \in DOMAIN branches' : branches'[b] = branches[b]
    BY <2>1 DEF IInv, Deletable
  <2>3. CommittedWorkKept'
    <3>1. SUFFICES ASSUME ~detached, NEW i \in 1..Len(commits)
                   PROVE  \E b \in DOMAIN branches' : i \in Ancestors(branches[b])
      BY <2>1, <2>2 DEF CommittedWorkKept, Ancestors
    <3>2. PICK b \in DOMAIN branches : i \in Ancestors(branches[b])
      BY <2>2, <3>1 DEF RepoInv, CommittedWorkKept
    <3>3. CASE b # name
      BY <2>2, <3>2, <3>3
    <3>4. CASE b = name
      <4>1. head.branch \in DOMAIN branches' /\ HeadCommit = branches[head.branch]
        BY <2>2, <3>1 DEF RepoInv, HeadCommit
      <4>2. Ancestors(branches[name]) \subseteq Ancestors(HeadCommit)
        BY <2>2, History
      <4>3. QED
        BY <3>2, <3>4, <4>1, <4>2
    <3>5. QED
      BY <3>3, <3>4
  <2>4. RepoInv'
    BY <2>1, <2>2, <2>3 DEF RepoInv, Ancestors
  <2>5. ScopeInv' /\ DOMAIN disk' = Files
    BY <2>1, SameFiles DEF IInv, TypeInv, fsVars
  <2>6. QED
    BY <1>1, <2>1, <2>4, <2>5, CommandKeeps
<1>4. QED
  BY <1>2, <1>3

\* What a commit stages is in the scope of the agent that stages it, under a path
\* that agent named and may write.
LEMMA CommitAddStep ==
    ASSUME IInv, NEW a \in Agents, CommitAdd(a)
    PROVE  IInv'
<1>1. pc[a] = "git.commit" /\ pc[a] \in Registered /\ MayUseTool(a, "git.commit")
  BY DEF CommitAdd, Running, Registered, GitTools, IInv, CallInv
<1>2. CASE Ends(a, "error") \/ Ends(a, "denied")
  BY <1>1, <1>2, EndsKeeps
<1>3. CASE GoTo(a, "pending") /\ UNCHANGED <<job, touched, budget, shown, fsVars, repoVars, procVars>>
  <2>1. DOMAIN job' = Agents /\ \A b \in Agents \ {a} : job'[b] = job[b]
    BY <1>3 DEF IInv, TypeInv
  <2>2. QED
    BY <1>1, <1>3, <2>1, GoesKeeps
<1>4. CASE \E paths \in SUBSET Raws :
             /\ \A raw \in paths : MayResolve(a, raw, "WRITE")
             /\ staged' = {change \in staged : \A n \in Added(a, paths) : n[1] # change[1]}
                            \cup Added(a, paths)
             /\ dirty' = dirty \ {n[1] : n \in Added(a, paths)}
             /\ InRepository(a) /\ UNCHANGED <<disk, commits, branches, head, worktrees, detached>>
             /\ GoTo(a, "pending") \/ Return(a, "error")
  <2>1. PICK paths \in SUBSET Raws :
             /\ \A raw \in paths : MayResolve(a, raw, "WRITE")
             /\ staged' \subseteq staged \cup Added(a, paths)
             /\ dirty' \subseteq dirty
             /\ InRepository(a) /\ UNCHANGED <<disk, commits, branches, head, worktrees, detached>>
             /\ GoTo(a, "pending") \/ Return(a, "error")
    BY <1>4
  <2>2. ASSUME NEW change \in Added(a, paths)
        PROVE  StagedInScope(change)
    <3>1. PICK f \in dirty : /\ change = <<f, a>>
                             /\ \E raw \in paths : IsPrefix(raw.path, f)
      BY DEF Added
    <3>2. PICK raw \in paths : IsPrefix(raw.path, f)
      BY <3>1
    <3>3. raw \in Raws /\ f \in Files /\ MayResolve(a, raw, "WRITE")
      BY <2>1 DEF IInv, ScopeInv
    <3>4. InScope(a, f, "WRITE")
      BY <1>1, <3>2, <3>3, ScopeCoversTree DEF MayResolve
    <3>5. QED
      BY <3>1, <3>2, <3>3, <3>4 DEF StagedInScope
  <2>3. ScopeInv' /\ DOMAIN disk' = Files
    BY <2>1, <2>2 DEF IInv, TypeInv, ScopeInv
  <2>4. RepoInv'
    BY <2>1, SameHistory DEF IInv
  <2>5. QED
    BY <1>1, <2>1, <2>3, <2>4, CommandKeeps
<1>5. QED
  BY <1>2, <1>3, <1>4 DEF CommitAdd, Command

LEMMA CommitPendingStep ==
    ASSUME IInv, NEW a \in Agents, CommitPending(a)
    PROVE  IInv'
<1>1. pc[a] = "pending"
  BY DEF CommitPending, Running
<1>2. CASE Ends(a, "error")
  BY <1>1, <1>2, EndsKeeps
<1>3. CASE GoTo(a, "commit") /\ UNCHANGED <<job, touched, budget, shown, fsVars, repoVars, procVars>>
  <2>1. DOMAIN job' = Agents /\ \A b \in Agents \ {a} : job'[b] = job[b]
    BY <1>3 DEF IInv, TypeInv
  <2>2. QED
    BY <1>1, <1>3, <2>1, GoesKeeps
<1>4. QED
  BY <1>2, <1>3 DEF CommitPending

\* The branch that is checked out moves to a commit that has its old tip among
\* its ancestors.
LEMMA CommitStep ==
    ASSUME IInv, NEW a \in Agents, Commit(a)
    PROVE  IInv'
<1>1. pc[a] = "commit"
  BY DEF Commit, Running
<1>2. CASE Ends(a, "error")
  BY <1>1, <1>2, EndsKeeps
<1>3. CASE ~Ends(a, "error")
  <2>0. PICK new : new = Len(commits) + 1
    OBVIOUS
  <2> DEFINE made == [ancestors |-> Ancestors(HeadCommit) \cup {new},
                      changes |-> staged, on |-> head.branch]
  <2>1. /\ commits' = Append(commits, made) /\ staged' = {}
        /\ IF head.branch = "detached"
           THEN head' = [head EXCEPT !.at = new] /\ UNCHANGED branches
           ELSE branches' = [branches EXCEPT ![head.branch] = new] /\ UNCHANGED head
        /\ InRepository(a) /\ UNCHANGED <<fsVars, worktrees, detached>>
        /\ GoTo(a, "listing") \/ Return(a, "error")
    BY <1>3, <2>0 DEF Commit, Command
  <2>2. /\ RepoInv /\ new = Len(commits) + 1 /\ Len(commits) \in Nat /\ HeadCommit \in 0..Len(commits)
        /\ \A n \in 0..Len(commits) :
              /\ Ancestors(n) \subseteq 0..n
              /\ \A m \in Ancestors(n) : Ancestors(m) \subseteq Ancestors(n)
    BY <2>0, History DEF IInv
  <2> HIDE DEF made
  <2>3. /\ \E S : commits' \in Seq(S)
        /\ Len(commits') = new /\ commits'[new] = made
        /\ \A i \in 1..Len(commits) : commits'[i] = commits[i]
    <3>1. PICK S : commits \in Seq(S)
      BY <2>2 DEF RepoInv
    <3>2. commits \in Seq(S \cup {made})
      BY <3>1
    <3>3. commits' \in Seq(S \cup {made})
      BY <2>1, <3>2
    <3>4. QED
      BY <2>1, <2>2, <3>1, <3>3
  <2>4. /\ made.changes = staged /\ made.ancestors = Ancestors(HeadCommit) \cup {new}
    BY DEF made
  <2>5. \A n \in 0..Len(commits) : Ancestors(n)' = Ancestors(n)
    BY <2>2, <2>3 DEF Ancestors
  <2>6. 1..Len(commits') = 1..Len(commits) \cup {new}
    BY <2>2, <2>3
  <2>7. ScopeInv' /\ DOMAIN disk' = Files
    <3>1. \A i \in 1..Len(commits') : \A change \in commits'[i].changes : StagedInScope(change)
      BY <2>3, <2>4, <2>6 DEF IInv, ScopeInv
    <3>2. QED
      BY <2>1, <3>1 DEF IInv, TypeInv, ScopeInv, fsVars
  <2>8. RepoInv'
    <3>1. \A n \in 1..Len(commits') :
            /\ commits'[n].ancestors \subseteq 0..n
            /\ \A m \in commits'[n].ancestors : Ancestors(m)' \subseteq commits'[n].ancestors
      <4>1. ASSUME NEW n \in 1..Len(commits)
            PROVE  /\ commits'[n].ancestors \subseteq 0..n
                   /\ \A m \in commits'[n].ancestors : Ancestors(m)' \subseteq commits'[n].ancestors
        <5>1. /\ commits'[n].ancestors = commits[n].ancestors
              /\ commits[n].ancestors \subseteq 0..n
              /\ \A m \in commits[n].ancestors : Ancestors(m) \subseteq commits[n].ancestors
          BY <2>2, <2>3 DEF RepoInv
        <5>2. \A m \in commits[n].ancestors : m \in 0..Len(commits)
          BY <2>2, <5>1
        <5>3. QED
          BY <2>5, <5>1, <5>2
      <4>2. /\ made.ancestors \subseteq 0..new
            /\ \A m \in made.ancestors : Ancestors(m)' \subseteq made.ancestors
        <5>1. Ancestors(HeadCommit) \subseteq 0..Len(commits)
          BY <2>2
        <5>2. \A m \in Ancestors(HeadCommit) : Ancestors(m)' \subseteq Ancestors(HeadCommit)
          BY <2>2, <2>5, <5>1
        <5>3. Ancestors(new)' = made.ancestors
          BY <2>2, <2>3 DEF Ancestors
        <5>4. QED
          BY <2>2, <2>4, <5>1, <5>2, <5>3
      <4>3. QED
        BY <2>3, <2>6, <4>1, <4>2
    <3>2. /\ head' \in [branch : DOMAIN branches' \cup {"detached"}, at : 0..Len(commits')]
          /\ "detached" \notin DOMAIN branches'
          /\ \A b \in DOMAIN branches' : branches'[b] \in 0..Len(commits')
          /\ ~detached' => head'.branch # "detached"
      BY <2>1, <2>2, <2>3 DEF RepoInv
    <3>3. CommittedWorkKept'
      <4>1. SUFFICES ASSUME ~detached, NEW i \in 1..Len(commits')
                     PROVE  \E b \in DOMAIN branches' :
                               branches'[b] # 0 /\ i \in commits'[branches'[b]].ancestors
        BY <2>1 DEF CommittedWorkKept, Ancestors
      <4>2. /\ head.branch \in DOMAIN branches /\ HeadCommit = branches[head.branch]
            /\ branches' = [branches EXCEPT ![head.branch] = new]
        BY <2>1, <2>2, <4>1 DEF RepoInv, HeadCommit
      <4>3. branches'[head.branch] = new /\ commits'[new].ancestors = Ancestors(HeadCommit) \cup {new}
        BY <2>3, <2>4, <4>2
      <4>4. CASE i = new
        BY <2>2, <4>2, <4>3, <4>4
      <4>5. CASE i # new
        <5>1. PICK b \in DOMAIN branches : i \in Ancestors(branches[b])
          BY <2>2, <2>6, <4>1, <4>5 DEF RepoInv, CommittedWorkKept
        <5>2. CASE b = head.branch
          BY <2>2, <4>2, <4>3, <5>1, <5>2
        <5>3. CASE b # head.branch
          <6>1. branches'[b] = branches[b] /\ branches[b] \in 0..Len(commits)
            BY <2>2, <4>2, <5>3 DEF RepoInv
          <6>2. branches[b] # 0 /\ i \in commits[branches[b]].ancestors
            BY <2>2, <2>6, <4>1, <4>5, <5>1, <6>1 DEF Ancestors
          <6>3. QED
            BY <2>2, <2>3, <4>2, <6>1, <6>2
        <5>4. QED
          BY <5>2, <5>3
      <4>6. QED
        BY <4>4, <4>5
    <3>4. QED
      BY <2>3, <3>1, <3>2, <3>3 DEF RepoInv
  <2>9. QED
    BY <1>1, <2>1, <2>7, <2>8, CommandKeeps
<1>4. QED
  BY <1>2, <1>3

LEMMA WorktreeAddStep ==
    ASSUME IInv, NEW a \in Agents, WorktreeAdd(a)
    PROVE  IInv'
<1>1. pc[a] = "git.worktree" /\ pc[a] \in Registered
  BY DEF WorktreeAdd, Running, Registered, GitTools
<1>2. CASE Ends(a, "error") \/ Ends(a, "denied")
  BY <1>1, <1>2, EndsKeeps
<1>3. CASE ~(Ends(a, "error") \/ Ends(a, "denied"))
  <2>1. PICK branch \in BranchNames :
          /\ branch \notin DOMAIN branches
          /\ branches' = Bind(branches, branch, HeadCommit)
          /\ InRepository(a) /\ UNCHANGED <<fsVars, staged, commits, head, detached>>
          /\ GoTo(a, "listing") \/ Return(a, "error")
    BY <1>3 DEF WorktreeAdd, Command
  <2>2. /\ DOMAIN branches' = DOMAIN branches \cup {branch} /\ branches'[branch] = HeadCommit
        /\ \A b \in DOMAIN branches : branches'[b] = branches[b]
    BY <2>1 DEF Bind
  <2>3. RepoInv'
    <3>1. /\ DOMAIN branches \subseteq DOMAIN branches' /\ "detached" \notin DOMAIN branches'
          /\ \A b \in DOMAIN branches' : branches'[b] \in 0..Len(commits)
          /\ head' \in [branch : DOMAIN branches' \cup {"detached"}, at : 0..Len(commits)]
          /\ ~detached' => head'.branch # "detached"
      BY <2>1, <2>2, Names, History DEF IInv, RepoInv
    <3>2. QED
      BY <2>1, <2>2, <3>1, BranchesGrow DEF IInv
  <2>4. ScopeInv' /\ DOMAIN disk' = Files
    BY <2>1, SameFiles DEF IInv, TypeInv, fsVars
  <2>5. QED
    BY <1>1, <2>1, <2>3, <2>4, CommandKeeps
<1>4. QED
  BY <1>2, <1>3

LEMMA WorktreeRemoveStep ==
    ASSUME IInv, NEW a \in Agents, WorktreeRemove(a)
    PROVE  IInv'
<1>1. pc[a] = "git.worktree" /\ pc[a] \in Registered
  BY DEF WorktreeRemove, Running, Registered, GitTools
<1>2. CASE Ends(a, "error") \/ Ends(a, "denied")
  BY <1>1, <1>2, EndsKeeps
<1>3. CASE ~(Ends(a, "error") \/ Ends(a, "denied"))
  <2>1. /\ InRepository(a) /\ UNCHANGED <<fsVars, staged, commits, branches, head, detached>>
        /\ GoTo(a, "listing") \/ Return(a, "error")
    BY <1>3 DEF WorktreeRemove, Command
  <2>2. ScopeInv' /\ RepoInv' /\ DOMAIN disk' = Files
    BY <2>1, SameFiles, SameHistory DEF IInv, TypeInv, fsVars
  <2>3. QED
    BY <1>1, <2>1, <2>2, CommandKeeps
<1>4. QED
  BY <1>2, <1>3

-----------------------------------------------------------------------------
(* The invariant *)

LEMMA InitIInv == Init => IInv
<1> SUFFICES ASSUME Init PROVE IInv
  OBVIOUS
<1>1. TypeInv /\ \A a \in Agents : InertInv(a)
  BY DEF Init, TypeInv, InertInv
<1>2. \A a \in Agents : CallInv(a)
  BY DEF Init, CallInv
<1>3. ScopeInv
  BY Names DEF Init, ScopeInv
<1>4. RepoInv
  BY DEF Init, RepoInv, CommittedWorkKept
<1>5. QED
  BY <1>1, <1>2, <1>3, <1>4 DEF IInv

LEMMA NextIInv == IInv /\ [Next]_vars => IInv'
<1> SUFFICES ASSUME IInv, [Next]_vars PROVE IInv'
  OBVIOUS
<1>1. ASSUME NEW a \in Agents, NEW tool \in Requests, Execute(a, tool)
      PROVE  IInv'
  BY <1>1, ExecuteStep
<1>2. ASSUME NEW a \in Agents, CallStep(a)
      PROVE  IInv'
  <2>1. CASE \/ Read(a) \/ Search(a) \/ WriteCheck(a) \/ PatchRead(a) \/ OpenAndWrite(a)
             \/ CannotOpen(a)
    BY <2>1, ReadStep, WriteCheckStep, OpenStep
  <2>2. CASE \/ StartProgram(a) \/ Communicate(a) \/ BudgetExpires(a) \/ ListTree(a)
             \/ TerminateTree(a) \/ KillSurvivors(a) \/ Drain(a)
    BY <2>2, StartProgramStep, TerminationStep, CallEndsStep
  <2>3. CASE \/ GitRead(a) \/ GitShow(a) \/ BranchCreate(a) \/ BranchCheckout(a) \/ BranchDelete(a)
    BY <2>3, ReadStep, BranchCreateStep, BranchCheckoutStep, BranchDeleteStep
  <2>4. CASE \/ CommitAdd(a) \/ CommitPending(a) \/ Commit(a)
             \/ WorktreeAdd(a) \/ WorktreeRemove(a) \/ Listing(a)
    BY <2>4, CommitAddStep, CommitPendingStep, CommitStep, WorktreeAddStep, WorktreeRemoveStep,
       CallEndsStep
  <2>5. QED
    BY <1>2, <2>1, <2>2, <2>3, <2>4 DEF CallStep
<1>3. ASSUME NEW a \in Agents, Spawn(a) \/ ProcessEnds(a) \/ ProgramWrites(a)
      PROVE  IInv'
  BY <1>3, ProcessStep, ProgramWritesStep
<1>4. CASE UNCHANGED vars
  <2>1. /\ TypeInv' /\ \A a \in Agents : InertInv(a)' /\ CallInv(a)'
    BY <1>4 DEF vars, fsVars, IInv, TypeInv, InertInv, CallInv
  <2>2. ScopeInv' /\ RepoInv'
    BY <1>4, SameFiles, SameHistory DEF vars, fsVars, repoVars, IInv
  <2>3. QED
    BY <2>1, <2>2 DEF IInv
<1>5. QED
  BY <1>1, <1>2, <1>3, <1>4 DEF Next

LEMMA Invariant == Spec => []IInv
<1>1. IInv /\ [Next]_vars => IInv'
  BY NextIInv
<1>2. QED
  BY <1>1, InitIInv, PTL DEF Spec

-----------------------------------------------------------------------------
(* The gateway: types *)

LEMMA SortType == \A tool : Sort(tool) \in {"look", "file", "program", "repository"}
BY DEF Sort

Paths == Files \cup {raw.path : raw \in Raws}

\* A call that goes on or ends is left at a step the code has.
LEMMA FlowType ==
    ASSUME TypeOK, NEW a \in Agents,
           \/ \E next \in Later : GoTo(a, next)
           \/ \E how \in {"ok", "denied", "error"} : Return(a, how)
    PROVE  /\ pc' \in [Agents -> Registered \cup Later \cup {"idle"}]
           /\ outcome' \in [Agents -> {"none", "ok", "denied", "error"}]
<1>1. CASE \E next \in Later : GoTo(a, next)
  <2>1. PICK next \in Later : GoTo(a, next)
    BY <1>1
  <2>2. pc' = [pc EXCEPT ![a] = next] /\ outcome' = outcome
    BY <2>1 DEF GoTo
  <2>3. pc \in [Agents -> Registered \cup Later \cup {"idle"}]
    BY DEF TypeOK, Later
  <2>4. QED
    BY <2>2, <2>3 DEF TypeOK
<1>2. CASE \E how \in {"ok", "denied", "error"} : Return(a, how)
  <2>1. PICK how \in {"ok", "denied", "error"} : Return(a, how)
    BY <1>2
  <2>2. pc' = [pc EXCEPT ![a] = "idle"] /\ outcome' = [outcome EXCEPT ![a] = how]
    BY <2>1 DEF Return
  <2>3. pc \in [Agents -> Registered \cup Later \cup {"idle"}]
    BY DEF TypeOK, Later
  <2>4. QED
    BY <2>2, <2>3 DEF TypeOK
<1>3. QED
  BY <1>1, <1>2

\* A step of a call that leaves the repository alone.
LEMMA CallType ==
    ASSUME TypeOK, NEW a \in Agents, UNCHANGED <<budget, repoVars>>,
           \/ \E next \in Later : GoTo(a, next)
           \/ \E how \in {"ok", "denied", "error"} : Return(a, how),
           UNCHANGED touched \/ Touch(a),
           UNCHANGED shown \/ \E content \in SUBSET (Registered \X Paths) : shown' = [shown EXCEPT ![a] = content],
           \/ UNCHANGED fsVars
           \/ \E f \in Files : disk' = [disk EXCEPT ![f] = a] /\ dirty' = dirty \cup {f}
    PROVE  TypeOK'
<1>1. /\ touched' \in [Agents -> BOOLEAN]
      /\ shown' \in [Agents -> SUBSET (Registered \X Paths)]
  <2>1. touched' \in [Agents -> BOOLEAN]
    BY DEF TypeOK, Touch
  <2>2. shown \in [Agents -> SUBSET (Registered \X Paths)]
    BY DEF TypeOK, Paths
  <2>3. shown' \in [Agents -> SUBSET (Registered \X Paths)]
    <3>1. CASE UNCHANGED shown
      BY <2>2, <3>1
    <3>2. CASE \E content \in SUBSET (Registered \X Paths) : shown' = [shown EXCEPT ![a] = content]
      BY <2>2, <3>2
    <3>3. QED
      BY <3>1, <3>2
  <2>4. QED
    BY <2>1, <2>3
<1>2. /\ disk' \in [Files -> {"absent", "git", "program"} \cup Agents]
      /\ dirty' \subseteq Files
  BY DEF TypeOK, fsVars
<1>3. QED
  BY <1>1, <1>2, FlowType DEF TypeOK, Paths, Later, repoVars

LEMMA EndsType ==
    ASSUME TypeOK, NEW a \in Agents, NEW how \in {"ok", "denied", "error"}, Ends(a, how)
    PROVE  TypeOK'
BY CallType DEF Ends

LEMMA ShowsType ==
    ASSUME TypeOK, NEW a \in Agents, pc[a] \in Registered, NEW paths \in SUBSET Paths,
           Shows(a, paths)
    PROVE  TypeOK'
<1>1. {pc[a]} \X paths \in SUBSET (Registered \X Paths)
  OBVIOUS
<1>2. QED
  BY <1>1, CallType DEF Shows

LEMMA ExecuteType ==
    ASSUME TypeOK, NEW a \in Agents, NEW tool, Execute(a, tool)
    PROVE  TypeOK'
<1>1. budget' \in [{"look", "file", "program", "repository"} -> Nat]
  BY SortType DEF TypeOK, Execute
<1>2. QED
  BY <1>1 DEF TypeOK, Execute, Return, InvalidArguments, fsVars, repoVars

LEMMA FilesystemType ==
    ASSUME TypeOK, IInv, NEW a \in Agents,
           \/ Read(a) \/ Search(a) \/ WriteCheck(a) \/ PatchRead(a)
           \/ OpenAndWrite(a) \/ CannotOpen(a) \/ GitRead(a) \/ GitShow(a)
    PROVE  TypeOK'
<1>1. CASE \E how \in {"ok", "denied", "error"} : Ends(a, how)
  BY <1>1, EndsType
<1>2. CASE \E paths \in SUBSET Paths : Shows(a, paths) /\ pc[a] \in Registered
  BY <1>2, ShowsType
<1>3. CASE /\ GoTo(a, "open")
           /\ UNCHANGED <<touched, budget, shown, fsVars, repoVars, procVars>>
  BY <1>3, CallType DEF Later
<1>4. CASE OpenAndWrite(a)
  <2>1. job[a] \in Files
    BY <1>4 DEF IInv, CallInv, OpenAndWrite, Running
  <2>2. QED
    BY <1>4, <2>1, CallType DEF OpenAndWrite
<1>5. CASE Read(a) \/ Search(a)
  <2>1. \/ \E how \in {"ok", "denied", "error"} : Ends(a, how)
        \/ \E paths \in SUBSET Paths : Shows(a, paths) /\ pc[a] \in Registered
    BY <1>5 DEF Read, Search, Paths, Running, Registered, FilesystemTools
  <2>2. QED
    BY <1>1, <1>2, <2>1
<1>6. CASE WriteCheck(a) \/ PatchRead(a)
  BY <1>6, <1>1, <1>3 DEF WriteCheck, PatchRead
<1>7. CASE CannotOpen(a) \/ GitRead(a) \/ GitShow(a)
  <2>1. StagedPaths \cup UNION {Tracked(n) : n \in 0..Len(commits)} \subseteq Paths
    BY GatewayBounds DEF TypeOK, StagedPaths, Tracked, Paths
  <2>2. \/ \E how \in {"ok", "denied", "error"} : Ends(a, how)
        \/ \E paths \in SUBSET Paths : Shows(a, paths) /\ pc[a] \in Registered
    BY <1>7, <2>1 DEF CannotOpen, GitRead, GitShow, Paths, Running, Registered, GitTools
  <2>3. QED
    BY <1>1, <1>2, <2>2
<1>8. QED
  BY <1>4, <1>5, <1>6, <1>7

LEMMA ProcessType ==
    ASSUME TypeOK, NEW a \in Agents,
           \/ StartProgram(a) \/ Communicate(a) \/ BudgetExpires(a) \/ ListTree(a)
           \/ TerminateTree(a) \/ KillSurvivors(a) \/ Drain(a) \/ Listing(a)
    PROVE  TypeOK'
<1>1. CASE \E how \in {"ok", "denied", "error"} : Ends(a, how)
  BY <1>1, EndsType
<1>2. CASE StartProgram(a)
  <2>1. CASE Ends(a, "denied") \/ Ends(a, "error")
    BY <1>1, <2>1
  <2>2. CASE /\ Touch(a) /\ GoTo(a, "communicate")
             /\ UNCHANGED <<job, budget, shown, fsVars, repoVars>>
    BY <2>2, CallType DEF Later
  <2>3. QED
    BY <1>2, <2>1, <2>2 DEF StartProgram
<1>3. CASE Communicate(a) \/ Drain(a) \/ Listing(a)
  BY <1>1, <1>3 DEF Communicate, Drain, Listing
<1>4. CASE BudgetExpires(a) \/ ListTree(a) \/ TerminateTree(a) \/ KillSurvivors(a)
  <2>1. \E from, to \in Later : Stage(a, from, to)
    BY <1>4 DEF BudgetExpires, ListTree, TerminateTree, KillSurvivors, Later
  <2>2. QED
    BY <2>1, CallType DEF Stage
<1>5. QED
  BY <1>2, <1>3, <1>4

\* What the processes do while the call waits changes at most the files.
LEMMA ProgramType ==
    ASSUME TypeOK, NEW a \in Agents, Spawn(a) \/ ProcessEnds(a) \/ ProgramWrites(a)
    PROVE  TypeOK'
<1>1. UNCHANGED <<pc, outcome, touched, budget, shown, repoVars>>
  BY DEF Spawn, ProcessEnds, End, ProgramWrites, Quiet
<1>2. /\ disk' \in [Files -> {"absent", "git", "program"} \cup Agents]
      /\ dirty' \subseteq Files
  BY DEF Spawn, ProcessEnds, End, ProgramWrites, fsVars, TypeOK
<1>3. QED
  BY <1>1, <1>2 DEF TypeOK, repoVars

\* A git command that had its effect.  That each branch and HEAD name a commit
\* is a part of the invariant.
LEMMA CommandType ==
    ASSUME TypeOK, IInv', NEW a \in Agents, NEW next \in {"pending", "listing"},
           GoTo(a, next) \/ Return(a, "error"), InRepository(a),
           disk' \in [Files -> {"absent", "git", "program"} \cup Agents],
           staged' \subseteq Files \X Agents, DOMAIN branches' \subseteq BranchNames \cup {"main"}
    PROVE  TypeOK'
<1>1. touched' \in [Agents -> BOOLEAN] /\ UNCHANGED <<budget, shown>>
  BY DEF TypeOK, InRepository, Touch
<1>2. /\ pc' \in [Agents -> Registered \cup Later \cup {"idle"}]
      /\ outcome' \in [Agents -> {"none", "ok", "denied", "error"}]
  BY FlowType DEF Later
<1>3. /\ dirty' \subseteq Files
      /\ \A b \in DOMAIN branches' : branches'[b] \in 0..Len(commits')
      /\ head'.branch \in DOMAIN branches' \cup {"detached"}
  BY DEF IInv, ScopeInv, RepoInv
<1>4. QED
  BY <1>1, <1>2, <1>3 DEF TypeOK, Later

LEMMA MaterializeType ==
    ASSUME TypeOK, NEW n, Materialize(n)
    PROVE  disk' \in [Files -> {"absent", "git", "program"} \cup Agents]
BY DEF TypeOK, Materialize

LEMMA BranchType ==
    ASSUME TypeOK, IInv', NEW a \in Agents,
           BranchCreate(a) \/ BranchCheckout(a) \/ BranchDelete(a)
    PROVE  TypeOK'
<1>1. CASE Ends(a, "error") \/ Ends(a, "denied")
  BY <1>1, EndsType
<1>2. CASE BranchCreate(a) /\ ~(Ends(a, "error") \/ Ends(a, "denied"))
  <2>1. PICK name \in BranchNames, start \in 0..Len(commits), checkout \in BOOLEAN :
          /\ branches' = Bind(branches, name, start)
          /\ Materialize(start) \/ UNCHANGED disk
          /\ InRepository(a) /\ UNCHANGED staged
          /\ GoTo(a, "listing") \/ Return(a, "error")
    BY <1>2 DEF BranchCreate, Command
  <2>2. DOMAIN branches' \subseteq BranchNames \cup {"main"} /\ staged' \subseteq Files \X Agents
    BY <2>1 DEF Bind, TypeOK
  <2>3. disk' \in [Files -> {"absent", "git", "program"} \cup Agents]
    BY <2>1, MaterializeType DEF TypeOK
  <2>4. QED
    BY <2>1, <2>2, <2>3, CommandType
<1>3. CASE BranchCheckout(a) /\ ~Ends(a, "error")
  <2>1. /\ \/ \E n : Materialize(n)
           \/ \E f : disk' = [disk EXCEPT ![f] = "git"]
        /\ InRepository(a) /\ UNCHANGED <<staged, branches>>
        /\ GoTo(a, "listing") \/ Return(a, "error")
    BY <1>3 DEF BranchCheckout, Command, repoVars
  <2>2. DOMAIN branches' \subseteq BranchNames \cup {"main"} /\ staged' \subseteq Files \X Agents
    BY <2>1 DEF TypeOK
  <2>3. disk' \in [Files -> {"absent", "git", "program"} \cup Agents]
    BY <2>1, MaterializeType DEF TypeOK
  <2>4. QED
    BY <2>1, <2>2, <2>3, CommandType
<1>4. CASE BranchDelete(a) /\ ~(Ends(a, "error") \/ Ends(a, "denied"))
  <2>1. PICK name \in BranchNames :
          /\ branches' = [b \in DOMAIN branches \ {name} |-> branches[b]]
          /\ InRepository(a) /\ UNCHANGED <<fsVars, staged>>
          /\ GoTo(a, "listing") \/ Return(a, "error")
    BY <1>4 DEF BranchDelete, Command
  <2>2. /\ DOMAIN branches' \subseteq BranchNames \cup {"main"} /\ staged' \subseteq Files \X Agents
        /\ disk' \in [Files -> {"absent", "git", "program"} \cup Agents]
    BY <2>1 DEF TypeOK, fsVars
  <2>3. QED
    BY <2>1, <2>2, CommandType
<1>5. QED
  BY <1>1, <1>2, <1>3, <1>4

LEMMA CommitType ==
    ASSUME TypeOK, IInv, IInv', NEW a \in Agents, CommitAdd(a) \/ CommitPending(a) \/ Commit(a)
    PROVE  TypeOK'
<1>1. CASE Ends(a, "error") \/ Ends(a, "denied")
  BY <1>1, EndsType
<1>2. CASE /\ \E next \in Later : GoTo(a, next)
           /\ UNCHANGED <<job, touched, budget, shown, fsVars, repoVars, procVars>>
  BY <1>2, CallType
<1>3. CASE CommitPending(a)
  BY <1>1, <1>2, <1>3 DEF CommitPending, Later
<1>4. CASE CommitAdd(a)
  <2>1. CASE GoTo(a, "pending")
             /\ UNCHANGED <<job, touched, budget, shown, fsVars, repoVars, procVars>>
    BY <2>1, <1>2 DEF Later
  <2>2. CASE ~(Ends(a, "error") \/ Ends(a, "denied"))
             /\ ~(GoTo(a, "pending")
                  /\ UNCHANGED <<job, touched, budget, shown, fsVars, repoVars, procVars>>)
    <3>1. PICK paths \in SUBSET Raws :
            /\ staged' = {change \in staged : \A n \in Added(a, paths) : n[1] # change[1]}
                           \cup Added(a, paths)
            /\ InRepository(a) /\ UNCHANGED <<disk, branches>>
            /\ GoTo(a, "pending") \/ Return(a, "error")
      BY <1>4, <2>2 DEF CommitAdd, Command
    <3>2. Added(a, paths) \subseteq Files \X Agents
      BY DEF TypeOK, Added
    <3>3. /\ staged' \subseteq Files \X Agents
          /\ disk' \in [Files -> {"absent", "git", "program"} \cup Agents]
          /\ DOMAIN branches' \subseteq BranchNames \cup {"main"}
      BY <3>1, <3>2 DEF TypeOK
    <3>4. QED
      BY <3>1, <3>3, CommandType
  <2>3. QED
    BY <1>1, <2>1, <2>2
<1>5. CASE Commit(a) /\ ~Ends(a, "error")
  <2>1. /\ staged' = {} /\ InRepository(a) /\ UNCHANGED fsVars
        /\ \/ UNCHANGED branches
           \/ \E n : branches' = [branches EXCEPT ![head.branch] = n]
        /\ GoTo(a, "listing") \/ Return(a, "error")
    BY <1>5 DEF Commit, Command
  <2>2. /\ staged' \subseteq Files \X Agents
        /\ disk' \in [Files -> {"absent", "git", "program"} \cup Agents]
        /\ DOMAIN branches' \subseteq BranchNames \cup {"main"}
    BY <2>1 DEF TypeOK, fsVars
  <2>3. QED
    BY <2>1, <2>2, CommandType
<1>6. QED
  BY <1>1, <1>3, <1>4, <1>5

LEMMA WorktreeType ==
    ASSUME TypeOK, IInv', NEW a \in Agents, WorktreeAdd(a) \/ WorktreeRemove(a)
    PROVE  TypeOK'
<1>1. CASE Ends(a, "error") \/ Ends(a, "denied")
  BY <1>1, EndsType
<1>2. CASE WorktreeAdd(a) /\ ~(Ends(a, "error") \/ Ends(a, "denied"))
  <2>1. PICK branch \in BranchNames :
          /\ branches' = Bind(branches, branch, HeadCommit)
          /\ InRepository(a) /\ UNCHANGED <<fsVars, staged>>
          /\ GoTo(a, "listing") \/ Return(a, "error")
    BY <1>2 DEF WorktreeAdd, Command
  <2>2. /\ staged' \subseteq Files \X Agents
        /\ disk' \in [Files -> {"absent", "git", "program"} \cup Agents]
        /\ DOMAIN branches' \subseteq BranchNames \cup {"main"}
    BY <2>1 DEF Bind, TypeOK, fsVars
  <2>3. QED
    BY <2>1, <2>2, CommandType
<1>3. CASE WorktreeRemove(a) /\ ~(Ends(a, "error") \/ Ends(a, "denied"))
  <2>1. /\ InRepository(a) /\ UNCHANGED <<fsVars, staged, branches>>
        /\ GoTo(a, "listing") \/ Return(a, "error")
    BY <1>3 DEF WorktreeRemove, Command
  <2>2. /\ staged' \subseteq Files \X Agents
        /\ disk' \in [Files -> {"absent", "git", "program"} \cup Agents]
        /\ DOMAIN branches' \subseteq BranchNames \cup {"main"}
    BY <2>1 DEF TypeOK, fsVars
  <2>3. QED
    BY <2>1, <2>2, CommandType
<1>4. QED
  BY <1>1, <1>2, <1>3

LEMMA NextType == TypeOK /\ IInv /\ IInv' /\ [Next]_vars => TypeOK'
<1> SUFFICES ASSUME TypeOK, IInv, IInv', [Next]_vars PROVE TypeOK'
  OBVIOUS
<1>1. ASSUME NEW a \in Agents, NEW tool \in Requests, Execute(a, tool)
      PROVE  TypeOK'
  BY <1>1, ExecuteType
<1>2. ASSUME NEW a \in Agents, CallStep(a)
      PROVE  TypeOK'
  BY <1>2, FilesystemType, ProcessType, BranchType, CommitType, WorktreeType DEF CallStep
<1>3. ASSUME NEW a \in Agents, Spawn(a) \/ ProcessEnds(a) \/ ProgramWrites(a)
      PROVE  TypeOK'
  BY <1>3, ProgramType
<1>4. CASE UNCHANGED vars
  BY <1>4 DEF vars, fsVars, repoVars, TypeOK
<1>5. QED
  BY <1>1, <1>2, <1>3, <1>4 DEF Next

-----------------------------------------------------------------------------
(* The gateway: the theorems *)

\* ToolGateway.execute and the tools behind it: each call is idle or at a step
\* of a registered tool, the index and the disk name only the agents, and every
\* branch and HEAD point at a commit that exists.
THEOREM GatewayTypesAreKept == Spec => []TypeOK
<1>1. Init => TypeOK
  BY GatewayBounds DEF Init, TypeOK
<1>2. TypeOK /\ IInv /\ IInv' /\ [Next]_vars => TypeOK'
  BY NextType
<1>3. QED
  BY <1>1, <1>2, Invariant, PTL DEF Spec

\* ToolGateway.execute, relative_paths and _assert_prefix: whatever the other
\* agents do in between, a call that ends "denied" was refused before its first
\* effect.
THEOREM DenialIsInert == Spec => []DeniedIsInert
<1>1. IInv => DeniedIsInert
  BY DEF IInv, InertInv, DeniedIsInert
<1>2. QED
  BY <1>1, Invariant, PTL

\* Workspace._resolve, is_visible and git.commit over one tree and one index:
\* what an agent wrote was in a scope of its own and not protected, what it
\* staged was in its scope and under a path it may write, and so was what any
\* commit took; what a tool returned was in its read scope and not protected,
\* except what git.diff returned.  For any scopes, provided no wildcard of a
\* scope that commits names a directory.
THEOREM ScopesAreRespected == Spec => []ScopeRespected
<1>1. IInv => ScopeRespected
  <2>1. SUFFICES ASSUME IInv PROVE ScopeRespected
    OBVIOUS
  <2>2. \A change \in staged \cup UNION {commits[i].changes : i \in 1..Len(commits)} :
           StagedInScope(change)
    BY <2>1 DEF IInv, ScopeInv
  <2>3. QED
    BY <2>1, <2>2 DEF IInv, ScopeInv, CallInv, StagedInScope, Writable, ScopeRespected
<1>2. QED
  BY <1>1, Invariant, PTL

\* git.branch deletes with -d: as long as HEAD has stayed on the branches, every
\* commit is on one of them, whatever is checked out, created, deleted and
\* pruned, and by whom.
THEOREM WorkIsKept == Spec => []CommittedWorkKept
<1>1. IInv => CommittedWorkKept
  BY DEF IInv, RepoInv
<1>2. QED
  BY <1>1, Invariant, PTL
=============================================================================
